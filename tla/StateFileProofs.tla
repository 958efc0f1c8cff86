--------------------------- MODULE StateFileProofs ---------------------------
(***************************************************************************)
(* What the lock protocol of StateFile guarantees for any number of        *)
(* sessions, nodes, maintenance runs, attempts and updates.                *)
(***************************************************************************)
EXTENDS StateFile, TLAPS

(* The strengthening: while none of the three faults has happened, being    *)
(* inside a transaction and owning the lock file are the same thing, nobody *)
(* is outside the lock with a room to write, and what a process is about to *)
(* write is the room as it is now plus its own record.                      *)
InsideOwnsLock ==
  \A p \in Procs : pc[p] \in Critical <=> lockOwner = p

NobodyOutside ==
  /\ ~lockStale
  /\ \A p \in Procs : pc[p] \notin {"unlink", "blindLoad", "blindSave", "rewrite"}

AboutToWrite ==
  \A w \in Writers : pc[w] \in {"merge", "save"} => snap[w] = With(file, w, offer[w])

Covered ==
  faults = {} => /\ InsideOwnsLock
                 /\ NobodyOutside
                 /\ AboutToWrite
                 /\ file = committed

(* A record with its writer's version raised is a room.                     *)
LEMMA WithType ==
  ASSUME NEW room \in Rooms, NEW w \in Writers, NEW v \in 0..MaxUpdates
  PROVE  With(room, w, v) \in Rooms
  BY DEF With, Rooms

(* So is what mergeById makes of two rooms.                                 *)
LEMMA MergeType ==
  ASSUME NEW a \in Rooms, NEW b \in Rooms
  PROVE  Merge(a, b) \in Rooms
  BY DEF Merge, Rooms

(* Merging a room into itself with one record raised changes nothing: the   *)
(* re-read of saveMergedState is a no-op while nobody else writes.          *)
LEMMA MergeAbsorbs ==
  ASSUME NEW room \in Rooms, NEW w \in Writers, NEW v \in 0..MaxUpdates
  PROVE  Merge(room, With(room, w, v)) = With(room, w, v)
  BY DEF Merge, With, Rooms

(* Every variable of the lock protocol keeps its type, and every process    *)
(* stays on the path of its own program, for all values of the constants.   *)
THEOREM TypeCorrect == Spec => []TypeOK
<1>1. Init => TypeOK
  <2> SUFFICES ASSUME Init PROVE TypeOK
    OBVIOUS
  <2>1. [w \in Writers |-> 0] \in Rooms
    BY StateFileAssumption DEF Rooms
  <2>2. pc \in [Procs -> Labels] /\ \A p \in Procs : pc[p] = "idle"
    BY DEF Init, Labels
  <2>3. attempt \in [Writers -> Nat] /\ \A w \in Writers : attempt[w] = 0
    BY DEF Init
  <2>4. snap \in [Procs -> Rooms]
    BY <2>1 DEF Init
  <2>5. /\ \A s \in Sessions : attempt[s] < SessionAttempts
        /\ \A n \in Nodes : attempt[n] < NodeAttempts
    BY <2>3, StateFileAssumption DEF Writers
  <2>6. /\ \A s \in Sessions : pc[s] = "idle"
        /\ \A n \in Nodes : pc[n] = "idle"
        /\ \A t \in Tools : pc[t] = "idle"
    BY <2>2 DEF Procs, Writers
  <2>7. file \in Rooms /\ offer \in Rooms /\ committed \in Rooms
    BY <2>1 DEF Init
  <2>8. QED
    BY <2>2, <2>3, <2>4, <2>5, <2>6, <2>7 DEF Init, TypeOK
<1>2. TypeOK /\ [Next]_vars => TypeOK'
  <2> SUFFICES ASSUME TypeOK, [Next]_vars PROVE TypeOK'
    OBVIOUS
  <2> USE StateFileAssumption DEF TypeOK, Goto, Procs, Writers, Labels
  <2>1. ASSUME NEW w \in Writers, Begin(w) PROVE TypeOK'
    <3>1. PICK v \in 1..MaxUpdates : offer' = [offer EXCEPT ![w] = v]
      BY <2>1 DEF Begin
    <3>2. offer' \in Rooms
      BY <3>1 DEF Rooms
    <3>3. attempt' \in [Writers -> Nat] /\ \A x \in Writers : attempt'[x] \in {0, attempt[x]}
      BY <2>1 DEF Begin
    <3>4. QED
      BY <2>1, <3>2, <3>3 DEF Begin, lockVars
  <2>2. ASSUME NEW w \in Writers, Acquire(w) PROVE TypeOK'
    BY <2>2 DEF Acquire
  <2>3. ASSUME NEW s \in Sessions, SessionBlocked(s) PROVE TypeOK'
    BY <2>3 DEF SessionBlocked, lockVars
  <2>4. ASSUME NEW s \in Sessions, StatFresh(s) PROVE TypeOK'
    BY <2>4 DEF StatFresh, NextAttempt, lockVars
  <2>5. ASSUME NEW s \in Sessions, StatStale(s) PROVE TypeOK'
    BY <2>5 DEF StatStale, lockVars
  <2>6. ASSUME NEW s \in Sessions, Reclaim(s) PROVE TypeOK'
    <3>1. pc' \in [Procs -> Labels] /\ \A p \in Procs : pc'[p] \in {pc[p], "create", "idle"}
      BY <2>6 DEF Reclaim, NextAttempt
    <3>2. attempt' \in [Writers -> Nat]
      BY <2>6 DEF Reclaim, NextAttempt
    <3>3. \A x \in Sessions : attempt'[x] < SessionAttempts
      BY <2>6 DEF Reclaim, NextAttempt
    <3>4. \A n \in Nodes : attempt'[n] = attempt[n]
      BY <2>6 DEF Reclaim, NextAttempt
    <3>5. /\ \A x \in Sessions : pc'[x] \notin {"blindLoad", "blindSave", "rewrite", "done"}
          /\ \A x \in Nodes : pc'[x] \notin {"stat", "unlink", "merge", "rewrite", "done"}
      BY <3>1
    <3>6. \A x \in Tools : pc'[x] \in {"idle", "rewrite", "done", "killed"}
      BY <2>6 DEF Reclaim, NextAttempt
    <3>7. \A n \in Nodes : attempt'[n] < NodeAttempts
      BY <3>4
    <3>8. QED
      BY <2>6, <3>1, <3>2, <3>3, <3>5, <3>6, <3>7 DEF Reclaim
  <2>7. ASSUME NEW n \in Nodes, NodeBlocked(n) PROVE TypeOK'
    BY <2>7 DEF NodeBlocked, NextAttempt, lockVars
  <2>8. ASSUME NEW w \in Writers, Release(w) PROVE TypeOK'
    BY <2>8 DEF Release
  <2>9. ASSUME NEW s \in Sessions, SessionLoad(s) PROVE TypeOK'
    <3>1. With(file, s, offer[s]) \in Rooms
      BY WithType DEF Rooms
    <3>2. QED
      BY <2>9, <3>1 DEF SessionLoad, lockVars
  <2>10. ASSUME NEW s \in Sessions, SessionMerge(s) PROVE TypeOK'
    <3>1. Merge(file, snap[s]) \in Rooms
      BY MergeType
    <3>2. QED
      BY <2>10, <3>1 DEF SessionMerge, lockVars
  <2>11. ASSUME NEW n \in Nodes, NodeLoad(n) PROVE TypeOK'
    <3>1. With(file, n, offer[n]) \in Rooms /\ With(committed, n, offer[n]) \in Rooms
      BY WithType DEF Rooms
    <3>2. QED
      BY <2>11, <3>1 DEF NodeLoad, lockVars
  <2>12. ASSUME NEW w \in Writers, Save(w) PROVE TypeOK'
    <3>1. With(committed, w, offer[w]) \in Rooms
      BY WithType DEF Rooms
    <3>2. QED
      BY <2>12, <3>1 DEF Save, lockVars
  <2>13. ASSUME NEW w \in Writers, SaveFails(w) PROVE TypeOK'
    BY <2>13 DEF SaveFails, lockVars
  <2>14. ASSUME NEW t \in Tools, ApplyRead(t) PROVE TypeOK'
    BY <2>14 DEF ApplyRead, lockVars
  <2>15. ASSUME NEW t \in Tools, ApplyRewrite(t) PROVE TypeOK'
    BY <2>15 DEF ApplyRewrite, lockVars
  <2>16. ASSUME NEW p \in Procs, Kill(p) PROVE TypeOK'
    BY <2>16 DEF Kill
  <2>17. CASE LockAges
    BY <2>17 DEF LockAges
  <2>18. CASE UNCHANGED vars
    BY <2>18 DEF vars
  <2>19. QED
    BY <2>1, <2>2, <2>3, <2>4, <2>5, <2>6, <2>7, <2>8, <2>9, <2>10, <2>11, <2>12,
       <2>13, <2>14, <2>15, <2>16, <2>17, <2>18
    DEF Next, SessionStep, NodeStep, ToolStep
<1>3. QED
  BY <1>1, <1>2, PTL DEF Spec

-----------------------------------------------------------------------------

(* Covered is inductive. A step that makes the faults empty would have to   *)
(* forget one, so only steps from a covered state to a covered one matter.  *)
LEMMA CoveredInit == Init => Covered
  BY StateFileAssumption
  DEF Init, Covered, InsideOwnsLock, NobodyOutside, AboutToWrite, Critical, Writers, Procs

LEMMA FaultsOnlyGrow ==
  ASSUME [Next]_vars
  PROVE  faults \subseteq faults'
  BY DEF Next, vars, SessionStep, NodeStep, ToolStep, Begin, Acquire, SessionBlocked,
         StatFresh, StatStale, Reclaim, NodeBlocked, Release, SessionLoad, SessionMerge,
         NodeLoad, Save, SaveFails, ApplyRead, ApplyRewrite, Kill, LockAges

LEMMA CoveredStep ==
  ASSUME TypeOK, Covered, [Next]_vars, faults' = {}
  PROVE  /\ Covered'
         /\ Atomic!RoomNext \/ UNCHANGED <<file, committed>>
<1> DEFINE Same == UNCHANGED <<file, committed>>
<1> DEFINE Goal == Covered' /\ (Atomic!RoomNext \/ Same)
<1>0. faults = {}
  BY FaultsOnlyGrow
<1>1. InsideOwnsLock /\ NobodyOutside /\ AboutToWrite /\ file = committed
  BY <1>0 DEF Covered
<1> USE <1>1 DEF Covered, InsideOwnsLock, NobodyOutside, AboutToWrite, TypeOK, Goto, Critical,
                 Procs, Writers
<1>2. ASSUME NEW w \in Writers, Begin(w) PROVE Goal
  BY <1>2 DEF Begin, lockVars
<1>3. ASSUME NEW w \in Writers, Acquire(w) PROVE Goal
  BY <1>3, StateFileAssumption DEF Acquire
<1>4. ASSUME NEW s \in Sessions, SessionBlocked(s) PROVE Goal
  BY <1>4 DEF SessionBlocked, lockVars
<1>5. ASSUME NEW s \in Sessions, StatFresh(s) PROVE Goal
  BY <1>5 DEF StatFresh, NextAttempt, lockVars
<1>6. ASSUME NEW s \in Sessions, StatStale(s) PROVE Goal
  BY <1>6 DEF StatStale
<1>7. ASSUME NEW s \in Sessions, Reclaim(s) PROVE Goal
  BY <1>7 DEF Reclaim
<1>8. ASSUME NEW n \in Nodes, NodeBlocked(n) PROVE Goal
  BY <1>8 DEF NodeBlocked, NextAttempt, lockVars
<1>9. ASSUME NEW w \in Writers, Release(w) PROVE Goal
  BY <1>9, StateFileAssumption DEF Release
<1>10. ASSUME NEW s \in Sessions, SessionLoad(s) PROVE Goal
  BY <1>10 DEF SessionLoad, lockVars
<1>11. ASSUME NEW s \in Sessions, SessionMerge(s) PROVE Goal
  <2>0. file \in Rooms /\ offer[s] \in 0..MaxUpdates /\ snap[s] = With(file, s, offer[s])
    BY <1>11 DEF SessionMerge, Rooms
  <2>1. Merge(file, snap[s]) = With(file, s, offer[s])
    BY <2>0, MergeAbsorbs
  <2>2. QED
    BY <1>11, <2>1 DEF SessionMerge, lockVars
<1>12. ASSUME NEW n \in Nodes, NodeLoad(n) PROVE Goal
  BY <1>12 DEF NodeLoad, lockVars
<1>13. ASSUME NEW w \in Writers, Save(w) PROVE Goal
  <2>1. lockOwner = w /\ pc[w] = "save"
    BY <1>13 DEF Save
  <2>2. file' = With(file, w, offer[w]) /\ committed' = file'
    BY <1>13, <2>1 DEF Save
  <2>3. Atomic!RoomNext \/ Same
    <3>1. CASE offer[w] > file[w]
      <4>1. offer[w] \in file[w] + 1 .. MaxUpdates
        BY <3>1 DEF Rooms
      <4>2. Atomic!Put(w)
        BY <2>2, <3>1, <4>1 DEF Atomic!Put, With
      <4>3. QED
        BY <4>2 DEF Atomic!RoomNext
    <3>2. CASE ~(offer[w] > file[w])
      BY <2>2, <3>2 DEF With, Rooms
    <3>3. QED
      BY <3>1, <3>2
  <2>4. Covered'
    BY <1>13, <2>1, <2>2 DEF Save, lockVars
  <2>5. QED
    BY <2>3, <2>4
<1>14. ASSUME NEW w \in Writers, SaveFails(w) PROVE Goal
  BY <1>14 DEF SaveFails, lockVars
<1>15. ASSUME NEW t \in Tools, ApplyRead(t) PROVE Goal
  BY <1>15 DEF ApplyRead
<1>16. ASSUME NEW t \in Tools, ApplyRewrite(t) PROVE Goal
  BY <1>16 DEF ApplyRewrite
<1>17. ASSUME NEW p \in Procs, Kill(p) PROVE Goal
  BY <1>17, StateFileAssumption DEF Kill
<1>18. CASE LockAges
  BY <1>18 DEF LockAges
<1>19. CASE UNCHANGED vars
  BY <1>19 DEF vars
<1>20. QED
  BY <1>2, <1>3, <1>4, <1>5, <1>6, <1>7, <1>8, <1>9, <1>10, <1>11, <1>12, <1>13, <1>14,
     <1>15, <1>16, <1>17, <1>18, <1>19
  DEF Next, SessionStep, NodeStep, ToolStep

LEMMA CoveredAlways == Spec => []Covered
<1>1. TypeOK /\ Covered /\ [Next]_vars => Covered'
  <2>1. CASE faults' = {}
    BY <2>1, CoveredStep
  <2>2. CASE faults' # {}
    BY <2>2 DEF Covered
  <2>3. QED
    BY <2>1, <2>2
<1>2. QED
  BY <1>1, CoveredInit, TypeCorrect, PTL DEF Spec

(* Sessions, nodes and killed processes in any number exclude each other as *)
(* long as no lock outlives LOCK_STALE_MS, no node writes unlocked and the  *)
(* CLI does not rewrite the room (withState, withStateLock).                *)
THEOREM ExclusionHolds == Spec => []Exclusion
<1>1. TypeOK /\ Covered => Exclusion
  BY DEF TypeOK, Covered, InsideOwnsLock, Exclusion
<1>2. QED
  BY <1>1, CoveredAlways, TypeCorrect, PTL

(* And none of them undoes what another has saved (saveMergedState,         *)
(* syncPeer and the POST handler).                                          *)
THEOREM CommittedKeptHolds == Spec => []CommittedKept
<1>1. TypeOK /\ Covered => CommittedKept
  BY DEF TypeOK, Covered, CommittedKept, Rooms
<1>2. QED
  BY <1>1, CoveredAlways, TypeCorrect, PTL

(* Until the first fault the file protocol implements the atomic room, step *)
(* by step.                                                                 *)
THEOREM AtomicWhileCoveredHolds == Spec => AtomicWhileCovered
<1>1. TypeOK /\ Covered /\ [Next]_vars
        => [faults' = {} => Atomic!RoomNext \/ UNCHANGED <<file, committed>>]_vars
  BY CoveredStep
<1>2. QED
  BY <1>1, CoveredAlways, TypeCorrect, PTL DEF Spec, AtomicWhileCovered

-----------------------------------------------------------------------------

(* No live process leaves its lock file behind, with or without faults: a   *)
(* lock file that stays is the lock of a killed process.                    *)
THEOREM LockHasOwnerHolds == Spec => []LockHasOwner
<1>1. Init => LockHasOwner
  BY DEF Init, LockHasOwner
<1>2. TypeOK /\ LockHasOwner /\ [Next]_vars => LockHasOwner'
  <2> SUFFICES ASSUME TypeOK, LockHasOwner, [Next]_vars PROVE LockHasOwner'
    OBVIOUS
  <2> USE StateFileAssumption DEF TypeOK, LockHasOwner, Critical, Goto, Procs, Writers
  <2>1. ASSUME NEW w \in Writers, Acquire(w) PROVE LockHasOwner'
    BY <2>1 DEF Acquire
  <2>2. ASSUME NEW w \in Writers, Release(w) \/ Reclaim(w) PROVE LockHasOwner'
    BY <2>2 DEF Release, Reclaim
  <2>3. ASSUME NEW w \in Writers, Begin(w) PROVE LockHasOwner'
    BY <2>3 DEF Begin, lockVars
  <2>4. ASSUME NEW s \in Sessions, SessionBlocked(s) \/ StatFresh(s) \/ StatStale(s)
        PROVE  LockHasOwner'
    BY <2>4 DEF SessionBlocked, StatFresh, StatStale, NextAttempt, lockVars
  <2>5. ASSUME NEW s \in Sessions, SessionLoad(s) \/ SessionMerge(s) PROVE LockHasOwner'
    BY <2>5 DEF SessionLoad, SessionMerge, lockVars
  <2>6. ASSUME NEW n \in Nodes, NodeBlocked(n) PROVE LockHasOwner'
    BY <2>6 DEF NodeBlocked, NextAttempt, lockVars
  <2>7. ASSUME NEW n \in Nodes, NodeLoad(n) PROVE LockHasOwner'
    BY <2>7 DEF NodeLoad, lockVars
  <2>8. ASSUME NEW w \in Writers, Save(w) \/ SaveFails(w) PROVE LockHasOwner'
    BY <2>8 DEF Save, SaveFails, lockVars
  <2>9. ASSUME NEW t \in Tools, ToolStep(t) PROVE LockHasOwner'
    BY <2>9 DEF ToolStep, ApplyRead, ApplyRewrite, lockVars
  <2>10. ASSUME NEW p \in Procs, Kill(p) PROVE LockHasOwner'
    BY <2>10 DEF Kill
  <2>11. CASE LockAges
    BY <2>11 DEF LockAges
  <2>12. CASE UNCHANGED vars
    BY <2>12 DEF vars
  <2>13. QED
    BY <2>1, <2>2, <2>3, <2>4, <2>5, <2>6, <2>7, <2>8, <2>9, <2>10, <2>11, <2>12
    DEF Next, SessionStep, NodeStep
<1>3. QED
  BY <1>1, <1>2, TypeCorrect, PTL DEF Spec
-----------------------------------------------------------------------------

(***************************************************************************)
(* The refinement: sessions alone, of which those that are killed leave at *)
(* most one other behind.  A stale lock is then reclaimed by one process,  *)
(* so that the unlink it does after its stat removes the lock it has seen. *)
(***************************************************************************)

OneReclaims ==
  /\ Nodes = {} /\ Tools = {} /\ Sluggish = {}
  /\ \A m \in Mortal : \A s, t \in Sessions \ {m} : s = t

StaleIsKilled ==
  /\ lockStale => lockOwner = Killed
  /\ \A s \in Sessions : pc[s] = "unlink" => lockOwner = Killed
  /\ lockOwner = Killed => \E m \in Mortal : pc[m] = "killed"

RefineInv == InsideOwnsLock /\ StaleIsKilled /\ AboutToWrite /\ file = committed

(* To its users a save puts the writer's record into the room, or nothing.  *)
LEMMA SaveIsPut ==
  ASSUME TypeOK, NEW w \in Writers, file = committed, snap[w] = With(file, w, offer[w]), Save(w)
  PROVE  /\ file' = committed'
         /\ Atomic!RoomNext \/ UNCHANGED <<file, committed>>
<1>1. file' = With(file, w, offer[w]) /\ committed' = file'
  BY DEF Save
<1>2. CASE offer[w] > file[w]
  <2>1. offer[w] \in file[w] + 1 .. MaxUpdates
    BY <1>2 DEF TypeOK, Rooms
  <2>2. Atomic!Put(w)
    BY <1>1, <1>2, <2>1 DEF Atomic!Put, With
  <2> QED
    BY <1>1, <2>2 DEF Atomic!RoomNext
<1>3. CASE ~(offer[w] > file[w])
  BY <1>1, <1>3 DEF With, TypeOK, Rooms
<1> QED
  BY <1>2, <1>3

LEMMA RefineInit == Init => RefineInv
  BY StateFileAssumption
  DEF Init, RefineInv, InsideOwnsLock, StaleIsKilled, AboutToWrite, Critical, Writers, Procs

LEMMA RefineStep ==
  ASSUME OneReclaims, TypeOK, RefineInv, [Next]_vars
  PROVE  /\ RefineInv'
         /\ Atomic!RoomNext \/ UNCHANGED <<file, committed>>
<1> DEFINE Same == UNCHANGED <<file, committed>>
<1> DEFINE Goal == RefineInv' /\ (Atomic!RoomNext \/ Same)
<1>p. Procs = Sessions /\ Writers = Sessions /\ Mortal \subseteq Sessions
  BY StateFileAssumption DEF OneReclaims, Procs, Writers
<1>t. pc \in [Sessions -> Labels]
  BY <1>p DEF TypeOK
<1>o. lockOwner \in Sessions \cup {NoLock, Killed}
  BY <1>p DEF TypeOK
<1>c. NoLock \notin Sessions /\ Killed \notin Sessions /\ NoLock # Killed
  BY <1>p, StateFileAssumption
<1> USE <1>p, <1>t, <1>o, <1>c
    DEF RefineInv, InsideOwnsLock, StaleIsKilled, AboutToWrite, Goto, Critical
<1>1. ASSUME NEW w \in Sessions, Begin(w) PROVE Goal
  BY <1>1 DEF Begin, lockVars, TypeOK
<1>2. ASSUME NEW w \in Sessions, Acquire(w) PROVE Goal
  BY <1>2 DEF Acquire
<1>3. ASSUME NEW s \in Sessions, SessionBlocked(s) PROVE Goal
  BY <1>3 DEF SessionBlocked, lockVars
<1>4. ASSUME NEW s \in Sessions, StatFresh(s) PROVE Goal
  BY <1>4 DEF StatFresh, NextAttempt, lockVars
<1>5. ASSUME NEW s \in Sessions, StatStale(s) PROVE Goal
  BY <1>5 DEF StatStale, lockVars
<1>6. ASSUME NEW s \in Sessions, Reclaim(s) PROVE Goal
  <2>1. lockOwner = Killed /\ pc[s] = "unlink"
    BY <1>6 DEF Reclaim
  <2>2. PICK m \in Mortal : pc[m] = "killed"
    BY <2>1
  <2>3. \A q \in Sessions : pc[q] = "unlink" => q = s
    BY <2>1, <2>2 DEF OneReclaims
  <2>4. \A q \in Sessions : pc[q] \notin {"load", "merge", "save", "release"}
    BY <2>1
  <2>5. /\ lockOwner' = NoLock /\ lockStale' = FALSE /\ UNCHANGED <<file, committed, snap, offer>>
        /\ \E l \in {"create", "idle"} : pc' = [pc EXCEPT ![s] = l]
    BY <1>6 DEF Reclaim, NextAttempt
  <2> QED
    BY <2>3, <2>4, <2>5
<1>7. ASSUME NEW w \in Sessions, Release(w) PROVE Goal
  <2>1. lockOwner = w
    BY <1>7 DEF Release
  <2> QED
    BY <1>7, <2>1 DEF Release
<1>8. ASSUME NEW s \in Sessions, SessionLoad(s) PROVE Goal
  BY <1>8 DEF SessionLoad, lockVars, TypeOK
<1>9. ASSUME NEW s \in Sessions, SessionMerge(s) PROVE Goal
  <2>1. Merge(file, snap[s]) = With(file, s, offer[s])
    BY <1>9, MergeAbsorbs DEF SessionMerge, TypeOK, Rooms
  <2> QED
    BY <1>9, <2>1 DEF SessionMerge, lockVars, TypeOK
<1>10. ASSUME NEW w \in Sessions, Save(w) PROVE Goal
  <2>1. pc[w] = "save" /\ lockOwner = w
    BY <1>10 DEF Save, TypeOK
  <2>2. file' = committed' /\ (Atomic!RoomNext \/ Same)
    BY <1>10, <2>1, SaveIsPut
  <2>3. InsideOwnsLock' /\ StaleIsKilled'
    BY <1>10, <2>1 DEF Save, lockVars
  <2>4. \A q \in Sessions : pc'[q] \notin {"merge", "save"}
    BY <1>10, <2>1 DEF Save
  <2> QED
    BY <2>2, <2>3, <2>4
<1>11. ASSUME NEW w \in Sessions, SaveFails(w) PROVE Goal
  BY <1>11 DEF SaveFails, lockVars, TypeOK
<1>12. ASSUME NEW p \in Sessions, Kill(p) PROVE Goal
  BY <1>12 DEF Kill
<1>13. CASE LockAges
  BY <1>13 DEF LockAges, OneReclaims
<1>14. CASE UNCHANGED vars
  BY <1>14 DEF vars
<1> QED
  BY <1>1, <1>2, <1>3, <1>4, <1>5, <1>6, <1>7, <1>8, <1>9, <1>10, <1>11, <1>12, <1>13, <1>14
  DEF Next, SessionStep, OneReclaims

(* Where one session is left to reclaim the lock of a killed one, and where *)
(* none is killed for any number of sessions, locking, re-reading, merging  *)
(* and renaming (withStateLock, saveMergedState) implement a room in which  *)
(* a record is replaced by a newer one in one step.                         *)
THEOREM ImplementsAtomicRoomHolds ==
  ASSUME OneReclaims
  PROVE  Spec => ImplementsAtomicRoom
<1>1. Init => Atomic!RoomInit
  BY DEF Init, Atomic!RoomInit
<1>2. TypeOK /\ RefineInv /\ [Next]_vars => [Atomic!RoomNext]_(Atomic!roomVars)
  BY RefineStep DEF Atomic!roomVars
<1>3. TypeOK /\ RefineInv /\ [Next]_vars => RefineInv'
  BY RefineStep
<1> QED
  BY <1>1, <1>2, <1>3, RefineInit, TypeCorrect, PTL DEF Spec, ImplementsAtomicRoom, Atomic!RoomSpec
=============================================================================
