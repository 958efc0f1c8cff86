--------------------------- MODULE NetworkSyncProofs ---------------------------
(***************************************************************************)
(* Proofs about NetworkSync, for any machines, any peers, any limits and    *)
(* any number of posts under way: a merge takes back no stamp and no        *)
(* session record, and no machine knows more of a session than its own.     *)
(***************************************************************************)
EXTENDS NetworkSync, FiniteSetTheorems, TLAPS

(* A room the rules would take nothing from but what grows old.             *)
WithinLimits(r) ==
  \A m \in Present(r) :
    /\ Cardinality({x \in Present(r) : x > m}) < MaxMessages
    /\ Fits[{x \in Present(r) : x >= m}]

(* At that time, beside those rooms, room r has no message of the future,   *)
(* and is not ahead of any machine in that machine's session.               *)
Behind(r, now, rooms) ==
  /\ \A m \in Present(r) : m <= now
  /\ \A n \in Nodes : r.session[n].at <= rooms[n].session[n].at

(* Room b keeps what room a says: the stamps of the messages it still has,  *)
(* and session records at least as new.                                     *)
Keeps(a, b) ==
  /\ \A m \in Ids : a.progress[m] = Stamped => b.progress[m] # Sent
  /\ \A n \in Nodes : b.session[n].at >= a.session[n].at

(* The inductive invariant. A room within the limits is what a merge can    *)
(* rely on: were a stamped message dropped for want of space by the same    *)
(* step that merges an unstamped copy of it, the copy could stay.           *)
IInv ==
  /\ TypeOK
  /\ \A n \in Nodes : WithinLimits(room[n]) /\ Behind(room[n], clock, room)
  /\ \A p \in Pairs : Behind(held[p], clock, room)
  /\ \A post \in late : Behind(post.body, clock, room)

-----------------------------------------------------------------------------
(* The rules.                                                               *)

(* Ids are a finite set of numbers.                                         *)
LEMMA IdsFinite == IsFiniteSet(Ids) /\ Ids \subseteq Nat
  BY FS_Interval, NetworkSyncAssumption DEF Ids

(* Pruning leaves or removes a message, and leaves the sessions.            *)
LEMMA PruneLeavesOrRemoves ==
  ASSUME NEW r \in Rooms
  PROVE  /\ Prune(r) \in Rooms
         /\ Prune(r).session = r.session
         /\ \A m \in Ids : Prune(r).progress[m] \in {r.progress[m], Absent}
         /\ Present(Prune(r)) = Kept[Fresh(Present(r))]
         /\ Present(Prune(r)) \subseteq Fresh(Present(r))
<1>1. Fresh(Present(r)) \in SUBSET Ids
  BY DEF Fresh, Present
<1>2. Kept[Fresh(Present(r))] = WithinBudget(Newest(Fresh(Present(r))))
  BY <1>1 DEF Kept
<1>3. Kept[Fresh(Present(r))] \subseteq Fresh(Present(r))
  BY <1>2 DEF WithinBudget, Newest
<1>4. Fresh(Present(r)) \subseteq Present(r)
  BY DEF Fresh
<1>5. Prune(r) = [r EXCEPT !.progress =
                    [m \in Ids |-> IF m \in Kept[Fresh(Present(r))] THEN @[m] ELSE Absent]]
  BY DEF Prune
<1> HIDE DEF Prune
<1>6. /\ Prune(r) \in Rooms
      /\ Prune(r).session = r.session
      /\ \A m \in Ids : Prune(r).progress[m] =
                        IF m \in Kept[Fresh(Present(r))] THEN r.progress[m] ELSE Absent
  BY <1>5 DEF Rooms
<1>7. Present(Prune(r)) = Kept[Fresh(Present(r))]
  BY <1>3, <1>4, <1>6 DEF Present
<1> QED
  BY <1>3, <1>6, <1>7

(* What is left is within the limits.                                       *)
LEMMA PrunedIsWithinLimits ==
  ASSUME NEW r \in Rooms
  PROVE  WithinLimits(Prune(r))
<1> DEFINE S == Fresh(Present(r))
           K == Present(Prune(r))
<1>1. S \in SUBSET Ids
  BY DEF Fresh, Present
<1>2. K = WithinBudget(Newest(S)) /\ K \subseteq Newest(S) /\ Newest(S) \subseteq S
  BY <1>1, PruneLeavesOrRemoves DEF Kept, WithinBudget, Newest
<1>3. ASSUME NEW m \in K
      PROVE  /\ Cardinality({x \in K : x > m}) < MaxMessages
             /\ Fits[{x \in K : x >= m}]
  <2> DEFINE older == {x \in K : x > m}
             more == {x \in S : x > m}
  <2>1. Cardinality(more) < MaxMessages
    BY <1>2, <1>3 DEF Newest
  <2>2. IsFiniteSet(more) /\ older \subseteq more
    BY <1>1, <1>2, IdsFinite, FS_Subset
  <2>3. /\ Cardinality(older) <= Cardinality(more)
        /\ Cardinality(older) \in Nat /\ Cardinality(more) \in Nat
    BY <2>2, FS_Subset, FS_CardinalityType
  <2>4. Fits[{x \in Newest(S) : x >= m}]
    BY <1>2, <1>3 DEF WithinBudget
  <2>5. /\ {x \in K : x >= m} \subseteq {x \in Newest(S) : x >= m}
        /\ {x \in K : x >= m} \in SUBSET Ids
        /\ {x \in Newest(S) : x >= m} \in SUBSET Ids
    BY <1>1, <1>2
  <2>6. Fits[{x \in K : x >= m}]
    BY <2>4, <2>5, NetworkSyncAssumption
  <2> QED
    BY <2>1, <2>3, <2>6, NetworkSyncAssumption
<1> QED
  BY <1>3 DEF WithinLimits

(* A room within the limits loses only what is old.                         *)
LEMMA PruneTakesTheOld ==
  ASSUME NEW r \in Rooms, WithinLimits(r)
  PROVE  Present(Prune(r)) = Fresh(Present(r))
<1> DEFINE P == Present(r)
           S == Fresh(Present(r))
<1>1. S \in SUBSET Ids /\ S \subseteq P /\ P \in SUBSET Ids
  BY DEF Fresh, Present
<1>2. ASSUME NEW m \in S
      PROVE  Cardinality({x \in S : x > m}) < MaxMessages /\ Fits[{x \in S : x >= m}]
  <2>1. Cardinality({x \in P : x > m}) < MaxMessages /\ Fits[{x \in P : x >= m}]
    BY <1>1, <1>2 DEF WithinLimits
  <2>2. IsFiniteSet({x \in P : x > m}) /\ {x \in S : x > m} \subseteq {x \in P : x > m}
    BY <1>1, IdsFinite, FS_Subset
  <2>3. /\ Cardinality({x \in S : x > m}) <= Cardinality({x \in P : x > m})
        /\ Cardinality({x \in S : x > m}) \in Nat /\ Cardinality({x \in P : x > m}) \in Nat
    BY <2>2, FS_Subset, FS_CardinalityType
  <2>4. /\ {x \in S : x >= m} \subseteq {x \in P : x >= m}
        /\ {x \in S : x >= m} \in SUBSET Ids
        /\ {x \in P : x >= m} \in SUBSET Ids
    BY <1>1
  <2>5. Fits[{x \in S : x >= m}]
    BY <2>1, <2>4, NetworkSyncAssumption
  <2> QED
    BY <2>1, <2>3, <2>5, NetworkSyncAssumption
<1>3. Newest(S) = S
  BY <1>2 DEF Newest
<1>4. WithinBudget(S) = S
  BY <1>2 DEF WithinBudget
<1>5. Kept[S] = S
  BY <1>1, <1>3, <1>4 DEF Kept
<1> QED
  BY <1>5, PruneLeavesOrRemoves

(* A merge is typed and within the limits, has young messages of the two    *)
(* rooms with the higher progress, and the later stamp of each session.     *)
LEMMA MergeTakesTheLater ==
  ASSUME NEW a \in Rooms, NEW b \in Rooms
  PROVE  /\ Merge(a, b) \in Rooms
         /\ WithinLimits(Merge(a, b))
         /\ Present(Merge(a, b)) \subseteq Fresh(Present(a) \cup Present(b))
         /\ \A m \in Ids : Merge(a, b).progress[m] = Absent
                           \/ /\ Merge(a, b).progress[m] >= a.progress[m]
                              /\ Merge(a, b).progress[m] >= b.progress[m]
         /\ \A n \in Nodes : /\ Merge(a, b).session[n].at >= a.session[n].at
                             /\ Merge(a, b).session[n].at \in {a.session[n].at, b.session[n].at}
<1> DEFINE u == [progress |-> MergeProgress(a.progress, b.progress),
                 session |-> [n \in Nodes |-> MergeSession(a.session[n], b.session[n])]]
<1>1. \A m \in Ids : /\ a.progress[m] \in {Absent, Sent, Stamped}
                     /\ b.progress[m] \in {Absent, Sent, Stamped}
  BY DEF Rooms
<1>2. \A n \in Nodes : /\ a.session[n].at \in Nat /\ a.session[n].branch \in BOOLEAN
                       /\ b.session[n].at \in Nat /\ b.session[n].branch \in BOOLEAN
  BY DEF Rooms, Sessions
<1>3. u.progress \in [Ids -> {Absent, Sent, Stamped}]
  BY <1>1 DEF MergeProgress
<1>4. u.session \in Sessions
  BY <1>2 DEF MergeSession, Sessions
<1>5. u \in Rooms
  BY <1>3, <1>4 DEF Rooms
<1>6. \A m \in Ids : u.progress[m] >= a.progress[m] /\ u.progress[m] >= b.progress[m]
  BY <1>1 DEF MergeProgress, Absent, Sent, Stamped
<1>7. \A n \in Nodes : /\ u.session[n].at >= a.session[n].at
                       /\ u.session[n].at \in {a.session[n].at, b.session[n].at}
  BY <1>2 DEF MergeSession
<1>8. Merge(a, b) = Prune(u)
  BY DEF Merge
<1>9. Present(u) = Present(a) \cup Present(b)
  BY <1>1 DEF Present, MergeProgress, Absent, Sent, Stamped
<1> HIDE DEF u
<1> QED
  BY <1>5, <1>6, <1>7, <1>8, <1>9, PruneLeavesOrRemoves, PrunedIsWithinLimits
(* Merging anything into a room within the limits keeps what the room says. *)
LEMMA MergeKeeps ==
  ASSUME NEW a \in Rooms, NEW b \in Rooms, WithinLimits(a)
  PROVE  Keeps(a, Merge(Prune(a), b))
<1>1. /\ Prune(a) \in Rooms /\ Prune(a).session = a.session
      /\ \A m \in Ids : Prune(a).progress[m] \in {a.progress[m], Absent}
      /\ Present(Prune(a)) = Fresh(Present(a))
  BY PruneLeavesOrRemoves, PruneTakesTheOld
<1>2. ASSUME NEW m \in Ids, a.progress[m] = Stamped
      PROVE  Merge(Prune(a), b).progress[m] # Sent
  <2>1. CASE m \in Fresh(Present(a))
    <3>1. Prune(a).progress[m] = Stamped
      BY <1>1, <1>2, <2>1 DEF Present
    <3>2. \/ Merge(Prune(a), b).progress[m] = Absent
          \/ Merge(Prune(a), b).progress[m] >= Prune(a).progress[m]
      BY <1>1, <1>2, MergeTakesTheLater
    <3> QED  BY <3>1, <3>2 DEF Sent, Stamped, Absent
  <2>2. CASE m \notin Fresh(Present(a))
    <3>1. m \in Present(a)
      BY <1>2 DEF Present, Stamped, Absent
    <3>2. m \notin Fresh(Present(Prune(a)) \cup Present(b))
      BY <2>2, <3>1 DEF Fresh
    <3>3. Merge(Prune(a), b).progress[m] = Absent
      BY <1>1, <3>2, MergeTakesTheLater DEF Present
    <3> QED  BY <3>3 DEF Absent, Sent
  <2> QED  BY <2>1, <2>2
<1>3. \A n \in Nodes : Merge(Prune(a), b).session[n].at >= a.session[n].at
  BY <1>1, MergeTakesTheLater
<1> QED
  BY <1>2, <1>3 DEF Keeps

-----------------------------------------------------------------------------
(* Steps.                                                                   *)

(* What every write of a machine's room comes down to: another room is put  *)
(* in its place, which is typed, within the limits, keeps what the old one  *)
(* says, and is behind the others.                                          *)
Writes(n) ==
  \E r \in Rooms :
    /\ room' = [room EXCEPT ![n] = r]
    /\ WithinLimits(r)
    /\ Keeps(room[n], r)
    /\ \A m \in Present(r) : m <= clock'
    /\ \A o \in Nodes \ {n} : r.session[o].at <= room[o].session[o].at

(* A merge of a room nobody is behind is such a write.                      *)
LEMMA MergeWrites ==
  ASSUME NEW n \in Nodes, NEW b \in Rooms, IInv, Behind(b, clock, room),
         UNCHANGED clock,
         room' = [room EXCEPT ![n] = Merge(Prune(room[n]), b)]
  PROVE  Writes(n) /\ Behind(Merge(Prune(room[n]), b), clock, room)
<1> DEFINE a == room[n]
           p == Prune(a)
           r == Merge(p, b)
<1>1. a \in Rooms /\ WithinLimits(a) /\ Behind(a, clock, room)
  BY DEF IInv, TypeOK
<1>2. p \in Rooms /\ p.session = a.session /\ Present(p) \subseteq Present(a)
  <2>1. Fresh(Present(a)) \subseteq Present(a)
    BY DEF Fresh
  <2> QED  BY <1>1, <2>1, PruneLeavesOrRemoves
<1>3. r \in Rooms /\ WithinLimits(r) /\ Keeps(a, r)
  BY <1>1, <1>2, MergeTakesTheLater, MergeKeeps
<1>4. Present(r) \subseteq Present(p) \cup Present(b)
  <2>1. Fresh(Present(p) \cup Present(b)) \subseteq Present(p) \cup Present(b)
    BY DEF Fresh
  <2> QED  BY <1>2, <2>1, MergeTakesTheLater
<1>5. \A m \in Present(r) : m <= clock
  BY <1>1, <1>2, <1>4 DEF Behind
<1>6. \A o \in Nodes : r.session[o].at \in {p.session[o].at, b.session[o].at}
  BY <1>2, MergeTakesTheLater
<1>7. \A o \in Nodes : r.session[o].at <= room[o].session[o].at
  BY <1>1, <1>2, <1>6 DEF Behind
<1> HIDE DEF r
<1> QED
  BY <1>3, <1>5, <1>7 DEF Writes, Behind, r

(* Pruning a room that keeps what the old one says is such a write.         *)
LEMMA PruneWrites ==
  ASSUME NEW n \in Nodes, NEW r \in Rooms, IInv,
         clock' \in Int, clock' >= clock,
         room' = [room EXCEPT ![n] = Prune(r)],
         Keeps(room[n], r),
         \A m \in Present(r) : m <= clock',
         \A o \in Nodes \ {n} : r.session[o] = room[n].session[o]
  PROVE  Writes(n)
<1>1. room[n] \in Rooms /\ Behind(room[n], clock, room)
  BY DEF IInv, TypeOK
<1>2. /\ Prune(r) \in Rooms /\ WithinLimits(Prune(r)) /\ Prune(r).session = r.session
      /\ \A m \in Ids : Prune(r).progress[m] \in {r.progress[m], Absent}
      /\ Present(Prune(r)) \subseteq Present(r)
  <2>1. Fresh(Present(r)) \subseteq Present(r)
    BY DEF Fresh
  <2> QED  BY <2>1, PruneLeavesOrRemoves, PrunedIsWithinLimits
<1>3. Keeps(room[n], Prune(r))
  BY <1>2 DEF Keeps, Absent, Sent
<1> HIDE DEF Prune
<1> QED
  BY <1>1, <1>2, <1>3 DEF Writes, Behind

(* Such a write keeps the invariant, if what syncs and posts hold is behind *)
(* before it or is the room that was written.                               *)
LEMMA WritesKeepIInv ==
  ASSUME NEW n \in Nodes, IInv, Writes(n), clock' \in Int, clock' >= clock
  PROVE  /\ \A x \in Rooms : Behind(x, clock, room) => Behind(x, clock', room')
         /\ room' \in [Nodes -> Rooms]
         /\ \A o \in Nodes : WithinLimits(room'[o]) /\ Behind(room'[o], clock', room')
<1>1. PICK r \in Rooms :
        /\ room' = [room EXCEPT ![n] = r]
        /\ WithinLimits(r)
        /\ Keeps(room[n], r)
        /\ \A m \in Present(r) : m <= clock'
        /\ \A o \in Nodes \ {n} : r.session[o].at <= room[o].session[o].at
  BY DEF Writes
<1>2. room \in [Nodes -> Rooms] /\ clock \in Int
  BY NetworkSyncAssumption DEF IInv, TypeOK
<1>3. room' \in [Nodes -> Rooms]
  BY <1>1, <1>2
<1>4. \A x \in Rooms : \A o \in Nodes : x.session[o].at \in Nat
  BY DEF Rooms, Sessions
<1>5. \A o \in Nodes : room'[o].session[o].at >= room[o].session[o].at
  BY <1>1, <1>2, <1>4 DEF Keeps
<1>6. ASSUME NEW x \in Rooms, Behind(x, clock, room)
      PROVE  Behind(x, clock', room')
  <2>1. \A m \in Present(x) : m \in Nat
    BY IdsFinite DEF Present
  <2>2. \A m \in Present(x) : m <= clock'
    BY <1>2, <1>6, <2>1 DEF Behind
  <2>3. \A o \in Nodes : x.session[o].at <= room'[o].session[o].at
    BY <1>2, <1>3, <1>4, <1>5, <1>6 DEF Behind
  <2> QED  BY <2>2, <2>3 DEF Behind
<1>7. Behind(r, clock', room')
  <2>1. \A o \in Nodes : r.session[o].at <= room'[o].session[o].at
    BY <1>1, <1>2, <1>4
  <2> QED  BY <1>1, <2>1 DEF Behind
<1>8. ASSUME NEW o \in Nodes
      PROVE  WithinLimits(room'[o]) /\ Behind(room'[o], clock', room')
  <2>1. CASE o = n
    BY <1>1, <1>2, <1>7, <2>1
  <2>2. CASE o # n
    <3>1. room'[o] = room[o]
      BY <1>1, <1>2, <2>2
    <3> QED  BY <1>2, <1>6, <3>1 DEF IInv
  <2> QED  BY <2>1, <2>2
<1> QED
  BY <1>3, <1>6, <1>8
(* The empty room is behind whatever the rooms are.                         *)
LEMMA EmptyIsBehind ==
  ASSUME NEW now, NEW rooms \in [Nodes -> Rooms]
  PROVE  Empty \in Rooms /\ Present(Empty) = {} /\ Behind(Empty, now, rooms)
<1>1. Empty \in Rooms /\ Present(Empty) = {}
  BY DEF Empty, Rooms, Sessions, Present
<1>2. \A n \in Nodes : Empty.session[n].at = 0 /\ rooms[n].session[n].at \in Nat
  BY DEF Empty, Rooms, Sessions
<1> QED
  BY <1>1, <1>2 DEF Behind

(* The initial state.                                                       *)
LEMMA InitIInv == Init => IInv
<1> SUFFICES ASSUME Init PROVE IInv
  OBVIOUS
<1>1. Empty \in Rooms
  BY DEF Empty, Rooms, Sessions
<1>2. TypeOK
  BY <1>1, NetworkSyncAssumption DEF Init, TypeOK
<1>r. room \in [Nodes -> Rooms]
  BY <1>2 DEF TypeOK
<1>3. Present(Empty) = {} /\ Behind(Empty, clock, room)
  BY <1>r, EmptyIsBehind
<1>4. WithinLimits(Empty)
  BY <1>3 DEF WithinLimits
<1> QED
  BY <1>2, <1>3, <1>4 DEF Init, IInv

(* A write, seen by what the steps that do it leave alone.                  *)
LEMMA WriteStep ==
  ASSUME NEW n \in Nodes, IInv, Writes(n), clock' \in 0..MaxClock, clock' >= clock,
         pc' \in [Pairs -> {"idle", "fetched", "posted"}],
         held' \in [Pairs -> Rooms],
         \A p \in Pairs : held'[p] = held[p] \/ held'[p] = Empty \/ Behind(held'[p], clock', room'),
         late' \subseteq late
  PROVE  IInv' /\ \A o \in Nodes : Keeps(room[o], room'[o])
<1>0. \A o \in Nodes : Keeps(room[o], room'[o])
  <2>1. room \in [Nodes -> Rooms]
    BY DEF IInv, TypeOK
  <2>2. PICK r \in Rooms : room' = [room EXCEPT ![n] = r] /\ Keeps(room[n], r)
    BY DEF Writes
  <2>3. \A o \in Nodes \ {n} : room'[o] = room[o] /\ room[o] \in Rooms
    BY <2>1, <2>2
  <2>4. room'[n] = r
    BY <2>1, <2>2
  <2>5. \A o \in Nodes \ {n} : Keeps(room[o], room'[o])
    BY <2>3 DEF Keeps, Rooms, Sessions, Sent, Stamped
  <2> QED  BY <2>2, <2>4, <2>5
<1>1. /\ \A x \in Rooms : Behind(x, clock, room) => Behind(x, clock', room')
      /\ room' \in [Nodes -> Rooms]
      /\ \A o \in Nodes : WithinLimits(room'[o]) /\ Behind(room'[o], clock', room')
  BY WritesKeepIInv, NetworkSyncAssumption
<1>2. TypeOK'
  BY <1>1 DEF IInv, TypeOK
<1>3. Behind(Empty, clock', room')
  BY <1>1, EmptyIsBehind
<1>4. \A p \in Pairs : Behind(held'[p], clock', room')
  BY <1>1, <1>3 DEF IInv, TypeOK
<1>5. \A post \in late' : Behind(post.body, clock', room')
  BY <1>1 DEF IInv, TypeOK
<1> QED
  BY <1>0, <1>1, <1>2, <1>4, <1>5 DEF IInv
(* A step that writes no room.                                              *)
LEMMA QuietStep ==
  ASSUME IInv, UNCHANGED room, clock' \in 0..MaxClock, clock' >= clock,
         pc' \in [Pairs -> {"idle", "fetched", "posted"}],
         held' \in [Pairs -> Rooms],
         \A p \in Pairs : held'[p] = held[p] \/ held'[p] = Empty \/ Behind(held'[p], clock, room),
         late' \subseteq [to : Nodes, body : Rooms],
         \A post \in late' : Behind(post.body, clock, room)
  PROVE  IInv' /\ \A o \in Nodes : Keeps(room[o], room'[o])
<1>1. TypeOK'
  BY DEF IInv, TypeOK
<1>2. \A x \in Rooms : Present(x) \subseteq Nat
  BY IdsFinite DEF Present
<1>3. ASSUME NEW x \in Rooms, Behind(x, clock, room)
      PROVE  Behind(x, clock', room')
  <2>1. clock \in Int /\ clock' \in Int
    BY NetworkSyncAssumption DEF IInv, TypeOK
  <2> QED  BY <1>2, <1>3, <2>1 DEF Behind
<1>4. \A n \in Nodes : WithinLimits(room'[n]) /\ Behind(room'[n], clock', room')
  BY <1>3 DEF IInv, TypeOK
<1>5. Empty \in Rooms /\ Behind(Empty, clock', room')
  BY <1>1, EmptyIsBehind DEF TypeOK
<1>6. \A p \in Pairs : Behind(held'[p], clock', room')
  BY <1>3, <1>5 DEF IInv, TypeOK
<1>7. \A post \in late' : Behind(post.body, clock', room')
  BY <1>3
<1>8. \A o \in Nodes : Keeps(room[o], room'[o])
  BY DEF IInv, TypeOK, Keeps, Rooms, Sessions, Sent, Stamped
<1> QED
  BY <1>1, <1>4, <1>6, <1>7, <1>8 DEF IInv

(* A pruned room is behind what the room was behind.                        *)
LEMMA PrunedIsBehind ==
  ASSUME NEW r \in Rooms, Behind(r, clock, room)
  PROVE  Prune(r) \in Rooms /\ Behind(Prune(r), clock, room)
<1>1. Fresh(Present(r)) \subseteq Present(r)
  BY DEF Fresh
<1> QED
  BY <1>1, PruneLeavesOrRemoves DEF Behind

(* Every step keeps the invariant and what every room says.                 *)
LEMMA StepKeeps ==
  IInv /\ [Next]_vars => IInv' /\ \A o \in Nodes : Keeps(room[o], room'[o])
<1> DEFINE Goal == IInv' /\ \A o \in Nodes : Keeps(room[o], room'[o])
<1> SUFFICES ASSUME IInv, [Next]_vars PROVE Goal
  OBVIOUS
<1>t. /\ clock \in 0..MaxClock /\ clock \in Int
      /\ room \in [Nodes -> Rooms]
      /\ pc \in [Pairs -> {"idle", "fetched", "posted"}]
      /\ held \in [Pairs -> Rooms]
      /\ late \subseteq [to : Nodes, body : Rooms]
      /\ \A n \in Nodes : Behind(room[n], clock, room)
      /\ \A p \in Pairs : Behind(held[p], clock, room)
      /\ \A post \in late : Behind(post.body, clock, room)
  BY NetworkSyncAssumption DEF IInv, TypeOK
<1>e. Empty \in Rooms
  BY DEF Empty, Rooms, Sessions
<1>p. \A p \in Pairs : p[1] \in Nodes /\ p[2] \in Nodes
  BY NetworkSyncAssumption
<1>1. CASE Tick
  <2>1. clock' \in 0..MaxClock /\ clock' >= clock /\ UNCHANGED <<room, pc, held, late>>
    BY <1>1, <1>t, NetworkSyncAssumption DEF Tick
  <2> QED
    BY <1>t, <1>e, <2>1, QuietStep
<1>2. ASSUME NEW n \in Nodes, Send(n) PROVE Goal
  <2> DEFINE r == [room[n] EXCEPT !.progress[clock'] = Sent]
  <2>1. /\ clock' \in 0..MaxClock /\ clock' \in Int /\ clock' >= clock
        /\ clock' = clock + 1 /\ clock' \in Ids
    BY <1>2, <1>t, NetworkSyncAssumption DEF Send, Ids
  <2>2. r \in Rooms /\ r.session = room[n].session
    BY <1>t, <2>1 DEF Rooms, Sent
  <2>3. \A m \in Ids \ {clock'} : r.progress[m] = room[n].progress[m]
    BY <1>t, <2>1 DEF Rooms
  <2>4. Present(r) \subseteq Present(room[n]) \cup {clock'}
    BY <2>3 DEF Present
  <2>5. clock' \notin Present(room[n]) /\ \A m \in Present(room[n]) : m \in Nat /\ m <= clock
    BY <1>t, <2>1, IdsFinite DEF Behind, Present
  <2>6. \A m \in Present(r) : m <= clock'
    BY <1>t, <2>1, <2>4, <2>5
  <2>7. Keeps(room[n], r)
    <3>1. room[n].progress[clock'] # Stamped
      BY <2>1, <2>5 DEF Present, Stamped, Absent
    <3>2. \A o \in Nodes : room[n].session[o].at \in Nat
      BY <1>t DEF Rooms, Sessions
    <3> QED  BY <2>2, <2>3, <3>1, <3>2 DEF Keeps, Stamped, Sent
  <2>8. room' = [room EXCEPT ![n] = Prune(r)]
    BY <1>2 DEF Send
  <2> HIDE DEF r
  <2>9. Writes(n)
    BY <1>t, <2>1, <2>2, <2>6, <2>7, <2>8, PruneWrites
  <2> QED
    BY <1>2, <1>t, <2>1, <2>9, WriteStep DEF Send
<1>3. ASSUME NEW m \in Ids, Stamp(m) PROVE Goal
  <2> DEFINE n == To[m]
             r == [room[n] EXCEPT !.progress[m] = Stamped]
  <2>1. n \in Nodes /\ clock' = clock /\ clock' \in Int /\ clock' >= clock
    BY <1>3, <1>t, NetworkSyncAssumption DEF Stamp
  <2>r. /\ r \in Rooms /\ r.session = room[n].session
        /\ r.progress = [room[n].progress EXCEPT ![m] = Stamped]
        /\ room[n].progress \in [Ids -> {Absent, Sent, Stamped}]
    BY <1>t, <2>1 DEF Rooms, Stamped
  <2>s. room[n].progress[m] = Sent
    BY <1>3 DEF Stamp
  <2>2. r \in Rooms /\ r.session = room[n].session /\ Present(r) = Present(room[n])
    BY <2>r, <2>s DEF Present, Stamped, Sent, Absent
  <2>3. \A i \in Present(r) : i <= clock'
    BY <1>t, <2>1, <2>2 DEF Behind
  <2>4. Keeps(room[n], r)
    <3>1. \A o \in Nodes : room[n].session[o].at \in Nat
      BY <1>t, <2>1 DEF Rooms, Sessions
    <3>2. \A i \in Ids : r.progress[i] \in {room[n].progress[i], Stamped}
      BY <1>t, <2>1 DEF Rooms
    <3> QED  BY <2>2, <3>1, <3>2 DEF Keeps, Stamped, Sent
  <2>5. room' = [room EXCEPT ![n] = Prune(r)]
    BY <1>3 DEF Stamp
  <2> HIDE DEF r, n
  <2>6. Writes(n)
    BY <1>t, <2>1, <2>2, <2>3, <2>4, <2>5, PruneWrites
  <2> QED
    BY <1>3, <1>t, <2>1, <2>6, WriteStep DEF Stamp
<1>4. ASSUME NEW n \in Nodes, Beat(n) PROVE Goal
  <2>1. PICK branch \in BOOLEAN :
          room' = [room EXCEPT ![n] = Prune([@ EXCEPT !.session[n] =
                     [at |-> room[n].session[n].at + 1, branch |-> branch]])]
    BY <1>4 DEF Beat
  <2> DEFINE r == [room[n] EXCEPT !.session[n] =
                     [at |-> room[n].session[n].at + 1, branch |-> branch]]
  <2>2. clock' = clock /\ clock' \in Int /\ clock' >= clock
    BY <1>4, <1>t DEF Beat
  <2>3. room[n].session \in Sessions /\ room[n].session[n].at + 1 \in Nat
    BY <1>t DEF Rooms, Sessions
  <2>4. r \in Rooms /\ r.progress = room[n].progress /\ Present(r) = Present(room[n])
    BY <1>t, <2>3 DEF Rooms, Sessions, Present
  <2>5. /\ \A o \in Nodes \ {n} : r.session[o] = room[n].session[o]
        /\ r.session[n].at = room[n].session[n].at + 1
    BY <1>t, <2>3 DEF Rooms, Sessions
  <2>6. \A i \in Present(r) : i <= clock'
    BY <1>t, <2>2, <2>4 DEF Behind
  <2>7. Keeps(room[n], r)
    <3>1. \A o \in Nodes : room[n].session[o].at \in Nat
      BY <2>3 DEF Sessions
    <3> QED  BY <2>4, <2>5, <3>1 DEF Keeps, Stamped, Sent
  <2>8. room' = [room EXCEPT ![n] = Prune(r)]
    BY <2>1
  <2> HIDE DEF r
  <2>9. Writes(n)
    BY <1>t, <2>2, <2>4, <2>5, <2>6, <2>7, <2>8, PruneWrites
  <2> QED
    BY <1>4, <1>t, <2>2, <2>9, WriteStep DEF Beat
<1>5. ASSUME NEW p \in Pairs, Fetch(p) PROVE Goal
  <2>1. Prune(room[p[2]]) \in Rooms /\ Behind(Prune(room[p[2]]), clock, room)
    BY <1>t, <1>p, PrunedIsBehind
  <2>2. held' = [held EXCEPT ![p] = Prune(room[p[2]])] /\ pc' = [pc EXCEPT ![p] = "fetched"]
        /\ UNCHANGED <<clock, room, late>>
    BY <1>5 DEF Fetch
  <2> HIDE DEF Prune
  <2> QED
    BY <1>t, <2>1, <2>2, QuietStep
<1>6. ASSUME NEW p \in Pairs, MergeIn(p) PROVE Goal
  <2> DEFINE r == Merge(Prune(room[p[1]]), held[p])
  <2>1. /\ held' = [held EXCEPT ![p] = r]
        /\ room' = [room EXCEPT ![p[1]] = r]
        /\ pc' = [pc EXCEPT ![p] = "posted"]
        /\ UNCHANGED <<clock, late>>
    BY <1>6, <1>t DEF MergeIn
  <2>2. Writes(p[1]) /\ Behind(r, clock, room)
    BY <1>t, <1>p, <2>1, MergeWrites
  <2>c. clock' = clock /\ clock' \in Int /\ clock' >= clock
    BY <1>t, <2>1
  <2>n. p[1] \in Nodes
    BY <1>p
  <2>3. /\ \A x \in Rooms : Behind(x, clock, room) => Behind(x, clock', room')
        /\ room' \in [Nodes -> Rooms]
    BY <2>2, <2>c, <2>n, WritesKeepIInv
  <2> HIDE DEF r
  <2>4. r \in Rooms
    BY <1>t, <1>p, <2>1, <2>3
  <2>5. held' \in [Pairs -> Rooms] /\ Behind(held'[p], clock', room')
    BY <1>t, <2>1, <2>2, <2>3, <2>4
  <2> QED
    BY <1>t, <2>1, <2>2, <2>c, <2>n, <2>5, WriteStep
<1>7. ASSUME NEW p \in Pairs, Post(p) PROVE Goal
  <2>1. Prune(held[p]) \in Rooms /\ Behind(Prune(held[p]), clock, room)
    BY <1>t, PrunedIsBehind
  <2>2. /\ room' = [room EXCEPT ![p[2]] = Merge(Prune(room[p[2]]), Prune(held[p]))]
        /\ held' = [held EXCEPT ![p] = Empty]
        /\ pc' = [pc EXCEPT ![p] = "idle"]
        /\ UNCHANGED <<clock, late>>
    BY <1>7 DEF Post, Serve
  <2> HIDE DEF Prune, Merge
  <2>3. Writes(p[2])
    BY <1>p, <2>1, <2>2, MergeWrites
  <2> QED
    BY <1>t, <1>e, <1>p, <2>2, <2>3, WriteStep
<1>8. ASSUME NEW p \in Pairs, GiveUp(p) PROVE Goal
  <2>1. /\ held' = [held EXCEPT ![p] = Empty]
        /\ pc' = [pc EXCEPT ![p] = "idle"]
        /\ UNCHANGED <<clock, room>>
    BY <1>8 DEF GiveUp
  <2>2. late' \subseteq late \cup {[to |-> p[2], body |-> held[p]]}
    BY <1>8 DEF GiveUp
  <2>3. /\ late' \subseteq [to : Nodes, body : Rooms]
        /\ \A post \in late' : Behind(post.body, clock, room)
    BY <1>t, <1>p, <2>2
  <2> QED
    BY <1>t, <1>e, <2>1, <2>3, QuietStep
<1>9. ASSUME NEW post \in late, ServeLate(post) PROVE Goal
  <2>1. /\ post.to \in Nodes
        /\ Prune(post.body) \in Rooms /\ Behind(Prune(post.body), clock, room)
    BY <1>t, PrunedIsBehind
  <2>2. /\ room' = [room EXCEPT ![post.to] = Merge(Prune(room[post.to]), Prune(post.body))]
        /\ late' \subseteq late
        /\ UNCHANGED <<clock, pc, held>>
    BY <1>9 DEF ServeLate, Serve
  <2> HIDE DEF Prune, Merge
  <2>3. Writes(post.to)
    BY <2>1, <2>2, MergeWrites
  <2> QED
    BY <1>t, <2>1, <2>2, <2>3, WriteStep
<1>10. CASE UNCHANGED vars
  BY <1>10, <1>t, QuietStep DEF vars
<1> QED
  BY <1>1, <1>2, <1>3, <1>4, <1>5, <1>6, <1>7, <1>8, <1>9, <1>10 DEF Next, Sync

-----------------------------------------------------------------------------
(* Every variable keeps its type: rooms, snapshots and late posts are rooms *)
(* of known messages and sessions.                                          *)
THEOREM TypeCorrect == Spec => []TypeOK
<1>1. IInv => TypeOK
  BY DEF IInv
<1> QED
  BY <1>1, InitIInv, StepKeeps, PTL DEF Spec

(* No room or snapshot is ahead of the machine a session runs on, however   *)
(* many machines pass rooms around in any order.                            *)
THEOREM NobodyAheadHolds == Spec => []NobodyAhead
<1>1. IInv => NobodyAhead
  BY DEF IInv, Behind, NobodyAhead
<1> QED
  BY <1>1, InitIInv, StepKeeps, PTL DEF Spec

(* No exchange, late or repeated, takes a stamp back from a message or puts *)
(* an older session record in place of a newer one, whatever is pruned.     *)
THEOREM StampsKeptHolds == Spec => StampsKept
<1>1. IInv /\ [Next]_vars =>
        [\A n \in Nodes :
           /\ \A m \in Ids : room[n].progress[m] = Stamped => room'[n].progress[m] # Sent
           /\ \A o \in Nodes : room'[n].session[o].at >= room[n].session[o].at]_room
  BY StepKeeps DEF Keeps
<1> QED
  BY <1>1, InitIInv, StepKeeps, PTL DEF Spec, StampsKept
=============================================================================
