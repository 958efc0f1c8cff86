-------------------------- MODULE SessionRecordProofs --------------------------
(***************************************************************************)
(* Proofs about SessionRecord, for any number of calls under way, any      *)
(* clock and any number of processes: a closed session stays closed        *)
(* whatever of its writes is still under way, a pinned focus stays pinned, *)
(* and a room that no write is on its way to shows what the process        *)
(* believes it has advertised.                                             *)
(***************************************************************************)
EXTENDS SessionRecord, TLAPS

(* A transaction of call c's record is under way.                           *)
Landing(c) == pc[c] \in {"register", "write"}

(* The part of TypeOK about the calls.                                      *)
CallTypes ==
  /\ pc \in [Calls -> {"idle", "ensure", "register", "act", "write", "patch"}]
  /\ kind \in [Calls -> Requests \cup {"start", "beat", "shutdown"}]
  /\ rec \in [Calls -> Records \cup {NoRecord}]

(* What a call that is past ensureSession can rely on.                      *)
CallsInv ==
  /\ \A c \in Calls : Landing(c) \/ pc[c] = "act" => rec[c] \in Records
  /\ \A c \in Calls : pc[c] = "act" => kind[c] \in Acting
  /\ \A c \in Calls : kind[c] = "shutdown" => pc[c] = "write"
  /\ \A c \in Calls : pc[c] \in {"register", "act", "write", "patch"} => current # NoRecord
  /\ run = "closed" => current # NoRecord
  /\ run = "off" => \A c \in Calls : pc[c] = "idle"

-----------------------------------------------------------------------------
(* What the two ways to change the record do, without the reasons.          *)

(* A write makes `next` the process's record and the call's.                *)
LEMMA WriteMakes ==
  ASSUME NEW c \in Calls, NEW k, NEW next \in Records, NEW force \in BOOLEAN,
         NEW awaiting, NEW goingOn,
         TypeOK, WriteRecord(c, k, next, force, awaiting, goingOn)
  PROVE  /\ current' = next
         /\ Goto(c, awaiting, k, next) \/ Goto(c, goingOn, k, next)
         /\ written' \in Records \cup {NoRecord}
         /\ lastWrite' \in Nat
  BY DEF WriteRecord, TypeOK

(* A save leaves the room's record, or puts one stamped later in its place. *)
LEMMA SaveKeepsOrReplaces ==
  ASSUME NEW r \in Records, TypeOK, Save(r)
  PROVE  /\ \/ file' = file /\ file \in Records /\ r.at <= file.at
            \/ file' = r /\ (file # NoRecord => r.at > file.at)
         /\ behind' \in BOOLEAN
<1>1. file = NoRecord \/ file \in Records
  BY DEF TypeOK
<1>2. \A x \in Records : x.at \in Nat
  BY DEF Records
<1>3. file' = Newer(file, r)
  BY DEF Save
<1>4. behind' \in BOOLEAN
  BY DEF Save
<1> QED
  BY <1>1, <1>2, <1>3, <1>4 DEF Newer

(* A call that goes on, or ends, while the process has a record.            *)
LEMMA GotoKeeps ==
  ASSUME TypeOK, CallsInv, NEW c \in Calls,
         NEW label \in {"idle", "register", "act", "write", "patch"},
         NEW k \in Requests \cup {"start", "beat", "shutdown"},
         NEW r \in Records \cup {NoRecord},
         Goto(c, label, k, r), current' # NoRecord, run' # "off",
         label \in {"register", "act", "write"} => r \in Records,
         label = "act" => k \in Acting,
         k = "shutdown" => label \in {"write", "idle"}
  PROVE  CallTypes' /\ CallsInv'
<1>1. CallTypes'
  BY DEF Goto, TypeOK, CallTypes, Requests
<1>2. CallsInv'
  BY DEF Goto, TypeOK, CallsInv, Landing
<1> QED
  BY <1>1, <1>2

(* ensureSession starts from a record.                                      *)
LEMMA ExistingIsRecord == TypeOK => Existing \in Records
  BY DEF TypeOK, Existing, Fresh, Records

-----------------------------------------------------------------------------

(* Every variable keeps its type and every call its place.                  *)
LEMMA TypeInit == Init => TypeOK /\ CallsInv
<1> SUFFICES ASSUME Init PROVE TypeOK /\ CallsInv
  OBVIOUS
<1>n. time \in Nat /\ lastWrite \in Nat /\ runs \in 0..MaxRuns /\ begun \in 0..MaxBegun
  BY SessionRecordAssumption DEF Init
<1>1. TypeOK
  BY <1>n DEF Init, TypeOK, Requests
<1>2. CallsInv
  BY DEF Init, CallsInv, Landing
<1> QED
  BY <1>1, <1>2

LEMMA TypeStep == TypeOK /\ CallsInv /\ [Next]_vars => TypeOK' /\ CallsInv'
<1> SUFFICES ASSUME TypeOK, CallsInv, [Next]_vars
             PROVE  TypeOK' /\ CallsInv'
  OBVIOUS
<1> USE DEF Landing
<1>1. CASE Tick
  BY <1>1 DEF Tick, TypeOK, CallsInv, procVars, callVars, pastVars, flagVars
<1>2. CASE ShutdownBegin
  BY <1>2 DEF ShutdownBegin, TypeOK, CallsInv, callVars, pastVars, flagVars
<1>3. CASE Exit
  <2>1. TypeOK'
    BY <1>3 DEF Exit, TypeOK, Requests
  <2>2. CallsInv'
    BY <1>3 DEF Exit, CallsInv, TypeOK
  <2> QED  BY <2>1, <2>2
<1>4. ASSUME NEW c \in Calls, Start(c) PROVE TypeOK' /\ CallsInv'
  <2>n. runs' \in 0..MaxRuns
    BY <1>4, SessionRecordAssumption DEF Start, TypeOK
  <2>b. begun' \in 0..MaxBegun
    BY <1>4, SessionRecordAssumption DEF Start, TypeOK
  <2>1. TypeOK'
    BY <1>4, <2>n, <2>b DEF Start, Goto, TypeOK, Requests
  <2>2. CallsInv'
    BY <1>4 DEF Start, Goto, CallsInv, TypeOK
  <2> QED  BY <2>1, <2>2
<1>5. ASSUME NEW c \in Calls, Request(c) PROVE TypeOK' /\ CallsInv'
  <2>n. begun' \in 0..MaxBegun
    BY <1>5, SessionRecordAssumption DEF Request, TypeOK
  <2>g. PICK k \in Requests : Goto(c, "ensure", k, NoRecord)
    BY <1>5 DEF Request
  <2>1. TypeOK'
    BY <1>5, <2>n, <2>g DEF Request, Goto, TypeOK, procVars, flagVars, Requests
  <2>2. CallsInv'
    BY <1>5 DEF Request, Goto, CallsInv, TypeOK, procVars, Requests, Acting
  <2> QED  BY <2>1, <2>2
<1>6. ASSUME NEW c \in Calls, EnsureResume(c) PROVE TypeOK' /\ CallsInv'
  <2>1. PICK status \in StatusOf(kind[c]), news \in BOOLEAN :
          WriteRecord(c, kind[c],
            [Existing EXCEPT !.status = status, !.connected = TRUE, !.at = time,
               !.stamp = IF kind[c] = "turn" THEN time ELSE @],
            news \/ kind[c] = "turn", "register", Spread(c))
    BY <1>6 DEF EnsureResume
  <2> DEFINE next == [Existing EXCEPT !.status = status, !.connected = TRUE, !.at = time,
                        !.stamp = IF kind[c] = "turn" THEN time ELSE @]
  <2>2. next \in Records
    BY <2>1, ExistingIsRecord DEF Records, StatusOf, TypeOK
  <2> HIDE DEF next
  <2>3. /\ current' = next
        /\ Goto(c, "register", kind[c], next) \/ Goto(c, Spread(c), kind[c], next)
        /\ written' \in Records \cup {NoRecord}
        /\ lastWrite' \in Nat
    BY <2>1, <2>2, WriteMakes DEF next
  <2>4. kind[c] # "shutdown" /\ run # "off" /\ run' = run /\ next # NoRecord
    BY <1>6, <2>2, SessionRecordAssumption DEF EnsureResume, CallsInv
  <2>5. CallTypes' /\ CallsInv'
    <3>1. kind[c] \in Requests \cup {"start", "beat", "shutdown"}
      BY DEF TypeOK
    <3>2. Spread(c) \in {"idle", "act"} /\ (Spread(c) = "act" => kind[c] \in Acting)
      BY DEF Spread
    <3>3. CASE Goto(c, "register", kind[c], next)
      BY <3>1, <3>3, <2>2, <2>3, <2>4, GotoKeeps
    <3>4. CASE Goto(c, Spread(c), kind[c], next)
      BY <3>1, <3>2, <3>4, <2>2, <2>3, <2>4, GotoKeeps
    <3> QED  BY <3>3, <3>4, <2>3
  <2>6. late' \in BOOLEAN
    BY <1>6 DEF EnsureResume, NoteLate, TypeOK
  <2> QED
    BY <1>6, <2>2, <2>3, <2>5, <2>6 DEF EnsureResume, TypeOK, CallTypes
<1>7. ASSUME NEW c \in Calls, Register(c) PROVE TypeOK' /\ CallsInv'
  <2>1. /\ kind[c] \in Requests \cup {"start", "beat", "shutdown"} /\ rec[c] \in Records
        /\ current # NoRecord /\ run # "off" /\ kind[c] # "shutdown"
    BY <1>7 DEF Register, CallsInv, TypeOK
  <2>2. Spread(c) \in {"idle", "act"} /\ (Spread(c) = "act" => kind[c] \in Acting)
    BY DEF Spread
  <2>3. CallTypes' /\ CallsInv'
    BY <1>7, <2>1, <2>2, GotoKeeps DEF Register, procVars
  <2>4. file' \in Records /\ behind' \in BOOLEAN
    BY <1>7, <2>1, SaveKeepsOrReplaces DEF Register
  <2> QED
    BY <1>7, <2>3, <2>4 DEF Register, TypeOK, CallTypes, procVars
<1>8. ASSUME NEW c \in Calls, Focus(c) PROVE TypeOK' /\ CallsInv'
  <2> DEFINE next == [rec[c] EXCEPT !.focus = "pinned", !.at = time]
  <2>1. next \in Records /\ next # NoRecord /\ run # "off" /\ run' = run
    BY <1>8, SessionRecordAssumption DEF Focus, CallsInv, TypeOK, Records
  <2>2. WriteRecord(c, "focus", next, TRUE, "write", "idle")
    BY <1>8 DEF Focus
  <2> HIDE DEF next
  <2>3. /\ current' = next
        /\ Goto(c, "write", "focus", next) \/ Goto(c, "idle", "focus", next)
        /\ written' \in Records \cup {NoRecord}
        /\ lastWrite' \in Nat
    BY <2>1, <2>2, WriteMakes
  <2>4. CallTypes' /\ CallsInv'
    BY <2>1, <2>3, GotoKeeps DEF Requests, Acting
  <2>5. late' \in BOOLEAN
    BY <1>8 DEF Focus, NoteLate, TypeOK
  <2> QED
    BY <1>8, <2>1, <2>3, <2>4, <2>5 DEF Focus, TypeOK, CallTypes
<1>9. ASSUME NEW c \in Calls, Act(c) PROVE TypeOK' /\ CallsInv'
  <2>1. /\ kind[c] \in {"teamFocus", "checkpoint", "inbox"} /\ rec[c] \in Records
        /\ current \in Records /\ run # "off"
    BY <1>9 DEF Act, CallsInv, TypeOK, Acting
  <2>2. Becomes(c) \in Records /\ Becomes(c) # NoRecord
    <3>1. time \in Nat /\ NoRecord \notin Records
      BY SessionRecordAssumption DEF TypeOK, Records
    <3>2. CASE kind[c] = "teamFocus"
      BY <2>1, <3>1, <3>2 DEF Becomes, Records
    <3>3. CASE kind[c] = "checkpoint"
      BY <2>1, <3>1, <3>3 DEF Becomes, Records
    <3>4. CASE kind[c] = "inbox"
      BY <2>1, <3>1, <3>4 DEF Becomes, Records
    <3> QED
      BY <2>1, <3>2, <3>3, <3>4
  <2>3. CallTypes' /\ CallsInv'
    BY <1>9, <2>1, <2>2, GotoKeeps DEF Act, Requests, Acting
  <2>4. late' \in BOOLEAN /\ behind' \in BOOLEAN
    BY <1>9 DEF Act, NoteLate, TypeOK
  <2> QED
    BY <1>9, <2>2, <2>3, <2>4 DEF Act, TypeOK, CallTypes
<1>10. ASSUME NEW c \in Calls, Patch(c) PROVE TypeOK' /\ CallsInv'
  <2>1. current \in Records /\ current # NoRecord /\ run # "off"
    BY <1>10 DEF Patch, CallsInv, TypeOK
  <2>2. CallTypes' /\ CallsInv'
    BY <1>10, <2>1, GotoKeeps DEF Patch, procVars, Requests
  <2>3. file' \in Records \cup {NoRecord} /\ behind' \in BOOLEAN
    <3>1. CASE file # NoRecord
      BY <1>10, <2>1, <3>1, SaveKeepsOrReplaces DEF Patch
    <3>2. CASE file = NoRecord
      BY <1>10, <3>2 DEF Patch
    <3> QED  BY <3>1, <3>2
  <2>4. confirmed' \in BOOLEAN
    BY <1>10 DEF Patch, TypeOK
  <2> QED
    BY <1>10, <2>2, <2>3, <2>4 DEF Patch, TypeOK, CallTypes, procVars
<1>11. ASSUME NEW c \in Calls, Beat(c) PROVE TypeOK' /\ CallsInv'
  <2>1. PICK status \in {"idle", "working"}, news \in BOOLEAN :
          WriteRecord(c, "beat", [current EXCEPT !.status = status, !.at = time], news,
                      "write", "idle")
    BY <1>11 DEF Beat
  <2> DEFINE next == [current EXCEPT !.status = status, !.at = time]
  <2>2. next \in Records /\ next # NoRecord /\ run # "off" /\ run' = run
    BY <1>11, SessionRecordAssumption DEF Beat, TypeOK, Records
  <2> HIDE DEF next
  <2>3. /\ current' = next
        /\ Goto(c, "write", "beat", next) \/ Goto(c, "idle", "beat", next)
        /\ written' \in Records \cup {NoRecord}
        /\ lastWrite' \in Nat
    BY <2>1, <2>2, WriteMakes DEF next
  <2>4. CallTypes' /\ CallsInv'
    BY <2>2, <2>3, GotoKeeps DEF Acting
  <2>5. begun' \in 0..MaxBegun
    BY <1>11, SessionRecordAssumption DEF Beat, TypeOK
  <2> QED
    BY <1>11, <2>2, <2>3, <2>4, <2>5 DEF Beat, TypeOK, CallTypes, flagVars
<1>12. ASSUME NEW c \in Calls, ShutdownWrite(c) PROVE TypeOK' /\ CallsInv'
  <2>1. PICK checkpoint \in IF current.checkpoint = "none" THEN {"none", "auto"}
                                                           ELSE {current.checkpoint} :
          WriteRecord(c, "shutdown",
            [current EXCEPT !.status = "idle", !.connected = FALSE, !.at = time,
               !.checkpoint = checkpoint], TRUE, "write", "idle")
    BY <1>12 DEF ShutdownWrite
  <2> DEFINE next == [current EXCEPT !.status = "idle", !.connected = FALSE, !.at = time,
                        !.checkpoint = checkpoint]
  <2>2. next \in Records /\ next # NoRecord /\ run' = "closed"
    BY <1>12, <2>1, SessionRecordAssumption DEF ShutdownWrite, TypeOK, Records
  <2> HIDE DEF next
  <2>3. /\ current' = next
        /\ Goto(c, "write", "shutdown", next) \/ Goto(c, "idle", "shutdown", next)
        /\ written' \in Records \cup {NoRecord}
        /\ lastWrite' \in Nat
    BY <2>1, <2>2, WriteMakes DEF next
  <2>4. CallTypes' /\ CallsInv'
    BY <2>2, <2>3, GotoKeeps
  <2> QED
    BY <1>12, <2>2, <2>3, <2>4 DEF ShutdownWrite, TypeOK, CallTypes, pastVars, flagVars
<1>13. ASSUME NEW c \in Calls, WriteLands(c) PROVE TypeOK' /\ CallsInv'
  <2>1. rec[c] \in Records /\ current # NoRecord /\ run # "off"
    BY <1>13 DEF WriteLands, CallsInv, TypeOK
  <2>2. CallTypes' /\ CallsInv'
    BY <1>13, <2>1, GotoKeeps DEF WriteLands, procVars, Requests
  <2>3. file' \in Records /\ behind' \in BOOLEAN
    BY <1>13, <2>1, SaveKeepsOrReplaces DEF WriteLands
  <2>4. shut' \in BOOLEAN
    BY <1>13 DEF WriteLands, TypeOK
  <2> QED
    BY <1>13, <2>2, <2>3, <2>4 DEF WriteLands, TypeOK, CallTypes, procVars
<1>14. ASSUME NEW c \in Calls, Raises(c) PROVE TypeOK' /\ CallsInv'
  <2>1. current # NoRecord /\ run # "off"
    BY <1>14 DEF Raises, CallsInv, TypeOK
  <2>2. CallTypes' /\ CallsInv'
    BY <1>14, <2>1, GotoKeeps DEF Raises, procVars, Requests
  <2> QED
    BY <1>14, <2>2 DEF Raises, TypeOK, CallTypes, procVars
<1>15. CASE UNCHANGED vars
  BY <1>15 DEF vars, procVars, callVars, pastVars, flagVars, TypeOK, CallsInv
<1> QED
  BY <1>1, <1>2, <1>3, <1>4, <1>5, <1>6, <1>7, <1>8, <1>9, <1>10, <1>11, <1>12, <1>13,
     <1>14, <1>15 DEF Next, Step

(* Every variable keeps its type.                                           *)
THEOREM TypeCorrect == Spec => []TypeOK
  BY TypeInit, TypeStep, PTL DEF Spec

-----------------------------------------------------------------------------

(* Three steps write the room's record, each through a save.                *)
LEMMA SaveOrUnchanged ==
  ASSUME TypeOK, CallsInv, [Next]_vars
  PROVE  \/ UNCHANGED file
         \/ \E c \in Calls : /\ Register(c) \/ WriteLands(c)
                             /\ rec[c] \in Records /\ Save(rec[c])
         \/ \E c \in Calls : Patch(c) /\ current \in Records /\ Save(current)
<1>1. CASE Tick \/ ShutdownBegin \/ Exit \/ UNCHANGED vars
  BY <1>1 DEF Tick, ShutdownBegin, Exit, vars
<1>2. ASSUME NEW c \in Calls,
             Start(c) \/ Request(c) \/ EnsureResume(c) \/ Focus(c) \/ Act(c) \/ Beat(c)
               \/ ShutdownWrite(c) \/ Raises(c)
      PROVE  UNCHANGED file
  BY <1>2 DEF Start, Request, EnsureResume, Focus, Act, Beat, ShutdownWrite, Raises
<1>3. ASSUME NEW c \in Calls, Register(c) \/ WriteLands(c)
      PROVE  rec[c] \in Records /\ Save(rec[c])
  BY <1>3 DEF Register, WriteLands, CallsInv, Landing
<1>4. ASSUME NEW c \in Calls, Patch(c)
      PROVE  UNCHANGED file \/ (current \in Records /\ Save(current))
  BY <1>4 DEF Patch, CallsInv, TypeOK
<1> QED
  BY <1>1, <1>2, <1>3, <1>4 DEF Next, Step

-----------------------------------------------------------------------------
(* The four steps that hand over a record of their own making.              *)

(* Call c makes `next` the process's record, and holds it itself if it      *)
(* awaits a transaction.                                                    *)
Speaks(c, next) ==
  /\ next \in Records /\ next.at = time
  /\ current' = next
  /\ \A d \in Calls \ {c} : pc'[d] = pc[d] /\ kind'[d] = kind[d] /\ rec'[d] = rec[d]
  /\ Landing(c)' => rec'[c] = next
  /\ UNCHANGED <<time, file>>

LEMMA EnsureResumeSpeaks ==
  ASSUME TypeOK, CallsInv, NEW c \in Calls, EnsureResume(c)
  PROVE  \E next \in Records :
           /\ Speaks(c, next)
           /\ next.connected /\ next.focus = Existing.focus
           /\ kind'[c] # "shutdown"
<1>1. PICK status \in StatusOf(kind[c]), news \in BOOLEAN :
        WriteRecord(c, kind[c],
          [Existing EXCEPT !.status = status, !.connected = TRUE, !.at = time,
             !.stamp = IF kind[c] = "turn" THEN time ELSE @],
          news \/ kind[c] = "turn", "register", Spread(c))
  BY DEF EnsureResume
<1> DEFINE next == [Existing EXCEPT !.status = status, !.connected = TRUE, !.at = time,
                      !.stamp = IF kind[c] = "turn" THEN time ELSE @]
<1>2. /\ next \in Records /\ next.at = time
      /\ next.connected /\ next.focus = Existing.focus
  BY <1>1, ExistingIsRecord DEF Records, StatusOf, TypeOK
<1> HIDE DEF next
<1>3. /\ current' = next
      /\ Goto(c, "register", kind[c], next) \/ Goto(c, Spread(c), kind[c], next)
  BY <1>1, <1>2, WriteMakes DEF next
<1>4. kind[c] # "shutdown"
  BY DEF EnsureResume, CallsInv
<1>5. /\ \A d \in Calls \ {c} : pc'[d] = pc[d] /\ kind'[d] = kind[d] /\ rec'[d] = rec[d]
      /\ Landing(c)' => rec'[c] = next
      /\ kind'[c] # "shutdown"
  BY <1>3, <1>4 DEF Goto, TypeOK, Landing
<1> QED
  BY <1>2, <1>3, <1>5 DEF Speaks, EnsureResume

LEMMA FocusSpeaks ==
  ASSUME TypeOK, CallsInv, NEW c \in Calls, Focus(c)
  PROVE  \E next \in Records :
           /\ Speaks(c, next)
           /\ next.focus = "pinned" /\ next.connected = rec[c].connected
           /\ kind'[c] # "shutdown"
<1> DEFINE next == [rec[c] EXCEPT !.focus = "pinned", !.at = time]
<1>1. /\ next \in Records /\ next.at = time
      /\ next.focus = "pinned" /\ next.connected = rec[c].connected
  BY DEF Focus, CallsInv, TypeOK, Records
<1>2. WriteRecord(c, "focus", next, TRUE, "write", "idle")
  BY DEF Focus
<1> HIDE DEF next
<1>3. current' = next /\ (Goto(c, "write", "focus", next) \/ Goto(c, "idle", "focus", next))
  BY <1>1, <1>2, WriteMakes
<1>4. /\ \A d \in Calls \ {c} : pc'[d] = pc[d] /\ kind'[d] = kind[d] /\ rec'[d] = rec[d]
      /\ Landing(c)' => rec'[c] = next
      /\ kind'[c] # "shutdown"
  BY <1>3 DEF Goto, TypeOK, Landing
<1> QED
  BY <1>1, <1>3, <1>4 DEF Speaks, Focus

LEMMA BeatSpeaks ==
  ASSUME TypeOK, CallsInv, NEW c \in Calls, Beat(c)
  PROVE  \E next \in Records :
           /\ Speaks(c, next)
           /\ next.focus = current.focus
           /\ kind'[c] # "shutdown"
<1>1. PICK status \in {"idle", "working"}, news \in BOOLEAN :
        WriteRecord(c, "beat", [current EXCEPT !.status = status, !.at = time], news,
                    "write", "idle")
  BY DEF Beat
<1> DEFINE next == [current EXCEPT !.status = status, !.at = time]
<1>2. next \in Records /\ next.at = time /\ next.focus = current.focus
  BY DEF Beat, TypeOK, Records
<1> HIDE DEF next
<1>3. current' = next /\ (Goto(c, "write", "beat", next) \/ Goto(c, "idle", "beat", next))
  BY <1>1, <1>2, WriteMakes DEF next
<1>4. /\ \A d \in Calls \ {c} : pc'[d] = pc[d] /\ kind'[d] = kind[d] /\ rec'[d] = rec[d]
      /\ Landing(c)' => rec'[c] = next
      /\ kind'[c] # "shutdown"
  BY <1>3 DEF Goto, TypeOK, Landing
<1> QED
  BY <1>2, <1>3, <1>4 DEF Speaks, Beat

LEMMA ShutdownSpeaks ==
  ASSUME TypeOK, CallsInv, NEW c \in Calls, ShutdownWrite(c)
  PROVE  \E next \in Records :
           /\ Speaks(c, next)
           /\ next.focus = current.focus /\ ~next.connected
           /\ kind'[c] = "shutdown" => rec'[c] = next
<1>1. PICK checkpoint \in IF current.checkpoint = "none" THEN {"none", "auto"}
                                                         ELSE {current.checkpoint} :
        WriteRecord(c, "shutdown",
          [current EXCEPT !.status = "idle", !.connected = FALSE, !.at = time,
             !.checkpoint = checkpoint], TRUE, "write", "idle")
  BY DEF ShutdownWrite
<1> DEFINE next == [current EXCEPT !.status = "idle", !.connected = FALSE, !.at = time,
                      !.checkpoint = checkpoint]
<1>2. /\ next \in Records /\ next.at = time
      /\ next.focus = current.focus /\ ~next.connected
  BY <1>1 DEF ShutdownWrite, TypeOK, Records
<1> HIDE DEF next
<1>3. /\ current' = next
      /\ Goto(c, "write", "shutdown", next) \/ Goto(c, "idle", "shutdown", next)
  BY <1>1, <1>2, WriteMakes DEF next
<1>4. /\ \A d \in Calls \ {c} : pc'[d] = pc[d] /\ kind'[d] = kind[d] /\ rec'[d] = rec[d]
      /\ Landing(c)' => rec'[c] = next
      /\ kind'[c] = "shutdown" => rec'[c] = next
  BY <1>3 DEF Goto, TypeOK, Landing
<1> QED
  BY <1>2, <1>3, <1>4 DEF Speaks, ShutdownWrite

(* In the other steps of a call it has no transaction of its record ahead.  *)
Settles(c) ==
  /\ \A d \in Calls \ {c} : pc'[d] = pc[d] /\ kind'[d] = kind[d] /\ rec'[d] = rec[d]
  /\ ~Landing(c)'
  /\ kind'[c] # "shutdown"
  /\ UNCHANGED time

LEMMA OthersSettle ==
  ASSUME TypeOK, CallsInv, NEW c \in Calls,
         \/ Start(c) \/ Request(c) \/ Register(c) \/ Act(c) \/ Patch(c) \/ WriteLands(c)
         \/ Raises(c)
  PROVE  Settles(c)
<1> USE DEF Settles, Goto, TypeOK, Landing
<1>1. CASE Start(c)
  BY <1>1 DEF Start
<1>2. CASE Request(c)
  <2>1. PICK k \in Requests : Goto(c, "ensure", k, NoRecord)
    BY <1>2 DEF Request
  <2> QED  BY <1>2, <2>1 DEF Request, Requests, Acting
<1>3. CASE Register(c)
  BY <1>3 DEF Register, Spread, CallsInv
<1>4. CASE Act(c)
  BY <1>4 DEF Act, CallsInv
<1>5. CASE Patch(c) \/ WriteLands(c) \/ Raises(c)
  BY <1>5 DEF Patch, WriteLands, Raises
<1> QED
  BY <1>1, <1>2, <1>3, <1>4, <1>5

-----------------------------------------------------------------------------

(* Stamps are taken from the clock, and the process's record bears the      *)
(* latest of them.                                                          *)
ClockInv ==
  /\ current # NoRecord => current.at <= time
  /\ \A c \in Calls : Landing(c) => rec[c].at <= current.at

LEMMA ClockInit == Init => ClockInv
  BY DEF Init, ClockInv, Landing

LEMMA ClockStep == TypeOK /\ CallsInv /\ ClockInv /\ [Next]_vars => ClockInv'
<1> SUFFICES ASSUME TypeOK, CallsInv, ClockInv, [Next]_vars
             PROVE  ClockInv'
  OBVIOUS
<1>t. /\ time \in Nat
      /\ current # NoRecord => current \in Records /\ current.at \in Nat
      /\ \A c \in Calls : Landing(c) => rec[c].at \in Nat /\ current # NoRecord
      /\ \A r \in Records : r # NoRecord
  BY SessionRecordAssumption DEF TypeOK, Records, CallsInv, Landing
<1>1. CASE Tick \/ ShutdownBegin \/ UNCHANGED vars
  BY <1>1, <1>t DEF Tick, ShutdownBegin, vars, procVars, callVars, ClockInv, Landing
<1>2. CASE Exit
  BY <1>2 DEF Exit, ClockInv, Landing
<1>3. ASSUME NEW c \in Calls, NEW next \in Records, Speaks(c, next)
      PROVE  ClockInv'
  <2>1. \A d \in Calls \ {c} : Landing(d)' => Landing(d) /\ rec'[d] = rec[d]
    BY <1>3 DEF Speaks, Landing
  <2> QED
    BY <1>3, <1>t, <2>1 DEF Speaks, ClockInv
<1>4. ASSUME NEW c \in Calls, Settles(c),
             current' = current \/ (current # NoRecord /\ current'.at = time)
               \/ (current # NoRecord /\ current'.at = current.at)
      PROVE  ClockInv'
  <2>1. \A d \in Calls : Landing(d)' => Landing(d) /\ rec'[d] = rec[d]
    BY <1>4 DEF Settles, Landing
  <2> QED
    BY <1>4, <1>t, <2>1 DEF Settles, ClockInv
<1>5. ASSUME NEW c \in Calls, Act(c)
      PROVE  current # NoRecord /\ (current'.at = time \/ current'.at = current.at)
  <2>1. /\ kind[c] \in {"teamFocus", "checkpoint", "inbox"} /\ rec[c] \in Records
        /\ current \in Records
    BY <1>5 DEF Act, CallsInv, TypeOK, Acting
  <2> QED
    BY <1>5, <1>t, <2>1 DEF Act, Becomes, Records
<1>6. ASSUME NEW c \in Calls,
             Start(c) \/ Request(c) \/ Register(c) \/ Patch(c) \/ WriteLands(c) \/ Raises(c)
      PROVE  current' = current
  BY <1>6 DEF Start, Request, Register, Patch, WriteLands, Raises, procVars
<1> QED
  BY <1>1, <1>2, <1>3, <1>4, <1>5, <1>6, OthersSettle, EnsureResumeSpeaks, FocusSpeaks,
     BeatSpeaks, ShutdownSpeaks DEF Next, Step

-----------------------------------------------------------------------------

(***************************************************************************)
(* Why a closed session stays closed: a record that says connected, unless *)
(* it is late, was stamped no later than the shutdown's, first while the   *)
(* shutdown's write is under way and then when the room has it.  The       *)
(* merge's strict comparison does the rest.                                *)
(***************************************************************************)
ClosedInv ==
  /\ shut => run \in {"closed", "off"} /\ file # NoRecord
  /\ (run = "closed" /\ ~late) => ~current.connected
  /\ \A c \in Calls : kind[c] = "shutdown" =>
       /\ run = "closed" /\ ~rec[c].connected
       /\ ~late => \A d \in Calls : Landing(d) /\ rec[d].connected => rec[d].at <= rec[c].at
  /\ (run = "closed" /\ shut /\ ~late) =>
       \A d \in Calls : Landing(d) /\ rec[d].connected => rec[d].at <= file.at
  /\ ClosedStaysClosed

LEMMA ClosedInit == Init => ClosedInv
  BY DEF Init, ClosedInv, ClosedStaysClosed, Landing

(* What a save in a closed session leaves in the room.                      *)
LEMMA SaveKeepsClosed ==
  ASSUME TypeOK, ClosedInv, NEW r \in Records, Save(r),
         run = "closed", shut, ~late, r.connected => r.at <= file.at
  PROVE  /\ file' # NoRecord /\ ~file'.connected
         /\ \A x \in Nat : x <= file.at => x <= file'.at
<1>1. file \in Records /\ ~file.connected
  BY DEF ClosedInv, ClosedStaysClosed, TypeOK
<1>2. \A x \in Records : x.at \in Nat /\ x # NoRecord
  BY SessionRecordAssumption DEF Records
<1> QED
  BY <1>1, <1>2, SaveKeepsOrReplaces

LEMMA ClosedStep ==
  TypeOK /\ CallsInv /\ ClockInv /\ ClosedInv /\ [Next]_vars => ClosedInv'
<1> SUFFICES ASSUME TypeOK, CallsInv, ClockInv, ClosedInv, [Next]_vars
             PROVE  ClosedInv'
  OBVIOUS
<1>t. /\ time \in Nat
      /\ current # NoRecord => current \in Records /\ current.at \in Nat
      /\ \A c \in Calls : Landing(c) => /\ rec[c] \in Records /\ rec[c].at \in Nat
                                       /\ current # NoRecord /\ rec[c].at <= time
      /\ \A r \in Records : r # NoRecord /\ r.at \in Nat
  BY SessionRecordAssumption DEF TypeOK, Records, CallsInv, ClockInv, Landing
<1>1. CASE Tick \/ UNCHANGED vars
  BY <1>1 DEF Tick, vars, procVars, callVars, pastVars, flagVars, ClosedInv, ClosedStaysClosed,
              Landing
<1>2. CASE ShutdownBegin
  BY <1>2 DEF ShutdownBegin, callVars, pastVars, flagVars, ClosedInv, ClosedStaysClosed, Landing
<1>3. CASE Exit
  BY <1>3 DEF Exit, ClosedInv, ClosedStaysClosed, Landing
<1>4. ASSUME NEW c \in Calls, Start(c) PROVE ClosedInv'
  <2>1. Settles(c)
    BY <1>4, OthersSettle
  <2>2. \A d \in Calls : kind'[d] # "shutdown"
    BY <1>4, <2>1 DEF Start, Settles, CallsInv
  <2> QED
    BY <1>4, <2>2 DEF Start, ClosedInv, ClosedStaysClosed
<1>5. ASSUME NEW c \in Calls, Request(c) \/ Raises(c) PROVE ClosedInv'
  <2>1. Settles(c)
    BY <1>5, OthersSettle
  <2>2. UNCHANGED <<file, current, run, shut, late>>
    BY <1>5 DEF Request, Raises, procVars, flagVars
  <2>3. \A d \in Calls : /\ Landing(d)' => Landing(d) /\ rec'[d] = rec[d]
                         /\ kind'[d] = "shutdown" => kind[d] = "shutdown" /\ rec'[d] = rec[d]
    BY <2>1 DEF Settles, Landing
  <2> QED
    BY <2>2, <2>3 DEF ClosedInv, ClosedStaysClosed
<1>6. ASSUME NEW c \in Calls, EnsureResume(c) PROVE ClosedInv'
  <2>1. PICK next \in Records :
          Speaks(c, next) /\ next.connected /\ kind'[c] # "shutdown"
    BY <1>6, EnsureResumeSpeaks
  <2>2. /\ UNCHANGED <<file, run, shut>> /\ run # "off"
        /\ run = "closed" => late'
    BY <1>6, <2>1 DEF EnsureResume, NoteLate, Speaks, CallsInv
  <2>3. \A d \in Calls : kind'[d] = "shutdown" => kind[d] = "shutdown" /\ rec'[d] = rec[d]
    BY <2>1 DEF Speaks
  <2> QED
    BY <2>2, <2>3 DEF ClosedInv, ClosedStaysClosed
<1>7. ASSUME NEW c \in Calls, Focus(c) PROVE ClosedInv'
  <2>1. PICK next \in Records : Speaks(c, next) /\ kind'[c] # "shutdown"
    BY <1>7, FocusSpeaks
  <2>2. /\ UNCHANGED <<file, run, shut>> /\ run # "off"
        /\ ~late' => ~late
        /\ run = "closed" /\ ~late' => ~next.connected
    BY <1>7, <2>1 DEF Focus, NoteLate, Speaks, CallsInv
  <2>3. \A d \in Calls : kind'[d] = "shutdown" => kind[d] = "shutdown" /\ rec'[d] = rec[d]
    BY <2>1 DEF Speaks
  <2>4. \A d \in Calls : Landing(d)' => (Landing(d) /\ rec'[d] = rec[d]) \/ rec'[d] = next
    BY <2>1 DEF Speaks, Landing
  <2>5. current' = next
    BY <2>1 DEF Speaks
  <2> QED
    BY <2>2, <2>3, <2>4, <2>5 DEF ClosedInv, ClosedStaysClosed
<1>8. ASSUME NEW c \in Calls, Act(c) PROVE ClosedInv'
  <2>1. Settles(c)
    BY <1>8, OthersSettle
  <2>2. /\ UNCHANGED <<file, run, shut>> /\ run # "off"
        /\ ~late' => ~late
        /\ run = "closed" /\ ~late' => ~current'.connected
    BY <1>8 DEF Act, NoteLate, CallsInv
  <2>3. \A d \in Calls : /\ Landing(d)' => Landing(d) /\ rec'[d] = rec[d]
                         /\ kind'[d] = "shutdown" => kind[d] = "shutdown" /\ rec'[d] = rec[d]
    BY <2>1 DEF Settles, Landing
  <2> QED
    BY <2>2, <2>3 DEF ClosedInv, ClosedStaysClosed
<1>9. ASSUME NEW c \in Calls, Beat(c) PROVE ClosedInv'
  <2>1. PICK next \in Records : Speaks(c, next) /\ kind'[c] # "shutdown"
    BY <1>9, BeatSpeaks
  <2>2. UNCHANGED <<file, run, shut, late>> /\ run \in {"open", "flushing"}
    BY <1>9 DEF Beat, flagVars, Speaks
  <2>3. \A d \in Calls : kind'[d] # "shutdown"
    BY <2>1, <2>2 DEF Speaks, ClosedInv
  <2> QED
    BY <2>2, <2>3 DEF ClosedInv, ClosedStaysClosed
<1>10. ASSUME NEW c \in Calls, ShutdownWrite(c) PROVE ClosedInv'
  <2>1. PICK next \in Records :
          Speaks(c, next) /\ ~next.connected /\ (kind'[c] = "shutdown" => rec'[c] = next)
    BY <1>10, ShutdownSpeaks
  <2>2. UNCHANGED <<shut, late>> /\ run = "flushing" /\ run' = "closed"
    BY <1>10 DEF ShutdownWrite, pastVars, flagVars
  <2>3. ~shut /\ \A d \in Calls : kind[d] # "shutdown"
    BY <2>2 DEF ClosedInv
  <2>4. \A d \in Calls : kind'[d] = "shutdown" => d = c
    BY <2>1, <2>3 DEF Speaks
  <2>5. \A d \in Calls : Landing(d)' /\ rec'[d].connected => rec'[d].at <= next.at
    <3>1. \A d \in Calls : Landing(d)' => (Landing(d) /\ rec'[d] = rec[d]) \/ rec'[d] = next
      BY <2>1 DEF Speaks, Landing
    <3> QED  BY <2>1, <3>1, <1>t DEF Speaks
  <2>6. current' = next
    BY <2>1 DEF Speaks
  <2> QED
    BY <2>1, <2>2, <2>3, <2>4, <2>5, <2>6 DEF ClosedInv, ClosedStaysClosed
<1>11. ASSUME NEW c \in Calls, Register(c) \/ WriteLands(c) PROVE ClosedInv'
  <2>1. Settles(c)
    BY <1>11, OthersSettle
  <2>2. /\ UNCHANGED <<current, run, late>> /\ run # "off"
        /\ rec[c] \in Records /\ Save(rec[c]) /\ Landing(c)
        /\ shut' => shut \/ (kind[c] = "shutdown" /\ file' = rec[c])
    <3>1. CASE Register(c)
      BY <3>1 DEF Register, procVars, CallsInv, Landing
    <3>2. CASE WriteLands(c)
      <4>1. shut' => shut \/ (kind[c] = "shutdown" /\ file' = rec[c])
        BY <3>2 DEF WriteLands
      <4> QED  BY <3>2, <4>1 DEF WriteLands, procVars, CallsInv, Landing
    <3> QED  BY <1>11, <3>1, <3>2
  <2>3. \A d \in Calls : /\ Landing(d)' => Landing(d) /\ rec'[d] = rec[d]
                         /\ kind'[d] = "shutdown" => kind[d] = "shutdown" /\ rec'[d] = rec[d]
    BY <2>1 DEF Settles, Landing
  <2>4. ASSUME shut', run = "closed", ~late
        PROVE  /\ file' # NoRecord /\ ~file'.connected
               /\ \A d \in Calls : Landing(d) /\ rec[d].connected => rec[d].at <= file'.at
    <3>1. CASE shut
      BY <1>t, <2>2, <2>4, <3>1, SaveKeepsClosed DEF ClosedInv
    <3>2. CASE kind[c] = "shutdown" /\ file' = rec[c]
      BY <1>t, <2>2, <2>4, <3>2 DEF ClosedInv
    <3> QED  BY <2>2, <2>4, <3>1, <3>2
  <2>5. shut' => run = "closed" /\ file' # NoRecord
    BY <1>t, <2>2, SaveKeepsOrReplaces DEF ClosedInv
  <2> QED
    BY <2>2, <2>3, <2>4, <2>5 DEF ClosedInv, ClosedStaysClosed
<1>12. ASSUME NEW c \in Calls, Patch(c) PROVE ClosedInv'
  <2>1. Settles(c)
    BY <1>12, OthersSettle
  <2>2. /\ UNCHANGED <<current, run, shut, late>> /\ run # "off" /\ current \in Records
        /\ file # NoRecord => Save(current)
        /\ file = NoRecord => UNCHANGED file
    BY <1>12 DEF Patch, procVars, CallsInv, TypeOK
  <2>3. \A d \in Calls : /\ Landing(d)' => Landing(d) /\ rec'[d] = rec[d]
                         /\ kind'[d] = "shutdown" => kind[d] = "shutdown" /\ rec'[d] = rec[d]
    BY <2>1 DEF Settles, Landing
  <2>4. ASSUME shut, run = "closed", ~late
        PROVE  /\ file' # NoRecord /\ ~file'.connected
               /\ \A d \in Calls : Landing(d) /\ rec[d].connected => rec[d].at <= file'.at
    BY <1>t, <2>2, <2>4, SaveKeepsClosed DEF ClosedInv
  <2>5. shut => run = "closed" /\ file' # NoRecord
    BY <1>t, <2>2, SaveKeepsOrReplaces DEF ClosedInv
  <2> QED
    BY <2>2, <2>3, <2>4, <2>5 DEF ClosedInv, ClosedStaysClosed
<1> QED
  BY <1>1, <1>2, <1>3, <1>4, <1>5, <1>6, <1>7, <1>8, <1>9, <1>10, <1>11, <1>12 DEF Next, Step

(* Once the room has taken a shutdown record, no write of that process      *)
(* still under way makes the session connected again.                       *)
THEOREM ClosedStaysClosedHolds == Spec => []ClosedStaysClosed
<1>1. ClosedInv => ClosedStaysClosed
  BY DEF ClosedInv
<1> QED
  BY <1>1, TypeInit, TypeStep, ClockInit, ClockStep, ClosedInit, ClosedStep, PTL DEF Spec

-----------------------------------------------------------------------------

(***************************************************************************)
(* Why a pinned focus stays: once any record has it the process's has it,  *)
(* so every record made from then on has it too, and those made before,    *)
(* which do not, are stamped no later than any that does.                  *)
(***************************************************************************)
PinInv ==
  /\ current # NoRecord =>
       /\ file # NoRecord /\ file.focus = "pinned" => current.focus = "pinned"
       /\ \A c \in Calls : Landing(c) /\ rec[c].focus = "pinned" => current.focus = "pinned"
  /\ \A c \in Calls : Landing(c) /\ rec[c].focus = "prompt" =>
       /\ file # NoRecord /\ file.focus = "pinned" => rec[c].at <= file.at
       /\ \A d \in Calls : Landing(d) /\ rec[d].focus = "pinned" => rec[c].at <= rec[d].at

LEMMA PinInit == Init => PinInv
  BY DEF Init, PinInv, Landing

(* A pinned focus survives the saves that can happen.                       *)
LEMMA SaveKeepsPin ==
  ASSUME TypeOK, NEW r \in Records, Save(r),
         file # NoRecord /\ file.focus = "pinned" /\ r.focus = "prompt" => r.at <= file.at
  PROVE  file # NoRecord /\ file.focus = "pinned" => file'.focus = "pinned"
<1>1. file \in Records \cup {NoRecord}
  BY DEF TypeOK
<1>2. \A x \in Records : x.at \in Nat /\ x.focus \in {"prompt", "pinned"}
  BY DEF Records
<1> QED
  BY <1>1, <1>2, SaveKeepsOrReplaces

LEMMA PinStep ==
  TypeOK /\ CallsInv /\ ClockInv /\ PinInv /\ [Next]_vars => PinInv'
<1> SUFFICES ASSUME TypeOK, CallsInv, ClockInv, PinInv, [Next]_vars
             PROVE  PinInv'
  OBVIOUS
<1>t. /\ time \in Nat
      /\ file \in Records \cup {NoRecord}
      /\ current # NoRecord => current \in Records /\ current.at \in Nat
      /\ \A c \in Calls : Landing(c) => /\ rec[c] \in Records /\ rec[c].at \in Nat
                                       /\ rec[c].at <= current.at
                                       /\ current # NoRecord /\ rec[c].at <= time
      /\ \A r \in Records : r # NoRecord /\ r.at \in Nat /\ r.focus \in {"prompt", "pinned"}
  BY SessionRecordAssumption DEF TypeOK, Records, CallsInv, ClockInv, Landing
<1>1. CASE Tick \/ ShutdownBegin \/ UNCHANGED vars
  BY <1>1 DEF Tick, ShutdownBegin, vars, procVars, callVars, PinInv, Landing
<1>2. CASE Exit
  BY <1>2 DEF Exit, PinInv, Landing
<1>3. ASSUME NEW c \in Calls, NEW next \in Records, Speaks(c, next),
             next.focus = "prompt" =>
               IF current # NoRecord THEN current.focus = "prompt"
                                     ELSE file = NoRecord \/ file.focus = "prompt"
      PROVE  PinInv'
  <2>1. /\ \A d \in Calls : Landing(d)' => (Landing(d) /\ rec'[d] = rec[d]) \/ rec'[d] = next
        /\ current' = next /\ file' = file /\ next.at = time
    BY <1>3 DEF Speaks, Landing
  <2>2. CASE next.focus = "pinned"
    <3>1. \A d \in Calls : Landing(d)' /\ rec'[d].focus = "prompt" => Landing(d) /\ rec'[d] = rec[d]
      BY <2>1, <2>2
    <3> QED  BY <2>1, <2>2, <3>1, <1>t DEF PinInv
  <2>3. CASE next.focus = "prompt"
    <3>1. /\ file = NoRecord \/ file.focus = "prompt"
          /\ \A d \in Calls : Landing(d) => rec[d].focus = "prompt"
      BY <1>3, <2>3, <1>t DEF PinInv
    <3> QED  BY <2>1, <2>3, <3>1, <1>t DEF PinInv
  <2> QED
    BY <1>t, <2>2, <2>3
<1>4. ASSUME NEW c \in Calls, EnsureResume(c) PROVE PinInv'
  <2>1. PICK next \in Records : Speaks(c, next) /\ next.focus = Existing.focus
    BY <1>4, EnsureResumeSpeaks
  <2>2. next.focus = "prompt" =>
          IF current # NoRecord THEN current.focus = "prompt"
                                ELSE file = NoRecord \/ file.focus = "prompt"
    BY <2>1 DEF Existing
  <2> QED  BY <1>3, <2>1, <2>2
<1>5. ASSUME NEW c \in Calls, Focus(c) PROVE PinInv'
  <2>1. PICK next \in Records : Speaks(c, next) /\ next.focus = "pinned"
    BY <1>5, FocusSpeaks
  <2> QED  BY <1>3, <2>1
<1>6. ASSUME NEW c \in Calls, Beat(c) \/ ShutdownWrite(c) PROVE PinInv'
  <2>1. PICK next \in Records : Speaks(c, next) /\ next.focus = current.focus
    BY <1>6, BeatSpeaks, ShutdownSpeaks
  <2>2. current # NoRecord
    BY <1>6 DEF Beat, ShutdownWrite
  <2> QED  BY <1>3, <2>1, <2>2
<1>7. ASSUME NEW c \in Calls,
             Start(c) \/ Request(c) \/ Raises(c) \/ Register(c) \/ WriteLands(c) \/ Patch(c)
               \/ Act(c)
      PROVE  \A d \in Calls : Landing(d)' => Landing(d) /\ rec'[d] = rec[d]
  BY <1>7, OthersSettle DEF Settles, Landing
<1>8. ASSUME NEW c \in Calls, Start(c) \/ Request(c) \/ Raises(c) PROVE PinInv'
  <2>1. UNCHANGED <<file, current>>
    BY <1>8 DEF Start, Request, Raises, procVars
  <2> QED  BY <1>7, <1>8, <2>1 DEF PinInv
<1>9. ASSUME NEW c \in Calls, Act(c) PROVE PinInv'
  <2>1. /\ kind[c] \in {"teamFocus", "checkpoint", "inbox"} /\ rec[c] \in Records
        /\ current \in Records /\ current # NoRecord
    BY <1>9 DEF Act, CallsInv, TypeOK, Acting
  <2>2. current.focus = "pinned" => current'.focus = "pinned"
    BY <1>9, <2>1 DEF Act, Becomes, Records
  <2>3. UNCHANGED file
    BY <1>9 DEF Act
  <2> QED  BY <1>7, <1>9, <2>1, <2>2, <2>3 DEF PinInv
<1>10. ASSUME NEW c \in Calls, Register(c) \/ WriteLands(c) PROVE PinInv'
  <2>1. /\ UNCHANGED current /\ current # NoRecord
        /\ rec[c] \in Records /\ Save(rec[c]) /\ Landing(c)
    BY <1>10 DEF Register, WriteLands, procVars, CallsInv, Landing
  <2>2. \/ file' = file
        \/ file' = rec[c] /\ (file # NoRecord => rec[c].at > file.at)
    BY <2>1, SaveKeepsOrReplaces
  <2> QED  BY <1>7, <1>10, <1>t, <2>1, <2>2 DEF PinInv
<1>11. ASSUME NEW c \in Calls, Patch(c) PROVE PinInv'
  <2>1. /\ UNCHANGED current /\ current \in Records /\ current # NoRecord
        /\ file # NoRecord => Save(current)
        /\ file = NoRecord => UNCHANGED file
    BY <1>11 DEF Patch, procVars, CallsInv, TypeOK
  <2>2. file' = file \/ file' = current
    BY <2>1, SaveKeepsOrReplaces
  <2> QED  BY <1>7, <1>11, <1>t, <2>1, <2>2 DEF PinInv
<1> QED
  BY <1>1, <1>2, <1>4, <1>5, <1>6, <1>8, <1>9, <1>10, <1>11 DEF Next, Step

(* A pinned focus stays pinned in the room, over turns, restarts and writes *)
(* that land out of order.                                                  *)
THEOREM PinnedKeptHolds == Spec => PinnedKept
<1>1. ASSUME TypeOK, CallsInv, ClockInv, PinInv, [Next]_vars
      PROVE  [file # NoRecord /\ file.focus = "pinned" => file'.focus = "pinned"]_file
  <2>1. ASSUME NEW c \in Calls, Register(c) \/ WriteLands(c), rec[c] \in Records, Save(rec[c])
        PROVE  file # NoRecord /\ file.focus = "pinned" => file'.focus = "pinned"
    <3>1. Landing(c)
      BY <2>1 DEF Register, WriteLands, Landing
    <3> QED  BY <1>1, <2>1, <3>1, SaveKeepsPin DEF PinInv
  <2>2. ASSUME NEW c \in Calls, Patch(c), current \in Records, Save(current)
        PROVE  file # NoRecord /\ file.focus = "pinned" => file'.focus = "pinned"
    <3>1. current # NoRecord
      BY <1>1, <2>2 DEF Patch, CallsInv
    <3> QED  BY <1>1, <2>2, <3>1, SaveKeepsPin DEF PinInv
  <2> QED
    BY <1>1, <2>1, <2>2, SaveOrUnchanged
<1> QED
  BY <1>1, TypeInit, TypeStep, ClockInit, ClockStep, PinInit, PinStep, PTL
     DEF Spec, PinnedKept

-----------------------------------------------------------------------------

(* What the room has or is being told of the record.                        *)
Told == {file} \cup {rec[c] : c \in {d \in Calls : Landing(d)}}

(* Of those, one that is stamped no earlier than the rest, and so is the    *)
(* one that stays, shows what the process's record shows.                   *)
Shows ==
  \E r \in Told : Agree(r, current) /\ \A q \in Told : q # NoRecord => q.at <= r.at

(***************************************************************************)
(* Why a quiet room is up to date: unless the process is behind, what the  *)
(* room will be left with shows its record already, or a transaction that  *)
(* will save that record is under way.  A write may be skipped because     *)
(* `written` has the status and, for a connected record, the presence of   *)
(* the process's record; `written` need not have the focus or the          *)
(* checkpoint, which patches change behind its back.                       *)
(***************************************************************************)
ShownInv ==
  /\ run = "off" => current = NoRecord
  /\ current = NoRecord <=> written = NoRecord
  /\ file # NoRecord => file.at <= time /\ (current # NoRecord => file.at <= current.at)
  /\ \A c \in Calls : pc[c] \in {"register", "act"} => rec[c].connected
  /\ current # NoRecord /\ ~behind =>
       /\ written.status = current.status /\ (written.connected => current.connected)
       /\ Shows \/ \E c \in Calls : pc[c] = "patch"

LEMMA ShownInit == Init => ShownInv
  BY DEF Init, ShownInv

(* The facts about the clock and the types that the steps below rest on.    *)
LEMMA ShownTypes ==
  ASSUME TypeOK, CallsInv, ClockInv, ShownInv
  PROVE  /\ time \in Nat
         /\ file \in Records \cup {NoRecord}
         /\ file # NoRecord => file.at <= time
         /\ current # NoRecord => current \in Records /\ current.at \in Nat /\ current.at <= time
         /\ written # NoRecord => written \in Records
         /\ \A c \in Calls : Landing(c) => /\ rec[c] \in Records /\ rec[c] \in Told
                                          /\ current # NoRecord
                                          /\ rec[c].at <= current.at /\ rec[c].at <= time
         /\ \A r \in Records : r # NoRecord /\ r.at \in Nat
         /\ \A r \in Told : r # NoRecord => r \in Records
<1>1. /\ time \in Nat
      /\ file \in Records \cup {NoRecord}
      /\ file # NoRecord => file.at <= time
      /\ \A r \in Records : r # NoRecord /\ r.at \in Nat
      /\ written # NoRecord => written \in Records
  BY SessionRecordAssumption DEF TypeOK, ShownInv, Records
<1>2. current # NoRecord => current \in Records /\ current.at \in Nat /\ current.at <= time
  BY <1>1 DEF TypeOK, ClockInv
<1>3. \A c \in Calls : Landing(c) => rec[c] \in Records /\ rec[c] \in Told /\ current # NoRecord
  BY DEF CallsInv, Landing, Told
<1>4. \A c \in Calls : Landing(c) => rec[c].at <= current.at /\ rec[c].at <= time
  BY <1>1, <1>2, <1>3 DEF ClockInv
<1>5. \A r \in Told : r # NoRecord => r \in Records
  BY <1>1, <1>3 DEF Told
<1> QED
  BY <1>1, <1>2, <1>3, <1>4, <1>5

(* A write hands its record over, or is skipped because what was handed     *)
(* over last already shows it.                                              *)
LEMMA HandsOverOrSkips ==
  ASSUME TypeOK, NEW c \in Calls, NEW k, NEW next \in Records, NEW force \in BOOLEAN,
         NEW awaiting \in {"register", "write"}, NEW goingOn \in {"idle", "act"},
         WriteRecord(c, k, next, force, awaiting, goingOn)
  PROVE  \/ pc'[c] = awaiting /\ rec'[c] = next /\ written' = next
         \/ /\ ~force /\ pc'[c] = goingOn /\ (goingOn = "act" => rec'[c] = next)
            /\ UNCHANGED written /\ Agree(written, next)
<1>1. CASE ~force /\ ~Changed(next) /\ time - lastWrite < HeartbeatMs
  <2>1. Goto(c, goingOn, k, next) /\ UNCHANGED written
    BY <1>1 DEF WriteRecord
  <2>2. written \in Records /\ Content(written) = Content(next)
    BY <1>1 DEF Changed, TypeOK
  <2>3. Agree(written, next)
    BY <2>2, SessionRecordAssumption DEF Content, Agree, Records
  <2> QED
    BY <1>1, <2>1, <2>3 DEF Goto, TypeOK
<1>2. CASE ~(~force /\ ~Changed(next) /\ time - lastWrite < HeartbeatMs)
  BY <1>2 DEF WriteRecord, Goto, TypeOK
<1> QED
  BY <1>1, <1>2

(* Either way the room will be left with what the process now says.         *)
LEMMA SpeaksShown ==
  ASSUME TypeOK, CallsInv, ClockInv, ShownInv, NEW c \in Calls, NEW next \in Records,
         Speaks(c, next), UNCHANGED behind, run' # "off",
         pc[c] \in {"idle", "ensure", "act"}, pc'[c] # "patch",
         pc'[c] \in {"register", "act"} => rec'[c].connected,
         \/ Landing(c)' /\ rec'[c] = next /\ written' = next
         \/ /\ ~Landing(c)' /\ UNCHANGED written /\ Agree(written, next)
            /\ current # NoRecord => /\ next.focus = current.focus
                                     /\ next.checkpoint = current.checkpoint
                                     /\ current.connected => next.connected
  PROVE  ShownInv'
<1>t. /\ time \in Nat /\ next.at = time /\ next # NoRecord
      /\ current' = next /\ file' = file /\ time' = time
      /\ file # NoRecord => file.at <= time
  BY ShownTypes DEF Speaks
<1>1. \A d \in Calls : d # c => pc'[d] = pc[d] /\ rec'[d] = rec[d]
  BY DEF Speaks
<1>2. \A d \in Calls : pc'[d] \in {"register", "act"} => rec'[d].connected
  BY <1>1 DEF ShownInv
<1>3. CASE Landing(c)' /\ rec'[c] = next /\ written' = next
  <2>1. next \in Told'
    BY <1>3 DEF Told, Landing
  <2>2. \A q \in Told' : q = file \/ q = next \/ \E d \in Calls : Landing(d) /\ q = rec[d]
    BY <1>1, <1>3, <1>t DEF Told, Landing
  <2>3. \A q \in Told' : q # NoRecord => q.at <= next.at
    BY <2>2, <1>t, ShownTypes
  <2>4. Agree(next, current')
    BY <1>t DEF Agree
  <2>5. Shows'
    BY <2>1, <2>3, <2>4 DEF Shows, Agree
  <2> QED
    BY <1>t, <1>2, <1>3, <2>5 DEF ShownInv
<1>4. CASE ~Landing(c)' /\ UNCHANGED written /\ Agree(written, next)
             /\ (current # NoRecord => /\ next.focus = current.focus
                                       /\ next.checkpoint = current.checkpoint
                                       /\ current.connected => next.connected)
  <2>1. Told' = Told
    <3>1. \A d \in Calls : Landing(d)' <=> Landing(d)
      BY <1>1, <1>4 DEF Landing
    <3>2. \A d \in Calls : Landing(d) => rec'[d] = rec[d]
      BY <1>1, <3>1, <1>4
    <3> QED  BY <1>t, <3>1, <3>2 DEF Told
  <2>2. current # NoRecord /\ written # NoRecord
    BY <1>4 DEF Agree, ShownInv
  <2>3. ASSUME ~behind PROVE next.status = current.status /\ next.connected = current.connected
    <3>1. next.connected \in BOOLEAN /\ current.connected \in BOOLEAN
      BY <2>2 DEF TypeOK, Records
    <3> QED  BY <1>4, <2>2, <2>3, <3>1 DEF Agree, ShownInv
  <2>4. ASSUME ~behind, Shows PROVE Shows'
    <3>1. PICK r \in Told : Agree(r, current) /\ \A q \in Told : q # NoRecord => q.at <= r.at
      BY <2>4 DEF Shows
    <3>2. Agree(r, current')
      BY <1>t, <1>4, <2>2, <2>3, <2>4, <3>1 DEF Agree
    <3> QED  BY <2>1, <3>1, <3>2 DEF Shows, Agree
  <2>5. (\E d \in Calls : pc[d] = "patch") => \E d \in Calls : pc'[d] = "patch"
    BY <1>1
  <2>6. ~behind => written'.status = current'.status /\ (written'.connected => current'.connected)
    BY <1>4, <1>t DEF Agree
  <2> QED
    BY <1>t, <1>2, <1>4, <2>2, <2>4, <2>5, <2>6 DEF ShownInv
<1> QED
  BY <1>3, <1>4

(* A save keeps the latest of what the room has or is being told.           *)
LEMMA SaveShown ==
  ASSUME TypeOK, CallsInv, ClockInv, ShownInv, NEW r \in Records, Save(r),
         current # NoRecord, r.at <= current.at, r \in Told \/ r = current,
         UNCHANGED <<time, current, written, run>>, run # "off",
         \A d \in Calls : Landing(d)' => Landing(d) /\ rec'[d] = rec[d],
         \A d \in Calls : pc'[d] \in {"register", "act"} => rec'[d].connected,
         ~behind' => \/ file' = current
                     \/ /\ \A d \in Calls : Landing(d) => Landing(d)' \/ rec[d] = r
                        /\ \A d \in Calls : pc[d] = "patch" => pc'[d] = "patch"
  PROVE  ShownInv'
<1>t. /\ time \in Nat /\ current \in Records /\ current.at \in Nat /\ current.at <= time
      /\ \A x \in Records : x # NoRecord /\ x.at \in Nat
  BY ShownTypes
<1>1. \/ file' = file /\ file \in Records /\ r.at <= file.at
      \/ file' = r /\ (file # NoRecord => r.at > file.at)
  BY SaveKeepsOrReplaces
<1>2. file' # NoRecord /\ file'.at <= time' /\ file'.at <= current'.at
  BY <1>1, <1>t DEF ShownInv
<1>3. \A q \in Told' : q = file' \/ \E d \in Calls : Landing(d)' /\ Landing(d) /\ q = rec[d]
  BY DEF Told
<1>4. CASE file' = current
  <2>1. \A q \in Told' : q # NoRecord => q.at <= current.at
    BY <1>3, <1>4, <1>t, ShownTypes
  <2>2. current \in Told' /\ Agree(current, current)
    BY <1>4 DEF Told, Agree
  <2>3. Shows'
    BY <2>1, <2>2 DEF Shows, Agree
  <2>4. ~behind' => written.status = current.status /\ (written.connected => current.connected)
    BY <1>4, <1>t DEF Save, Agree, ShownInv
  <2> QED
    BY <1>2, <2>3, <2>4 DEF ShownInv
<1>5. CASE file' # current
  <2>1. ~behind' => ~behind /\ (file # NoRecord => r.at # file.at)
    BY <1>5 DEF Save
  <2>2. ASSUME ~behind', Shows PROVE Shows'
    <3>1. PICK s \in Told : Agree(s, current) /\ \A q \in Told : q # NoRecord => q.at <= s.at
      BY <2>2 DEF Shows
    <3>2. s # NoRecord /\ s \in Records
      BY <3>1, ShownTypes DEF Agree
    <3>3. file \in Told
      BY DEF Told
    <3>4. file' \in Told
      BY <1>1, <1>5, <3>3
    <3>5. s \in Told'
      <4>1. ASSUME NEW d \in Calls, Landing(d), s = rec[d], Landing(d)' PROVE s \in Told'
        BY <4>1 DEF Told
      <4>2. CASE s = file
        BY <1>1, <1>t, <2>1, <2>2, <3>1, <3>2, <3>4, <4>2 DEF Told
      <4>3. CASE s = r
        BY <1>1, <1>t, <2>1, <2>2, <3>1, <3>2, <3>3, <4>3 DEF Told
      <4> QED  BY <1>5, <2>2, <3>1, <4>1, <4>2, <4>3 DEF Told
    <3>6. \A q \in Told' : q \in Told
      BY <1>1, <1>3, <3>3, <3>4, ShownTypes
    <3> QED  BY <3>1, <3>5, <3>6 DEF Shows, Agree
  <2>3. ~behind' /\ (\E d \in Calls : pc[d] = "patch") => \E d \in Calls : pc'[d] = "patch"
    BY <1>5
  <2> QED
    BY <1>2, <2>1, <2>2, <2>3 DEF ShownInv
<1> QED
  BY <1>4, <1>5

LEMMA ShownStep ==
  TypeOK /\ CallsInv /\ ClockInv /\ ShownInv /\ [Next]_vars => ShownInv'
<1> SUFFICES ASSUME TypeOK, CallsInv, ClockInv, ShownInv, [Next]_vars
             PROVE  ShownInv'
  OBVIOUS
<1>1. CASE Tick
  <2>1. /\ UNCHANGED <<file, current, written, run, pc, rec, behind>>
        /\ time \in Nat /\ time' = time + 1
    BY <1>1, ShownTypes DEF Tick, procVars, callVars, pastVars, flagVars
  <2>2. Told' = Told /\ (file # NoRecord => file.at \in Nat)
    BY <2>1, ShownTypes DEF Told, Landing
  <2> QED
    BY <2>1, <2>2 DEF ShownInv, Shows, Agree
<1>2. CASE ShutdownBegin \/ UNCHANGED vars
  <2>1. UNCHANGED <<time, file, current, written, pc, rec, behind>> /\ (run' = "off" => run = "off")
    BY <1>2 DEF ShutdownBegin, vars, procVars, callVars, pastVars, flagVars
  <2>2. Told' = Told
    BY <2>1 DEF Told, Landing
  <2> QED
    BY <2>1, <2>2 DEF ShownInv, Shows, Agree
<1>3. CASE Exit
  BY <1>3 DEF Exit, ShownInv
<1>4. ASSUME NEW c \in Calls, Start(c) PROVE ShownInv'
  <2>1. /\ current = NoRecord /\ UNCHANGED <<time, file, current, written>>
        /\ run' # "off" /\ pc'[c] = "ensure"
    BY <1>4 DEF Start, ShownInv, Goto, TypeOK
  <2>2. Settles(c)
    BY <1>4, OthersSettle
  <2> QED
    BY <2>1, <2>2 DEF ShownInv, Settles
<1>5. ASSUME NEW c \in Calls, Request(c) PROVE ShownInv'
  <2>1. /\ UNCHANGED <<time, file, current, written, behind, run>>
        /\ pc[c] = "idle" /\ pc'[c] = "ensure"
    BY <1>5 DEF Request, procVars, flagVars, Goto, TypeOK
  <2>2. \A d \in Calls : d # c => pc'[d] = pc[d] /\ rec'[d] = rec[d]
    BY <1>5, OthersSettle DEF Settles
  <2>3. Told' = Told
    <3>1. \A d \in Calls : (Landing(d)' <=> Landing(d)) /\ (Landing(d) => rec'[d] = rec[d])
      BY <2>1, <2>2 DEF Landing
    <3> QED  BY <2>1, <3>1 DEF Told
  <2>4. Shows => Shows'
    BY <2>1, <2>3 DEF Shows, Agree
  <2>5. /\ (\E d \in Calls : pc[d] = "patch") => \E d \in Calls : pc'[d] = "patch"
        /\ \A d \in Calls : pc'[d] \in {"register", "act"} => rec'[d].connected
    BY <2>1, <2>2 DEF ShownInv
  <2> QED
    BY <2>1, <2>4, <2>5 DEF ShownInv
<1>6. ASSUME NEW c \in Calls, EnsureResume(c) PROVE ShownInv'
  <2>1. PICK status \in StatusOf(kind[c]), news \in BOOLEAN :
          WriteRecord(c, kind[c],
            [Existing EXCEPT !.status = status, !.connected = TRUE, !.at = time,
               !.stamp = IF kind[c] = "turn" THEN time ELSE @],
            news \/ kind[c] = "turn", "register", Spread(c))
    BY <1>6 DEF EnsureResume
  <2> DEFINE next == [Existing EXCEPT !.status = status, !.connected = TRUE, !.at = time,
                        !.stamp = IF kind[c] = "turn" THEN time ELSE @]
  <2>2. /\ next \in Records
        /\ next.connected /\ next.focus = Existing.focus /\ next.checkpoint = Existing.checkpoint
    BY <2>1, ExistingIsRecord DEF Records, StatusOf, TypeOK
  <2>3. next = current'
    BY <2>1, <2>2, WriteMakes
  <2> DEFINE force == news \/ kind[c] = "turn"
  <2>w. force \in BOOLEAN /\ WriteRecord(c, kind[c], next, force, "register", Spread(c))
    BY <2>1
  <2> HIDE DEF next, force
  <2>4. Speaks(c, next)
    BY <1>6, <2>3, EnsureResumeSpeaks DEF Speaks
  <2>5. Spread(c) \in {"idle", "act"}
    BY DEF Spread
  <2>6. \/ pc'[c] = "register" /\ rec'[c] = next /\ written' = next
        \/ /\ pc'[c] = Spread(c) /\ (Spread(c) = "act" => rec'[c] = next)
           /\ UNCHANGED written /\ Agree(written, next)
    BY <2>2, <2>5, <2>w, HandsOverOrSkips
  <2>7. UNCHANGED behind /\ run' # "off" /\ pc[c] = "ensure"
    BY <1>6 DEF EnsureResume, CallsInv
  <2>8. current # NoRecord => next.focus = current.focus /\ next.checkpoint = current.checkpoint
    BY <2>2 DEF Existing
  <2> QED
    BY <2>2, <2>4, <2>5, <2>6, <2>7, <2>8, SpeaksShown DEF Landing
<1>7. ASSUME NEW c \in Calls, Focus(c) PROVE ShownInv'
  <2> DEFINE next == [rec[c] EXCEPT !.focus = "pinned", !.at = time]
  <2>1. next \in Records /\ WriteRecord(c, "focus", next, TRUE, "write", "idle")
    BY <1>7 DEF Focus, CallsInv, TypeOK, Records
  <2> HIDE DEF next
  <2>2. next = current' /\ pc'[c] = "write" /\ rec'[c] = next /\ written' = next
    BY <2>1, WriteMakes, HandsOverOrSkips
  <2>3. Speaks(c, next)
    BY <1>7, <2>2, FocusSpeaks DEF Speaks
  <2>4. UNCHANGED behind /\ run' # "off" /\ pc[c] = "act"
    BY <1>7 DEF Focus, CallsInv
  <2> QED
    BY <2>1, <2>2, <2>3, <2>4, SpeaksShown DEF Landing
<1>8. ASSUME NEW c \in Calls, Beat(c) PROVE ShownInv'
  <2>1. PICK status \in {"idle", "working"}, news \in BOOLEAN :
          WriteRecord(c, "beat", [current EXCEPT !.status = status, !.at = time], news,
                      "write", "idle")
    BY <1>8 DEF Beat
  <2> DEFINE next == [current EXCEPT !.status = status, !.at = time]
  <2>2. /\ next \in Records /\ next.focus = current.focus /\ next.checkpoint = current.checkpoint
        /\ next.connected = current.connected
    BY <1>8, <2>1 DEF Beat, TypeOK, Records
  <2>3. next = current'
    BY <2>1, <2>2, WriteMakes
  <2> HIDE DEF next
  <2>4. Speaks(c, next)
    BY <1>8, <2>3, BeatSpeaks DEF Speaks
  <2>5. \/ pc'[c] = "write" /\ rec'[c] = next /\ written' = next
        \/ pc'[c] = "idle" /\ UNCHANGED written /\ Agree(written, next)
    BY <2>1, <2>2, HandsOverOrSkips DEF next
  <2>6. UNCHANGED behind /\ run' # "off" /\ pc[c] = "idle"
    BY <1>8 DEF Beat, flagVars
  <2> QED
    BY <2>2, <2>4, <2>5, <2>6, SpeaksShown DEF Landing
<1>9. ASSUME NEW c \in Calls, ShutdownWrite(c) PROVE ShownInv'
  <2>1. PICK checkpoint \in IF current.checkpoint = "none" THEN {"none", "auto"}
                                                           ELSE {current.checkpoint} :
          WriteRecord(c, "shutdown",
            [current EXCEPT !.status = "idle", !.connected = FALSE, !.at = time,
               !.checkpoint = checkpoint], TRUE, "write", "idle")
    BY <1>9 DEF ShutdownWrite
  <2> DEFINE next == [current EXCEPT !.status = "idle", !.connected = FALSE, !.at = time,
                        !.checkpoint = checkpoint]
  <2>2. next \in Records
    BY <1>9, <2>1 DEF ShutdownWrite, TypeOK, Records
  <2>3. next = current' /\ pc'[c] = "write" /\ rec'[c] = next /\ written' = next
    <3> HIDE DEF next
    <3>1. WriteRecord(c, "shutdown", next, TRUE, "write", "idle")
      BY <2>1 DEF next
    <3> QED  BY <2>2, <3>1, WriteMakes, HandsOverOrSkips
  <2> HIDE DEF next
  <2>4. Speaks(c, next)
    BY <1>9, <2>3, ShutdownSpeaks DEF Speaks
  <2>5. UNCHANGED behind /\ run' # "off" /\ pc[c] = "idle"
    BY <1>9 DEF ShutdownWrite, pastVars, flagVars
  <2> QED
    BY <2>2, <2>3, <2>4, <2>5, SpeaksShown DEF Landing
<1>10. ASSUME NEW c \in Calls, Act(c) PROVE ShownInv'
  <2>1. /\ kind[c] \in {"teamFocus", "checkpoint", "inbox"} /\ rec[c] \in Records
        /\ current \in Records /\ current # NoRecord /\ rec[c].connected /\ run # "off"
    BY <1>10 DEF Act, CallsInv, TypeOK, Acting, ShownInv
  <2>2. /\ current' \in Records /\ current'.at >= current.at /\ current'.at <= time
        /\ kind[c] = "teamFocus" => current'.status = rec[c].status
        /\ kind[c] # "teamFocus" => current'.status = current.status
        /\ current.connected => current'.connected
    <3>1. current' = Becomes(c)
      BY <1>10 DEF Act
    <3>2. time \in Nat /\ current.at \in Nat /\ current.at <= time
      BY <2>1, ShownTypes
    <3>3. CASE kind[c] = "teamFocus"
      <4>1. /\ current' \in Records /\ current'.status = rec[c].status
            /\ current'.connected = rec[c].connected /\ current'.at = time
        BY <2>1, <3>1, <3>2, <3>3 DEF Becomes, Records
      <4> QED  BY <2>1, <3>2, <3>3, <4>1
    <3>4. CASE kind[c] \in {"checkpoint", "inbox"}
      <4>1. /\ current' \in Records /\ current'.status = current.status
            /\ current'.connected = current.connected
            /\ current'.at \in {time, current.at}
        <5>1. CASE kind[c] = "checkpoint"
          BY <2>1, <3>1, <3>2, <5>1 DEF Becomes, Records
        <5>2. CASE kind[c] = "inbox"
          BY <2>1, <3>1, <3>2, <5>2 DEF Becomes, Records
        <5> QED  BY <3>4, <5>1, <5>2
      <4> QED  BY <3>2, <3>4, <4>1
    <3> QED  BY <2>1, <3>3, <3>4
  <2>3. /\ pc'[c] = "patch" /\ behind' = (behind \/ (kind[c] = "teamFocus" /\ rec[c].status # current.status))
        /\ UNCHANGED <<time, file, written, run>>
    BY <1>10 DEF Act, Goto, TypeOK
  <2>4. \A d \in Calls : d # c => pc'[d] = pc[d] /\ rec'[d] = rec[d]
    BY <1>10, OthersSettle DEF Settles
  <2>5. \A d \in Calls : pc'[d] \in {"register", "act"} => rec'[d].connected
    BY <2>3, <2>4 DEF ShownInv
  <2>6. current' # NoRecord /\ (file # NoRecord => file.at <= current'.at)
    BY <2>1, <2>2, ShownTypes DEF ShownInv
  <2> QED
    BY <2>1, <2>2, <2>3, <2>5, <2>6 DEF ShownInv
<1>11. ASSUME NEW c \in Calls, Register(c) \/ WriteLands(c) PROVE ShownInv'
  <2>1. /\ UNCHANGED <<time, current, written, run>> /\ run # "off" /\ current # NoRecord
        /\ rec[c] \in Records /\ Save(rec[c]) /\ Landing(c)
    BY <1>11 DEF Register, WriteLands, procVars, CallsInv, Landing
  <2>2. \A d \in Calls : d # c => pc'[d] = pc[d] /\ rec'[d] = rec[d]
    BY <1>11, OthersSettle DEF Settles
  <2>3. ~Landing(c)'
    BY <1>11, OthersSettle DEF Settles
  <2>4. pc'[c] \in {"register", "act"} => rec'[c].connected
    BY <1>11, <2>3 DEF Register, WriteLands, Goto, TypeOK, Landing, ShownInv
  <2>5. /\ \A d \in Calls : Landing(d)' => Landing(d) /\ rec'[d] = rec[d]
        /\ \A d \in Calls : pc'[d] \in {"register", "act"} => rec'[d].connected
        /\ \A d \in Calls : Landing(d) => Landing(d)' \/ rec[d] = rec[c]
        /\ \A d \in Calls : pc[d] = "patch" => pc'[d] = "patch"
    BY <2>1, <2>2, <2>3, <2>4 DEF Landing, ShownInv
  <2>6. rec[c].at <= current.at /\ rec[c] \in Told
    BY <2>1, ShownTypes
  <2> QED
    BY <2>1, <2>5, <2>6, SaveShown
<1>12. ASSUME NEW c \in Calls, Patch(c) PROVE ShownInv'
  <2>1. /\ UNCHANGED <<time, current, written, run>> /\ run # "off"
        /\ current \in Records /\ current # NoRecord /\ pc'[c] = "idle"
    BY <1>12 DEF Patch, procVars, CallsInv, TypeOK, Goto
  <2>2. \A d \in Calls : d # c => pc'[d] = pc[d] /\ rec'[d] = rec[d]
    BY <1>12, OthersSettle DEF Settles
  <2>3. /\ \A d \in Calls : Landing(d)' => Landing(d) /\ rec'[d] = rec[d]
        /\ \A d \in Calls : pc'[d] \in {"register", "act"} => rec'[d].connected
    BY <2>1, <2>2 DEF Landing, ShownInv
  <2>4. CASE file # NoRecord
    <3>1. Save(current)
      BY <1>12, <2>4 DEF Patch
    <3>2. ~behind' => file' = current
      <4>1. \/ file' = file /\ current.at <= file.at
            \/ file' = current
        BY <2>1, <3>1, SaveKeepsOrReplaces
      <4>2. file.at \in Nat /\ current.at \in Nat /\ file.at <= current.at
        BY <2>1, <2>4, ShownTypes DEF ShownInv
      <4>3. file' # current => current.at = file.at
        BY <4>1, <4>2
      <4>4. current.at = file.at /\ ~behind' => file' = current
        BY <2>4, <3>1 DEF Save
      <4> QED  BY <4>3, <4>4
    <3>3. current.at <= current.at
      BY <2>1, ShownTypes
    <3> QED  BY <2>1, <2>3, <3>1, <3>2, <3>3, SaveShown
  <2>5. CASE file = NoRecord
    <3>1. behind' /\ UNCHANGED file
      BY <1>12, <2>5 DEF Patch
    <3> QED  BY <2>1, <2>3, <2>5, <3>1 DEF ShownInv
  <2> QED
    BY <2>4, <2>5
<1>13. ASSUME NEW c \in Calls, Raises(c) PROVE ShownInv'
  <2>1. /\ UNCHANGED <<time, file, current, written, run>> /\ behind' /\ pc'[c] = "idle"
    BY <1>13 DEF Raises, procVars, Goto, TypeOK
  <2>2. \A d \in Calls : d # c => pc'[d] = pc[d] /\ rec'[d] = rec[d]
    BY <1>13, OthersSettle DEF Settles
  <2> QED
    BY <2>1, <2>2 DEF ShownInv
<1> QED
  BY <1>1, <1>2, <1>3, <1>4, <1>5, <1>6, <1>7, <1>8, <1>9, <1>10, <1>11, <1>12, <1>13
     DEF Next, Step

(* When no write is under way and none was lost, the room shows what the    *)
(* process believes it has advertised: the writes that writeSessionRecord   *)
(* skips are not missed.                                                    *)
THEOREM QuietMeansAdvertisedHolds == Spec => []QuietMeansAdvertised
<1>1. ShownInv => QuietMeansAdvertised
  <2> SUFFICES ASSUME ShownInv, current # NoRecord, ~behind,
                      \A c \in Calls : pc[c] \notin {"register", "write", "patch"}
               PROVE  Agree(file, current)
    BY DEF QuietMeansAdvertised
  <2>1. Told = {file}
    BY DEF Told, Landing
  <2> QED
    BY <2>1 DEF ShownInv, Shows
<1> QED
  BY <1>1, TypeInit, TypeStep, ClockInit, ClockStep, ShownInit, ShownStep, PTL DEF Spec
=============================================================================
