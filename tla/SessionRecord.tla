---------------------------- MODULE SessionRecord ----------------------------
(***************************************************************************)
(* The presence record of one Pi session (extension.ts): the copy its      *)
(* process keeps in `current`, the copy `written` it believes the room     *)
(* has, the room's own copy, and the turns, tools, commands, heartbeats    *)
(* and shutdown that change them.  Every call runs to its next await in    *)
(* one step; between two awaits other calls run.  A room transaction is    *)
(* one step that may raise instead, which is what StateFile says of it;    *)
(* only this session's process writes the record.                          *)
(*                                                                         *)
(* A record has the fields a teammate acts on, the later of its lastReadAt *)
(* and lastPulseAt stamps, and updatedAt in ticks of the clock.  Names,    *)
(* paths and wording are left out: that one of them changed is an input.   *)
(***************************************************************************)
EXTENDS Naturals, Sequences

CONSTANTS
  Calls,        (* handlers, tools and timers that may be under way at once *)
  HeartbeatMs,  (* HEARTBEAT_MS, in ticks                                   *)
  MaxTime,      (* bound: the clock stops here                              *)
  MaxRuns,      (* bound: processes of this session                         *)
  MaxBegun,     (* bound: calls begun (starts, requests and heartbeats)     *)
  NoRecord      (* no record                                                *)

Records ==
  [status : {"idle", "working"}, focus : {"prompt", "pinned"},
   checkpoint : {"none", "auto", "explicit"}, connected : BOOLEAN,
   stamp : Nat, at : Nat]

ASSUME SessionRecordAssumption ==
  /\ HeartbeatMs \in Nat
  /\ MaxTime \in Nat
  /\ MaxRuns \in Nat
  /\ MaxBegun \in Nat
  /\ NoRecord \notin Records

VARIABLES
  time,      (* Date.now()                                                  *)
  file,      (* the record in the room                                      *)
  current,   (* the process's record                                        *)
  written,   (* writtenRecord: the last one handed to a transaction         *)
  lastWrite, (* lastRecordWriteAt                                           *)
  run,       (* "off", "open", "flushing" its history, "closed"             *)
  pc,        (* what each call awaits                                       *)
  kind,      (* what each call is                                           *)
  rec        (* the record each call holds                                  *)

(* History variables for the properties only.                               *)
VARIABLES
  runs,      (* processes started                                           *)
  begun,     (* calls begun                                                 *)
  behind,    (* a transaction raised or met an equal stamp, or /team focus  *)
             (* put back an older status, and the room has not taken since  *)
             (* a record that both the process and `written` agree with     *)
  shut,      (* the room took the shutdown record of the last process        *)
  late,      (* after the shutdown a call made the record connected again   *)
  confirmed  (* this process has answered "Checkpoint saved"                *)

procVars == <<current, written, lastWrite, run>>
callVars == <<pc, kind, rec>>
flagVars == <<behind, shut, late, confirmed>>
pastVars == <<runs, begun, flagVars>>
vars == <<time, file, procVars, callVars, pastVars>>

(* Calls that change the record again once ensureSession has returned.      *)
Acting == {"focus", "teamFocus", "checkpoint", "inbox"}

Requests == Acting \cup {"turn", "look"}

Init ==
  /\ time = 0 /\ file = NoRecord
  /\ current = NoRecord /\ written = NoRecord /\ lastWrite = 0 /\ run = "off"
  /\ pc = [c \in Calls |-> "idle"]
  /\ kind = [c \in Calls |-> "look"]
  /\ rec = [c \in Calls |-> NoRecord]
  /\ runs = 0 /\ begun = 0 /\ behind = FALSE /\ shut = FALSE /\ late = FALSE /\ confirmed = FALSE

(* Call c, of kind k and with record r, awaits what label says; an idle one *)
(* forgets what it was.                                                     *)
Goto(c, label, k, r) ==
  /\ pc' = [pc EXCEPT ![c] = label]
  /\ kind' = [kind EXCEPT ![c] = IF label = "idle" THEN "look" ELSE k]
  /\ rec' = [rec EXCEPT ![c] = IF label = "idle" THEN NoRecord ELSE r]

Tick ==
  /\ time < MaxTime
  /\ time' = time + 1
  /\ UNCHANGED <<file, procVars, callVars, pastVars>>

-----------------------------------------------------------------------------
(* writeSessionRecord.                                                      *)

(* What a write compares: every field but the times it is always given.     *)
Content(r) == <<r.status, r.focus, r.checkpoint, r.connected, r.stamp>>

(* Mutant of Changed: the status is not compared.                           *)
ChangedButStatus(next) ==
  written = NoRecord \/ Tail(Content(written)) # Tail(Content(next))

Changed(next) == written = NoRecord \/ Content(written) # Content(next)

(* The record is handed to a transaction, or there is nothing to say and    *)
(* the call goes on.  What is handed over counts as written at once.        *)
WriteRecord(c, k, next, force, awaiting, goingOn) ==
  /\ current' = next
  /\ IF ~force /\ ~Changed(next) /\ time - lastWrite < HeartbeatMs
     THEN Goto(c, goingOn, k, next) /\ UNCHANGED <<written, lastWrite>>
     ELSE Goto(c, awaiting, k, next) /\ written' = next /\ lastWrite' = time

(* Mutant of Newer: a save replaces the record in place of merging it.      *)
NewerAlways(old, new) == new

(* mergeById of the record in the file and the one in the transaction.      *)
Newer(old, new) == IF old = NoRecord \/ new.at > old.at THEN new ELSE old

(* What teammates are shown of the record.                                  *)
Agree(r, s) ==
  r # NoRecord /\ s # NoRecord
    /\ r.status = s.status /\ r.focus = s.focus
    /\ r.checkpoint = s.checkpoint /\ r.connected = s.connected

(* The transaction saves record r, which loses to one stamped the same.     *)
Save(r) ==
  /\ file' = Newer(file, r)
  /\ behind' = (~(file' = current /\ Agree(written, current))
                  /\ (behind \/ (file # NoRecord /\ r.at = file.at)))

-----------------------------------------------------------------------------
(* The calls.                                                               *)

(* The process starts, or is resumed; session_start registers it.           *)
Start(c) ==
  /\ run = "off" /\ runs < MaxRuns
  /\ run' = "open" /\ runs' = runs + 1
  /\ begun < MaxBegun /\ begun' = begun + 1
  /\ shut' = FALSE /\ late' = FALSE /\ behind' = FALSE /\ confirmed' = FALSE
  /\ Goto(c, "ensure", "start", NoRecord)
  /\ UNCHANGED <<time, file, current, written, lastWrite>>

(* A turn, a tool or a command once session_start has returned.             *)
Request(c) ==
  /\ run = "open" /\ pc[c] = "idle"
  /\ \A d \in Calls : pc[d] # "idle" => kind[d] # "start"
  /\ \E k \in Requests : Goto(c, "ensure", k, NoRecord)
  /\ begun < MaxBegun /\ begun' = begun + 1
  /\ UNCHANGED <<time, file, procVars, runs, flagVars>>

(* Mutant of Fresh: a new record has no stamp.                              *)
FreshUnstamped ==
  [status |-> "idle", focus |-> "prompt", checkpoint |-> "none", connected |-> TRUE,
   stamp |-> NoRecord, at |-> time]

(* The record of a session the room does not know.                          *)
Fresh ==
  [status |-> "idle", focus |-> "prompt", checkpoint |-> "none", connected |-> TRUE,
   stamp |-> 0, at |-> time]

(* Mutant of Existing: a resumed session does not read the room.            *)
ExistingUnread == IF current # NoRecord THEN current ELSE Fresh

Existing ==
  CASE current # NoRecord -> current
    [] current = NoRecord /\ file # NoRecord -> file
    [] OTHER -> Fresh

(* The status a call gives the session: before_agent_start and the tool     *)
(* work, session_start and the command do not, and /team inbox and the rest *)
(* are of both kinds.                                                       *)
StatusOf(k) ==
  CASE k \in {"turn", "focus"} -> {"working"}
    [] k \in {"start", "teamFocus"} -> {"idle"}
    [] OTHER -> {"idle", "working"}

Spread(c) == IF kind[c] \in Acting THEN "act" ELSE "idle"

(* After the shutdown a record that says connected is late.                 *)
NoteLate == late' = (late \/ (run = "closed" /\ current'.connected))

(* ensureSession, from its last await.  A turn is stamped and brings paths; *)
(* otherwise a name, a branch or a directory may be news.                   *)
EnsureResume(c) ==
  /\ pc[c] = "ensure"
  /\ \E status \in StatusOf(kind[c]), news \in BOOLEAN :
       WriteRecord(c, kind[c],
         [Existing EXCEPT !.status = status, !.connected = TRUE, !.at = time,
            !.stamp = IF kind[c] = "turn" THEN time ELSE @],
         news \/ kind[c] = "turn", "register", Spread(c))
  /\ NoteLate
  /\ UNCHANGED <<time, file, run, runs, begun, behind, shut, confirmed>>

(* The transaction of ensureSession's record.                               *)
Register(c) ==
  /\ pc[c] = "register"
  /\ Save(rec[c])
  /\ Goto(c, Spread(c), kind[c], rec[c])
  /\ UNCHANGED <<time, procVars, runs, begun, shut, late, confirmed>>

(* team_room focus: the record ensureSession returned, focused and pinned.  *)
Focus(c) ==
  /\ pc[c] = "act" /\ kind[c] = "focus"
  /\ WriteRecord(c, "focus", [rec[c] EXCEPT !.focus = "pinned", !.at = time], TRUE, "write", "idle")
  /\ NoteLate
  /\ UNCHANGED <<time, file, run, runs, begun, behind, shut, confirmed>>

(* The other calls change the process's record and await a transaction of   *)
(* their own: /team focus, saveCheckpoint and markRead.                     *)
Becomes(c) ==
  CASE kind[c] = "teamFocus"  -> [rec[c] EXCEPT !.focus = "pinned", !.at = time]
    [] kind[c] = "checkpoint" -> [current EXCEPT !.checkpoint = "explicit", !.at = time]
    [] kind[c] = "inbox"      -> [current EXCEPT !.stamp = time]

Act(c) ==
  /\ pc[c] = "act" /\ kind[c] # "focus"
  /\ current' = Becomes(c)
  /\ Goto(c, "patch", kind[c], NoRecord)
  /\ NoteLate
  /\ behind' = (behind \/ (kind[c] = "teamFocus" /\ rec[c].status # current.status))
  /\ UNCHANGED <<time, file, written, lastWrite, run, runs, begun, shut, confirmed>>

(* That transaction saves the process's record as it then is, if the room   *)
(* has one to put it in place of.                                           *)
Patch(c) ==
  /\ pc[c] = "patch"
  /\ IF file # NoRecord THEN Save(current) ELSE behind' = TRUE /\ UNCHANGED file
  /\ confirmed' = (confirmed \/ kind[c] = "checkpoint")
  /\ Goto(c, "idle", "look", NoRecord)
  /\ UNCHANGED <<time, procVars, runs, begun, shut, late>>

(* heartbeatOnce, from the presence clock or agent_settled, and             *)
(* session_info_changed.                                                    *)
Beat(c) ==
  /\ run \in {"open", "flushing"} /\ pc[c] = "idle" /\ current # NoRecord
  /\ \E status \in {"idle", "working"}, news \in BOOLEAN :
       WriteRecord(c, "beat", [current EXCEPT !.status = status, !.at = time], news, "write", "idle")
  /\ begun < MaxBegun /\ begun' = begun + 1
  /\ UNCHANGED <<time, file, run, runs, flagVars>>

(* session_shutdown up to its await of the history.                         *)
ShutdownBegin ==
  /\ run = "open"
  /\ run' = "flushing"
  /\ UNCHANGED <<time, file, current, written, lastWrite, callVars, pastVars>>

(* Then a breadcrumb, if there is no checkpoint and the session has been    *)
(* active long enough, and the last record.                                 *)
ShutdownWrite(c) ==
  /\ run = "flushing" /\ pc[c] = "idle" /\ current # NoRecord
  /\ run' = "closed"
  /\ \E checkpoint \in IF current.checkpoint = "none" THEN {"none", "auto"}
                                                       ELSE {current.checkpoint} :
       WriteRecord(c, "shutdown",
         [current EXCEPT !.status = "idle", !.connected = FALSE, !.at = time,
            !.checkpoint = checkpoint], TRUE, "write", "idle")
  /\ UNCHANGED <<time, file, pastVars>>

(* writeSessionRecord's transaction.                                        *)
WriteLands(c) ==
  /\ pc[c] = "write"
  /\ Save(rec[c])
  /\ shut' = (shut \/ (kind[c] = "shutdown" /\ file' = rec[c]))
  /\ Goto(c, "idle", "look", NoRecord)
  /\ UNCHANGED <<time, procVars, runs, begun, late, confirmed>>

(* The lock or the disk fails: the transaction saves nothing.               *)
Raises(c) ==
  /\ pc[c] \in {"register", "write", "patch"}
  /\ Goto(c, "idle", "look", NoRecord)
  /\ behind' = TRUE
  /\ UNCHANGED <<time, file, procVars, runs, begun, shut, late, confirmed>>

(* The process ends, at any point.                                          *)
Exit ==
  /\ run # "off"
  /\ run' = "off" /\ current' = NoRecord /\ written' = NoRecord /\ lastWrite' = 0
  /\ pc' = [c \in Calls |-> "idle"]
  /\ rec' = [c \in Calls |-> NoRecord]
  /\ kind' = [c \in Calls |-> "look"]
  /\ confirmed' = FALSE
  /\ UNCHANGED <<time, file, runs, begun, behind, shut, late>>

Step(c) ==
  Start(c) \/ Request(c) \/ EnsureResume(c) \/ Register(c) \/ Focus(c) \/ Act(c) \/ Patch(c)
    \/ Beat(c) \/ ShutdownWrite(c) \/ WriteLands(c) \/ Raises(c)

Next == Tick \/ ShutdownBegin \/ Exit \/ \E c \in Calls : Step(c)

Spec == Init /\ [][Next]_vars

-----------------------------------------------------------------------------
(* Properties.                                                              *)

(* Every variable keeps its type.                                           *)
TypeOK ==
  /\ time \in Nat
  /\ file \in Records \cup {NoRecord}
  /\ current \in Records \cup {NoRecord}
  /\ written \in Records \cup {NoRecord}
  /\ lastWrite \in Nat
  /\ run \in {"off", "open", "flushing", "closed"}
  /\ pc \in [Calls -> {"idle", "ensure", "register", "act", "write", "patch"}]
  /\ kind \in [Calls -> Requests \cup {"start", "beat", "shutdown"}]
  /\ rec \in [Calls -> Records \cup {NoRecord}]
  /\ runs \in 0..MaxRuns /\ begun \in 0..MaxBegun
  /\ behind \in BOOLEAN /\ shut \in BOOLEAN /\ late \in BOOLEAN /\ confirmed \in BOOLEAN

(* When no write is under way and none was lost, the room shows the status, *)
(* focus, checkpoint and presence the process believes it has advertised:   *)
(* the writes that writeSessionRecord skips are not missed.                 *)
QuietMeansAdvertised ==
  (/\ \A c \in Calls : pc[c] \notin {"register", "write", "patch"}
   /\ current # NoRecord /\ ~behind)
     => Agree(file, current)

(* Once the room has taken the shutdown record of a process, none of that   *)
(* process's writes still under way, nor its end, makes it connected again. *)
ClosedStaysClosed ==
  (run \in {"closed", "off"} /\ shut /\ ~late) => ~file.connected

(* A focus the user or agent has pinned stays pinned: no turn, restart or   *)
(* late write puts back the one inferred from the prompt.                   *)
PinnedKept == [][file # NoRecord /\ file.focus = "pinned" => file'.focus = "pinned"]_file

(* "explicit checkpoints always win" (README.md:164): a process that has    *)
(* confirmed a checkpoint does not leave an automatic one.                  *)
ExplicitWins ==
  (run = "closed" /\ confirmed) => current.checkpoint # "auto"
=============================================================================
