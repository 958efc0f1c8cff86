------------------------------ MODULE StateFile ------------------------------
(***************************************************************************)
(* The shared room file of one machine, and the advisory lock beside it.   *)
(*                                                                         *)
(* Every Pi session on a machine (extension.ts), the machine's network     *)
(* node (network-service.mjs) and the maintenance command                  *)
(* (state-rules-cli.mjs --apply) read and rewrite the same JSON file.  One *)
(* step here is one file-system call of the program: create the lock, stat *)
(* it, unlink it, read the room, rename a new room into place.             *)
(*                                                                         *)
(* The room is abstracted to one record per writer, and a record to a      *)
(* version number: mergeById keeps the record touched later, and so does   *)
(* Merge.  Retention (state-rules.mjs) is not part of this module.  Two    *)
(* overlapping updates of one Pi process compete for the lock like any two *)
(* sessions (nothing queues them), so they are two members of Sessions.    *)
(***************************************************************************)
EXTENDS Integers

CONSTANTS
  Sessions,         (* transactions of Pi sessions: updateState             *)
  Nodes,            (* network node services: withState and mergeStates     *)
  Tools,            (* one-shot runs of the maintenance CLI with --apply    *)
  Mortal,           (* the processes that may be killed                     *)
  Sluggish,         (* live lock holders that may outlast LOCK_STALE_MS,    *)
                    (* for instance a process suspended with its machine    *)
  Failing,          (* writers whose save may raise (disk full)             *)
  SessionAttempts,  (* 80 in extension.ts                                   *)
  NodeAttempts,     (* 40 in network-service.mjs                            *)
  MaxUpdates,       (* bound: updates one writer makes                      *)
  NoLock,           (* no lock file                                         *)
  Killed            (* the owner of a lock file whose process was killed    *)

Writers == Sessions \cup Nodes
Procs == Writers \cup Tools

ASSUME StateFileAssumption ==
  /\ Sessions \cap Nodes = {}
  /\ Writers \cap Tools = {}
  /\ Mortal \subseteq Procs
  /\ Sluggish \subseteq Writers
  /\ Failing \subseteq Writers
  /\ SessionAttempts \in Nat \ {0}
  /\ NodeAttempts \in Nat \ {0}
  /\ MaxUpdates \in Nat
  /\ NoLock \notin Procs
  /\ Killed \notin Procs
  /\ NoLock # Killed

VARIABLES
  file,       (* the room file: the version of each writer's record         *)
  lockOwner,  (* who created the lock file that exists now, or NoLock       *)
  lockStale,  (* that lock file is older than LOCK_STALE_MS                 *)
  pc,         (* the next file-system call of each process                  *)
  attempt,    (* the loop counter of withState / withStateLock              *)
  snap,       (* the room each process holds in memory                      *)
  offer,      (* the version each writer's transaction adds to the room     *)
  committed,  (* history: the newest version each writer has saved          *)
  faults      (* history: what has happened that the lock does not cover    *)

vars == <<file, lockOwner, lockStale, pc, attempt, snap, offer, committed, faults>>
lockVars == <<lockOwner, lockStale>>

Labels == {"idle", "create", "stat", "unlink", "load", "merge", "save", "release",
           "blindLoad", "blindSave", "rewrite", "done", "killed"}

(* What the lock protects: from its creation to its removal.                *)
Critical == {"load", "merge", "save", "release"}

Rooms == [Writers -> 0..MaxUpdates]

(* Mutant of Merge: the record touched earlier wins.                        *)
MergeOldest(a, b) == [w \in Writers |-> IF b[w] < a[w] THEN b[w] ELSE a[w]]

(* mergeById for records that are compared by the time they were touched.   *)
Merge(a, b) == [w \in Writers |-> IF b[w] > a[w] THEN b[w] ELSE a[w]]

(* The room with writer w's record at version v at least.                   *)
With(room, w, v) == [room EXCEPT ![w] = IF v > @ THEN v ELSE @]

Goto(p, label) == pc' = [pc EXCEPT ![p] = label]

Init ==
  /\ file = [w \in Writers |-> 0]
  /\ lockOwner = NoLock
  /\ lockStale = FALSE
  /\ pc = [p \in Procs |-> "idle"]
  /\ attempt = [w \in Writers |-> 0]
  /\ snap = [p \in Procs |-> [w \in Writers |-> 0]]
  /\ offer = [w \in Writers |-> 0]
  /\ committed = [w \in Writers |-> 0]
  /\ faults = {}

(***************************************************************************)
(* The lock loop.                                                          *)
(***************************************************************************)

(* A session always has a newer record to write; a node is also handed peer *)
(* snapshots that bring nothing new.                                        *)
Begin(w) ==
  /\ pc[w] = "idle"
  /\ \E v \in {committed[w] + 1} \cup (IF w \in Nodes THEN {committed[w]} ELSE {}) :
       /\ v \in 1..MaxUpdates
       /\ offer' = [offer EXCEPT ![w] = v]
  /\ attempt' = [attempt EXCEPT ![w] = 0]
  /\ Goto(w, "create")
  /\ UNCHANGED <<file, lockVars, snap, committed, faults>>

(* Mutant of Acquire: the lock file is opened with "w" in place of "wx".     *)
AcquireAlways(w) ==
  /\ pc[w] = "create"
  /\ lockOwner' = w
  /\ lockStale' = FALSE
  /\ Goto(w, "load")
  /\ UNCHANGED <<file, attempt, snap, offer, committed, faults>>

(* writeFile(lock, ..., { flag: "wx" }) succeeds: no lock file was there.   *)
Acquire(w) ==
  /\ pc[w] = "create"
  /\ lockOwner = NoLock
  /\ lockOwner' = w
  /\ lockStale' = FALSE
  /\ Goto(w, "load")
  /\ UNCHANGED <<file, attempt, snap, offer, committed, faults>>

(* Mutant of NextAttempt: one turn of the loop too many.                    *)
NextAttemptInclusive(w, limit, after) ==
  IF attempt[w] + 1 <= limit
  THEN /\ attempt' = [attempt EXCEPT ![w] = @ + 1]
       /\ Goto(w, "create")
  ELSE /\ Goto(w, after)
       /\ UNCHANGED attempt

(* The next turn of the loop, or what follows the loop when it is over.     *)
NextAttempt(w, limit, after) ==
  IF attempt[w] + 1 < limit
  THEN /\ attempt' = [attempt EXCEPT ![w] = @ + 1]
       /\ Goto(w, "create")
  ELSE /\ Goto(w, after)
       /\ UNCHANGED attempt

(* EEXIST in a session: it will look at the lock's age.                     *)
SessionBlocked(s) ==
  /\ s \in Sessions
  /\ pc[s] = "create"
  /\ lockOwner # NoLock
  /\ Goto(s, "stat")
  /\ UNCHANGED <<file, lockVars, attempt, snap, offer, committed, faults>>

(* The lock is younger than LOCK_STALE_MS, or gone: wait and try again, and *)
(* after the last attempt raise "Team room is busy".                        *)
StatFresh(s) ==
  /\ pc[s] = "stat"
  /\ ~lockStale
  /\ NextAttempt(s, SessionAttempts, "idle")
  /\ UNCHANGED <<file, lockVars, snap, offer, committed, faults>>

(* The lock is older than LOCK_STALE_MS: it is to be removed.               *)
StatStale(s) ==
  /\ pc[s] = "stat"
  /\ lockStale
  /\ Goto(s, "unlink")
  /\ UNCHANGED <<file, lockVars, attempt, snap, offer, committed, faults>>

(* Mutant of Reclaim: the unlink fails, and its error is swallowed.         *)
ReclaimNothing(s) ==
  /\ pc[s] = "unlink"
  /\ NextAttempt(s, SessionAttempts, "idle")
  /\ UNCHANGED <<file, lockVars, snap, offer, committed, faults>>

(* unlink(lock) removes whatever lock file has that name by now.            *)
Reclaim(s) ==
  /\ pc[s] = "unlink"
  /\ lockOwner' = NoLock
  /\ lockStale' = FALSE
  /\ NextAttempt(s, SessionAttempts, "idle")
  /\ UNCHANGED <<file, snap, offer, committed, faults>>

(* EEXIST in a node: it never looks at the lock's age, and after the last   *)
(* attempt it goes on without the lock.                                     *)
NodeBlocked(n) ==
  /\ n \in Nodes
  /\ pc[n] = "create"
  /\ lockOwner # NoLock
  /\ NextAttempt(n, NodeAttempts, "blindLoad")
  /\ faults' = IF pc'[n] = "blindLoad" THEN faults \cup {"unlocked"} ELSE faults
  /\ UNCHANGED <<file, lockVars, snap, offer, committed>>

(* finally { await unlink(lock) }: whoever owns the lock file by now.       *)
Release(w) ==
  /\ pc[w] = "release"
  /\ lockOwner' = NoLock
  /\ lockStale' = FALSE
  /\ Goto(w, "idle")
  /\ UNCHANGED <<file, attempt, snap, offer, committed, faults>>

(***************************************************************************)
(* A session's transaction: fn(await loadState()), then saveMergedState.   *)
(***************************************************************************)

SessionLoad(s) ==
  /\ s \in Sessions
  /\ pc[s] = "load"
  /\ snap' = [snap EXCEPT ![s] = With(file, s, offer[s])]
  /\ Goto(s, "merge")
  /\ UNCHANGED <<file, lockVars, attempt, offer, committed, faults>>

(* saveMergedState reads the file again and merges fn's result into it.     *)
SessionMerge(s) ==
  /\ pc[s] = "merge"
  /\ snap' = [snap EXCEPT ![s] = Merge(file, @)]
  /\ Goto(s, "save")
  /\ UNCHANGED <<file, lockVars, attempt, offer, committed, faults>>

(***************************************************************************)
(* A node's transaction: mergeStates(local, incoming), saved if it differs *)
(* from local.  The unlocked one is the same, without the lock to remove.  *)
(***************************************************************************)

(* Mutant of NodeLoad: the peer's snapshot is saved in place of the merge.  *)
NodeLoadIncoming(n) ==
  /\ n \in Nodes
  /\ pc[n] \in {"load", "blindLoad"}
  /\ snap' = [snap EXCEPT ![n] = With([w \in Writers |-> 0], n, offer[n])]
  /\ Goto(n, IF pc[n] = "load" THEN "save" ELSE "blindSave")
  /\ UNCHANGED <<file, lockVars, attempt, offer, committed, faults>>

NodeLoad(n) ==
  LET merged == With(file, n, offer[n]) IN
  /\ n \in Nodes
  /\ pc[n] \in {"load", "blindLoad"}
  /\ snap' = [snap EXCEPT ![n] = merged]
  /\ IF merged # file
     THEN /\ Goto(n, IF pc[n] = "load" THEN "save" ELSE "blindSave")
          /\ UNCHANGED committed
     ELSE /\ Goto(n, IF pc[n] = "load" THEN "release" ELSE "idle")
          /\ committed' = With(committed, n, offer[n])
  /\ UNCHANGED <<file, lockVars, attempt, offer, faults>>

(* saveState: a temporary file is renamed over the room.                    *)
Save(w) ==
  /\ pc[w] \in {"save", "blindSave"}
  /\ file' = snap[w]
  /\ committed' = With(committed, w, offer[w])
  /\ Goto(w, IF pc[w] = "save" THEN "release" ELSE "idle")
  /\ UNCHANGED <<lockVars, attempt, snap, offer, faults>>

(* Mutant of SaveFails: no finally, the raise skips the unlink.             *)
SaveFailsLocked(w) ==
  /\ w \in Failing
  /\ pc[w] \in {"save", "blindSave"}
  /\ Goto(w, "idle")
  /\ UNCHANGED <<file, lockVars, attempt, snap, offer, committed, faults>>

(* saveState raises before the rename: the room keeps its old content.      *)
SaveFails(w) ==
  /\ w \in Failing
  /\ pc[w] \in {"save", "blindSave"}
  /\ Goto(w, IF pc[w] = "save" THEN "release" ELSE "idle")
  /\ UNCHANGED <<file, lockVars, attempt, snap, offer, committed, faults>>

(***************************************************************************)
(* pi-team-state --apply: read, prune, rewrite, with no lock.              *)
(***************************************************************************)

ApplyRead(t) ==
  /\ pc[t] = "idle"
  /\ snap' = [snap EXCEPT ![t] = file]
  /\ Goto(t, "rewrite")
  /\ faults' = faults \cup {"apply"}
  /\ UNCHANGED <<file, lockVars, attempt, offer, committed>>

(* Nothing to prune ends the run without a rewrite.                         *)
ApplyRewrite(t) ==
  /\ pc[t] = "rewrite"
  /\ file' \in {snap[t], file}
  /\ Goto(t, "done")
  /\ UNCHANGED <<lockVars, attempt, snap, offer, committed, faults>>

(***************************************************************************)
(* The environment.                                                        *)
(***************************************************************************)

(* A process is killed between two of its calls; its lock file stays.       *)
Kill(p) ==
  /\ p \in Mortal
  /\ pc[p] \notin {"done", "killed"}
  /\ Goto(p, "killed")
  /\ lockOwner' = IF lockOwner = p THEN Killed ELSE lockOwner
  /\ UNCHANGED <<file, lockStale, attempt, snap, offer, committed, faults>>

(* A live transaction takes milliseconds, so only the lock of a killed or a *)
(* suspended process outlasts LOCK_STALE_MS.                                *)
LockAges ==
  /\ lockOwner \in Sluggish \cup {Killed}
  /\ ~lockStale
  /\ lockStale' = TRUE
  /\ faults' = faults \cup {"stale"}
  /\ UNCHANGED <<file, lockOwner, pc, attempt, snap, offer, committed>>

SessionStep(s) ==
  \/ Begin(s) \/ Acquire(s) \/ SessionBlocked(s) \/ StatFresh(s) \/ StatStale(s)
  \/ Reclaim(s) \/ SessionLoad(s) \/ SessionMerge(s) \/ Save(s) \/ SaveFails(s)
  \/ Release(s)

NodeStep(n) ==
  \/ Begin(n) \/ Acquire(n) \/ NodeBlocked(n) \/ NodeLoad(n) \/ Save(n)
  \/ SaveFails(n) \/ Release(n)

ToolStep(t) == ApplyRead(t) \/ ApplyRewrite(t)

Next ==
  \/ \E s \in Sessions : SessionStep(s)
  \/ \E n \in Nodes : NodeStep(n)
  \/ \E t \in Tools : ToolStep(t)
  \/ \E p \in Procs : Kill(p)
  \/ LockAges

Spec == Init /\ [][Next]_vars

(* Processes run until they are killed, heartbeats keep every session       *)
(* writing, and time passes.                                                *)
Fairness ==
  /\ \A s \in Sessions : WF_vars(SessionStep(s))
  /\ \A n \in Nodes : WF_vars(NodeStep(n))
  /\ WF_vars(LockAges)

FairSpec == Spec /\ Fairness

-----------------------------------------------------------------------------

TypeOK ==
  /\ file \in Rooms
  /\ lockOwner \in Writers \cup {NoLock, Killed}
  /\ lockStale \in BOOLEAN
  /\ pc \in [Procs -> Labels]
  /\ \A s \in Sessions : pc[s] \notin {"blindLoad", "blindSave", "rewrite", "done"}
  /\ \A n \in Nodes : pc[n] \notin {"stat", "unlink", "merge", "rewrite", "done"}
  /\ \A t \in Tools : pc[t] \in {"idle", "rewrite", "done", "killed"}
  /\ attempt \in [Writers -> Nat]
  /\ \A s \in Sessions : attempt[s] < SessionAttempts
  /\ \A n \in Nodes : attempt[n] < NodeAttempts
  /\ snap \in [Procs -> Rooms]
  /\ offer \in Rooms
  /\ committed \in Rooms
  /\ faults \subseteq {"stale", "unlocked", "apply"}

(* As long as no lock file has outlived LOCK_STALE_MS, no node has given up *)
(* waiting and the CLI has not rewritten the room, at most one process is   *)
(* between the creation and the removal of the lock, whoever was killed.    *)
Exclusion ==
  faults = {} => \A p, q \in Procs : pc[p] \in Critical /\ pc[q] \in Critical => p = q

(* Under the same conditions no save of one process undoes what another has *)
(* saved: the room keeps every record at the newest version that was saved. *)
CommittedKept ==
  faults = {} => \A w \in Writers : file[w] >= committed[w]

(* Whatever happens (stale locks, unlocked writers, failing saves), a lock  *)
(* file left behind always belongs to a process still in its transaction or *)
(* to one that was killed: no live process walks away from its lock.        *)
LockHasOwner ==
  lockOwner # NoLock => lockOwner = Killed \/ pc[lockOwner] \in Critical

(* A killed peer's lock and the contention of the others do not stall the   *)
(* room: a session that is not killed gets all its updates saved.           *)
EventuallySaved ==
  \A s \in Sessions \ (Mortal \cup Failing) : <>(committed[s] = MaxUpdates)

(* The room file as the atomic room: what the file holds, and what each     *)
(* writer has been told.                                                    *)
Atomic == INSTANCE AtomicRoom WITH room <- file, saved <- committed

(* Under the same conditions every step of every process is, for the users  *)
(* of the room, one atomic replacement of a record by a newer version, or   *)
(* nothing: the reads, merges and renames of a transaction never show.      *)
AtomicWhileCovered ==
  [][faults' = {} => Atomic!RoomNext \/ UNCHANGED <<file, committed>>]_vars

(* With no node and no CLI, and one session left to reclaim the lock of a   *)
(* killed one, the lock protocol implements the atomic room.                *)
ImplementsAtomicRoom == Atomic!RoomSpec

(* extension.ts: "Never write without the lock: a silently merged blind     *)
(* write can undo another peer's in-flight change."                         *)
SessionsSaveUnderLock ==
  \A s \in Sessions : pc[s] = "save" => lockOwner = s
=============================================================================
