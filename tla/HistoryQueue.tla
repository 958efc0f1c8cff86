---------------------------- MODULE HistoryQueue ----------------------------
(***************************************************************************)
(* How one Pi process keeps the private index of its transcript up to date *)
(* (extension.ts, history-worker.mjs): transcript events are debounced     *)
(* into jobs, at most one job waits while one runs in a worker thread, an  *)
(* environment that cannot run the worker indexes inline, and shutdown     *)
(* queues a last job and waits for the queue to drain, for a while.        *)
(*                                                                         *)
(* A job names the transcript file and whoever runs it reads the file as   *)
(* it is by then, so the queue is whether a job waits.  The transcript and *)
(* the index are their lengths.  Each handler on the event loop is a step. *)
(***************************************************************************)
EXTENDS Naturals, FiniteSets

CONSTANTS
  MaxEntries,   (* bound: entries of the transcript                        *)
  Threads,      (* bound: worker threads the process can ever start        *)
  NoThread,     (* historyWorker is undefined                              *)
  MaxErrors,    (* bound: worker threads that die of an error              *)
  MaxTimeouts   (* bound: 1 if the drain may outlast HISTORY_FLUSH_TIMEOUT *)

ASSUME HistoryQueueAssumption ==
  /\ MaxEntries \in Nat
  /\ MaxErrors \in Nat
  /\ MaxTimeouts \in Nat
  /\ NoThread \notin Threads

VARIABLES
  written,      (* entries in the transcript file                           *)
  indexed,      (* entries the index holds                                  *)
  timer,        (* historySyncTimer is set                                  *)
  queued,       (* historyQueue holds a job                                 *)
  running,      (* historyRunning                                           *)
  worker,       (* historyWorker                                            *)
  unavailable,  (* historyWorkerUnavailable, or worker threads are disabled *)
  thread,       (* each thread: "new", "ready", "busy", "read", "replied",  *)
                (* "failed", "exiting" or "gone"                            *)
  snap,         (* the transcript as each thread has read it for its job    *)
  phase         (* the session: "new", "open", "flushing", "drained", "shut" *)

(* History variables for the properties only.                               *)
VARIABLES
  errors,       (* threads that have died of an error                       *)
  timeouts,     (* drains cut short                                         *)
  missed        (* why the last job to end did not index, if it did not     *)

vars == <<written, indexed, timer, queued, running, worker, unavailable, thread, snap,
          phase, errors, timeouts, missed>>

ThreadStates ==
  {"new", "ready", "busy", "read", "replied", "failed", "exiting", "gone"}

Phases == {"new", "open", "flushing", "drained", "shut"}

queueVars == <<timer, queued, running, worker, unavailable, phase>>

Init ==
  /\ written \in 0..MaxEntries /\ indexed = 0
  /\ timer = FALSE /\ queued = FALSE /\ running = FALSE
  /\ worker = NoThread /\ unavailable \in BOOLEAN
  /\ thread = [t \in Threads |-> "new"]
  /\ snap = [t \in Threads |-> 0]
  /\ phase = "new"
  /\ errors = 0 /\ timeouts = 0 /\ missed = {}

(***************************************************************************)
(* historyPump, called with running FALSE.  "job" is whether a job waits;  *)
(* w, threads and ph are historyWorker, the threads and the phase as the   *)
(* caller leaves them.                                                     *)
(***************************************************************************)

(* historySettle: the promise of an empty queue is kept, and whoever waits  *)
(* for it, which is only a flush, may go on.                                *)
Settle(ph) == phase' = IF ph = "flushing" THEN "drained" ELSE ph

Idle(w, threads, ph) ==
  /\ running' = FALSE
  /\ worker' = w
  /\ thread' = threads
  /\ Settle(ph)

Post(t, threads, ph) ==
  /\ running' = TRUE
  /\ worker' = t
  /\ thread' = [threads EXCEPT ![t] = "busy"]
  /\ phase' = ph
  /\ UNCHANGED <<indexed, missed>>

(* Mutant of IndexInline: each job appends an entry, indexed or not.        *)
IndexInlineAppends == indexed' = indexed + 1 /\ missed' = {}

(* historyIndex on the event loop; a sidecar that cannot be written is let  *)
(* be.                                                                      *)
IndexInline ==
  \/ indexed' = written /\ missed' = {}
  \/ missed' = {"sidecar"} /\ UNCHANGED indexed

Pump(job, w, unable, threads, ph) ==
  /\ queued' = FALSE
  /\ unavailable' = unable
  /\ \/ /\ ~job
        /\ Idle(w, threads, ph)
        /\ UNCHANGED <<indexed, missed>>
     \/ /\ job /\ w = NoThread /\ unable
        /\ IndexInline
        /\ Idle(w, threads, ph)
     \/ /\ job /\ w = NoThread /\ ~unable
        /\ \E t \in Threads : threads[t] = "new" /\ Post(t, threads, ph)
     \/ /\ job /\ w # NoThread
        /\ Post(w, threads, ph)

(* historyEnqueue: the newer job takes the place of the one that waits.     *)
Enqueue(ph) ==
  IF running
  THEN /\ queued' = TRUE
       /\ phase' = ph
       /\ UNCHANGED <<indexed, missed, running, worker, unavailable, thread>>
  ELSE Pump(TRUE, worker, unavailable, thread, ph)

(***************************************************************************)
(* The session.                                                            *)
(***************************************************************************)

(* session_start queues the transcript a resumed session already has.       *)
SessionStart ==
  /\ phase = "new"
  /\ Enqueue("open")
  /\ UNCHANGED <<written, timer, snap, errors, timeouts>>

(* message_end and the other transcript events: one debounce timer.         *)
Append ==
  /\ phase = "open"
  /\ written < MaxEntries
  /\ written' = written + 1
  /\ timer' = TRUE
  /\ UNCHANGED <<indexed, queued, running, worker, unavailable, thread, snap, phase,
                 errors, timeouts, missed>>

TimerFires ==
  /\ timer
  /\ timer' = FALSE
  /\ Enqueue(phase)
  /\ UNCHANGED <<written, snap, errors, timeouts>>

(* Mutant of Flush: the timer is cleared and its job is forgotten.          *)
FlushWithoutJob ==
  /\ phase = "open"
  /\ timer' = FALSE
  /\ phase' = IF running \/ queued THEN "flushing" ELSE "drained"
  /\ UNCHANGED <<written, indexed, queued, running, worker, unavailable, thread, snap,
                 errors, timeouts, missed>>

(* session_shutdown: the timer is cleared, a last job is queued, and the    *)
(* flush waits for the queue to drain.                                      *)
Flush ==
  /\ phase = "open"
  /\ timer' = FALSE
  /\ Enqueue("flushing")
  /\ UNCHANGED <<written, snap, errors, timeouts>>

Terminated ==
  [t \in Threads |-> IF t = worker /\ thread[t] # "failed" THEN "exiting" ELSE thread[t]]

(* Mutant of FlushEnds: a job that is late is given up but not terminated.  *)
FlushAbandons ==
  /\ \/ phase = "drained" /\ UNCHANGED timeouts
     \/ phase = "flushing" /\ timeouts < MaxTimeouts /\ timeouts' = timeouts + 1
  /\ Pump(queued, NoThread, unavailable, thread, "shut")
  /\ UNCHANGED <<written, timer, snap, errors>>

(* The queue has drained or HISTORY_FLUSH_TIMEOUT_MS is over: the worker is *)
(* terminated, whatever it is doing.                                        *)
FlushEnds ==
  /\ \/ phase = "drained" /\ UNCHANGED timeouts
     \/ phase = "flushing" /\ timeouts < MaxTimeouts /\ timeouts' = timeouts + 1
  /\ phase' = "shut"
  /\ worker' = NoThread
  /\ thread' = Terminated
  /\ UNCHANGED <<written, indexed, timer, queued, running, unavailable, snap, errors, missed>>

(***************************************************************************)
(* The worker thread and its events on the main thread.                    *)
(***************************************************************************)

ThreadReads(t) ==
  /\ thread[t] = "busy"
  /\ thread' = [thread EXCEPT ![t] = "read"]
  /\ snap' = [snap EXCEPT ![t] = written]
  /\ UNCHANGED <<written, indexed, queueVars, errors, timeouts, missed>>

(* syncSessionDatabase commits, or throws and its error is only reported.   *)
ThreadIndexes(t) ==
  /\ thread[t] = "read"
  /\ thread' = [thread EXCEPT ![t] = "replied"]
  /\ \/ indexed' = snap[t] /\ missed' = {}
     \/ missed' = {"sidecar"} /\ UNCHANGED indexed
  /\ UNCHANGED <<written, queueVars, snap, errors, timeouts>>

(* The thread dies of an error outside the job's catch: its modules do not  *)
(* load in this environment, or its heap is full.                           *)
ThreadFails(t) ==
  /\ thread[t] \in {"busy", "read"}
  /\ errors < MaxErrors
  /\ errors' = errors + 1
  /\ thread' = [thread EXCEPT ![t] = "failed"]
  /\ missed' = {"thread"}
  /\ UNCHANGED <<written, indexed, queueVars, snap, timeouts>>

(* Mutant of OnMessage: the job that waits is not pumped.                   *)
OnMessageNoPump(t) ==
  /\ thread[t] = "replied"
  /\ running' = FALSE
  /\ thread' = [thread EXCEPT ![t] = "ready"]
  /\ UNCHANGED <<written, indexed, timer, queued, worker, unavailable, snap, phase,
                 errors, timeouts, missed>>

(* The "message" event.                                                     *)
OnMessage(t) ==
  /\ thread[t] = "replied"
  /\ Pump(queued, worker, unavailable, [thread EXCEPT ![t] = "ready"], phase)
  /\ UNCHANGED <<written, timer, snap, errors, timeouts>>

(* Mutant of OnError: the queue is not pumped.                              *)
OnErrorNoPump(t) ==
  /\ thread[t] = "failed"
  /\ worker' = NoThread /\ unavailable' = TRUE /\ running' = FALSE
  /\ thread' = [thread EXCEPT ![t] = "exiting"]
  /\ UNCHANGED <<written, indexed, timer, queued, snap, phase, errors, timeouts, missed>>

(* The "error" event: this session indexes inline from now on.              *)
OnError(t) ==
  /\ thread[t] = "failed"
  /\ LET after == [thread EXCEPT ![t] = "exiting"] IN
     IF running
     THEN Pump(queued, NoThread, TRUE, after, phase)
     ELSE /\ worker' = NoThread /\ unavailable' = TRUE /\ thread' = after
          /\ UNCHANGED <<indexed, missed, queued, running, phase>>
  /\ UNCHANGED <<written, timer, snap, errors, timeouts>>

(* The "exit" event, after an error or a termination.                       *)
OnExit(t) ==
  /\ thread[t] = "exiting"
  /\ LET after == [thread EXCEPT ![t] = "gone"] IN
     IF running
     THEN Pump(queued, NoThread, unavailable, after, phase)
     ELSE /\ worker' = NoThread /\ thread' = after
          /\ UNCHANGED <<indexed, missed, queued, running, unavailable, phase>>
  /\ UNCHANGED <<written, timer, snap, errors, timeouts>>

ThreadStep(t) == ThreadReads(t) \/ ThreadIndexes(t)

Event(t) == OnMessage(t) \/ OnError(t) \/ OnExit(t)

Next ==
  \/ SessionStart \/ Append \/ TimerFires \/ Flush \/ FlushEnds
  \/ \E t \in Threads : ThreadStep(t) \/ ThreadFails(t) \/ Event(t)

Spec == Init /\ [][Next]_vars

(* The event loop and the threads run; sessions need not be shut down.      *)
Fairness ==
  /\ WF_vars(SessionStart) /\ WF_vars(TimerFires)
  /\ WF_vars(phase = "drained" /\ FlushEnds)
  /\ \A t \in Threads : WF_vars(ThreadStep(t)) /\ WF_vars(Event(t))

FairSpec == Spec /\ Fairness

-----------------------------------------------------------------------------

TypeOK ==
  /\ written \in 0..MaxEntries /\ indexed \in 0..MaxEntries
  /\ timer \in BOOLEAN /\ queued \in BOOLEAN /\ running \in BOOLEAN
  /\ worker \in Threads \cup {NoThread} /\ unavailable \in BOOLEAN
  /\ thread \in [Threads -> ThreadStates]
  /\ snap \in [Threads -> 0..MaxEntries]
  /\ phase \in Phases
  /\ errors \in 0..MaxErrors /\ timeouts \in 0..MaxTimeouts
  /\ missed \subseteq {"sidecar", "thread"}

(* A shutdown that was not cut short leaves the whole transcript indexed,   *)
(* unless the last job itself came to nothing.                              *)
ShutIsIndexed ==
  phase = "shut" /\ timeouts = 0 => indexed = written \/ missed # {}

(* Two threads never have the index in hand at once: what comes out of the  *)
(* worker's "one job at a time".                                            *)
OneAtATime ==
  Cardinality({t \in Threads : thread[t] \in {"busy", "read"}}) <= 1

(* So no job puts an older transcript over a newer one.                     *)
IndexNeverShrinks == [][indexed' >= indexed]_indexed

(* Every appended entry is indexed in the end, if the session lives on and  *)
(* no job comes to nothing.                                                 *)
EventuallyIndexed ==
  indexed < written ~> (indexed = written \/ missed # {} \/ phase = "shut")

(* A flush never waits for ever, even without its timeout: whatever happens *)
(* to the worker, somebody pumps the queue empty and keeps the promise.     *)
FlushReturns == phase = "flushing" ~> phase = "shut"
=============================================================================
