------------------------- MODULE HistoryQueueProofs -------------------------
(***************************************************************************)
(* What the history queue guarantees for any transcript, any number of     *)
(* worker threads and any number of errors and timeouts.                   *)
(***************************************************************************)
EXTENDS HistoryQueue, FiniteSetTheorems, TLAPS

(* The strengthening: one thread lives at a time, it is historyWorker       *)
(* unless that has been given up, and what a thread has read is at least as *)
(* new as the index until the thread writes.                                *)
Live(t) == thread[t] \notin {"new", "gone"}

OneLive == \A t, u \in Threads : Live(t) /\ Live(u) => t = u

WorkingIsWorker ==
  \A t \in Threads : thread[t] \in {"ready", "busy", "read", "replied"} => worker = t

LiveIsWorker ==
  \A t \in Threads : Live(t) /\ phase # "shut" /\ ~unavailable => worker = t

WorkerIsLive == worker # NoThread => Live(worker)

TimerIsOpen == timer => phase = "open"

ThreadInv == OneLive /\ WorkingIsWorker /\ LiveIsWorker /\ WorkerIsLive /\ TimerIsOpen

ReadInOrder ==
  /\ indexed <= written
  /\ \A t \in Threads : /\ snap[t] <= written
                        /\ thread[t] = "read" => indexed <= snap[t]

-----------------------------------------------------------------------------

(* What a pump leaves behind, if it is handed what its callers hand it.     *)
QueueType ==
  /\ indexed \in 0..MaxEntries /\ missed \subseteq {"sidecar", "thread"}
  /\ queued \in BOOLEAN /\ running \in BOOLEAN /\ unavailable \in BOOLEAN
  /\ worker \in Threads \cup {NoThread}
  /\ thread \in [Threads -> ThreadStates]
  /\ phase \in Phases

RestType ==
  /\ written \in 0..MaxEntries
  /\ timer \in BOOLEAN
  /\ snap \in [Threads -> 0..MaxEntries]
  /\ errors \in 0..MaxErrors /\ timeouts \in 0..MaxTimeouts

LEMMA TypeParts == TypeOK <=> QueueType /\ RestType
  BY DEF TypeOK, QueueType, RestType

LEMMA PumpType ==
  ASSUME TypeOK, NEW job \in BOOLEAN, NEW w \in Threads \cup {NoThread},
         NEW unable \in BOOLEAN, NEW ph \in Phases,
         NEW threads \in [Threads -> ThreadStates],
         Pump(job, w, unable, threads, ph)
  PROVE  QueueType'
<1>1. queued' \in BOOLEAN /\ unavailable' \in BOOLEAN
  BY DEF Pump
<1>2. indexed' \in 0..MaxEntries /\ missed' \subseteq {"sidecar", "thread"}
  BY DEF Pump, IndexInline, Post, TypeOK
<1>3. /\ running' \in BOOLEAN /\ worker' \in Threads \cup {NoThread}
      /\ phase' \in Phases
  BY DEF Pump, Idle, Post, Settle, Phases
<1>4. thread' \in [Threads -> ThreadStates]
  BY DEF Pump, Idle, Post, ThreadStates
<1> QED
  BY <1>1, <1>2, <1>3, <1>4 DEF QueueType

LEMMA EnqueueType ==
  ASSUME TypeOK, NEW ph \in Phases, Enqueue(ph)
  PROVE  QueueType'
<1>1. CASE running
  BY <1>1 DEF Enqueue, TypeOK, QueueType
<1>2. CASE ~running
  <2>1. Pump(TRUE, worker, unavailable, thread, ph)
    BY <1>2 DEF Enqueue
  <2>2. worker \in Threads \cup {NoThread} /\ unavailable \in BOOLEAN
        /\ thread \in [Threads -> ThreadStates]
    BY DEF TypeOK
  <2> QED
    BY <2>1, <2>2, PumpType
<1> QED
  BY <1>1, <1>2

LEMMA TypeInit == Init => TypeOK
<1> SUFFICES ASSUME Init PROVE TypeOK
  OBVIOUS
<1>1. 0 \in 0..MaxEntries /\ 0 \in 0..MaxErrors /\ 0 \in 0..MaxTimeouts
  BY HistoryQueueAssumption
<1>2. thread \in [Threads -> ThreadStates] /\ phase \in Phases
  BY DEF Init, ThreadStates, Phases
<1>3. QueueType
  BY <1>1, <1>2 DEF Init, QueueType
<1>4. RestType
  BY <1>1 DEF Init, RestType
<1> QED
  BY <1>3, <1>4, TypeParts

LEMMA TypeStep == TypeOK /\ [Next]_vars => TypeOK'
<1> SUFFICES ASSUME TypeOK, [Next]_vars PROVE TypeOK'
  OBVIOUS
<1>p. QueueType' /\ RestType' => TypeOK'
  BY TypeParts DEF TypeOK, QueueType, RestType
<1>1. CASE SessionStart \/ TimerFires \/ Flush
  <2>1. PICK ph \in Phases : Enqueue(ph)
    BY <1>1 DEF SessionStart, TimerFires, Flush, TypeOK, Phases
  <2>2. QueueType'
    BY <2>1, EnqueueType
  <2>3. RestType'
    BY <1>1 DEF SessionStart, TimerFires, Flush, TypeOK, RestType
  <2> QED
    BY <2>2, <2>3, <1>p
<1>2. CASE Append
  BY <1>2, HistoryQueueAssumption DEF Append, TypeOK
<1>3. CASE FlushEnds
  <2>1. thread' \in [Threads -> ThreadStates]
    BY <1>3 DEF FlushEnds, Terminated, TypeOK, ThreadStates
  <2>2. timeouts' \in 0..MaxTimeouts
    BY <1>3, HistoryQueueAssumption DEF FlushEnds, TypeOK
  <2> QED
    BY <1>3, <2>1, <2>2 DEF FlushEnds, TypeOK, Phases
<1>4. ASSUME NEW t \in Threads, ThreadReads(t) PROVE TypeOK'
  BY <1>4 DEF ThreadReads, queueVars, TypeOK, ThreadStates
<1>5. ASSUME NEW t \in Threads, ThreadIndexes(t) PROVE TypeOK'
  BY <1>5 DEF ThreadIndexes, queueVars, TypeOK, ThreadStates
<1>6. ASSUME NEW t \in Threads, ThreadFails(t) PROVE TypeOK'
  <2>1. errors' \in 0..MaxErrors
    BY <1>6, HistoryQueueAssumption DEF ThreadFails, TypeOK
  <2> QED
    BY <1>6, <2>1 DEF ThreadFails, queueVars, TypeOK, ThreadStates
<1>7. ASSUME NEW t \in Threads, Event(t) PROVE TypeOK'
  <2>1. RestType'
    BY <1>7 DEF Event, OnMessage, OnError, OnExit, TypeOK, RestType
  <2>2. ASSUME NEW s \in {"ready", "exiting", "gone"}
        PROVE  [thread EXCEPT ![t] = s] \in [Threads -> ThreadStates]
    BY <2>2 DEF TypeOK, ThreadStates
  <2>3. /\ queued \in BOOLEAN /\ unavailable \in BOOLEAN /\ phase \in Phases
        /\ worker \in Threads \cup {NoThread}
    BY DEF TypeOK
  <2>4. CASE OnMessage(t)
    <3>1. Pump(queued, worker, unavailable, [thread EXCEPT ![t] = "ready"], phase)
      BY <2>4 DEF OnMessage
    <3> QED
      BY <3>1, <2>1, <2>2, <2>3, PumpType, <1>p
  <2>5. CASE OnError(t) /\ running
    <3>1. Pump(queued, NoThread, TRUE, [thread EXCEPT ![t] = "exiting"], phase)
      BY <2>5 DEF OnError
    <3> QED
      BY <3>1, <2>1, <2>2, <2>3, PumpType, <1>p
  <2>6. CASE OnExit(t) /\ running
    <3>1. Pump(queued, NoThread, unavailable, [thread EXCEPT ![t] = "gone"], phase)
      BY <2>6 DEF OnExit
    <3> QED
      BY <3>1, <2>1, <2>2, <2>3, PumpType, <1>p
  <2>7. CASE (OnError(t) \/ OnExit(t)) /\ ~running
    BY <2>7, <2>2 DEF OnError, OnExit, TypeOK
  <2> QED
    BY <1>7, <2>4, <2>5, <2>6, <2>7 DEF Event
<1>8. CASE UNCHANGED vars
  BY <1>8 DEF vars, TypeOK
<1> QED
  BY <1>1, <1>2, <1>3, <1>4, <1>5, <1>6, <1>7, <1>8 DEF Next, ThreadStep

(* The queue, the worker's events and the flush keep every variable's type. *)
THEOREM TypeCorrect == Spec => []TypeOK
  BY TypeInit, TypeStep, PTL DEF Spec
-----------------------------------------------------------------------------

(***************************************************************************)
(* One living thread, through every handler.                               *)
(***************************************************************************)

LEMMA ThreadInit == Init => ThreadInv
  BY DEF Init, ThreadInv, OneLive, WorkingIsWorker, LiveIsWorker, WorkerIsLive, TimerIsOpen,
         Live

(* A pump keeps one thread alive: it posts to the worker it is handed, or   *)
(* starts a thread when none lives.                                         *)
LEMMA PumpThreads ==
  ASSUME NEW job, NEW w \in Threads \cup {NoThread}, NEW unable \in BOOLEAN, NEW ph,
         NEW threads \in [Threads -> ThreadStates],
         Pump(job, w, unable, threads, ph),
         \A t, u \in Threads : threads[t] \notin {"new", "gone"} /\ threads[u] \notin {"new", "gone"}
                                  => t = u,
         \A t \in Threads : threads[t] \in {"ready", "busy", "read", "replied"} => w = t,
         w # NoThread => threads[w] \notin {"new", "gone"},
         \A t \in Threads : threads[t] \notin {"new", "gone"} /\ ph # "shut" /\ ~unable => w = t,
         w = NoThread /\ ~unable => \A t \in Threads : threads[t] \in {"new", "gone"}
  PROVE  OneLive' /\ WorkingIsWorker' /\ LiveIsWorker' /\ WorkerIsLive'
<1> USE HistoryQueueAssumption DEF Live, ThreadStates
<1>p. phase' = "shut" <=> ph = "shut"
  BY DEF Pump, Idle, Post, Settle
<1>u. unavailable' = unable
  BY DEF Pump
<1>1. CASE thread' = threads /\ worker' = w
  BY <1>1, <1>p, <1>u DEF OneLive, WorkingIsWorker, LiveIsWorker, WorkerIsLive
<1>2. ASSUME NEW t \in Threads, w = t \/ \A u \in Threads : threads[u] \in {"new", "gone"},
             thread' = [threads EXCEPT ![t] = "busy"], worker' = t
      PROVE  OneLive' /\ WorkingIsWorker' /\ LiveIsWorker' /\ WorkerIsLive'
  <2>1. \A u \in Threads : thread'[u] \notin {"new", "gone"} => u = t
    BY <1>2
  <2>2. thread'[t] = "busy"
    BY <1>2
  <2> QED
    BY <1>2, <2>1, <2>2 DEF OneLive, WorkingIsWorker, LiveIsWorker, WorkerIsLive
<1> QED
  BY <1>1, <1>2 DEF Pump, Idle, Post

LEMMA ThreadStepInv == TypeOK /\ ThreadInv /\ [Next]_vars => ThreadInv'
<1> SUFFICES ASSUME TypeOK, ThreadInv, [Next]_vars PROVE ThreadInv'
  OBVIOUS
<1> USE HistoryQueueAssumption DEF ThreadInv
<1>t. /\ worker \in Threads \cup {NoThread} /\ unavailable \in BOOLEAN
      /\ thread \in [Threads -> ThreadStates]
  BY DEF TypeOK
<1>e. ASSUME NEW ph \in {"open", "flushing"}, Enqueue(ph), phase # "shut"
      PROVE  OneLive' /\ WorkingIsWorker' /\ LiveIsWorker' /\ WorkerIsLive'
  <2>1. CASE running
    BY <1>e, <2>1 DEF Enqueue, OneLive, WorkingIsWorker, LiveIsWorker, WorkerIsLive, Live
  <2>2. CASE ~running
    <3>1. Pump(TRUE, worker, unavailable, thread, ph)
      BY <1>e, <2>2 DEF Enqueue
    <3>2. worker = NoThread /\ ~unavailable => \A t \in Threads : thread[t] \in {"new", "gone"}
      BY <1>e DEF LiveIsWorker, Live
    <3>3. \A t, u \in Threads : thread[t] \notin {"new", "gone"} /\ thread[u] \notin {"new", "gone"}
                                 => t = u
      BY DEF OneLive, Live
    <3>4. \A t \in Threads : thread[t] \in {"ready", "busy", "read", "replied"} => worker = t
      BY DEF WorkingIsWorker
    <3>5. worker # NoThread => thread[worker] \notin {"new", "gone"}
      BY DEF WorkerIsLive, Live
    <3>6. \A t \in Threads : thread[t] \notin {"new", "gone"} /\ ph # "shut" /\ ~unavailable
                             => worker = t
      BY <1>e DEF LiveIsWorker, Live
    <3> DEFINE job == TRUE
    <3>7. Pump(job, worker, unavailable, thread, ph)
      BY <3>1
    <3> HIDE DEF ThreadInv, job
    <3> QED
      BY <1>t, <3>2, <3>3, <3>4, <3>5, <3>6, <3>7, PumpThreads, SMTT(30)
  <2> QED
    BY <2>1, <2>2
<1>1. CASE SessionStart \/ TimerFires \/ Flush
  <2>1. PICK ph \in {"open", "flushing"} : Enqueue(ph) /\ phase # "shut"
    BY <1>1 DEF SessionStart, TimerFires, Flush, TimerIsOpen
  <2>2. TimerIsOpen'
    BY <1>1 DEF SessionStart, TimerFires, Flush, TimerIsOpen
  <2> QED
    BY <1>e, <2>1, <2>2
<1>2. CASE Append
  BY <1>2 DEF Append, OneLive, WorkingIsWorker, LiveIsWorker, WorkerIsLive, TimerIsOpen, Live
<1>3. CASE FlushEnds
  <2>1. /\ thread' = Terminated /\ worker' = NoThread /\ phase' = "shut" /\ timer' = timer
        /\ phase \in {"drained", "flushing"}
    BY <1>3 DEF FlushEnds
  <2>2. \A t \in Threads : thread'[t] \notin {"new", "gone"} => Live(t)
    BY <1>t, <2>1 DEF Terminated, WorkerIsLive, Live
  <2>3. \A t \in Threads : thread'[t] \notin {"ready", "busy", "read", "replied"}
    BY <1>t, <2>1 DEF Terminated, WorkingIsWorker
  <2> QED
    BY <2>1, <2>2, <2>3 DEF OneLive, WorkingIsWorker, LiveIsWorker, WorkerIsLive, TimerIsOpen,
                            Live
<1>4. ASSUME NEW t \in Threads, ThreadStep(t) \/ ThreadFails(t) PROVE ThreadInv'
  <2>1. PICK s \in {"read", "replied", "failed"} : thread' = [thread EXCEPT ![t] = s]
    BY <1>4 DEF ThreadStep, ThreadReads, ThreadIndexes, ThreadFails
  <2>2. thread[t] \in {"busy", "read"}
    BY <1>4 DEF ThreadStep, ThreadReads, ThreadIndexes, ThreadFails
  <2>3. \A u \in Threads : thread'[u] \notin {"new", "gone"} <=> thread[u] \notin {"new", "gone"}
    BY <1>t, <2>1, <2>2
  <2>4. UNCHANGED <<timer, queued, running, worker, unavailable, phase>>
    BY <1>4 DEF ThreadStep, ThreadReads, ThreadIndexes, ThreadFails, queueVars
  <2>5. WorkingIsWorker'
    BY <1>t, <2>1, <2>2, <2>4 DEF WorkingIsWorker
  <2>6. OneLive' /\ LiveIsWorker' /\ WorkerIsLive' /\ TimerIsOpen'
    BY <1>t, <2>3, <2>4 DEF OneLive, LiveIsWorker, WorkerIsLive, TimerIsOpen, Live
  <2> QED
    BY <2>5, <2>6
<1>5. ASSUME NEW t \in Threads, OnMessage(t) PROVE ThreadInv'
  <2> DEFINE after == [thread EXCEPT ![t] = "ready"]
  <2>1. Pump(queued, worker, unavailable, after, phase) /\ thread[t] = "replied"
    BY <1>5 DEF OnMessage
  <2>2. worker = t
    BY <2>1 DEF WorkingIsWorker
  <2>3. \A u \in Threads : after[u] \notin {"new", "gone"} => u = t
    BY <1>t, <2>1 DEF OneLive, Live
  <2>4. after \in [Threads -> ThreadStates] /\ after[t] = "ready"
    BY <1>t DEF ThreadStates
  <2> HIDE DEF after
  <2>5. OneLive' /\ WorkingIsWorker' /\ LiveIsWorker' /\ WorkerIsLive'
    BY <1>t, <2>1, <2>2, <2>3, <2>4, PumpThreads
  <2>6. TimerIsOpen'
    BY <1>5, <2>1 DEF OnMessage, Pump, Idle, Post, Settle, TimerIsOpen
  <2> QED
    BY <2>5, <2>6
<1>6. ASSUME NEW t \in Threads, OnError(t) PROVE ThreadInv'
  <2> DEFINE after == [thread EXCEPT ![t] = "exiting"]
  <2>1. thread[t] = "failed"
    BY <1>6 DEF OnError
  <2>3. \A u \in Threads : after[u] \notin {"new", "gone"} => u = t
    BY <1>t, <2>1 DEF OneLive, Live
  <2>4. after \in [Threads -> ThreadStates] /\ after[t] = "exiting"
    BY <1>t DEF ThreadStates
  <2>5. CASE running
    <3>1. Pump(queued, NoThread, TRUE, after, phase)
      BY <1>6, <2>5 DEF OnError
    <3> HIDE DEF after
    <3>2. \A u \in Threads : after[u] \notin {"ready", "busy", "read", "replied"}
      BY <2>3, <2>4
    <3>3. OneLive' /\ WorkingIsWorker' /\ LiveIsWorker' /\ WorkerIsLive'
      BY <1>t, <3>1, <3>2, <2>3, PumpThreads, <2>4
    <3>4. TimerIsOpen'
      BY <1>6, <3>1 DEF OnError, Pump, Idle, Post, Settle, TimerIsOpen
    <3> QED
      BY <3>3, <3>4
  <2>6. CASE ~running
    <3>1. /\ thread' = after /\ worker' = NoThread /\ unavailable' = TRUE
          /\ phase' = phase /\ timer' = timer
      BY <1>6, <2>6 DEF OnError
    <3> HIDE DEF after
    <3> QED
      BY <2>3, <2>4, <3>1 DEF OneLive, WorkingIsWorker, LiveIsWorker, WorkerIsLive,
                              TimerIsOpen, Live
  <2> QED
    BY <2>5, <2>6, <1>t DEF TypeOK
<1>7. ASSUME NEW t \in Threads, OnExit(t) PROVE ThreadInv'
  <2> DEFINE after == [thread EXCEPT ![t] = "gone"]
  <2>1. thread[t] = "exiting"
    BY <1>7 DEF OnExit
  <2>3. \A u \in Threads : after[u] \in {"new", "gone"}
    BY <1>t, <2>1 DEF OneLive, Live
  <2>4. after \in [Threads -> ThreadStates]
    BY <1>t DEF ThreadStates
  <2>5. CASE running
    <3>1. Pump(queued, NoThread, unavailable, after, phase)
      BY <1>7, <2>5 DEF OnExit
    <3> HIDE DEF after
    <3>3. OneLive' /\ WorkingIsWorker' /\ LiveIsWorker' /\ WorkerIsLive'
      BY <1>t, <3>1, <2>3, <2>4, PumpThreads
    <3>4. TimerIsOpen'
      BY <1>7, <3>1 DEF OnExit, Pump, Idle, Post, Settle, TimerIsOpen
    <3> QED
      BY <3>3, <3>4
  <2>6. CASE ~running
    <3>1. /\ thread' = after /\ worker' = NoThread
          /\ phase' = phase /\ timer' = timer
      BY <1>7, <2>6 DEF OnExit
    <3> HIDE DEF after
    <3> QED
      BY <2>3, <3>1 DEF OneLive, WorkingIsWorker, LiveIsWorker, WorkerIsLive,
                        TimerIsOpen, Live
  <2> QED
    BY <2>5, <2>6, <1>t DEF TypeOK
<1>8. CASE UNCHANGED vars
  BY <1>8 DEF vars, OneLive, WorkingIsWorker, LiveIsWorker, WorkerIsLive, TimerIsOpen, Live
<1> QED
  BY <1>1, <1>2, <1>3, <1>4, <1>5, <1>6, <1>7, <1>8 DEF Next, Event

(* However the worker's errors, exits and replies interleave with the       *)
(* queue and the shutdown, no two threads have the index in hand.           *)
THEOREM OneAtATimeHolds == Spec => []OneAtATime
<1>1. OneLive => OneAtATime
  <2> DEFINE S == {t \in Threads : thread[t] \in {"busy", "read"}}
  <2> SUFFICES ASSUME OneLive PROVE Cardinality(S) <= 1
    BY DEF OneAtATime
  <2>1. \A t, u \in S : t = u
    BY DEF OneLive, Live
  <2>2. CASE S = {}
    BY <2>2, FS_EmptySet
  <2>3. CASE S # {}
    <3>1. PICK t \in S : S = {t}
      BY <2>1, <2>3
    <3> QED
      BY <3>1, FS_Singleton
  <2> QED
    BY <2>2, <2>3
<1>2. (TypeOK /\ ThreadInv) /\ [Next]_vars => (TypeOK /\ ThreadInv)'
  BY TypeStep, ThreadStepInv
<1>3. ThreadInv => OneAtATime
  BY <1>1 DEF ThreadInv
<1> QED
  BY <1>2, <1>3, TypeInit, ThreadInit, PTL DEF Spec
-----------------------------------------------------------------------------

(***************************************************************************)
(* The index never goes back: what a thread has read waits until it is     *)
(* written, because nothing else writes meanwhile.                         *)
(***************************************************************************)

LEMMA ReadInit == Init => ReadInOrder
  BY HistoryQueueAssumption DEF Init, ReadInOrder

(* A pump indexes inline only while no thread has read the transcript.      *)
LEMMA PumpReads ==
  ASSUME TypeOK, ReadInOrder, UNCHANGED <<written, snap>>,
         NEW job, NEW w \in Threads \cup {NoThread}, NEW unable \in BOOLEAN, NEW ph,
         NEW threads \in [Threads -> ThreadStates],
         \A t \in Threads : threads[t] = "read" => thread[t] = "read" /\ w = t,
         Pump(job, w, unable, threads, ph)
  PROVE  ReadInOrder' /\ indexed' >= indexed
<1>1. CASE indexed' = indexed
  <2>1. \A t \in Threads : thread'[t] = "read" => threads[t] = "read"
    BY DEF Pump, Idle, Post
  <2> QED
    BY <1>1, <2>1 DEF ReadInOrder, TypeOK
<1>2. CASE w = NoThread /\ thread' = threads /\ indexed' = written
  <2>1. \A t \in Threads : thread'[t] # "read"
    BY <1>2, HistoryQueueAssumption
  <2> QED
    BY <1>2, <2>1 DEF ReadInOrder, TypeOK
<1> QED
  BY <1>1, <1>2 DEF Pump, Idle, Post, IndexInline

LEMMA ReadStep ==
  ASSUME TypeOK, ThreadInv, ReadInOrder, [Next]_vars
  PROVE  ReadInOrder' /\ indexed' >= indexed
<1>t. /\ worker \in Threads \cup {NoThread} /\ unavailable \in BOOLEAN
      /\ thread \in [Threads -> ThreadStates]
  BY DEF TypeOK
<1>w. \A t \in Threads : thread[t] = "read" => worker = t
  BY DEF ThreadInv, WorkingIsWorker
<1>o. \A t, u \in Threads : thread[t] = "read" /\ thread[u] \in {"replied", "failed", "exiting"} => FALSE
  BY DEF ThreadInv, OneLive, Live
<1>1. CASE SessionStart \/ TimerFires \/ Flush
  <2>1. PICK ph \in {"open", "flushing"} : Enqueue(ph) /\ phase # "shut"
    BY <1>1 DEF SessionStart, TimerFires, Flush, ThreadInv, TimerIsOpen
  <2>2. UNCHANGED <<written, snap>>
    BY <1>1 DEF SessionStart, TimerFires, Flush
  <2>3. CASE running
    BY <2>1, <2>2, <2>3 DEF Enqueue, ReadInOrder, TypeOK
  <2>4. CASE ~running
    <3>1. Pump(TRUE, worker, unavailable, thread, ph)
      BY <2>1, <2>4 DEF Enqueue
    <3> QED
      BY <1>t, <1>w, <2>2, <3>1, PumpReads
  <2> QED
    BY <2>3, <2>4
<1>2. CASE Append
  BY <1>2 DEF Append, ReadInOrder, TypeOK
<1>3. CASE FlushEnds
  <2>1. /\ thread' = Terminated /\ written' = written /\ indexed' = indexed /\ snap' = snap
    BY <1>3 DEF FlushEnds
  <2>2. \A t \in Threads : thread'[t] = "read" => thread[t] = "read"
    BY <2>1 DEF Terminated
  <2> QED
    BY <2>1, <2>2 DEF ReadInOrder, TypeOK
<1>4. ASSUME NEW t \in Threads, ThreadReads(t) PROVE ReadInOrder' /\ indexed' >= indexed
  BY <1>4 DEF ThreadReads, ReadInOrder, TypeOK
<1>5. ASSUME NEW t \in Threads, ThreadIndexes(t) PROVE ReadInOrder' /\ indexed' >= indexed
  <2>1. \A u \in Threads : thread'[u] # "read"
    BY <1>5, <1>w DEF ThreadIndexes, TypeOK
  <2>2. /\ written' = written /\ snap' = snap
        /\ indexed' = snap[t] \/ indexed' = indexed
        /\ thread[t] = "read"
    BY <1>5 DEF ThreadIndexes
  <2> QED
    BY <2>1, <2>2 DEF ReadInOrder, TypeOK
<1>6. ASSUME NEW t \in Threads, ThreadFails(t) PROVE ReadInOrder' /\ indexed' >= indexed
  BY <1>6 DEF ThreadFails, ReadInOrder, TypeOK
<1>7. ASSUME NEW t \in Threads, Event(t) PROVE ReadInOrder' /\ indexed' >= indexed
  <2>1. UNCHANGED <<written, snap>>
    BY <1>7 DEF Event, OnMessage, OnError, OnExit
  <2>2. ASSUME NEW s \in {"ready", "exiting", "gone"}, thread[t] \in {"replied", "failed", "exiting"}
        PROVE  /\ [thread EXCEPT ![t] = s] \in [Threads -> ThreadStates]
               /\ \A u \in Threads : [thread EXCEPT ![t] = s][u] # "read"
    BY <1>t, <1>o, <2>2 DEF ThreadStates
  <2>3. CASE OnMessage(t)
    <3>1. Pump(queued, worker, unavailable, [thread EXCEPT ![t] = "ready"], phase)
          /\ thread[t] = "replied"
      BY <2>3 DEF OnMessage
    <3> QED
      BY <1>t, <2>1, <2>2, <3>1, PumpReads
  <2>4. CASE OnError(t) /\ running
    <3>1. Pump(queued, NoThread, TRUE, [thread EXCEPT ![t] = "exiting"], phase)
          /\ thread[t] = "failed"
      BY <2>4 DEF OnError
    <3> QED
      BY <2>1, <2>2, <3>1, PumpReads
  <2>5. CASE OnExit(t) /\ running
    <3> DEFINE after == [thread EXCEPT ![t] = "gone"]
    <3>1. Pump(queued, NoThread, unavailable, after, phase) /\ thread[t] = "exiting"
      BY <2>5 DEF OnExit
    <3>2. after \in [Threads -> ThreadStates] /\ \A u \in Threads : after[u] # "read"
      BY <2>2, <3>1
    <3> HIDE DEF after
    <3> QED
      BY <1>t, <2>1, <3>1, <3>2, PumpReads
  <2>6. CASE (OnError(t) \/ OnExit(t)) /\ ~running
    BY <2>1, <2>6 DEF OnError, OnExit, ReadInOrder, TypeOK
  <2> QED
    BY <1>7, <2>3, <2>4, <2>5, <2>6 DEF Event
<1>8. CASE UNCHANGED vars
  BY <1>8 DEF vars, ReadInOrder, TypeOK
<1> QED
  BY <1>1, <1>2, <1>3, <1>4, <1>5, <1>6, <1>7, <1>8 DEF Next, ThreadStep

(* No job, inline or in a thread, puts an older transcript over a newer one *)
(* in the index, across errors, restarts of the worker and the shutdown.    *)
THEOREM IndexNeverShrinksHolds == Spec => IndexNeverShrinks
<1> DEFINE Inv == TypeOK /\ ThreadInv /\ ReadInOrder
<1>1. Init => Inv
  BY TypeInit, ThreadInit, ReadInit
<1>2. Inv /\ [Next]_vars => Inv'
  BY TypeStep, ThreadStepInv, ReadStep
<1>3. Inv /\ [Next]_vars => [indexed' >= indexed]_indexed
  BY ReadStep
<1> QED
  BY <1>1, <1>2, <1>3, PTL DEF Spec, IndexNeverShrinks
-----------------------------------------------------------------------------

(***************************************************************************)
(* A shutdown that waits for the queue leaves nothing behind: from the     *)
(* flush on, a job waits that will read the whole transcript, or one runs  *)
(* that does, or it has come to nothing and said why.  What a thread says  *)
(* of an older job is superseded by the job that waits behind it.          *)
(***************************************************************************)
Accounted == indexed = written \/ missed # {}

JobsRun ==
  /\ queued => running
  /\ \A t \in Threads : thread[t] \in {"busy", "read", "replied"} => running

FlushCovers ==
  phase = "flushing" /\ ~queued =>
    /\ \A t \in Threads : thread[t] = "read" => snap[t] = written
    /\ Accounted \/ \E t \in Threads : thread[t] \in {"busy", "read"}

DrainedIsDone ==
  phase = "drained" \/ (phase = "shut" /\ timeouts = 0) => ~running /\ Accounted

DrainInv == JobsRun /\ FlushCovers /\ DrainedIsDone

LEMMA DrainInit == Init => DrainInv
  BY DEF Init, DrainInv, JobsRun, FlushCovers, DrainedIsDone

(* A pump that is handed no job only when the last one is accounted for     *)
(* keeps the promise of the flush.                                          *)
LEMMA PumpDrains ==
  ASSUME TypeOK, UNCHANGED written,
         NEW job \in BOOLEAN, NEW w \in Threads \cup {NoThread}, NEW unable \in BOOLEAN,
         NEW ph \in Phases,
         NEW threads \in [Threads -> ThreadStates],
         \A t \in Threads : threads[t] \notin {"busy", "read", "replied"},
         ph = "flushing" /\ ~job => Accounted,
         ph = "drained" \/ (ph = "shut" /\ timeouts' = 0) => ~job /\ Accounted,
         Pump(job, w, unable, threads, ph)
  PROVE  DrainInv'
<1> USE DEF DrainInv, JobsRun, FlushCovers, DrainedIsDone, Accounted
<1>0. ~queued' /\ running' \in BOOLEAN
  BY DEF Pump, Idle, Post
<1>1. CASE ~job
  <2>1. /\ ~running' /\ thread' = threads /\ indexed' = indexed /\ missed' = missed
        /\ phase' = IF ph = "flushing" THEN "drained" ELSE ph
    BY <1>1 DEF Pump, Idle, Settle
  <2> QED
    BY <1>0, <1>1, <2>1
<1>2. CASE job /\ w = NoThread /\ unable
  <2>1. /\ ~running' /\ thread' = threads
        /\ phase' = IF ph = "flushing" THEN "drained" ELSE ph
    BY <1>2, HistoryQueueAssumption DEF Pump, Idle, Settle
  <2>2. indexed' = written \/ missed' = {"sidecar"}
    BY <1>2, HistoryQueueAssumption DEF Pump, IndexInline
  <2> QED
    BY <1>0, <1>2, <2>1, <2>2
<1>3. ASSUME NEW t \in Threads, job, Post(t, threads, ph) PROVE DrainInv'
  <2>1. running' /\ thread' = [threads EXCEPT ![t] = "busy"] /\ phase' = ph
    BY <1>3 DEF Post
  <2>2. \A u \in Threads : thread'[u] # "read"
    BY <2>1
  <2>3. thread'[t] = "busy"
    BY <2>1
  <2> QED
    BY <1>0, <1>3, <2>1, <2>2, <2>3
<1> QED
  BY <1>1, <1>2, <1>3 DEF Pump

LEMMA DrainStep ==
  ASSUME TypeOK, ThreadInv, ReadInOrder, DrainInv, [Next]_vars
  PROVE  DrainInv'
<1>t. /\ worker \in Threads \cup {NoThread} /\ unavailable \in BOOLEAN
      /\ thread \in [Threads -> ThreadStates] /\ queued \in BOOLEAN /\ phase \in Phases
  BY DEF TypeOK
<1> USE DEF DrainInv, JobsRun, FlushCovers, DrainedIsDone, Accounted
<1>1. CASE SessionStart \/ TimerFires \/ Flush
  <2>1. PICK ph \in {"open", "flushing"} : Enqueue(ph) /\ phase \in {"new", "open"}
    BY <1>1 DEF SessionStart, TimerFires, Flush, ThreadInv, TimerIsOpen
  <2>2. UNCHANGED <<written, snap, timeouts>>
    BY <1>1 DEF SessionStart, TimerFires, Flush
  <2>3. CASE running
    BY <2>1, <2>2, <2>3 DEF Enqueue
  <2>4. CASE ~running
    <3> DEFINE job == TRUE
    <3>1. Pump(job, worker, unavailable, thread, ph)
      BY <2>1, <2>4 DEF Enqueue
    <3>2. \A t \in Threads : thread[t] \notin {"busy", "read", "replied"}
      BY <2>4
    <3>3. job \in BOOLEAN /\ job
      OBVIOUS
    <3>4. ph \in Phases /\ ph \notin {"drained", "shut"}
      BY DEF Phases
    <3> HIDE DEF job, DrainInv, Accounted
    <3> QED
      BY <1>t, <2>2, <3>1, <3>2, <3>3, <3>4, PumpDrains
  <2> QED
    BY <2>3, <2>4
<1>2. CASE Append
  BY <1>2 DEF Append
<1>3. CASE FlushEnds
  <2>1. /\ phase' = "shut" /\ UNCHANGED <<written, indexed, queued, running, missed>>
        /\ thread' = Terminated
        /\ phase = "drained" \/ timeouts' # 0
    BY <1>3 DEF FlushEnds, TypeOK
  <2>2. \A t \in Threads : thread'[t] \in {"busy", "read", "replied"} => thread'[t] = thread[t]
    BY <2>1 DEF Terminated
  <2> QED
    BY <2>1, <2>2
<1>4. ASSUME NEW t \in Threads, ThreadReads(t) PROVE DrainInv'
  <2>1. /\ thread[t] = "busy" /\ thread' = [thread EXCEPT ![t] = "read"]
        /\ snap' = [snap EXCEPT ![t] = written]
        /\ UNCHANGED <<written, indexed, queued, running, phase, timeouts, missed>>
    BY <1>4 DEF ThreadReads, queueVars
  <2>2. thread'[t] = "read" /\ snap'[t] = written
    BY <1>t, <2>1 DEF TypeOK
  <2>3. \A u \in Threads \ {t} : thread'[u] = thread[u] /\ snap'[u] = snap[u]
    BY <1>t, <2>1 DEF TypeOK
  <2> QED
    BY <2>1, <2>2, <2>3
<1>5. ASSUME NEW t \in Threads, ThreadIndexes(t) PROVE DrainInv'
  <2>1. /\ thread[t] = "read" /\ thread' = [thread EXCEPT ![t] = "replied"]
        /\ UNCHANGED <<written, snap, queued, running, phase, timeouts>>
        /\ indexed' = snap[t] \/ missed' # {}
    BY <1>5 DEF ThreadIndexes, queueVars
  <2>2. \A u \in Threads \ {t} : thread[u] \notin {"busy", "read", "replied"}
    BY <2>1 DEF ThreadInv, OneLive, Live
  <2>3. thread'[t] = "replied" /\ \A u \in Threads \ {t} : thread'[u] = thread[u]
    BY <1>t, <2>1
  <2>4. running
    BY <2>1
  <2> QED
    BY <2>1, <2>2, <2>3, <2>4
<1>6. ASSUME NEW t \in Threads, ThreadFails(t) PROVE DrainInv'
  <2>1. /\ thread[t] \in {"busy", "read"} /\ thread' = [thread EXCEPT ![t] = "failed"]
        /\ UNCHANGED <<written, snap, indexed, queued, running, phase, timeouts>>
        /\ missed' # {}
    BY <1>6 DEF ThreadFails, queueVars
  <2>2. thread'[t] = "failed" /\ \A u \in Threads \ {t} : thread'[u] = thread[u]
    BY <1>t, <2>1
  <2>3. running
    BY <2>1
  <2> QED
    BY <2>1, <2>2, <2>3
<1>7. ASSUME NEW t \in Threads, Event(t) PROVE DrainInv'
  <2>1. UNCHANGED <<written, snap, timeouts>> /\ thread[t] \in {"replied", "failed", "exiting"}
    BY <1>7 DEF Event, OnMessage, OnError, OnExit
  <2>2. \A u \in Threads \ {t} : thread[u] \notin {"busy", "read", "replied"}
    BY <2>1 DEF ThreadInv, OneLive, Live
  <2>4. phase = "flushing" /\ ~queued => Accounted
    BY <2>1, <2>2
  <2>5. running => ~(phase = "drained" \/ (phase = "shut" /\ timeouts' = 0))
    BY <2>1
  <2>6. ASSUME NEW s \in {"ready", "exiting", "gone"}, running,
               NEW w \in Threads \cup {NoThread}, NEW unable \in BOOLEAN,
               Pump(queued, w, unable, [thread EXCEPT ![t] = s], phase)
        PROVE  DrainInv'
    <3> DEFINE after == [thread EXCEPT ![t] = s]
    <3>1. after \in [Threads -> ThreadStates]
      BY <1>t DEF ThreadStates
    <3>2. \A u \in Threads : after[u] \notin {"busy", "read", "replied"}
      BY <1>t, <2>2
    <3>3. Pump(queued, w, unable, after, phase)
      BY <2>6
    <3> HIDE DEF after, DrainInv, Accounted
    <3> QED
      BY <1>t, <2>1, <2>4, <2>5, <2>6, <3>1, <3>2, <3>3, PumpDrains
  <2>7. CASE OnMessage(t)
    <3>1. running
      BY <2>7 DEF OnMessage
    <3> QED
      BY <1>t, <2>6, <2>7, <3>1 DEF OnMessage
  <2>8. CASE OnError(t) /\ running
    BY <2>6, <2>8 DEF OnError
  <2>9. CASE OnExit(t) /\ running
    BY <1>t, <2>6, <2>9 DEF OnExit
  <2>10. CASE (OnError(t) \/ OnExit(t)) /\ ~running
    <3>1. /\ UNCHANGED <<indexed, missed, queued, running, phase>>
          /\ \E s \in {"exiting", "gone"} : thread' = [thread EXCEPT ![t] = s]
      BY <2>10 DEF OnError, OnExit
    <3>2. \A u \in Threads : thread'[u] \notin {"busy", "read", "replied"}
      BY <1>t, <2>2, <3>1
    <3> QED
      BY <2>1, <2>4, <3>1, <3>2
  <2> QED
    BY <1>7, <2>7, <2>8, <2>9, <2>10 DEF Event
<1>8. CASE UNCHANGED vars
  BY <1>8 DEF vars
<1> QED
  BY <1>1, <1>2, <1>3, <1>4, <1>5, <1>6, <1>7, <1>8 DEF Next, ThreadStep

(* A session that shuts down before HISTORY_FLUSH_TIMEOUT_MS leaves its     *)
(* whole transcript in the index, whichever threads died and whatever was   *)
(* queued, unless the last job failed, and that has been noted.             *)
THEOREM ShutIsIndexedHolds == Spec => []ShutIsIndexed
<1> DEFINE Inv == TypeOK /\ ThreadInv /\ ReadInOrder /\ DrainInv
<1>1. Init => Inv
  BY TypeInit, ThreadInit, ReadInit, DrainInit
<1>2. Inv /\ [Next]_vars => Inv'
  BY TypeStep, ThreadStepInv, ReadStep, DrainStep
<1>3. Inv => ShutIsIndexed
  BY DEF DrainInv, DrainedIsDone, Accounted, ShutIsIndexed
<1> QED
  BY <1>1, <1>2, <1>3, PTL DEF Spec
=============================================================================
