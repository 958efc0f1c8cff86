---------------------------- MODULE ViewerServer ----------------------------
(***************************************************************************)
(* The viewer's server (viewer/server.go, state.go): a poll that brings the *)
(* index and the room file together in a base view and announces it, the    *)
(* handlers that answer from the base or regroup the index anew, and the    *)
(* event stream that tells a page when to ask again.                        *)
(*                                                                         *)
(* What the transcripts and the room file hold is a version number each; a  *)
(* view is the versions it was made from.  An index is at a version if it   *)
(* has what the tree still holds of every change up to that one.  How a     *)
(* poll indexes the files is TranscriptScan; here a refresh is one step,    *)
(* for it holds the store's lock.                                           *)
(***************************************************************************)
EXTENDS Integers, Sequences

CONSTANTS
  Pages,
  QueueSize,      (* frames a subscriber may leave unread                    *)
  MaxTree,        (* bound: changes of the transcripts                       *)
  MaxRoom,        (* bound: saves of the room file                           *)
  Silent,         (* the changes that only delete transcripts                *)
  MaxMishaps      (* bound: refreshes, stats and reads that fail, and        *)
                  (* streams that break                                      *)

ASSUME ServerAssumption ==
  /\ QueueSize \in Nat \ {0}
  /\ MaxTree \in Nat /\ MaxRoom \in Nat /\ MaxMishaps \in Nat
  /\ Silent \subseteq 1..MaxTree

VARIABLES
  tree, room,     (* the versions on disk                                    *)
  reach,          (* what a refresh can index: up to a file that was cut short *)
  store,          (* [index, seen, generation, owed, losses]: the tree that   *)
                  (* the last refresh saw; if some of it is to be read again; *)
                  (* and (history) the refreshes that the index shrank in     *)
  state,          (* the room as loaded: [room, stat]                        *)
  base,           (* the view the server holds                               *)
  poll,           (* refreshOnce: [at, stat, changed]; it holds s.mu         *)
  page,           (* of each page: where its stream is, and what it asked    *)
  queue,          (* of each page: its channel                               *)
  mishaps

vars == <<tree, room, reach, store, state, base, poll, page, queue, mishaps>>

NoView == [generation |-> -1, index |-> 0, room |-> 0, losses |-> 0]
Idle == [at |-> "idle", stat |-> 0, changed |-> FALSE]
NoAsk == [kind |-> "none", at |-> "none", label |-> NoView, sessions |-> 0, calls |-> 0,
          wakes |-> 0, room |-> 0]

Init ==
  /\ tree \in 0..MaxTree /\ room \in 0..MaxRoom
  /\ reach = MaxTree
  /\ store = [index |-> 0, seen |-> 0, generation |-> 0, owed |-> FALSE, losses |-> 0]
  /\ state = [room |-> 0, stat |-> 0]
  /\ base = NoView
  /\ poll = Idle
  /\ page = [p \in Pages |-> [stream |-> "new", frame |-> NoView, ask |-> NoAsk]]
  /\ queue = [p \in Pages |-> <<>>]
  /\ mishaps = 0

Free == poll.at = "idle"
Ready == base # NoView
NextView ==
  [generation |-> store.generation, index |-> store.index, room |-> state.room,
   losses |-> store.losses]

-----------------------------------------------------------------------------
(* The disk.                                                                *)

(* A change, unless it deletes only, may be one of the file whose reading   *)
(* was cut short: then its rest will be read with it.                       *)
TreeChanges ==
  /\ tree < MaxTree
  /\ tree' = tree + 1
  /\ reach' \in IF tree' \in Silent THEN {reach} ELSE reach..MaxTree
  /\ UNCHANGED <<room, store, state, base, poll, page, queue, mishaps>>

RoomSaved ==
  /\ room < MaxRoom
  /\ room' = room + 1
  /\ UNCHANGED <<tree, reach, store, state, base, poll, page, queue, mishaps>>

-----------------------------------------------------------------------------
(* refreshOnce, which holds s.mu to its end.                                *)

Refreshed(index, owed, changed) ==
  /\ store' = [index |-> index, seen |-> tree, owed |-> owed,
               generation |-> store.generation + (IF changed THEN 1 ELSE 0),
               losses |-> store.losses + (IF index < store.index THEN 1 ELSE 0)]
  /\ poll' = [poll EXCEPT !.at = "stat", !.changed = changed]

Within(limit) == IF limit < tree THEN limit ELSE tree

(* There is something to read: what is owed, or a change that is more than  *)
(* a deletion.                                                              *)
Due == store.owed \/ \E v \in (store.seen + 1)..tree : v \notin Silent

(* The tree as it is, but for the rest of files that were cut short.        *)
Refresh ==
  /\ Free
  /\ Refreshed(Within(reach), FALSE, Due)
  /\ UNCHANGED <<tree, room, reach, state, base, page, queue, mishaps>>

(* Some of it fails.  A directory that is not listed takes its sessions out *)
(* of the index, until it is listed again and read anew; a file that is not *)
(* read is owed; one that is read and cut short will not be looked at until *)
(* it changes.  What was read is either announced now or owed.              *)
RefreshFails ==
  /\ Free /\ mishaps < MaxMishaps
  /\ mishaps' = mishaps + 1
  /\ \E limit \in 0..reach, changed \in BOOLEAN : \E index \in 0..Within(limit) :
       /\ reach' = limit
       /\ limit < reach => Due /\ changed
       /\ LET missing == index < Within(limit) \/ index < store.index
              unsaid == (Due \/ index > store.index) /\ ~changed
          IN  Refreshed(index, missing \/ unsaid, changed)
  /\ UNCHANGED <<tree, room, state, base, page, queue>>

(* loadRoomState: nothing to load if the stat is that of the last load.     *)
StatRoom ==
  /\ poll.at = "stat"
  /\ poll' = [poll EXCEPT !.at = IF room = state.stat THEN "build" ELSE "read", !.stat = room]
  /\ UNCHANGED <<tree, room, reach, store, state, base, page, queue, mishaps>>

(* It reads the file as it is by then, under the stat it took before.       *)
ReadRoom ==
  /\ poll.at = "read"
  /\ state' = [room |-> room, stat |-> poll.stat]
  /\ poll' = [poll EXCEPT !.at = "build", !.changed = TRUE]
  /\ UNCHANGED <<tree, room, reach, store, base, page, queue, mishaps>>

(* What was loaded before stays.                                            *)
LoadFails ==
  /\ poll.at \in {"stat", "read"} /\ mishaps < MaxMishaps
  /\ mishaps' = mishaps + 1
  /\ poll' = [poll EXCEPT !.at = "build"]
  /\ UNCHANGED <<tree, room, reach, store, state, base, page, queue>>

Subscribed(p) == page[p].stream \in {"subscribed", "live"}

(* Mutant of Announce: the send does not mind the size of the channel.      *)
AnnounceAll(view) ==
  queue' = [p \in Pages |-> IF Subscribed(p) THEN Append(queue[p], view) ELSE queue[p]]

(* Mutant of Announce: only a new generation is announced.                  *)
AnnounceNewer(view) ==
  queue' = [p \in Pages |->
    IF Subscribed(p) /\ Len(queue[p]) < QueueSize /\ view.generation > base.generation
    THEN Append(queue[p], view) ELSE queue[p]]

(* notify: a subscriber whose channel is full misses the frame.             *)
Announce(view) ==
  queue' = [p \in Pages |-> IF Subscribed(p) /\ Len(queue[p]) < QueueSize
                            THEN Append(queue[p], view) ELSE queue[p]]

(* Mutant of Build: a change of the room alone is announced without a view. *)
BuildForTree ==
  /\ poll.at = "build" /\ (poll.changed \/ ~Ready)
  /\ base' = IF store.index # base.index \/ ~Ready THEN NextView ELSE base
  /\ Announce(NextView)
  /\ poll' = Idle
  /\ UNCHANGED <<tree, room, reach, store, state, page, mishaps>>

(* The view is built from the store as the poll left it, and announced.     *)
Build ==
  /\ poll.at = "build" /\ (poll.changed \/ ~Ready)
  /\ base' = NextView
  /\ Announce(NextView)
  /\ poll' = Idle
  /\ UNCHANGED <<tree, room, reach, store, state, page, mishaps>>

NothingNew ==
  /\ poll.at = "build" /\ ~poll.changed /\ Ready
  /\ poll' = Idle
  /\ UNCHANGED <<tree, room, reach, store, state, base, page, queue, mishaps>>

-----------------------------------------------------------------------------
(* A page.  Of its requests only the newest is followed: the answers to the *)
(* others do not depend on it.                                              *)

Asks(p, frame, stream) ==
  \E kind \in {"default", "regrouped"} :
    page' = [page EXCEPT ![p] = [stream |-> stream, frame |-> frame,
                                 ask |-> [NoAsk EXCEPT !.kind = kind, !.at = "base"]]]

(* It loads, and asks before it connects.                                   *)
Load(p) ==
  /\ Ready /\ page[p].stream = "new"
  /\ Asks(p, NoView, "off")
  /\ UNCHANGED <<tree, room, reach, store, state, base, poll, queue, mishaps>>

(* handleEvents: it subscribes, and then sends the view of the moment.      *)
Connect(p) ==
  /\ page[p].stream = "off"
  /\ page' = [page EXCEPT ![p].stream = "subscribed"]
  /\ UNCHANGED <<tree, room, reach, store, state, base, poll, queue, mishaps>>

FirstFrame(p) ==
  /\ page[p].stream = "subscribed" /\ Free
  /\ Asks(p, base, "live")
  /\ UNCHANGED <<tree, room, reach, store, state, base, poll, queue, mishaps>>

NextFrame(p) ==
  /\ page[p].stream = "live" /\ queue[p] # <<>>
  /\ Asks(p, Head(queue[p]), "live")
  /\ queue' = [queue EXCEPT ![p] = Tail(@)]
  /\ UNCHANGED <<tree, room, reach, store, state, base, poll, mishaps>>

(* The stream breaks; the page connects again.                              *)
Break(p) ==
  /\ Subscribed(p) /\ mishaps < MaxMishaps
  /\ mishaps' = mishaps + 1
  /\ page' = [page EXCEPT ![p].stream = "off"]
  /\ queue' = [queue EXCEPT ![p] = <<>>]
  /\ UNCHANGED <<tree, room, reach, store, state, base, poll>>

-----------------------------------------------------------------------------
(* The handlers.                                                            *)

Reads(p, ask) ==
  /\ page' = [page EXCEPT ![p].ask = ask]
  /\ UNCHANGED <<tree, room, reach, store, state, base, poll, queue, mishaps>>

Ask(p) == page[p].ask

Answered(view) ==
  [kind |-> "default", at |-> "done", label |-> view, sessions |-> view.index,
   calls |-> view.index, wakes |-> view.index, room |-> view.room]

(* currentView under s.mu: the base, or the generation to answer under.     *)
TakeBase(p) ==
  /\ Ask(p).at = "base" /\ Free
  /\ Reads(p, IF Ask(p).kind = "default" THEN Answered(base)
              ELSE [Ask(p) EXCEPT !.label = base, !.at = "sessions"])

(* snapshot: three reads of the store, one after the other.                 *)
ReadSessions(p) ==
  /\ Ask(p).at = "sessions"
  /\ Reads(p, [Ask(p) EXCEPT !.sessions = store.index, !.at = "calls"])

ReadCalls(p) ==
  /\ Ask(p).at = "calls"
  /\ Reads(p, [Ask(p) EXCEPT !.calls = store.index, !.at = "wakes"])

ReadWakes(p) ==
  /\ Ask(p).at = "wakes"
  /\ Reads(p, [Ask(p) EXCEPT !.wakes = store.index, !.at = "state"])

(* Mutant of ReadState: the label is taken last.                            *)
ReadStateLabelled(p) ==
  /\ Ask(p).at = "state" /\ Free
  /\ Reads(p, [Ask(p) EXCEPT !.room = state.room, !.label = base, !.at = "done"])

(* The room is read without a lock.                                         *)
ReadState(p) ==
  /\ Ask(p).at = "state"
  /\ Reads(p, [Ask(p) EXCEPT !.room = state.room, !.at = "done"])

Poll == Refresh \/ RefreshFails \/ StatRoom \/ ReadRoom \/ LoadFails \/ Build \/ NothingNew
Stream(p) == Load(p) \/ Connect(p) \/ FirstFrame(p) \/ NextFrame(p)
Handler(p) == TakeBase(p) \/ ReadSessions(p) \/ ReadCalls(p) \/ ReadWakes(p) \/ ReadState(p)

Next ==
  \/ TreeChanges \/ RoomSaved \/ Poll
  \/ \E p \in Pages : Stream(p) \/ Break(p) \/ Handler(p)

Spec == Init /\ [][Next]_vars
FairSpec == Spec /\ WF_vars(Poll) /\ \A p \in Pages : SF_vars(Stream(p)) /\ SF_vars(Handler(p))

-----------------------------------------------------------------------------
Views == [generation : Int, index : Nat, room : Nat, losses : Nat]
AskType ==
  [kind : {"none", "default", "regrouped"},
   at : {"none", "base", "sessions", "calls", "wakes", "state", "done"},
   label : Views, sessions : Nat, calls : Nat, wakes : Nat, room : Nat]

TypeOK ==
  /\ tree \in 0..MaxTree /\ room \in 0..MaxRoom
  /\ reach \in 0..MaxTree
  /\ store \in [index : 0..MaxTree, seen : 0..MaxTree, generation : Nat, owed : BOOLEAN,
                losses : Nat]
  /\ state \in [room : 0..MaxRoom, stat : 0..MaxRoom]
  /\ base \in Views
  /\ poll \in [at : {"idle", "stat", "read", "build"}, stat : 0..MaxRoom, changed : BOOLEAN]
  /\ page \in [Pages -> [stream : {"new", "off", "subscribed", "live"}, frame : Views,
                         ask : AskType]]
  /\ queue \in [Pages -> Seq(Views)]
  /\ \A p \in Pages : Len(queue[p]) <= QueueSize
  /\ mishaps \in 0..MaxMishaps

(* What a page is told when it asks because of a frame is not older than    *)
(* the frame, whichever of the index's parts the answer shows and whatever  *)
(* the poll does meanwhile (refreshOnce, notify and currentView).  Of the   *)
(* transcripts that holds until a refresh that could not list a directory   *)
(* takes it out of the index, and again of what is announced after that; of *)
(* the room it always does.                                                 *)
Covers(ask, view) ==
  /\ ask.room >= view.room
  /\ store.losses = view.losses
       => ask.sessions >= view.index /\ ask.calls >= view.index /\ ask.wakes >= view.index

AnswersFollowFrames ==
  \A p \in Pages : Ask(p).at = "done" => Covers(Ask(p), page[p].frame)

(* An answer may hold more than the generation it is labelled with, but not *)
(* less, with the same exception: a page which sees a newer generation may  *)
(* trust that it has something to fetch (currentView labels a regrouped     *)
(* view with its base).                                                     *)
LabelNotAhead ==
  \A p \in Pages : Ask(p).at = "done" => Covers(Ask(p), Ask(p).label)

(* Once the files are quiet, the newest answer of every page is what they   *)
(* hold, but for deletions that nothing followed and for what lies behind a *)
(* reading that was cut short: no frame is missed for good, be its channel  *)
(* full, its stream broken or its page just connecting, and what a refresh  *)
(* dropped or could not read comes back.                                    *)
Readable == {v \in 1..Within(reach) : v \notin Silent}
UpToDate(p) ==
  /\ Ask(p).at = "done"
  /\ \A v \in Readable : Ask(p).sessions >= v /\ Ask(p).calls >= v /\ Ask(p).wakes >= v
  /\ Ask(p).room = room
PageCatchesUp == \A p \in Pages : <>[](UpToDate(p))
=============================================================================
