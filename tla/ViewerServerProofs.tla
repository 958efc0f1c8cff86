------------------------ MODULE ViewerServerProofs ------------------------
(***************************************************************************)
(* What the viewer's server guarantees for any number of pages, any queue   *)
(* and any number of changes and failures.                                  *)
(***************************************************************************)
EXTENDS ViewerServer, TLAPS

(* The order of views: rooms only grow, and indexes but for refreshes that  *)
(* they shrink in.                                                          *)
NotAfter(v, w) ==
  /\ v.room <= w.room
  /\ v.losses <= w.losses
  /\ v.losses = w.losses => v.index <= w.index

(* The strengthening: views only go forward on their way from the disk      *)
(* through the store to the base, and from the base through the channel to  *)
(* a page.                                                                  *)
DiskAhead ==
  /\ store.index <= tree /\ store.index <= reach /\ store.seen <= tree
  /\ state.room <= room
BaseBehind == NotAfter(base, NextView)
FramesBehind ==
  \A p \in Pages : /\ NotAfter(page[p].frame, base)
                   /\ \A i \in 1..Len(queue[p]) : NotAfter(queue[p][i], base)

(* A request's label is taken after its frame, its parts after its label,   *)
(* one after the other; lost is the number of refreshes by now that the     *)
(* index shrank in.                                                         *)
Labelled == {"sessions", "calls", "wakes", "state", "done"}
InOrder(f, a, lost) ==
  /\ a.at \in Labelled => NotAfter(f, a.label) /\ NotAfter(a.label, base)
  /\ lost = a.label.losses =>
       /\ a.at \in {"calls", "wakes", "state", "done"} => a.label.index <= a.sessions
       /\ a.at \in {"wakes", "state", "done"} => a.label.index <= a.calls
       /\ a.at \in {"state", "done"} => a.label.index <= a.wakes
  /\ a.at = "done" => a.label.room <= a.room
AsksInOrder == \A p \in Pages : InOrder(page[p].frame, Ask(p), store.losses)

ServerInv == TypeOK /\ DiskAhead /\ BaseBehind /\ FramesBehind /\ AsksInOrder

(* The part of TypeOK about the store.                                      *)
StoreType ==
  [index : 0..MaxTree, seen : 0..MaxTree, generation : Nat, owed : BOOLEAN, losses : Nat]

PageType == [stream : {"new", "off", "subscribed", "live"}, frame : Views, ask : AskType]

LEMMA NoViewType == NoView \in Views /\ NoAsk \in AskType
  BY DEF NoView, NoAsk, Views, AskType

LEMMA ServerInit == Init => ServerInv
<1> SUFFICES ASSUME Init PROVE ServerInv
  OBVIOUS
<1>1. page \in [Pages -> PageType] /\ queue \in [Pages -> Seq(Views)]
  BY NoViewType DEF Init, PageType
<1>2. TypeOK
  BY <1>1, NoViewType, ServerAssumption DEF Init, TypeOK, PageType, Idle
<1>3. DiskAhead /\ BaseBehind
  BY ServerAssumption DEF Init, DiskAhead, BaseBehind, NextView, NotAfter, NoView
<1>4. FramesBehind
  <2>1. NotAfter(NoView, NoView)
    BY DEF NotAfter, NoView
  <2>2. base = NoView
    BY DEF Init
  <2>3. ASSUME NEW p \in Pages PROVE page[p].frame = NoView
    BY DEF Init
  <2>4. ASSUME NEW p \in Pages PROVE 1..Len(queue[p]) = {}
    BY DEF Init
  <2> QED
    BY <2>1, <2>2, <2>3, <2>4 DEF FramesBehind
<1>5. AsksInOrder
  BY DEF Init, AsksInOrder, InOrder, Ask, NoAsk, Labelled
<1> QED
  BY <1>2, <1>3, <1>4, <1>5 DEF ServerInv

LEMMA NotAfterOrder ==
  ASSUME NEW u \in Views, NEW v \in Views, NEW w \in Views
  PROVE  /\ NotAfter(v, v)
         /\ NotAfter(u, v) /\ NotAfter(v, w) => NotAfter(u, w)
  BY DEF NotAfter, Views

LEMMA NextViewType ==
  ASSUME TypeOK
  PROVE  /\ NextView \in Views /\ base \in Views
         /\ store \in StoreType /\ store.losses \in Nat
         /\ NextView.index = store.index /\ NextView.room = state.room
         /\ NextView.losses = store.losses
<1>1. store \in StoreType /\ state \in [room : 0..MaxRoom, stat : 0..MaxRoom] /\ base \in Views
  BY DEF TypeOK, StoreType
<1> QED
  BY <1>1, ServerAssumption DEF NextView, Views, StoreType

(* The base, the frames and the requests are as they were; only what they   *)
(* are behind has moved on.                                                 *)
LEMMA UpstreamStep ==
  ASSUME ServerInv, TypeOK', DiskAhead',
         base' = base, page' = page, queue' = queue,
         NotAfter(NextView, NextView')
  PROVE  ServerInv'
<1>0. NextView \in Views /\ NextView' \in Views /\ base \in Views
  <2>1. store' \in StoreType /\ state' \in [room : 0..MaxRoom, stat : 0..MaxRoom]
    BY DEF TypeOK, StoreType
  <2>2. NextView' \in Views
    BY <2>1, ServerAssumption DEF NextView, Views, StoreType
  <2> QED
    BY <2>2, NextViewType DEF ServerInv
<1>1. BaseBehind'
  BY <1>0, NotAfterOrder DEF ServerInv, BaseBehind
<1>2. FramesBehind'
  BY DEF ServerInv, FramesBehind
<1>3. AsksInOrder'
  <2> SUFFICES ASSUME NEW p \in Pages PROVE InOrder(page[p].frame, Ask(p), store.losses)'
    BY DEF AsksInOrder
  <2> DEFINE a == Ask(p)
             f == page[p].frame
  <2>1. InOrder(f, a, store.losses) /\ a \in AskType
    BY DEF ServerInv, AsksInOrder, TypeOK, Ask
  <2>2. a.at \in Labelled => NotAfter(a.label, NextView)
    <3> SUFFICES ASSUME a.at \in Labelled PROVE NotAfter(a.label, NextView)
      OBVIOUS
    <3>1. a.label \in Views /\ NotAfter(a.label, base) /\ NotAfter(base, NextView)
      BY <2>1 DEF InOrder, AskType, ServerInv, BaseBehind
    <3> QED  BY <1>0, <3>1, NotAfterOrder
  <2>3. a.at \in Labelled /\ store'.losses = a.label.losses => store.losses = a.label.losses
    <3> SUFFICES ASSUME a.at \in Labelled, store'.losses = a.label.losses
                 PROVE  store.losses = a.label.losses
      OBVIOUS
    <3>1. a.label.losses <= store.losses
      BY <2>2 DEF NotAfter, NextView
    <3>2. store.losses <= store'.losses
      BY DEF NotAfter, NextView
    <3>3. store.losses \in Nat /\ a.label.losses \in Nat
      BY <2>1, NextViewType DEF ServerInv, AskType, Views
    <3> QED  BY <3>1, <3>2, <3>3
  <2>4. InOrder(f, a, store'.losses)
    BY <2>1, <2>3 DEF InOrder, Labelled
  <2>5. Ask(p)' = a /\ page'[p].frame = f
    BY DEF Ask
  <2> QED
    BY <2>4, <2>5 DEF InOrder, Ask
<1> QED
  BY <1>1, <1>2, <1>3 DEF ServerInv

LEMMA DiskStep == ServerInv /\ (TreeChanges \/ RoomSaved) => ServerInv'
<1> SUFFICES ASSUME ServerInv, TreeChanges \/ RoomSaved PROVE ServerInv'
  OBVIOUS
<1>0. /\ tree \in 0..MaxTree /\ reach \in 0..MaxTree /\ room \in 0..MaxRoom
      /\ store.index \in 0..MaxTree /\ store.seen \in 0..MaxTree /\ state.room \in 0..MaxRoom
  BY DEF ServerInv, TypeOK
<1>1. /\ tree' \in 0..MaxTree /\ room' \in 0..MaxRoom /\ reach' \in 0..MaxTree
      /\ tree <= tree' /\ room <= room' /\ reach <= reach'
  BY <1>0, ServerAssumption DEF TreeChanges, RoomSaved
<1>2. UNCHANGED <<store, state, base, poll, page, queue, mishaps>>
  BY DEF TreeChanges, RoomSaved
<1>3. TypeOK'
  BY <1>1, <1>2 DEF ServerInv, TypeOK
<1>4. DiskAhead'
  BY <1>0, <1>1, <1>2, ServerAssumption DEF ServerInv, DiskAhead
<1>5. NotAfter(NextView, NextView')
  BY <1>2, NextViewType, NotAfterOrder DEF ServerInv, NextView
<1> QED
  BY <1>2, <1>3, <1>4, <1>5, UpstreamStep

LEMMA RefreshedStep ==
  ASSUME ServerInv, reach' \in 0..reach, NEW index \in 0..tree, index <= reach',
         NEW owed \in BOOLEAN, NEW changed \in BOOLEAN,
         Refreshed(index, owed, changed), mishaps' \in 0..MaxMishaps,
         UNCHANGED <<tree, room, state, base, page, queue>>
  PROVE  ServerInv'
<1> DEFINE lost == IF index < store.index THEN 1 ELSE 0
<1>1. /\ tree \in 0..MaxTree /\ reach' \in 0..MaxTree /\ index \in 0..MaxTree
      /\ store \in StoreType /\ store.losses + lost \in Nat
  BY ServerAssumption DEF ServerInv, TypeOK, StoreType
<1>2. store' = [index |-> index, seen |-> tree, owed |-> owed,
                generation |-> store.generation + (IF changed THEN 1 ELSE 0),
                losses |-> store.losses + lost]
  BY DEF Refreshed
<1>3. store' \in StoreType
  BY <1>1, <1>2 DEF StoreType
<1>4. poll' \in [at : {"idle", "stat", "read", "build"}, stat : 0..MaxRoom, changed : BOOLEAN]
  BY DEF ServerInv, TypeOK, Refreshed
<1>5. TypeOK'
  BY <1>1, <1>3, <1>4 DEF ServerInv, TypeOK, StoreType
<1>6. DiskAhead'
  BY <1>1, <1>2 DEF ServerInv, DiskAhead
<1>7. NotAfter(NextView, NextView')
  <2>1. state.room <= state.room
    BY DEF ServerInv, TypeOK
  <2>2. /\ NextView.losses = store.losses /\ NextView'.losses = store.losses + lost
        /\ NextView.index = store.index /\ NextView'.index = index
        /\ NextView.room = state.room /\ NextView'.room = state.room
    BY <1>2 DEF NextView
  <2> QED
    BY <1>1, <2>1, <2>2 DEF NotAfter, StoreType
<1> QED
  BY <1>5, <1>6, <1>7, UpstreamStep

LEMMA RefreshStep == ServerInv /\ (Refresh \/ RefreshFails) => ServerInv'
<1> SUFFICES ASSUME ServerInv PROVE Refresh \/ RefreshFails => ServerInv'
  OBVIOUS
<1>0. /\ tree \in 0..MaxTree /\ reach \in 0..MaxTree
      /\ \A limit \in 0..reach : Within(limit) \in 0..tree /\ Within(limit) <= limit
  BY ServerAssumption DEF ServerInv, TypeOK, Within
<1>d. Due \in BOOLEAN
  BY DEF Due, ServerInv, TypeOK
<1>1. CASE Refresh
  <2>1. Refreshed(Within(reach), FALSE, Due) /\ reach' = reach
    BY <1>1 DEF Refresh
  <2>2. reach \in 0..reach /\ mishaps' \in 0..MaxMishaps
    BY <1>0, <1>1 DEF Refresh, ServerInv, TypeOK
  <2> QED
    BY <1>0, <1>d, <1>1, <2>1, <2>2, RefreshedStep DEF Refresh
<1>2. CASE RefreshFails
  <2>1. mishaps' \in 0..MaxMishaps
    BY <1>2, ServerAssumption DEF RefreshFails, ServerInv, TypeOK
  <2>2. PICK limit \in 0..reach, changed \in BOOLEAN : \E index \in 0..Within(limit) :
          /\ reach' = limit
          /\ LET missing == index < Within(limit) \/ index < store.index
                 unsaid == (Due \/ index > store.index) /\ ~changed
             IN  Refreshed(index, missing \/ unsaid, changed)
    BY <1>2 DEF RefreshFails
  <2>3. PICK index \in 0..Within(limit), owed \in BOOLEAN :
          reach' = limit /\ Refreshed(index, owed, changed)
    BY <1>d, <2>2
  <2>4. index \in 0..tree /\ index <= reach'
    BY <1>0, <2>3
  <2> QED
    BY <1>2, <2>1, <2>3, <2>4, RefreshedStep DEF RefreshFails
<1> QED
  BY <1>1, <1>2

LEMMA LoadStep == ServerInv /\ (StatRoom \/ ReadRoom \/ LoadFails \/ NothingNew) => ServerInv'
<1> SUFFICES ASSUME ServerInv, StatRoom \/ ReadRoom \/ LoadFails \/ NothingNew PROVE ServerInv'
  OBVIOUS
<1>1. state' \in [room : 0..MaxRoom, stat : 0..MaxRoom] /\ state.room <= state'.room
      /\ state'.room <= room
  BY DEF ServerInv, TypeOK, DiskAhead, StatRoom, ReadRoom, LoadFails, NothingNew
<1>2. poll' \in [at : {"idle", "stat", "read", "build"}, stat : 0..MaxRoom, changed : BOOLEAN]
  <2> DEFINE P == [at : {"idle", "stat", "read", "build"}, stat : 0..MaxRoom, changed : BOOLEAN]
  <2>1. poll \in P /\ room \in 0..MaxRoom
    BY DEF ServerInv, TypeOK
  <2>2. CASE StatRoom
    BY <2>1, <2>2 DEF StatRoom
  <2>3. CASE ReadRoom
    BY <2>1, <2>3 DEF ReadRoom
  <2>4. CASE LoadFails
    BY <2>1, <2>4 DEF LoadFails
  <2>5. CASE NothingNew
    BY <2>5, ServerAssumption DEF NothingNew, Idle
  <2> QED
    BY <2>2, <2>3, <2>4, <2>5
<1>3. mishaps' \in 0..MaxMishaps
  <2>1. mishaps \in 0..MaxMishaps
    BY DEF ServerInv, TypeOK
  <2>2. mishaps' = mishaps \/ (mishaps < MaxMishaps /\ mishaps' = mishaps + 1)
    BY DEF StatRoom, ReadRoom, LoadFails, NothingNew
  <2> QED
    BY <2>1, <2>2, ServerAssumption
<1>4. UNCHANGED <<tree, room, reach, store, base, page, queue>>
  BY DEF StatRoom, ReadRoom, LoadFails, NothingNew
<1>5. TypeOK'
  BY <1>1, <1>2, <1>3, <1>4 DEF ServerInv, TypeOK
<1>6. DiskAhead'
  BY <1>1, <1>4 DEF ServerInv, DiskAhead
<1>7. NotAfter(NextView, NextView')
  <2>1. store.losses <= store.losses /\ store.index <= store.index
    BY DEF ServerInv, TypeOK
  <2> QED
    BY <1>1, <1>4, <2>1 DEF NotAfter, NextView
<1> QED
  BY <1>4, <1>5, <1>6, <1>7, UpstreamStep

(* A new base is not before the old one, so what was behind that still is.  *)
LEMMA BuildStep == ServerInv /\ Build => ServerInv'
<1> SUFFICES ASSUME ServerInv, Build PROVE ServerInv'
  OBVIOUS
<1>1. base' = NextView /\ NextView \in Views /\ base \in Views
  BY NextViewType DEF Build, ServerInv
<1>2. NotAfter(base, base') /\ NotAfter(NextView, base')
  BY <1>1, NotAfterOrder DEF ServerInv, BaseBehind
<1>3. UNCHANGED <<tree, room, reach, store, state, page, mishaps>> /\ poll' = Idle
  BY DEF Build
<1>4. ASSUME NEW p \in Pages
      PROVE  /\ queue'[p] \in Seq(Views) /\ Len(queue'[p]) <= QueueSize
             /\ \A i \in 1..Len(queue'[p]) : NotAfter(queue'[p][i], base')
  <2>1. queue[p] \in Seq(Views) /\ Len(queue[p]) <= QueueSize
    BY DEF ServerInv, TypeOK
  <2>2. \A i \in 1..Len(queue[p]) : queue[p][i] \in Views /\ NotAfter(queue[p][i], base)
    BY <2>1 DEF ServerInv, FramesBehind
  <2>3. \A i \in 1..Len(queue[p]) : NotAfter(queue[p][i], base')
    BY <1>1, <1>2, <2>2, NotAfterOrder
  <2>4. CASE queue'[p] = queue[p]
    BY <2>1, <2>3, <2>4
  <2>5. CASE queue'[p] = Append(queue[p], NextView) /\ Len(queue[p]) < QueueSize
    <3>1. queue'[p] \in Seq(Views) /\ Len(queue'[p]) <= QueueSize
      BY <1>1, <2>1, <2>5, ServerAssumption
    <3> QED
      BY <1>2, <2>1, <2>3, <2>5, <3>1
  <2> QED
    BY <2>4, <2>5 DEF Build, Announce
<1>5. TypeOK'
  <2>1. queue' \in [Pages -> Seq(Views)] /\ \A p \in Pages : Len(queue'[p]) <= QueueSize
    BY <1>4 DEF Build, Announce
  <2> QED
    BY <1>1, <1>3, <2>1, ServerAssumption DEF ServerInv, TypeOK, Idle
<1>6. DiskAhead' /\ BaseBehind'
  <2>1. NextView' = NextView
    BY <1>3 DEF NextView
  <2> QED
    BY <1>1, <1>2, <1>3, <2>1 DEF ServerInv, DiskAhead, BaseBehind
<1>7. FramesBehind'
  <2>1. ASSUME NEW p \in Pages PROVE NotAfter(page[p].frame, base')
    <3>1. page[p].frame \in Views /\ NotAfter(page[p].frame, base)
      BY DEF ServerInv, TypeOK, FramesBehind
    <3> QED
      BY <1>1, <1>2, <3>1, NotAfterOrder
  <2> QED
    BY <1>3, <1>4, <2>1 DEF FramesBehind
<1>8. AsksInOrder'
  <2> SUFFICES ASSUME NEW p \in Pages, Ask(p).at \in Labelled, NotAfter(Ask(p).label, base)
               PROVE  NotAfter(Ask(p).label, base')
    BY <1>3 DEF ServerInv, AsksInOrder, InOrder, Ask
  <2>1. Ask(p).label \in Views
    BY DEF ServerInv, TypeOK, AskType, Ask
  <2> QED
    BY <1>1, <1>2, <2>1, NotAfterOrder
<1> QED
  BY <1>5, <1>6, <1>7, <1>8 DEF ServerInv

-----------------------------------------------------------------------------
(* The steps of one page.                                                   *)

LEMMA PageStep ==
  ASSUME ServerInv, NEW p \in Pages, NEW x \in PageType, page' = [page EXCEPT ![p] = x],
         NotAfter(x.frame, base), InOrder(x.frame, x.ask, store.losses),
         UNCHANGED <<tree, room, reach, store, state, base, poll>>, mishaps' \in 0..MaxMishaps,
         \/ queue' = queue
         \/ queue' = [queue EXCEPT ![p] = <<>>]
         \/ queue[p] # <<>> /\ queue' = [queue EXCEPT ![p] = Tail(@)]
  PROVE  ServerInv'
<1>1. page \in [Pages -> PageType] /\ page' \in [Pages -> PageType]
      /\ page'[p] = x /\ \A q \in Pages \ {p} : page'[q] = page[q]
  BY DEF ServerInv, TypeOK, PageType
<1>2. ASSUME NEW q \in Pages
      PROVE  /\ queue'[q] \in Seq(Views) /\ Len(queue'[q]) <= QueueSize
             /\ \A i \in 1..Len(queue'[q]) : NotAfter(queue'[q][i], base)
  <2>1. /\ queue \in [Pages -> Seq(Views)] /\ queue[q] \in Seq(Views)
        /\ Len(queue[q]) <= QueueSize
        /\ \A i \in 1..Len(queue[q]) : NotAfter(queue[q][i], base)
    BY DEF ServerInv, TypeOK, FramesBehind
  <2>2. CASE queue'[q] = queue[q]
    BY <2>1, <2>2
  <2>3. CASE queue'[q] = <<>>
    BY <2>3, ServerAssumption
  <2>4. CASE queue[q] # <<>> /\ queue'[q] = Tail(queue[q])
    BY <2>1, <2>4, ServerAssumption
  <2> QED
    BY <2>1, <2>2, <2>3, <2>4
<1>3. queue' \in [Pages -> Seq(Views)]
  BY <1>2 DEF ServerInv, TypeOK
<1>4. TypeOK'
  BY <1>1, <1>2, <1>3 DEF ServerInv, TypeOK, PageType
<1>5. DiskAhead' /\ BaseBehind'
  BY DEF ServerInv, DiskAhead, BaseBehind, NextView
<1>6. FramesBehind'
  BY <1>1, <1>2 DEF ServerInv, FramesBehind
<1>7. AsksInOrder'
  BY <1>1 DEF ServerInv, AsksInOrder, InOrder, Ask
<1> QED
  BY <1>4, <1>5, <1>6, <1>7 DEF ServerInv

(* Asking afresh puts a request in order, whatever its frame.               *)
LEMMA AsksStep ==
  ASSUME ServerInv, NEW p \in Pages, NEW frame \in Views, NotAfter(frame, base),
         NEW stream \in {"off", "live"}, Asks(p, frame, stream),
         UNCHANGED <<tree, room, reach, store, state, base, poll, mishaps>>,
         queue' = queue \/ (queue[p] # <<>> /\ queue' = [queue EXCEPT ![p] = Tail(@)])
  PROVE  ServerInv'
<1>1. PICK kind \in {"default", "regrouped"} :
        page' = [page EXCEPT ![p] = [stream |-> stream, frame |-> frame,
                                     ask |-> [NoAsk EXCEPT !.kind = kind, !.at = "base"]]]
  BY DEF Asks
<1> DEFINE a == [NoAsk EXCEPT !.kind = kind, !.at = "base"]
           x == [stream |-> stream, frame |-> frame, ask |-> a]
<1>2. a \in AskType /\ a.at = "base"
  BY NoViewType DEF AskType, NoAsk
<1> HIDE DEF a
<1>3. x \in PageType /\ x.frame = frame /\ x.ask = a
  BY <1>2 DEF PageType
<1>4. InOrder(x.frame, x.ask, store.losses)
  BY <1>2, <1>3 DEF InOrder, Labelled
<1>5. page' = [page EXCEPT ![p] = x] /\ mishaps' \in 0..MaxMishaps
  BY <1>1 DEF ServerInv, TypeOK, a
<1> HIDE DEF x
<1> QED
  BY <1>3, <1>4, <1>5, PageStep

LEMMA StreamStep ==
  ASSUME ServerInv, NEW p \in Pages, Stream(p) \/ Break(p)
  PROVE  ServerInv'
<1>0. /\ page[p] \in PageType /\ queue[p] \in Seq(Views) /\ base \in Views
      /\ NotAfter(page[p].frame, base) /\ InOrder(page[p].frame, page[p].ask, store.losses)
  BY DEF ServerInv, TypeOK, PageType, FramesBehind, AsksInOrder, Ask
<1>1. CASE Load(p)
  <2>1. NotAfter(NoView, base)
    BY <1>0, <1>1 DEF NotAfter, NoView, Views
  <2> QED
    BY <1>1, <2>1, NoViewType, AsksStep DEF Load
<1>2. CASE FirstFrame(p)
  <2>1. NotAfter(base, base)
    BY <1>0, NotAfterOrder
  <2> QED
    BY <1>0, <1>2, <2>1, AsksStep DEF FirstFrame
<1>3. CASE NextFrame(p)
  <2>1. Head(queue[p]) \in Views /\ NotAfter(Head(queue[p]), base)
    BY <1>0, <1>3 DEF NextFrame, ServerInv, FramesBehind
  <2> QED
    BY <1>3, <2>1, AsksStep DEF NextFrame
<1>4. ASSUME NEW stream \in {"off", "subscribed"}, page' = [page EXCEPT ![p].stream = stream],
             UNCHANGED <<tree, room, reach, store, state, base, poll>>, mishaps' \in 0..MaxMishaps,
             queue' = queue \/ queue' = [queue EXCEPT ![p] = <<>>]
      PROVE  ServerInv'
  <2> DEFINE y == page[p]
             x == [y EXCEPT !.stream = stream]
  <2>0. y \in PageType
    BY <1>0
  <2> HIDE DEF y
  <2>1. x \in PageType /\ x.frame = y.frame /\ x.ask = y.ask
    BY <2>0 DEF PageType
  <2>2. page' = [page EXCEPT ![p] = x]
    BY <1>4 DEF y
  <2> HIDE DEF x
  <2> QED
    BY <1>0, <1>4, <2>1, <2>2, PageStep DEF y
<1>5. CASE Connect(p)
  BY <1>4, <1>5 DEF Connect, ServerInv, TypeOK
<1>6. CASE Break(p)
  <2>1. mishaps \in 0..MaxMishaps
    BY DEF ServerInv, TypeOK
  <2>2. mishaps' \in 0..MaxMishaps
    BY <1>6, <2>1, ServerAssumption DEF Break
  <2> QED
    BY <1>4, <1>6, <2>2 DEF Break
<1> QED
  BY <1>1, <1>2, <1>3, <1>5, <1>6 DEF Stream

LEMMA ReadsStep ==
  ASSUME ServerInv, NEW p \in Pages, NEW a \in AskType, Reads(p, a),
         InOrder(page[p].frame, a, store.losses)
  PROVE  ServerInv'
<1> DEFINE y == page[p]
           x == [y EXCEPT !.ask = a]
<1>0. y \in PageType /\ NotAfter(y.frame, base)
  BY DEF ServerInv, TypeOK, PageType, FramesBehind
<1>1. page' = [page EXCEPT ![p] = x] /\ InOrder(y.frame, a, store.losses)
  BY DEF Reads
<1> HIDE DEF y
<1>2. x \in PageType /\ x.frame = y.frame /\ x.ask = a
  BY <1>0 DEF PageType
<1>3. UNCHANGED <<tree, room, reach, store, state, base, poll, queue>> /\ mishaps' \in 0..MaxMishaps
  BY DEF Reads, ServerInv, TypeOK
<1> HIDE DEF x
<1> QED
  BY <1>0, <1>1, <1>2, <1>3, PageStep

LEMMA HandlerStep ==
  ASSUME ServerInv, NEW p \in Pages, Handler(p)
  PROVE  ServerInv'
<1> DEFINE a == Ask(p)
           f == page[p].frame
<1>0. /\ a \in AskType /\ f \in Views /\ base \in Views
      /\ NotAfter(f, base) /\ InOrder(f, a, store.losses)
      /\ store.index \in Nat /\ state.room \in Nat
  BY DEF ServerInv, TypeOK, FramesBehind, AsksInOrder, Ask
<1>l. /\ NextView \in Views /\ NotAfter(base, NextView)
      /\ NextView.index = store.index /\ NextView.room = state.room
      /\ NextView.losses = store.losses
  BY NextViewType DEF ServerInv, BaseBehind
<1>1. CASE TakeBase(p)
  <2>1. NotAfter(base, base)
    BY <1>0, NotAfterOrder
  <2>2. CASE a.kind = "default"
    <3>1. Answered(base) \in AskType
      <4>1. base.index \in Nat /\ base.room \in Nat
        BY <1>0 DEF Views
      <4> QED  BY <1>0, <4>1 DEF Answered, AskType
    <3>2. InOrder(f, Answered(base), store.losses)
      BY <1>0, <2>1 DEF Answered, InOrder, Views
    <3> QED
      BY <1>1, <2>2, <3>1, <3>2, ReadsStep DEF TakeBase
  <2>3. CASE a.kind # "default"
    <3> DEFINE b == [a EXCEPT !.label = base, !.at = "sessions"]
    <3>1. b \in AskType /\ b.label = base /\ b.at = "sessions"
      BY <1>0 DEF AskType
    <3>2. Reads(p, b)
      BY <1>1, <2>3 DEF TakeBase
    <3> HIDE DEF b
    <3>3. InOrder(f, b, store.losses)
      BY <1>0, <2>1, <3>1 DEF InOrder, Labelled
    <3> QED
      BY <3>1, <3>2, <3>3, ReadsStep
  <2> QED
    BY <2>2, <2>3
<1>2. ASSUME a.at \in Labelled
      PROVE  /\ store.losses = a.label.losses => a.label.index <= store.index
             /\ a.label.room <= state.room /\ a.label \in Views
  <2>1. a.label \in Views /\ NotAfter(a.label, base)
    BY <1>0, <1>2 DEF InOrder, AskType
  <2>2. NotAfter(a.label, NextView)
    BY <1>0, <1>l, <2>1, NotAfterOrder
  <2> QED  BY <1>l, <2>1, <2>2 DEF NotAfter
<1>3. CASE ReadSessions(p)
  <2> DEFINE b == [a EXCEPT !.sessions = store.index, !.at = "calls"]
  <2>0. a.at = "sessions" /\ Reads(p, b)
    BY <1>3 DEF ReadSessions
  <2>1. b \in AskType /\ b.label = a.label /\ b.at = "calls" /\ b.sessions = store.index
    BY <1>0 DEF AskType
  <2> HIDE DEF b
  <2>2. InOrder(f, b, store.losses)
    BY <1>0, <1>2, <2>0, <2>1 DEF InOrder, Labelled
  <2> QED
    BY <2>0, <2>1, <2>2, ReadsStep
<1>4. CASE ReadCalls(p)
  <2> DEFINE b == [a EXCEPT !.calls = store.index, !.at = "wakes"]
  <2>0. a.at = "calls" /\ Reads(p, b)
    BY <1>4 DEF ReadCalls
  <2>1. b \in AskType /\ b.label = a.label /\ b.at = "wakes" /\ b.calls = store.index
        /\ b.sessions = a.sessions
    BY <1>0 DEF AskType
  <2> HIDE DEF b
  <2>2. InOrder(f, b, store.losses)
    BY <1>0, <1>2, <2>0, <2>1 DEF InOrder, Labelled
  <2> QED
    BY <2>0, <2>1, <2>2, ReadsStep
<1>5. CASE ReadWakes(p)
  <2> DEFINE b == [a EXCEPT !.wakes = store.index, !.at = "state"]
  <2>0. a.at = "wakes" /\ Reads(p, b)
    BY <1>5 DEF ReadWakes
  <2>1. b \in AskType /\ b.label = a.label /\ b.at = "state" /\ b.wakes = store.index
        /\ b.sessions = a.sessions /\ b.calls = a.calls
    BY <1>0 DEF AskType
  <2> HIDE DEF b
  <2>2. InOrder(f, b, store.losses)
    BY <1>0, <1>2, <2>0, <2>1 DEF InOrder, Labelled
  <2> QED
    BY <2>0, <2>1, <2>2, ReadsStep
<1>6. CASE ReadState(p)
  <2> DEFINE b == [a EXCEPT !.room = state.room, !.at = "done"]
  <2>0. a.at = "state" /\ Reads(p, b)
    BY <1>6 DEF ReadState
  <2>1. b \in AskType /\ b.label = a.label /\ b.at = "done" /\ b.room = state.room
        /\ b.sessions = a.sessions /\ b.calls = a.calls /\ b.wakes = a.wakes
    BY <1>0 DEF AskType
  <2> HIDE DEF b
  <2>2. InOrder(f, b, store.losses)
    BY <1>0, <1>2, <2>0, <2>1 DEF InOrder, Labelled
  <2> QED
    BY <2>0, <2>1, <2>2, ReadsStep
<1> QED
  BY <1>1, <1>3, <1>4, <1>5, <1>6 DEF Handler

LEMMA ServerStep == ServerInv /\ [Next]_vars => ServerInv'
<1> SUFFICES ASSUME ServerInv, [Next]_vars PROVE ServerInv'
  OBVIOUS
<1>1. CASE UNCHANGED vars
  BY <1>1 DEF vars, ServerInv, TypeOK, DiskAhead, BaseBehind, NextView, FramesBehind,
              AsksInOrder, InOrder, Ask
<1> QED
  BY <1>1, DiskStep, RefreshStep, LoadStep, BuildStep, StreamStep, HandlerStep DEF Next, Poll

LEMMA InOrderAnswers == ServerInv => AnswersFollowFrames /\ LabelNotAhead
<1> SUFFICES ASSUME ServerInv, NEW p \in Pages, Ask(p).at = "done"
             PROVE  Covers(Ask(p), page[p].frame) /\ Covers(Ask(p), Ask(p).label)
  BY DEF AnswersFollowFrames, LabelNotAhead
<1> DEFINE a == Ask(p)
           f == page[p].frame
<1>1. a \in AskType /\ f \in Views /\ a.label \in Views /\ a.at = "done" /\ base \in Views
  BY DEF ServerInv, TypeOK, AskType, Ask
<1>2. InOrder(f, a, store.losses)
  BY DEF ServerInv, AsksInOrder
<1>3. NotAfter(f, a.label) /\ NotAfter(a.label, base) /\ NotAfter(base, NextView)
  BY <1>1, <1>2 DEF InOrder, Labelled, ServerInv, BaseBehind
<1>4. NotAfter(a.label, NextView)
  BY <1>1, <1>3, NextViewType, NotAfterOrder DEF ServerInv
<1> HIDE DEF a, f
<1>5. f.losses <= a.label.losses /\ a.label.losses <= store.losses
  BY <1>3, <1>4, NextViewType DEF NotAfter, ServerInv
<1>6. /\ f.losses \in Nat /\ a.label.losses \in Nat /\ store.losses \in Nat
      /\ f.index \in Nat /\ a.label.index \in Nat /\ f.room \in Nat /\ a.label.room \in Nat
      /\ a.sessions \in Nat /\ a.calls \in Nat /\ a.wakes \in Nat /\ a.room \in Nat
  BY <1>1, NextViewType DEF Views, AskType, ServerInv
<1>7. Covers(a, a.label)
  BY <1>1, <1>2, <1>6 DEF InOrder, Covers
<1>8. Covers(a, f)
  BY <1>3, <1>5, <1>6, <1>7 DEF NotAfter, Covers
<1> QED
  BY <1>7, <1>8 DEF a, f

-----------------------------------------------------------------------------
(* The server's state keeps its types, and no channel holds more frames     *)
(* than it has room for (server.go, notify).                                *)
THEOREM ServerTypeCorrect == Spec => []TypeOK
  BY ServerInit, ServerStep, PTL DEF Spec, ServerInv

(* A page that asks because of a frame is not told less than the frame      *)
(* announced, of the room ever and of the transcripts unless a directory    *)
(* could not be listed since (server.go, refreshOnce, notify, currentView), *)
(* for any number of pages, frames, failures and readings cut short.        *)
THEOREM ServerAnswersFollowFrames == Spec => []AnswersFollowFrames
  BY ServerInit, ServerStep, InOrderAnswers, PTL DEF Spec

(* No answer holds less than the generation it is labelled with, but for    *)
(* what such a refresh took out of the index after the label was taken      *)
(* (server.go, currentView and snapshot).                                   *)
THEOREM ServerLabelNotAhead == Spec => []LabelNotAhead
  BY ServerInit, ServerStep, InOrderAnswers, PTL DEF Spec
===========================================================================
