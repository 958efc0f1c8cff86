----------------------- MODULE TranscriptScanProofs -----------------------
(***************************************************************************)
(* What the index of the transcripts guarantees for any tree, any texts    *)
(* and any number of failures: that nothing in it is orphaned, and that    *)
(* what a file contributed is a prefix of what it holds, until a fault.    *)
(***************************************************************************)
EXTENDS TranscriptScan, TLAPS

(* The strengthening: a file that is being read is one the index knows, so  *)
(* whatever its lines add to its session will be found again.               *)
ReadIsKnown == \A p \in Paths : Reading(p) => files[p].known

ScanInv == TypeOK /\ ReadIsKnown /\ NothingOrphaned

-----------------------------------------------------------------------------
(* The index as a value: an update of one of its parts.                     *)

SessionRec == [file : {0} \cup Paths, read : ReadLines]
CallList == Seq([text : Nat, call : Nat, line : Nat])
WakeList == Seq([text : Nat, line : Nat])
Item == [text : Nat, line : Nat, part : {"whole", "half", "rest"}]

Grounded(x) == \A s \in Sessions : Empty(x, s) \/ KnownIn(x, s)

(* What an operation on path p's part of the index must keep.               *)
Keeps(p, y) == y \in IndexType /\ y.files[p].known /\ Grounded(y)

LEMMA IndexParts ==
  ASSUME NEW x \in IndexType
  PROVE  /\ x.files \in [Paths -> FileState]
         /\ x.sessions \in [Sessions -> SessionRec]
         /\ x.calls \in [Sessions -> CallList]
         /\ x.wakes \in [Sessions -> WakeList]
         /\ \A p \in Paths : x.files[p] \in FileState /\ x.files[p].session \in Sessions
  BY DEF IndexType, SessionRec, CallList, WakeList, FileState

(* A known file whose session stays the same, or a file newly known.        *)
LEMMA FileUpdateKeeps ==
  ASSUME NEW x \in IndexType, Grounded(x), NEW p \in Paths, NEW g \in FileState, g.known,
         x.files[p].known => g.session = x.files[p].session
  PROVE  Keeps(p, [x EXCEPT !.files = [x.files EXCEPT ![p] = g]])
<1> DEFINE f == [x.files EXCEPT ![p] = g]
           y == [x EXCEPT !.files = f]
<1>1. f \in [Paths -> FileState] /\ f[p] = g /\ \A q \in Paths \ {p} : f[q] = x.files[q]
  BY IndexParts
<1> HIDE DEF f
<1>2. y \in IndexType
  BY <1>1 DEF IndexType
<1>3. y.files = f /\ y.sessions = x.sessions /\ y.calls = x.calls /\ y.wakes = x.wakes
  BY DEF IndexType
<1> HIDE DEF y
<1>4. ASSUME NEW s \in Sessions PROVE Empty(y, s) \/ KnownIn(y, s)
  <2>1. CASE Empty(x, s)
    BY <2>1, <1>3 DEF Empty
  <2>2. CASE KnownIn(x, s)
    <3>1. PICK q \in Paths : x.files[q].known /\ x.files[q].session = s
      BY <2>2 DEF KnownIn
    <3>2. f[q].known /\ f[q].session = s
      BY <3>1, <1>1
    <3> QED
      BY <3>2, <1>3 DEF KnownIn
  <2> QED
    BY <2>1, <2>2 DEF Grounded
<1>5. Keeps(p, y)
  BY <1>1, <1>2, <1>3, <1>4 DEF Keeps, Grounded
<1> QED
  BY <1>5 DEF y, f

(* What is added to the session of a known file.                            *)
LEMMA SessionUpdateKeeps ==
  ASSUME NEW x, NEW p \in Paths, Keeps(p, x), NEW r \in SessionRec
  PROVE  Keeps(p, [x EXCEPT !.sessions = [x.sessions EXCEPT ![x.files[p].session] = r]])
<1> DEFINE s == x.files[p].session
           f == [x.sessions EXCEPT ![s] = r]
           y == [x EXCEPT !.sessions = f]
<1>0. x \in IndexType /\ x.files[p].known /\ Grounded(x)
  BY DEF Keeps
<1>1. s \in Sessions /\ f \in [Sessions -> SessionRec] /\ \A t \in Sessions \ {s} : f[t] = x.sessions[t]
  BY <1>0, IndexParts
<1>2. KnownIn(x, s)
  BY <1>0 DEF KnownIn
<1> HIDE DEF f, s
<1>3. y \in IndexType
  BY <1>0, <1>1 DEF IndexType, SessionRec
<1>4. y.files = x.files /\ y.sessions = f /\ y.calls = x.calls /\ y.wakes = x.wakes
  BY <1>0 DEF IndexType
<1> HIDE DEF y
<1>5. Grounded(y)
  BY <1>0, <1>1, <1>2, <1>4 DEF Grounded, Empty, KnownIn
<1>6. Keeps(p, y)
  BY <1>0, <1>3, <1>4, <1>5 DEF Keeps
<1> QED
  BY <1>6 DEF y, f, s

LEMMA CallUpdateKeeps ==
  ASSUME NEW x, NEW p \in Paths, Keeps(p, x), NEW r \in CallList
  PROVE  Keeps(p, [x EXCEPT !.calls = [x.calls EXCEPT ![x.files[p].session] = r]])
<1> DEFINE s == x.files[p].session
           f == [x.calls EXCEPT ![s] = r]
           y == [x EXCEPT !.calls = f]
<1>0. x \in IndexType /\ x.files[p].known /\ Grounded(x)
  BY DEF Keeps
<1>1. s \in Sessions /\ f \in [Sessions -> CallList] /\ \A t \in Sessions \ {s} : f[t] = x.calls[t]
  BY <1>0, IndexParts
<1>2. KnownIn(x, s)
  BY <1>0 DEF KnownIn
<1> HIDE DEF f, s
<1>3. y \in IndexType
  BY <1>0, <1>1 DEF IndexType, CallList
<1>4. y.files = x.files /\ y.sessions = x.sessions /\ y.calls = f /\ y.wakes = x.wakes
  BY <1>0 DEF IndexType
<1> HIDE DEF y
<1>5. Grounded(y)
  BY <1>0, <1>1, <1>2, <1>4 DEF Grounded, Empty, KnownIn
<1>6. Keeps(p, y)
  BY <1>0, <1>3, <1>4, <1>5 DEF Keeps
<1> QED
  BY <1>6 DEF y, f, s

LEMMA WakeUpdateKeeps ==
  ASSUME NEW x, NEW p \in Paths, Keeps(p, x), NEW r \in WakeList
  PROVE  Keeps(p, [x EXCEPT !.wakes = [x.wakes EXCEPT ![x.files[p].session] = r]])
<1> DEFINE s == x.files[p].session
           f == [x.wakes EXCEPT ![s] = r]
           y == [x EXCEPT !.wakes = f]
<1>0. x \in IndexType /\ x.files[p].known /\ Grounded(x)
  BY DEF Keeps
<1>1. s \in Sessions /\ f \in [Sessions -> WakeList] /\ \A t \in Sessions \ {s} : f[t] = x.wakes[t]
  BY <1>0, IndexParts
<1>2. KnownIn(x, s)
  BY <1>0 DEF KnownIn
<1> HIDE DEF f, s
<1>3. y \in IndexType
  BY <1>0, <1>1 DEF IndexType, WakeList
<1>4. y.files = x.files /\ y.sessions = x.sessions /\ y.calls = x.calls /\ y.wakes = f
  BY <1>0 DEF IndexType
<1> HIDE DEF y
<1>5. Grounded(y)
  BY <1>0, <1>1, <1>2, <1>4 DEF Grounded, Empty, KnownIn
<1>6. Keeps(p, y)
  BY <1>0, <1>3, <1>4, <1>5 DEF Keeps
<1> QED
  BY <1>6 DEF y, f, s

-----------------------------------------------------------------------------
(* The operations of the scan.                                              *)

LEMMA NoSessionType == NoSession \in SessionRec
  BY DEF NoSession, SessionRec, ReadLines

(* Forgetting one session leaves the others as they were.                   *)
LEMMA DropSessionType ==
  ASSUME NEW x \in IndexType, NEW p \in Paths, NEW s \in Sessions
  PROVE  LET y == DropSession(x, s, p)
         IN  /\ y \in IndexType
             /\ y.files = [x.files EXCEPT ![p].pending = {}]
             /\ Empty(y, s)
             /\ \A t \in Sessions \ {s} : Empty(x, t) => Empty(y, t)
<1> DEFINE y == DropSession(x, s, p)
           f == [x.files EXCEPT ![p].pending = {}]
           g == [x.sessions EXCEPT ![s] = NoSession]
           h == [x.calls EXCEPT ![s] = <<>>]
           w == [x.wakes EXCEPT ![s] = <<>>]
<1>1. y = [files |-> f, sessions |-> g, calls |-> h, wakes |-> w]
  BY DEF DropSession
<1>2. f \in [Paths -> FileState]
  BY IndexParts DEF FileState
<1>3. g \in [Sessions -> SessionRec] /\ g[s] = NoSession /\ \A t \in Sessions \ {s} : g[t] = x.sessions[t]
  BY IndexParts, NoSessionType
<1>4. h \in [Sessions -> CallList] /\ h[s] = <<>> /\ \A t \in Sessions \ {s} : h[t] = x.calls[t]
  BY IndexParts DEF CallList
<1>5. w \in [Sessions -> WakeList] /\ w[s] = <<>> /\ \A t \in Sessions \ {s} : w[t] = x.wakes[t]
  BY IndexParts DEF WakeList
<1> HIDE DEF g, h, w
<1>6. y \in IndexType
  BY <1>1, <1>2, <1>3, <1>4, <1>5 DEF IndexType, SessionRec, CallList, WakeList
<1>7. Empty(y, s) /\ \A t \in Sessions \ {s} : Empty(x, t) => Empty(y, t)
  BY <1>1, <1>3, <1>4, <1>5 DEF Empty
<1> QED
  BY <1>1, <1>6, <1>7

(* The record of a path's session, old or new, is one of a known path.      *)
LEMMA WithSessionKeeps ==
  ASSUME NEW x, NEW p \in Paths, Keeps(p, x)
  PROVE  Keeps(p, WithSession(x, p)) /\ WithSession(x, p).files = x.files
<1> DEFINE s == x.files[p].session
           r == [file |-> p, read |-> <<>>]
<1>1. CASE x.sessions[s].file = p
  BY <1>1 DEF WithSession
<1>2. CASE x.sessions[s].file # p
  <2>1. WithSession(x, p) = [x EXCEPT !.sessions = [x.sessions EXCEPT ![s] = r]]
    BY <1>2 DEF WithSession
  <2>2. r \in SessionRec
    BY DEF SessionRec, ReadLines
  <2>3. [x EXCEPT !.sessions = [x.sessions EXCEPT ![s] = r]].files = x.files
    BY DEF Keeps, IndexType
  <2> QED
    BY <2>1, <2>2, <2>3, SessionUpdateKeeps
<1> QED
  BY <1>1, <1>2

(* Dropping the session that the path had gives up the only session that    *)
(* the path grounds, whatever the path's file becomes.                      *)
LEMMA RenameKeeps ==
  ASSUME NEW x, NEW p \in Paths, x \in IndexType, Grounded(x), NEW s \in Sessions,
         s = x.files[p].session, NEW g \in FileState, g.known
  PROVE  LET y == DropSession(x, s, p)
         IN  Keeps(p, [y EXCEPT !.files = [y.files EXCEPT ![p] = g]])
<1> DEFINE y == DropSession(x, s, p)
           f == [y.files EXCEPT ![p] = g]
           z == [y EXCEPT !.files = f]
<1>1. /\ y \in IndexType /\ Empty(y, s)
      /\ y.files = [x.files EXCEPT ![p].pending = {}]
      /\ \A t \in Sessions \ {s} : Empty(x, t) => Empty(y, t)
  BY DropSessionType
<1> HIDE DEF y
<1>2. \A q \in Paths \ {p} : y.files[q] = x.files[q]
  BY <1>1, IndexParts DEF FileState
<1>3. f \in [Paths -> FileState] /\ f[p] = g /\ \A q \in Paths \ {p} : f[q] = x.files[q]
  BY <1>1, <1>2, IndexParts
<1> HIDE DEF f
<1>4. z \in IndexType
  BY <1>1, <1>3 DEF IndexType
<1>5. z.files = f /\ z.sessions = y.sessions /\ z.calls = y.calls /\ z.wakes = y.wakes
  BY <1>1 DEF IndexType
<1> HIDE DEF z
<1>6. ASSUME NEW t \in Sessions PROVE Empty(z, t) \/ KnownIn(z, t)
  <2>1. CASE Empty(y, t)
    BY <2>1, <1>5 DEF Empty
  <2>2. CASE t # s /\ KnownIn(x, t)
    <3>1. PICK q \in Paths : x.files[q].known /\ x.files[q].session = t
      BY <2>2 DEF KnownIn
    <3>2. q # p
      BY <2>2, <3>1
    <3> QED
      BY <3>1, <3>2, <1>3, <1>5 DEF KnownIn
  <2> QED
    BY <2>1, <2>2, <1>1 DEF Grounded
<1>7. Keeps(p, z)
  BY <1>3, <1>4, <1>5, <1>6 DEF Keeps, Grounded
<1> QED
  BY <1>7 DEF z, f, y

(* Giving up the pending calls of a path leaves its file known.             *)
LEMMA PendingDropped ==
  ASSUME NEW f \in [Paths -> FileState], NEW p \in Paths, f[p].known,
         NEW g, g = [f EXCEPT ![p].pending = {}]
  PROVE  g[p] \in FileState /\ g[p].known
<1> DEFINE e == f[p]
           r == [e EXCEPT !.pending = {}]
<1>1. e \in FileState /\ e.known
  OBVIOUS
<1>2. g[p] = r
  OBVIOUS
<1> HIDE DEF e
<1>3. r \in FileState /\ r.known
  BY <1>1 DEF FileState
<1> QED
  BY <1>2, <1>3

(* A header that names another session: the one the path had is dropped,    *)
(* and the path renamed.                                                    *)
Renamed(x, p) ==
  [DropSession(x, x.files[p].session, p) EXCEPT !.files[p].session = HeaderOf[p]]

LEMMA RenamedKeeps ==
  ASSUME NEW x, NEW p \in Paths, Keeps(p, x), HeaderOf[p] \notin {x.files[p].session, NoId}
  PROVE  LET d == DropSession(x, x.files[p].session, p)
             g == [d.files[p] EXCEPT !.session = HeaderOf[p]]
         IN  /\ Keeps(p, Renamed(x, p))
             /\ Renamed(x, p) = [d EXCEPT !.files = [d.files EXCEPT ![p] = g]]
             /\ g.session = HeaderOf[p]
             /\ TakeHeader(x, p) = WithSession(Renamed(x, p), p)
<1> DEFINE old == x.files[p].session
           d == DropSession(x, old, p)
           g == [d.files[p] EXCEPT !.session = HeaderOf[p]]
<1>1. x \in IndexType /\ Grounded(x) /\ old \in Sessions /\ x.files[p].known
  BY IndexParts DEF Keeps
<1>2. HeaderOf[p] \in Sessions
  BY ScanAssumption
<1>3. d.files = [x.files EXCEPT ![p].pending = {}] /\ d \in IndexType
  BY <1>1, DropSessionType
<1>4. TakeHeader(x, p) = WithSession(Renamed(x, p), p)
  BY DEF TakeHeader, Renamed
<1>5. Renamed(x, p) = [d EXCEPT !.files = [d.files EXCEPT ![p] = g]]
  BY DEF Renamed
<1> HIDE DEF d
<1>6. d.files[p] \in FileState /\ d.files[p].known
  <2>1. x.files \in [Paths -> FileState]
    BY <1>1, IndexParts
  <2> QED
    BY <2>1, <1>1, <1>3, PendingDropped
<1>7. g \in FileState /\ g.known /\ g.session = HeaderOf[p]
  BY <1>2, <1>6 DEF FileState
<1>8. Keeps(p, [d EXCEPT !.files = [d.files EXCEPT ![p] = g]])
  BY <1>1, <1>7, RenameKeeps DEF d
<1> QED
  BY <1>4, <1>5, <1>7, <1>8 DEF d

LEMMA TakeHeaderKeeps ==
  ASSUME NEW x, NEW p \in Paths, Keeps(p, x)
  PROVE  Keeps(p, TakeHeader(x, p))
<1>1. CASE HeaderOf[p] \in {x.files[p].session, NoId}
  BY <1>1, WithSessionKeeps DEF TakeHeader
<1>2. CASE HeaderOf[p] \notin {x.files[p].session, NoId}
  BY <1>2, RenamedKeeps, WithSessionKeeps
<1> QED
  BY <1>1, <1>2

LEMMA RewindKeeps ==
  ASSUME NEW x, NEW p \in Paths, Keeps(p, x)
  PROVE  Keeps(p, Rewind(x, p))
<1> DEFINE old == x.files[p].session
           d == DropSession(x, old, p)
           g == [d.files[p] EXCEPT !.offset = 0, !.hdrDone = FALSE]
<1>0. x \in IndexType /\ Grounded(x) /\ old \in Sessions /\ x.files[p].known
  BY IndexParts DEF Keeps
<1>1. d.files = [x.files EXCEPT ![p].pending = {}] /\ d \in IndexType
  BY <1>0, DropSessionType
<1>2. Rewind(x, p) = [d EXCEPT !.files = [d.files EXCEPT ![p] = g]]
  BY DEF Rewind
<1> HIDE DEF d
<1>3. d.files[p] \in FileState /\ d.files[p].known
  <2>1. x.files \in [Paths -> FileState]
    BY <1>0, IndexParts
  <2> QED
    BY <2>1, <1>0, <1>1, PendingDropped
<1>4. g \in FileState /\ g.known
  BY <1>3 DEF FileState
<1>5. Keeps(p, [d EXCEPT !.files = [d.files EXCEPT ![p] = g]])
  BY <1>0, <1>4, RenameKeeps DEF d
<1> QED
  BY <1>2, <1>5

LEMMA TakeResultKeeps ==
  ASSUME NEW x, NEW p \in Paths, Keeps(p, x), NEW item \in Item
  PROVE  Keeps(p, TakeResult(x, p, item))
<1> DEFINE id == Entry(item.text, item.line).id
           mine == {c \in x.files[p].pending : Entry(c.text, c.line).id = id}
           call == IF mine = {} THEN 0 ELSE (CHOOSE c \in mine : TRUE).line
           r == [text |-> item.text, call |-> call, line |-> item.line]
           g == [x.files[p] EXCEPT !.pending = @ \ mine]
           y == [x EXCEPT !.files[p].pending = @ \ mine]
           s == y.files[p].session
<1>1. x \in IndexType /\ Grounded(x) /\ x.files[p] \in FileState /\ x.files[p].known
  BY IndexParts DEF Keeps
<1>2. mine \in SUBSET [text : Nat, line : Nat]
  BY <1>1 DEF FileState
<1>3. call \in Nat
  BY <1>2
<1> HIDE DEF mine, call
<1>4. g \in FileState /\ g.known /\ g.session = x.files[p].session
  BY <1>1 DEF FileState
<1>5. y = [x EXCEPT !.files = [x.files EXCEPT ![p] = g]]
  OBVIOUS
<1> HIDE DEF g
<1>6. Keeps(p, y)
  BY <1>1, <1>4, <1>5, FileUpdateKeeps
<1> HIDE DEF y
<1>7. r \in [text : Nat, call : Nat, line : Nat]
  BY <1>3 DEF Item
<1>8. y.calls[s] \in CallList
  BY <1>6, IndexParts DEF Keeps
<1>9. Append(y.calls[s], r) \in CallList
  BY <1>7, <1>8 DEF CallList
<1>10. TakeResult(x, p, item) = [y EXCEPT !.calls = [y.calls EXCEPT ![s] = Append(y.calls[s], r)]]
  BY DEF TakeResult, y, r, call, mine
<1> DEFINE l == Append(y.calls[s], r)
<1> HIDE DEF l
<1>11. Keeps(p, [y EXCEPT !.calls = [y.calls EXCEPT ![s] = l]])
  BY <1>6, <1>9, CallUpdateKeeps DEF l
<1> QED
  BY <1>10, <1>11 DEF l

LEMMA TakeCallKeeps ==
  ASSUME NEW x, NEW p \in Paths, Keeps(p, x), NEW item \in Item
  PROVE  Keeps(p, TakeCall(x, p, item))
<1> DEFINE id == Entry(item.text, item.line).id
           others == {c \in x.files[p].pending : Entry(c.text, c.line).id # id}
           e == [text |-> item.text, line |-> item.line]
           g == [x.files[p] EXCEPT !.pending = others \cup {e}]
<1>1. x \in IndexType /\ Grounded(x) /\ x.files[p] \in FileState /\ x.files[p].known
  BY IndexParts DEF Keeps
<1>2. others \cup {e} \in SUBSET [text : Nat, line : Nat]
  BY <1>1 DEF FileState, Item
<1>3. TakeCall(x, p, item) = [x EXCEPT !.files = [x.files EXCEPT ![p] = g]]
  BY DEF TakeCall
<1> HIDE DEF others, e
<1>4. g \in FileState /\ g.known /\ g.session = x.files[p].session
  BY <1>1, <1>2 DEF FileState
<1> HIDE DEF g
<1> QED
  BY <1>1, <1>3, <1>4, FileUpdateKeeps

(* The parts of store.line: the header is past, the entry is counted, the   *)
(* wake is kept.                                                            *)
Seen(x, p) == [x EXCEPT !.files[p].hdrDone = TRUE]
Logged(x, p, item) == [x EXCEPT !.sessions[x.files[p].session].read = Append(@, item)]
Woken(x, p, item) ==
  [x EXCEPT !.wakes[x.files[p].session] = Append(@, [text |-> item.text, line |-> item.line])]

LEMMA SeenKeeps ==
  ASSUME NEW x, NEW p \in Paths, Keeps(p, x)
  PROVE  LET g == [x.files[p] EXCEPT !.hdrDone = TRUE]
         IN  /\ Keeps(p, Seen(x, p))
             /\ Seen(x, p) = [x EXCEPT !.files = [x.files EXCEPT ![p] = g]]
             /\ g.session = x.files[p].session
<1> DEFINE g == [x.files[p] EXCEPT !.hdrDone = TRUE]
<1>1. x \in IndexType /\ Grounded(x) /\ x.files[p] \in FileState /\ x.files[p].known
  BY IndexParts DEF Keeps
<1>2. g \in FileState /\ g.known /\ g.session = x.files[p].session
  BY <1>1 DEF FileState
<1>3. Seen(x, p) = [x EXCEPT !.files = [x.files EXCEPT ![p] = g]]
  BY DEF Seen
<1> HIDE DEF g
<1>4. Keeps(p, Seen(x, p))
  BY <1>1, <1>2, <1>3, FileUpdateKeeps
<1> QED
  BY <1>2, <1>3, <1>4 DEF g

LEMMA LoggedKeeps ==
  ASSUME NEW x, NEW p \in Paths, Keeps(p, x), NEW item \in Item
  PROVE  LET s == x.files[p].session
             r == [x.sessions[s] EXCEPT !.read = Append(@, item)]
         IN  /\ Keeps(p, Logged(x, p, item))
             /\ Logged(x, p, item) = [x EXCEPT !.sessions = [x.sessions EXCEPT ![s] = r]]
<1> DEFINE s == x.files[p].session
           r == [x.sessions[s] EXCEPT !.read = Append(@, item)]
<1>1. x.sessions[s] \in SessionRec
  BY IndexParts DEF Keeps
<1>2. Append(x.sessions[s].read, item) \in ReadLines
  BY <1>1 DEF SessionRec, ReadLines, Item
<1>3. r \in SessionRec
  BY <1>1, <1>2 DEF SessionRec
<1>4. Logged(x, p, item) = [x EXCEPT !.sessions = [x.sessions EXCEPT ![s] = r]]
  BY DEF Logged
<1> HIDE DEF r
<1>5. Keeps(p, Logged(x, p, item))
  BY <1>3, <1>4, SessionUpdateKeeps
<1> QED
  BY <1>4, <1>5 DEF r

LEMMA WokenKeeps ==
  ASSUME NEW x, NEW p \in Paths, Keeps(p, x), NEW item \in Item
  PROVE  LET s == x.files[p].session
             v == Append(x.wakes[s], [text |-> item.text, line |-> item.line])
         IN  /\ Keeps(p, Woken(x, p, item))
             /\ Woken(x, p, item) = [x EXCEPT !.wakes = [x.wakes EXCEPT ![s] = v]]
<1> DEFINE s == x.files[p].session
           v == Append(x.wakes[s], [text |-> item.text, line |-> item.line])
<1>1. x.wakes[s] \in WakeList
  BY IndexParts DEF Keeps
<1>2. v \in WakeList
  BY <1>1 DEF WakeList, Item
<1>3. Woken(x, p, item) = [x EXCEPT !.wakes = [x.wakes EXCEPT ![s] = v]]
  BY DEF Woken
<1> HIDE DEF v
<1>4. Keeps(p, Woken(x, p, item))
  BY <1>2, <1>3, WakeUpdateKeeps
<1> QED
  BY <1>3, <1>4 DEF v

(* What a line does, by its kind.                                           *)
LEMMA TakeLineIs ==
  ASSUME NEW x, NEW p \in Paths, Keeps(p, x), NEW item \in Item
  PROVE  LET kind == Entry(item.text, item.line).kind
             z == Logged(WithSession(Seen(x, p), p), p, item)
         IN  /\ Keeps(p, WithSession(Seen(x, p), p)) /\ Keeps(p, z)
             /\ item.part = "whole" =>
                  /\ kind = "header" => TakeLine(x, p, item) = TakeHeader(Seen(x, p), p)
                  /\ kind = "call"   => TakeLine(x, p, item) = TakeCall(z, p, item)
                  /\ kind = "result" => TakeLine(x, p, item) = TakeResult(z, p, item)
                  /\ kind = "wake"   => TakeLine(x, p, item) = Woken(z, p, item)
                  /\ kind = "note"   => TakeLine(x, p, item) = z
             /\ TakeLine(x, p, item) \in
                  {TakeHeader(Seen(x, p), p), Seen(x, p), TakeCall(z, p, item),
                   TakeResult(z, p, item), Woken(z, p, item), z}
<1> DEFINE kind == Entry(item.text, item.line).kind
           x1 == Seen(x, p)
           y == WithSession(x1, p)
           z == Logged(y, p, item)
<1>1. Keeps(p, y) /\ Keeps(p, z)
  BY SeenKeeps, WithSessionKeeps, LoggedKeeps
<1>2. z = [y EXCEPT !.sessions[y.files[p].session].read = Append(@, item)]
  BY DEF Logged
<1>3. z.files = y.files
  BY <1>1, <1>2 DEF Keeps, IndexType
<1>4. Woken(z, p, item) =
        [z EXCEPT !.wakes[y.files[p].session] = Append(@, [text |-> item.text, line |-> item.line])]
  BY <1>3 DEF Woken
<1>5. TakeLine(x, p, item) =
        CASE kind = "header" /\ item.part = "whole" -> TakeHeader(x1, p)
          [] kind = "header" /\ item.part = "half"  -> x1
          [] kind = "call" /\ item.part = "whole"   -> TakeCall(z, p, item)
          [] kind = "result" /\ item.part = "whole" -> TakeResult(z, p, item)
          [] kind = "wake" /\ item.part = "whole"   -> Woken(z, p, item)
          [] OTHER -> z
  BY <1>2, <1>4 DEF TakeLine, Seen
<1> HIDE DEF kind, x1, y, z
<1>6. item.part = "whole" =>
        /\ kind = "header" => TakeLine(x, p, item) = TakeHeader(x1, p)
        /\ kind = "call"   => TakeLine(x, p, item) = TakeCall(z, p, item)
        /\ kind = "result" => TakeLine(x, p, item) = TakeResult(z, p, item)
        /\ kind = "wake"   => TakeLine(x, p, item) = Woken(z, p, item)
        /\ kind = "note"   => TakeLine(x, p, item) = z
  BY <1>5
<1>7. TakeLine(x, p, item) \in
        {TakeHeader(x1, p), x1, TakeCall(z, p, item), TakeResult(z, p, item), Woken(z, p, item), z}
  <2>1. CASE item.part = "whole" /\ kind \in {"header", "call", "result", "wake"}
    BY <1>6, <2>1
  <2>2. CASE kind = "header" /\ item.part = "half"
    BY <1>5, <2>2
  <2>3. CASE /\ ~(item.part = "whole" /\ kind \in {"header", "call", "result", "wake"})
             /\ ~(kind = "header" /\ item.part = "half")
    BY <1>5, <2>3
  <2> QED  BY <2>1, <2>2, <2>3
<1> QED
  BY <1>1, <1>6, <1>7 DEF kind, x1, y, z

LEMMA TakeLineKeeps ==
  ASSUME NEW x, NEW p \in Paths, Keeps(p, x), NEW item \in Item
  PROVE  Keeps(p, TakeLine(x, p, item))
<1> DEFINE z == Logged(WithSession(Seen(x, p), p), p, item)
<1>1. Keeps(p, z) /\ Keeps(p, Seen(x, p))
  BY TakeLineIs, SeenKeeps
<1>2. TakeLine(x, p, item) \in
        {TakeHeader(Seen(x, p), p), Seen(x, p), TakeCall(z, p, item), TakeResult(z, p, item),
         Woken(z, p, item), z}
  BY TakeLineIs
<1> HIDE DEF z
<1>3. Keeps(p, TakeHeader(Seen(x, p), p))
  BY <1>1, TakeHeaderKeeps
<1>4. Keeps(p, TakeCall(z, p, item)) /\ Keeps(p, TakeResult(z, p, item))
  BY <1>1, TakeCallKeeps, TakeResultKeeps
<1>5. Keeps(p, Woken(z, p, item))
  BY <1>1, WokenKeeps
<1> QED
  BY <1>1, <1>2, <1>3, <1>4, <1>5

LEMMA ForgetGrounds ==
  ASSUME NEW gone \in SUBSET Paths, Index \in IndexType, Grounded(Index)
  PROVE  Forget(Index, gone) \in IndexType /\ Grounded(Forget(Index, gone))
<1> DEFINE y == Forget(Index, gone)
           dropped == {files[p].session : p \in gone}
<1>0. /\ files \in [Paths -> FileState] /\ sessions \in [Sessions -> SessionRec]
      /\ calls \in [Sessions -> CallList] /\ wakes \in [Sessions -> WakeList]
  BY IndexParts DEF Index
<1>1. \A p \in Paths : Unknown(p) \in FileState
  BY ScanAssumption DEF Unknown, FileState, Content, NoFile
<1>2. y.files \in [Paths -> FileState]
  BY <1>0, <1>1 DEF Forget, Index
<1>3. /\ y.sessions \in [Sessions -> SessionRec]
      /\ y.calls \in [Sessions -> CallList]
      /\ y.wakes \in [Sessions -> WakeList]
  BY <1>0, NoSessionType DEF Forget, Index, CallList, WakeList
<1>4. y \in IndexType
  BY <1>2, <1>3 DEF Forget, IndexType, SessionRec, CallList, WakeList
<1>5. ASSUME NEW s \in Sessions PROVE Empty(y, s) \/ KnownIn(y, s)
  <2>1. CASE s \in dropped
    BY <2>1 DEF Forget, Empty
  <2>2. CASE s \notin dropped /\ Empty(Index, s)
    BY <2>2 DEF Forget, Empty, Index
  <2>3. CASE s \notin dropped /\ KnownIn(Index, s)
    <3>1. PICK p \in Paths : files[p].known /\ files[p].session = s
      BY <2>3 DEF KnownIn, Index
    <3>2. p \notin gone
      BY <2>3, <3>1
    <3> QED
      BY <3>1, <3>2 DEF KnownIn, Forget, Index
  <2> QED
    BY <2>1, <2>2, <2>3 DEF Grounded
<1> QED
  BY <1>4, <1>5 DEF Grounded

-----------------------------------------------------------------------------
(* The steps.                                                               *)

LEMMA ScanInit == Init => ScanInv
<1> SUFFICES ASSUME Init PROVE ScanInv
  OBVIOUS
<1>1. \A p \in Paths : Unknown(p) \in FileState
  BY ScanAssumption DEF Unknown, FileState, Content, NoFile
<1>2. files \in [Paths -> FileState] /\ sessions \in [Sessions -> SessionRec]
  BY <1>1, NoSessionType DEF Init
<1>3. calls \in [Sessions -> CallList] /\ wakes \in [Sessions -> WakeList]
  BY DEF Init, CallList, WakeList
<1>4. Index \in IndexType
  BY <1>2, <1>3 DEF Index, IndexType, SessionRec, CallList, WakeList
<1>5. disk \in [Paths -> Content] /\ written \in 0..Len(Texts) /\ mishaps \in 0..MaxMishaps
  BY ScanAssumption DEF Init, Content, NoFile
<1>6. scan \in [at : 0..(Last + 1), reading : BOOLEAN, pos : Nat, stat : Content,
                seen : SUBSET Paths]
  BY ScanAssumption DEF Init, Idle, Content, NoFile
<1>7. TypeOK
  BY <1>4, <1>5, <1>6 DEF Init, TypeOK
<1>8. ReadIsKnown
  BY DEF Init, ReadIsKnown, Reading, Idle
<1>9. NothingOrphaned
  BY DEF Init, NothingOrphaned, Empty, Index
<1> QED
  BY <1>7, <1>8, <1>9 DEF ScanInv

LEMMA BecomesIndex ==
  ASSUME NEW y, y \in IndexType, Becomes(y)
  PROVE  Index' = y
  BY DEF Becomes, Index, IndexType

ScanType == [at : 0..(Last + 1), reading : BOOLEAN, pos : Nat, stat : Content,
             seen : SUBSET Paths]

LEMMA NextPathType ==
  ASSUME ScanInv, NEW p \in Paths, scan.at = p, NEW S \in SUBSET Paths
  PROVE  /\ NextPath \in ScanType /\ ~NextPath.reading
         /\ [NextPath EXCEPT !.seen = @ \cup S] \in ScanType
         /\ ~[NextPath EXCEPT !.seen = @ \cup S].reading
<1>1. scan \in ScanType
  BY DEF ScanInv, TypeOK, ScanType
<1>2. p + 1 \in 0..(Last + 1)
  BY ScanAssumption DEF Paths
<1> QED
  BY <1>1, <1>2 DEF NextPath, ScanType, NoFile, Content

(* A write leaves the index as it is.                                       *)
LEMMA WriterStep ==
  ASSUME ScanInv, NEW p \in Paths, AppendLine(p) \/ AppendHalf(p) \/ Replace(p) \/ Delete(p)
  PROVE  ScanInv'
<1>1. disk \in [Paths -> Content] /\ disk[p].lines \in Nat
  BY DEF ScanInv, TypeOK, Content
<1>2. Index' = Index /\ files' = files /\ scan' = scan /\ changed' = changed
  BY DEF AppendLine, AppendHalf, Replace, Delete, Write, index, Index
<1>3. disk' \in [Paths -> Content]
  <2>1. CASE AppendLine(p)
    <3> DEFINE f == disk[p]
    <3>0. f \in Content /\ f.lines + 1 \in Nat
      BY <1>1
    <3> HIDE DEF f
    <3>1. [f EXCEPT !.lines = @ + 1, !.torn = FALSE] \in Content
      BY <3>0 DEF Content
    <3> QED
      BY <1>1, <2>1, <3>1 DEF AppendLine, Write, f
  <2>2. CASE AppendHalf(p)
    BY <1>1, <2>2 DEF AppendHalf, Content
  <2>3. CASE Replace(p)
    BY <1>1, <2>3 DEF Replace, Content, ScanInv, TypeOK
  <2>4. CASE Delete(p)
    BY <1>1, <2>4 DEF Delete, Write, NoFile, Content
  <2> QED
    BY <2>1, <2>2, <2>3, <2>4
<1>4. written' \in 0..Len(Texts)
  BY ScanAssumption DEF AppendLine, AppendHalf, Replace, Delete, Write, ScanInv, TypeOK
<1>5. mishaps' \in 0..MaxMishaps
  BY ScanAssumption DEF AppendLine, AppendHalf, Replace, Delete, Write, ScanInv, TypeOK
<1>6. faults' \subseteq Faults \X Paths
  <2>1. Replace(p) => faults' \subseteq faults \cup {<<"longer", p>>}
    BY DEF Replace
  <2>2. <<"longer", p>> \in Faults \X Paths /\ faults \subseteq Faults \X Paths
    BY DEF Faults, Mistakes, ScanInv, TypeOK
  <2> QED
    BY <2>1, <2>2 DEF AppendLine, AppendHalf, Delete
<1>7. TypeOK'
  BY <1>2, <1>3, <1>4, <1>5, <1>6 DEF ScanInv, TypeOK
<1>8. ReadIsKnown'
  BY <1>2 DEF ScanInv, ReadIsKnown, Reading
<1>9. NothingOrphaned'
  BY <1>2 DEF ScanInv, NothingOrphaned
<1> QED
  BY <1>7, <1>8, <1>9 DEF ScanInv

(* The steps that change the index of one path, and what is left of the     *)
(* invariant's step for them.                                               *)
LEMMA PathStep ==
  ASSUME ScanInv, NEW p \in Paths, NEW y, Keeps(p, y), Becomes(y),
         scan' \in ScanType, scan'.reading => scan'.at = p,
         disk' = disk, written' = written, changed' = changed,
         mishaps' \in 0..MaxMishaps,
         faults' \subseteq Faults \X Paths
  PROVE  ScanInv'
<1>1. Index' = y
  BY BecomesIndex DEF Keeps
<1>2. TypeOK'
  BY <1>1 DEF ScanInv, TypeOK, Keeps, ScanType
<1>3. ReadIsKnown'
  <2> SUFFICES ASSUME NEW q \in Paths, Reading(q)' PROVE files'[q].known
    BY DEF ReadIsKnown
  <2>1. q = p
    BY DEF Reading
  <2> QED
    BY <2>1 DEF Keeps, Becomes
<1>4. NothingOrphaned'
  BY <1>1 DEF Keeps, Grounded, NothingOrphaned
<1> QED
  BY <1>2, <1>3, <1>4 DEF ScanInv

(* The steps that move the walk on without a change of the index.           *)
LEMMA WalkStep ==
  ASSUME ScanInv, UNCHANGED <<disk, written, index, changed>>,
         scan' \in ScanType, ~scan'.reading,
         mishaps' \in 0..MaxMishaps,
         faults' \subseteq Faults \X Paths
  PROVE  ScanInv'
<1>1. Index' = Index
  BY DEF index, Index
<1>2. TypeOK'
  BY <1>1 DEF ScanInv, TypeOK, ScanType
<1>3. ReadIsKnown'
  BY DEF ReadIsKnown, Reading
<1>4. NothingOrphaned'
  BY <1>1 DEF ScanInv, NothingOrphaned
<1> QED
  BY <1>2, <1>3, <1>4 DEF ScanInv

LEMMA StatFileStep ==
  ASSUME ScanInv, NEW p \in Paths, StatFile(p)
  PROVE  ScanInv'
<1> DEFINE known == [Index EXCEPT !.files[p].known = TRUE]
           g == [Index.files[p] EXCEPT !.known = TRUE]
           shrunk == Size(disk[p]) < files[p].offset
           y == IF shrunk THEN Rewind(known, p) ELSE known
<1>1. Index \in IndexType /\ Grounded(Index) /\ Index.files[p] \in FileState /\ Index.files = files
  BY IndexParts DEF ScanInv, TypeOK, NothingOrphaned, Grounded, Index
<1>2. g \in FileState /\ g.known /\ g.session = Index.files[p].session
  BY <1>1 DEF FileState
<1>3. known = [Index EXCEPT !.files = [Index.files EXCEPT ![p] = g]]
  OBVIOUS
<1> HIDE DEF g
<1>4. Keeps(p, known)
  BY <1>1, <1>2, <1>3, FileUpdateKeeps
<1> HIDE DEF known
<1>5. Keeps(p, y)
  BY <1>4, RewindKeeps
<1>6. Becomes(y)
  BY DEF StatFile, known
<1>7. scan' \in ScanType /\ scan'.at = p
  <2>1. scan \in ScanType /\ disk[p] \in Content /\ files[p].offset \in Nat /\ scan.at = p
    BY <1>1 DEF ScanInv, TypeOK, ScanType, FileState, StatFile, On
  <2> QED
    BY <2>1 DEF StatFile, ScanType
<1>8. faults' \subseteq Faults \X Paths
  <2>1. <<"longer", p>> \in Faults \X Paths /\ faults \subseteq Faults \X Paths
    BY DEF Faults, Mistakes, ScanInv, TypeOK
  <2>2. faults' \subseteq faults \cup {<<"longer", p>>}
    BY DEF StatFile
  <2> QED  BY <2>1, <2>2
<1>9. disk' = disk /\ written' = written /\ changed' = changed /\ mishaps' \in 0..MaxMishaps
  BY DEF StatFile, ScanInv, TypeOK
<1> HIDE DEF y
<1> QED
  BY <1>5, <1>6, <1>7, <1>8, <1>9, PathStep

LEMMA ReadLineStep ==
  ASSUME ScanInv, NEW p \in Paths, ReadLine(p)
  PROVE  ScanInv'
<1>1. Index \in IndexType /\ Grounded(Index) /\ Index.files = files
  BY DEF ScanInv, TypeOK, NothingOrphaned, Grounded, Index
<1>2. Keeps(p, Index)
  BY <1>1 DEF Keeps, ScanInv, ReadIsKnown, ReadLine
<1>3. scan \in ScanType /\ scan.pos \in Nat /\ disk[p].text \in Nat
  BY DEF ScanInv, TypeOK, ScanType, Content
<1>4. NextLine(p) \in Item
  <2>1. scan.pos \div 2 + 1 \in Nat
    BY <1>3
  <2> QED
    BY <1>3, <2>1 DEF NextLine, Item
<1>5. Keeps(p, TakeLine(Index, p, NextLine(p)))
  BY <1>2, <1>4, TakeLineKeeps
<1>6. scan' \in ScanType /\ scan'.at = p
  <2>1. 2 * (scan.pos \div 2) + 2 \in Nat
    BY <1>3
  <2> QED
    BY <1>3, <2>1 DEF ReadLine, Reading, ScanType
<1> QED
  BY <1>5, <1>6, PathStep DEF ReadLine, ScanInv, TypeOK

(* However the reading of a file stops.                                     *)
LEMMA StopStep ==
  ASSUME ScanInv, NEW p \in Paths, NEW half, Reading(p), Stop(p, half),
         mishaps' \in 0..MaxMishaps,
         faults' \subseteq Faults \X Paths
  PROVE  ScanInv'
<1> DEFINE taken == half /\ Trusted(p)
           item == [text |-> disk[p].text, line |-> scan.pos \div 2 + 1, part |-> "half"]
           x == IF taken THEN TakeLine(Index, p, item) ELSE Index
           offset == scan.pos + (IF taken THEN 1 ELSE 0)
           g == [x.files[p] EXCEPT !.offset = offset, !.stat = scan.stat, !.stable = FALSE]
           y == [x EXCEPT !.files[p] =
                  [@ EXCEPT !.offset = offset, !.stat = scan.stat, !.stable = FALSE]]
<1>1. Index \in IndexType /\ Grounded(Index) /\ Index.files = files
  BY DEF ScanInv, TypeOK, NothingOrphaned, Grounded, Index
<1>2. Keeps(p, Index)
  BY <1>1 DEF Keeps, ScanInv, ReadIsKnown
<1>3. item \in Item
  <2>1. disk[p].text \in Nat /\ scan.pos \in Nat
    BY DEF ScanInv, TypeOK, Content
  <2>2. scan.pos \div 2 + 1 \in Nat
    BY <2>1
  <2> QED  BY <2>1, <2>2 DEF Item
<1> HIDE DEF taken, item
<1>4. Keeps(p, x)
  BY <1>2, <1>3, TakeLineKeeps
<1>5. offset \in Nat /\ scan.stat \in Content
  BY DEF ScanInv, TypeOK
<1>6. Becomes(y)
  BY DEF Stop, taken, item
<1> HIDE DEF x, offset
<1>7. x \in IndexType /\ Grounded(x) /\ x.files[p] \in FileState /\ x.files[p].known
  BY <1>4, IndexParts DEF Keeps
<1>8. g \in FileState /\ g.known /\ g.session = x.files[p].session
  BY <1>5, <1>7 DEF FileState
<1>9. y = [x EXCEPT !.files = [x.files EXCEPT ![p] = g]]
  OBVIOUS
<1> HIDE DEF g, y
<1>10. Keeps(p, y)
  BY <1>7, <1>8, <1>9, FileUpdateKeeps
<1>11. scan' \in ScanType /\ ~scan'.reading
  BY NextPathType DEF Stop, Reading
<1> QED
  BY <1>6, <1>10, <1>11, PathStep DEF Stop

LEMMA FinishStep ==
  ASSUME ScanInv, NEW p \in Paths, Finish(p) \/ CutShort(p)
  PROVE  ScanInv'
<1>1. mishaps' \in 0..MaxMishaps
  <2>1. mishaps \in 0..MaxMishaps
    BY DEF ScanInv, TypeOK
  <2>2. mishaps' = mishaps \/ (mishaps < MaxMishaps /\ mishaps' = mishaps + 1)
    BY DEF Finish, CutShort
  <2> QED  BY <2>1, <2>2, ScanAssumption
<1>2. faults' \subseteq Faults \X Paths
  <2>1. {<<"half", p>>, <<"cut", p>>} \cup faults \subseteq Faults \X Paths
    BY DEF Faults, Mistakes, ScanInv, TypeOK
  <2>2. faults' \subseteq faults \cup {<<"half", p>>, <<"cut", p>>}
    BY DEF Finish, CutShort, HalfFault
  <2> QED  BY <2>1, <2>2
<1>3. Reading(p) /\ \E half : Stop(p, half)
  BY DEF Finish, CutShort
<1> QED
  BY <1>1, <1>2, <1>3, StopStep

LEMMA SweepStep ==
  ASSUME ScanInv, Sweep
  PROVE  ScanInv'
<1> DEFINE gone == {p \in Paths : files[p].known /\ p \notin scan.seen}
<1>1. Index \in IndexType /\ Grounded(Index)
  BY DEF ScanInv, TypeOK, NothingOrphaned, Grounded
<1>2. Becomes(Forget(Index, gone))
  BY DEF Sweep
<1> HIDE DEF gone
<1>3. gone \in SUBSET Paths
  BY DEF gone
<1>4. Index' = Forget(Index, gone) /\ Index' \in IndexType /\ Grounded(Forget(Index, gone))
  BY <1>1, <1>2, <1>3, ForgetGrounds, BecomesIndex
<1>5. scan' \in ScanType /\ ~scan'.reading
  BY ScanAssumption DEF Sweep, Idle, ScanType, Content, NoFile
<1>6. faults' \subseteq Faults \X Paths /\ changed' \in BOOLEAN
  BY DEF Sweep, ScanInv, TypeOK
<1>7. TypeOK'
  BY <1>4, <1>5, <1>6 DEF Sweep, ScanInv, TypeOK, ScanType
<1>8. ReadIsKnown'
  BY <1>5 DEF ReadIsKnown, Reading
<1>9. NothingOrphaned'
  BY <1>4 DEF NothingOrphaned, Grounded
<1> QED
  BY <1>7, <1>8, <1>9 DEF ScanInv

LEMMA ScanStep == ScanInv /\ [Next]_vars => ScanInv'
<1> SUFFICES ASSUME ScanInv, [Next]_vars PROVE ScanInv'
  OBVIOUS
<1>1. CASE Start
  <2>1. scan' = [at |-> 1, reading |-> FALSE, pos |-> 0, stat |-> NoFile, seen |-> {}]
    BY <1>1 DEF Start, Idle
  <2>2. 1 \in 0..(Last + 1) /\ NoFile \in Content
    BY ScanAssumption DEF NoFile, Content
  <2>3. scan' \in ScanType /\ ~scan'.reading
    BY <2>1, <2>2 DEF ScanType
  <2> QED
    BY <1>1, <2>3, WalkStep DEF Start, ScanInv, TypeOK
<1>2. CASE Sweep
  BY <1>2, SweepStep
<1>3. ASSUME NEW p \in Paths, SkipMissing(p) PROVE ScanInv'
  <2>1. scan' \in ScanType /\ ~scan'.reading
    BY <1>3, NextPathType DEF SkipMissing, On
  <2> QED
    BY <1>3, <2>1, WalkStep DEF SkipMissing, ScanInv, TypeOK
<1>4. ASSUME NEW p \in Paths, CannotLook(p) PROVE ScanInv'
  <2>1. scan' \in ScanType /\ ~scan'.reading
    <3>1. PICK listed \in BOOLEAN :
            scan' = [NextPath EXCEPT !.seen = @ \cup (IF listed THEN {p} ELSE {})]
      BY <1>4 DEF CannotLook
    <3> DEFINE S == IF listed THEN {p} ELSE {}
    <3>2. S \in SUBSET Paths
      OBVIOUS
    <3> HIDE DEF S
    <3>3. scan' = [NextPath EXCEPT !.seen = @ \cup S]
      BY <3>1 DEF S
    <3> QED
      BY <1>4, <3>2, <3>3, NextPathType DEF CannotLook, On
  <2>2. mishaps' \in 0..MaxMishaps
    BY <1>4, ScanAssumption DEF CannotLook, ScanInv, TypeOK
  <2> QED
    BY <1>4, <2>1, <2>2, WalkStep DEF CannotLook, ScanInv, TypeOK
<1>5. ASSUME NEW p \in Paths, SkipUnchanged(p) PROVE ScanInv'
  <2>1. scan' \in ScanType /\ ~scan'.reading
    BY <1>5, NextPathType DEF SkipUnchanged, On
  <2>2. files \in [Paths -> FileState] /\ Index \in IndexType
    BY IndexParts DEF ScanInv, TypeOK, Index
  <2>3. /\ files' \in [Paths -> FileState]
        /\ \A q \in Paths : /\ files'[q].known = files[q].known
                            /\ files'[q].session = files[q].session
    BY <1>5, <2>2 DEF SkipUnchanged, FileState
  <2>4. sessions' = sessions /\ calls' = calls /\ wakes' = wakes
    BY <1>5 DEF SkipUnchanged
  <2>5. Index' \in IndexType
    BY <2>2, <2>3, <2>4 DEF Index, IndexType
  <2>6. TypeOK'
    BY <1>5, <2>1, <2>5 DEF SkipUnchanged, ScanInv, TypeOK, ScanType
  <2>7. ReadIsKnown'
    BY <2>1 DEF ReadIsKnown, Reading
  <2>8. NothingOrphaned'
    BY <2>3, <2>4 DEF ScanInv, NothingOrphaned, Empty, KnownIn, Index
  <2> QED
    BY <2>6, <2>7, <2>8 DEF ScanInv
<1>6. ASSUME NEW p \in Paths, CannotRead(p) PROVE ScanInv'
  <2>1. scan' \in ScanType /\ ~scan'.reading
    BY <1>6, NextPathType DEF CannotRead, Reading
  <2>2. mishaps' \in 0..MaxMishaps
    BY <1>6, ScanAssumption DEF CannotRead, ScanInv, TypeOK
  <2>3. faults' \subseteq Faults \X Paths
    <3>1. <<"broken", p>> \in Faults \X Paths /\ faults \subseteq Faults \X Paths
      BY DEF Faults, Mistakes, ScanInv, TypeOK
    <3> QED  BY <1>6, <3>1 DEF CannotRead
  <2> QED
    BY <1>6, <2>1, <2>2, <2>3, WalkStep DEF CannotRead
<1>7. CASE UNCHANGED vars
  BY <1>7 DEF vars, index, ScanInv, TypeOK, ReadIsKnown, NothingOrphaned, Reading, Index,
              Empty, KnownIn
<1> QED
  BY <1>1, <1>2, <1>3, <1>4, <1>5, <1>6, <1>7, StatFileStep, ReadLineStep, FinishStep, WriterStep
     DEF Next, Poll, Writers

-----------------------------------------------------------------------------
(* The index keeps the shape refresh gives it, whatever is written, moved   *)
(* or lost under it (scan.go, store and fileState).                         *)
THEOREM ScanTypeCorrect == Spec => []TypeOK
  BY ScanInit, ScanStep, PTL DEF Spec, ScanInv

(* Nothing of a transcript stays in the index without a file that the index *)
(* will look at again: no session, call or wake outlives its file, and none *)
(* is left behind when a header renames the session (scan.go, dropSession,  *)
(* line and the end of refresh).                                            *)
THEOREM ScanOrphansNothing == Spec => []NothingOrphaned
  BY ScanInit, ScanStep, PTL DEF Spec, ScanInv

-----------------------------------------------------------------------------
(***************************************************************************)
(* The index is a prefix of the file.  A path has one or two session ids   *)
(* that no other path has, so what is done for one path leaves the rest of *)
(* the index alone.                                                        *)
(***************************************************************************)
Ids(p) == {SessionIn[p], HeaderOf[p]} \ {NoId}

(* The id of a path's session once its header was read.                     *)
NameOf(p) == IF HeaderOf[p] = NoId THEN SessionIn[p] ELSE HeaderOf[p]

LEMMA IdsApart ==
  ASSUME NEW p \in Paths
  PROVE  /\ Ids(p) \subseteq Sessions /\ SessionIn[p] \in Ids(p) /\ NameOf(p) \in Ids(p)
         /\ HeaderOf[p] # NoId => HeaderOf[p] \in Ids(p)
         /\ \A q \in Paths \ {p} : Ids(p) \cap Ids(q) = {}
<1>1. SessionIn[p] \in Sessions /\ HeaderOf[p] \in Sessions \cup {NoId} /\ NoId \notin Sessions
  BY ScanAssumption
<1>2. ASSUME NEW q \in Paths \ {p} PROVE Ids(p) \cap Ids(q) = {}
  <2>1. {SessionIn[p], HeaderOf[p]} \cap {SessionIn[q], HeaderOf[q]} \subseteq {NoId}
    BY ScanAssumption
  <2> QED  BY <2>1 DEF Ids
<1>3. Ids(p) \subseteq Sessions /\ SessionIn[p] \in Ids(p) /\ NameOf(p) \in Ids(p)
  BY <1>1 DEF Ids, NameOf
<1>4. HeaderOf[p] # NoId => HeaderOf[p] \in Ids(p)
  BY DEF Ids
<1> QED
  BY <1>2, <1>3, <1>4

(* What a step of path p's may change on the way from index x to y.         *)
Only(p, x, y) ==
  /\ \A q \in Paths \ {p} : y.files[q] = x.files[q]
  /\ y.files[p].session \in Ids(p)
  /\ \A s \in Sessions \ Ids(p) :
       y.sessions[s] = x.sessions[s] /\ y.calls[s] = x.calls[s] /\ y.wakes[s] = x.wakes[s]

(* An index of path p's, on which its operations may be applied.            *)
Proper(p, x) == Keeps(p, x) /\ x.files[p].session \in Ids(p)

LEMMA OnlyTrans ==
  ASSUME NEW p, NEW x, NEW y, NEW z, Only(p, x, y), Only(p, y, z)
  PROVE  Only(p, x, z)
  BY DEF Only

LEMMA FileOnly ==
  ASSUME NEW p \in Paths, NEW x \in IndexType, NEW g, g.session \in Ids(p)
  PROVE  Only(p, x, [x EXCEPT !.files = [x.files EXCEPT ![p] = g]])
<1> DEFINE f == [x.files EXCEPT ![p] = g]
           y == [x EXCEPT !.files = f]
<1>1. f[p] = g /\ \A q \in Paths \ {p} : f[q] = x.files[q]
  BY IndexParts
<1> HIDE DEF f
<1>2. y.files = f /\ y.sessions = x.sessions /\ y.calls = x.calls /\ y.wakes = x.wakes
  BY DEF IndexType
<1> HIDE DEF y
<1>3. Only(p, x, y)
  BY <1>1, <1>2 DEF Only
<1> QED
  BY <1>3 DEF y, f

LEMMA SessionOnly ==
  ASSUME NEW p \in Paths, NEW x \in IndexType, x.files[p].session \in Ids(p), NEW r
  PROVE  /\ Only(p, x, [x EXCEPT !.sessions = [x.sessions EXCEPT ![x.files[p].session] = r]])
         /\ Only(p, x, [x EXCEPT !.calls = [x.calls EXCEPT ![x.files[p].session] = r]])
         /\ Only(p, x, [x EXCEPT !.wakes = [x.wakes EXCEPT ![x.files[p].session] = r]])
<1> DEFINE s == x.files[p].session
           f == [x.sessions EXCEPT ![s] = r]
           g == [x.calls EXCEPT ![s] = r]
           h == [x.wakes EXCEPT ![s] = r]
           y == [x EXCEPT !.sessions = f]
           z == [x EXCEPT !.calls = g]
           w == [x EXCEPT !.wakes = h]
<1>1. \A t \in Sessions \ Ids(p) : f[t] = x.sessions[t] /\ g[t] = x.calls[t] /\ h[t] = x.wakes[t]
  BY IndexParts
<1> HIDE DEF f, g, h
<1>2. /\ y.files = x.files /\ y.sessions = f /\ y.calls = x.calls /\ y.wakes = x.wakes
      /\ z.files = x.files /\ z.sessions = x.sessions /\ z.calls = g /\ z.wakes = x.wakes
      /\ w.files = x.files /\ w.sessions = x.sessions /\ w.calls = x.calls /\ w.wakes = h
  BY DEF IndexType
<1> HIDE DEF y, z, w
<1>3. Only(p, x, y) /\ Only(p, x, z) /\ Only(p, x, w)
  BY <1>1, <1>2 DEF Only
<1> QED
  BY <1>3 DEF y, z, w, f, g, h

LEMMA WithSessionOnly ==
  ASSUME NEW p \in Paths, NEW x, Proper(p, x)
  PROVE  Only(p, x, WithSession(x, p)) /\ Proper(p, WithSession(x, p))
<1>1. x \in IndexType /\ x.files[p].session \in Ids(p)
  BY DEF Proper, Keeps
<1>2. Only(p, x, x)
  BY <1>1 DEF Only
<1>3. Only(p, x, WithSession(x, p))
  BY <1>1, <1>2, SessionOnly DEF WithSession
<1> QED
  BY <1>3, WithSessionKeeps DEF Proper

(* A path's session is dropped, and may then be given its other id.         *)
LEMMA DropOnly ==
  ASSUME NEW p \in Paths, NEW x, Proper(p, x), NEW g, g.session \in Ids(p)
  PROVE  LET y == DropSession(x, x.files[p].session, p)
         IN  Only(p, x, [y EXCEPT !.files = [y.files EXCEPT ![p] = g]])
<1> DEFINE s == x.files[p].session
           y == DropSession(x, s, p)
<1>1. x \in IndexType /\ s \in Ids(p) /\ s \in Sessions
  BY IndexParts DEF Proper, Keeps
<1>2. y \in IndexType /\ y.files = [x.files EXCEPT ![p].pending = {}]
  BY <1>1, DropSessionType
<1>3. \A q \in Paths \ {p} : y.files[q] = x.files[q]
  BY <1>1, <1>2, IndexParts
<1>4. \A t \in Sessions \ Ids(p) :
        y.sessions[t] = x.sessions[t] /\ y.calls[t] = x.calls[t] /\ y.wakes[t] = x.wakes[t]
  <2>1. /\ y.sessions = [x.sessions EXCEPT ![s] = NoSession]
        /\ y.calls = [x.calls EXCEPT ![s] = <<>>]
        /\ y.wakes = [x.wakes EXCEPT ![s] = <<>>]
    BY DEF DropSession
  <2> QED
    BY <1>1, <2>1, IndexParts
<1> HIDE DEF y
<1>5. Only(p, y, [y EXCEPT !.files = [y.files EXCEPT ![p] = g]])
  BY <1>2, FileOnly
<1>6. Only(p, x, [y EXCEPT !.files = [y.files EXCEPT ![p] = g]])
  BY <1>3, <1>4, <1>5 DEF Only
<1> QED
  BY <1>6 DEF y

LEMMA TakeHeaderOnly ==
  ASSUME NEW p \in Paths, NEW x, Proper(p, x)
  PROVE  Only(p, x, TakeHeader(x, p))
<1>1. CASE HeaderOf[p] \in {x.files[p].session, NoId}
  BY <1>1, WithSessionOnly DEF TakeHeader
<1>2. CASE HeaderOf[p] \notin {x.files[p].session, NoId}
  <2>1. /\ Keeps(p, Renamed(x, p)) /\ TakeHeader(x, p) = WithSession(Renamed(x, p), p)
        /\ HeaderOf[p] \in Ids(p)
    BY <1>2, RenamedKeeps, IdsApart DEF Proper
  <2>2. Only(p, x, Renamed(x, p))
    <3> DEFINE d == DropSession(x, x.files[p].session, p)
               g == [d.files[p] EXCEPT !.session = HeaderOf[p]]
    <3>1. /\ Renamed(x, p) = [d EXCEPT !.files = [d.files EXCEPT ![p] = g]]
          /\ g.session \in Ids(p)
      BY <1>2, <2>1, RenamedKeeps DEF Proper
    <3> HIDE DEF g
    <3> QED  BY <3>1, DropOnly
  <2>3. Only(p, Renamed(x, p), WithSession(Renamed(x, p), p))
    BY <2>1, <2>2, WithSessionOnly DEF Only, Proper
  <2> QED
    BY <2>1, <2>2, <2>3, OnlyTrans
<1> QED
  BY <1>1, <1>2

LEMMA TakeCallOnly ==
  ASSUME NEW p \in Paths, NEW x, Proper(p, x), NEW item
  PROVE  Only(p, x, TakeCall(x, p, item))
<1> DEFINE id == Entry(item.text, item.line).id
           others == {c \in x.files[p].pending : Entry(c.text, c.line).id # id}
           e == [text |-> item.text, line |-> item.line]
           g == [x.files[p] EXCEPT !.pending = others \cup {e}]
<1>1. x \in IndexType /\ x.files[p] \in FileState
  BY IndexParts DEF Proper, Keeps
<1>2. TakeCall(x, p, item) = [x EXCEPT !.files = [x.files EXCEPT ![p] = g]]
  BY DEF TakeCall
<1> HIDE DEF others, e
<1>3. g.session \in Ids(p)
  BY <1>1 DEF Proper, FileState
<1> HIDE DEF g
<1> QED
  BY <1>1, <1>2, <1>3, FileOnly

LEMMA TakeResultOnly ==
  ASSUME NEW p \in Paths, NEW x, Proper(p, x), NEW item \in Item
  PROVE  Only(p, x, TakeResult(x, p, item))
<1> DEFINE id == Entry(item.text, item.line).id
           mine == {c \in x.files[p].pending : Entry(c.text, c.line).id = id}
           call == IF mine = {} THEN 0 ELSE (CHOOSE c \in mine : TRUE).line
           r == [text |-> item.text, call |-> call, line |-> item.line]
           g == [x.files[p] EXCEPT !.pending = @ \ mine]
           y == [x EXCEPT !.files[p].pending = @ \ mine]
           l == Append(y.calls[y.files[p].session], r)
<1>1. x \in IndexType /\ x.files[p] \in FileState
  BY IndexParts DEF Proper, Keeps
<1>2. TakeResult(x, p, item) = [y EXCEPT !.calls = [y.calls EXCEPT ![y.files[p].session] = l]]
  BY DEF TakeResult
<1>3. y = [x EXCEPT !.files = [x.files EXCEPT ![p] = g]]
  OBVIOUS
<1> HIDE DEF mine, l
<1>4. g \in FileState /\ g.session = x.files[p].session /\ g.known
  BY <1>1 DEF FileState, Proper, Keeps
<1> HIDE DEF g
<1>5. Only(p, x, y)
  BY <1>1, <1>3, <1>4, FileOnly DEF Proper
<1>6. y \in IndexType /\ y.files[p].session \in Ids(p)
  BY <1>1, <1>3, <1>4, <1>5, FileUpdateKeeps DEF Keeps, Only, Proper
<1> HIDE DEF y
<1>7. Only(p, y, [y EXCEPT !.calls = [y.calls EXCEPT ![y.files[p].session] = l]])
  BY <1>6, SessionOnly
<1> QED
  BY <1>2, <1>5, <1>7, OnlyTrans

LEMMA TakeLineOnly ==
  ASSUME NEW p \in Paths, NEW x, Proper(p, x), NEW item \in Item
  PROVE  Only(p, x, TakeLine(x, p, item))
<1> DEFINE x1 == Seen(x, p)
           y == WithSession(x1, p)
           z == Logged(y, p, item)
<1>0. Keeps(p, x) /\ x \in IndexType
  BY DEF Proper, Keeps
<1>1. Only(p, x, x1) /\ Proper(p, x1)
  <2> DEFINE g == [x.files[p] EXCEPT !.hdrDone = TRUE]
  <2>1. /\ Keeps(p, x1) /\ x1 = [x EXCEPT !.files = [x.files EXCEPT ![p] = g]]
        /\ g.session \in Ids(p)
    BY SeenKeeps DEF Proper
  <2> HIDE DEF g, x1
  <2> QED  BY <1>0, <2>1, FileOnly DEF Only, Proper
<1>2. Keeps(p, y) /\ Keeps(p, z)
  BY <1>0, TakeLineIs
<1>3. TakeLine(x, p, item) \in
        {TakeHeader(x1, p), x1, TakeCall(z, p, item), TakeResult(z, p, item), Woken(z, p, item), z}
  BY <1>0, TakeLineIs
<1> HIDE DEF x1
<1>4. Only(p, x, y) /\ Proper(p, y)
  BY <1>1, WithSessionOnly, OnlyTrans
<1> HIDE DEF y
<1>5. Only(p, y, z)
  <2> DEFINE r == [y.sessions[y.files[p].session] EXCEPT !.read = Append(@, item)]
  <2>1. z = [y EXCEPT !.sessions = [y.sessions EXCEPT ![y.files[p].session] = r]]
    BY DEF Logged
  <2> HIDE DEF r, z
  <2>2. y \in IndexType /\ y.files[p].session \in Ids(p)
    BY <1>4 DEF Proper, Keeps
  <2>3. Only(p, y, [y EXCEPT !.sessions = [y.sessions EXCEPT ![y.files[p].session] = r]])
    BY <2>2, SessionOnly
  <2> QED  BY <2>1, <2>3
<1> HIDE DEF z
<1>6. Only(p, x, z) /\ Proper(p, z)
  BY <1>2, <1>4, <1>5, OnlyTrans DEF Only, Proper
<1>7. Only(p, z, Woken(z, p, item))
  <2> DEFINE v == Append(z.wakes[z.files[p].session], [text |-> item.text, line |-> item.line])
  <2>1. Woken(z, p, item) = [z EXCEPT !.wakes = [z.wakes EXCEPT ![z.files[p].session] = v]]
    BY DEF Woken
  <2> HIDE DEF v
  <2>2. z \in IndexType /\ z.files[p].session \in Ids(p)
    BY <1>6 DEF Proper, Keeps
  <2>3. Only(p, z, [z EXCEPT !.wakes = [z.wakes EXCEPT ![z.files[p].session] = v]])
    BY <2>2, SessionOnly
  <2> QED  BY <2>1, <2>3
<1>8. Only(p, x1, TakeHeader(x1, p)) /\ Only(p, z, TakeCall(z, p, item))
        /\ Only(p, z, TakeResult(z, p, item))
  BY <1>1, <1>6, TakeHeaderOnly, TakeCallOnly, TakeResultOnly
<1>9. /\ Only(p, x, TakeHeader(x1, p)) /\ Only(p, x, TakeCall(z, p, item))
      /\ Only(p, x, TakeResult(z, p, item)) /\ Only(p, x, Woken(z, p, item))
  BY <1>1, <1>6, <1>7, <1>8, OnlyTrans
<1> QED
  BY <1>1, <1>3, <1>6, <1>9

LEMMA RewindOnlyPath ==
  ASSUME NEW p \in Paths, NEW x, Proper(p, x)
  PROVE  /\ Only(p, x, Rewind(x, p))
         /\ Empty(Rewind(x, p), Rewind(x, p).files[p].session)
         /\ Rewind(x, p).files[p] =
              [x.files[p] EXCEPT !.pending = {}, !.offset = 0, !.hdrDone = FALSE]
<1> DEFINE s == x.files[p].session
           d == DropSession(x, s, p)
           g == [d.files[p] EXCEPT !.offset = 0, !.hdrDone = FALSE]
<1>1. Rewind(x, p) = [d EXCEPT !.files = [d.files EXCEPT ![p] = g]]
  BY DEF Rewind
<1>2. x \in IndexType /\ x.files[p] \in FileState /\ s \in Sessions
  BY IndexParts DEF Proper, Keeps
<1>3. d \in IndexType /\ Empty(d, s) /\ d.files = [x.files EXCEPT ![p].pending = {}]
  BY <1>2, DropSessionType
<1>4. d.files[p] = [x.files[p] EXCEPT !.pending = {}]
  BY <1>2, <1>3, IndexParts
<1>5. /\ g = [x.files[p] EXCEPT !.pending = {}, !.offset = 0, !.hdrDone = FALSE]
      /\ g.session = s
  BY <1>2, <1>4 DEF FileState
<1> HIDE DEF g
<1>6. Only(p, x, Rewind(x, p))
  <2>1. g.session \in Ids(p)
    BY <1>5 DEF Proper
  <2> QED  BY <1>1, <2>1, DropOnly
<1> HIDE DEF d
<1>7. Rewind(x, p).files[p] = g /\ Empty(Rewind(x, p), s)
  BY <1>1, <1>3, IndexParts DEF Empty, IndexType
<1> QED
  BY <1>5, <1>6, <1>7

-----------------------------------------------------------------------------
(* What n lines of text v come to, and what one line more adds.             *)

ReadItems(v, n) ==
  {[text |-> v, line |-> l, part |-> "whole"] : l \in LinesOf(v, n, Kinds \ {"header"})}
CallItems(v, n) ==
  {[text |-> v, call |-> CallFor(v, r), line |-> r] : r \in LinesOf(v, n, {"result"})}
WakeItems(v, n) == {[text |-> v, line |-> l] : l \in LinesOf(v, n, {"wake"})}
WaitItems(v, n) == {[text |-> v, line |-> l] : l \in Waiting(v, n)}

LEMMA AppendLists ==
  ASSUME NEW E, \A e \in E : e.line \in Nat, NEW list \in Seq(E), NEW items, Lists(list, items),
         NEW e \in E, \A d \in items : d.line < e.line
  PROVE  Lists(Append(list, e), items \cup {e})
<1> DEFINE longer == Append(list, e)
<1>1. /\ Len(list) \in Nat /\ DOMAIN list = 1..Len(list) /\ DOMAIN longer = 1..(Len(list) + 1)
      /\ \A i \in 1..Len(list) : longer[i] = list[i] /\ list[i] \in items /\ list[i] \in E
      /\ longer[Len(list) + 1] = e
  BY DEF Lists
<1> HIDE DEF longer
<1>2. {longer[i] : i \in DOMAIN longer} = items \cup {e}
  <2>1. items = {list[i] : i \in 1..Len(list)}
    BY <1>1 DEF Lists
  <2>2. \A i \in 1..(Len(list) + 1) : i \in 1..Len(list) \/ i = Len(list) + 1
    BY <1>1
  <2>3. \A i \in 1..Len(list) : i \in 1..(Len(list) + 1)
    BY <1>1
  <2>4. Len(list) + 1 \in 1..(Len(list) + 1)
    BY <1>1
  <2> QED
    BY <1>1, <2>1, <2>2, <2>3, <2>4
<1>3. ASSUME NEW i \in DOMAIN longer, NEW j \in DOMAIN longer, i < j
      PROVE  longer[i].line < longer[j].line
  <2>1. i \in 1..Len(list)
    BY <1>1, <1>3
  <2>2. CASE j \in 1..Len(list)
    BY <1>1, <1>3, <2>1, <2>2 DEF Lists
  <2>3. CASE j = Len(list) + 1
    BY <1>1, <2>1, <2>3
  <2> QED
    BY <1>1, <2>2, <2>3
<1> QED
  BY <1>2, <1>3 DEF Lists, longer

LEMMA NoLists == Lists(<<>>, {})
  BY DEF Lists

LEMMA LinesNext ==
  ASSUME NEW v, NEW n \in Nat, NEW K
  PROVE  /\ Entry(v, n + 1).kind \in K => LinesOf(v, n + 1, K) = LinesOf(v, n, K) \cup {n + 1}
         /\ Entry(v, n + 1).kind \notin K => LinesOf(v, n + 1, K) = LinesOf(v, n, K)
<1>1. \A l : l \in 1..(n + 1) <=> l \in 1..n \/ l = n + 1
  OBVIOUS
<1> QED
  BY <1>1 DEF LinesOf

LEMMA WaitingNext ==
  ASSUME NEW v, NEW n \in Nat
  PROVE  LET others == {i \in Waiting(v, n) : Entry(v, i).id # Entry(v, n + 1).id}
         IN  /\ Entry(v, n + 1).kind = "call" => Waiting(v, n + 1) = others \cup {n + 1}
             /\ Entry(v, n + 1).kind = "result" => Waiting(v, n + 1) = others
             /\ Entry(v, n + 1).kind \notin {"call", "result"} => Waiting(v, n + 1) = Waiting(v, n)
<1> DEFINE C(m) == LinesOf(v, m, {"call"})
           R(m) == LinesOf(v, m, {"call", "result"})
<1>1. \A i \in R(n) : i \in Nat /\ i < n + 1
  BY DEF LinesOf
<1>2. C(n) \subseteq R(n)
  BY DEF LinesOf
<1>3. CASE Entry(v, n + 1).kind = "call"
  <2>1. C(n + 1) = C(n) \cup {n + 1} /\ R(n + 1) = R(n) \cup {n + 1}
    BY <1>3, LinesNext
  <2> HIDE DEF C, R
  <2> QED  BY <1>1, <1>2, <1>3, <2>1 DEF Waiting, C, R
<1>4. CASE Entry(v, n + 1).kind = "result"
  <2>1. C(n + 1) = C(n) /\ R(n + 1) = R(n) \cup {n + 1}
    BY <1>4, LinesNext
  <2> QED  BY <1>1, <1>2, <1>4, <2>1 DEF Waiting
<1>5. CASE Entry(v, n + 1).kind \notin {"call", "result"}
  <2>1. C(n + 1) = C(n) /\ R(n + 1) = R(n)
    BY <1>5, LinesNext
  <2> QED  BY <1>5, <2>1 DEF Waiting
<1> QED
  BY <1>3, <1>4, <1>5

(* At most one call with an id waits.                                       *)
LEMMA WaitingOne ==
  ASSUME NEW v, NEW n \in Nat, NEW i \in Waiting(v, n), NEW j \in Waiting(v, n),
         Entry(v, i).id = Entry(v, j).id
  PROVE  i = j
<1>1. i \in Nat /\ j \in Nat /\ i \in LinesOf(v, n, {"call", "result"})
        /\ j \in LinesOf(v, n, {"call", "result"})
  BY DEF Waiting, LinesOf
<1>2. ~(i < j) /\ ~(j < i)
  BY <1>1 DEF Waiting
<1> QED
  BY <1>1, <1>2

LEMMA ItemsNext ==
  ASSUME NEW v, NEW n \in Nat, Entry(v, n + 1).kind \in Kinds
  PROVE  LET k == Entry(v, n + 1).kind
         IN  /\ ReadItems(v, n + 1) = ReadItems(v, n) \cup
                  (IF k = "header" THEN {} ELSE {[text |-> v, line |-> n + 1, part |-> "whole"]})
             /\ CallItems(v, n + 1) = CallItems(v, n) \cup
                  (IF k = "result" THEN {[text |-> v, call |-> CallFor(v, n + 1), line |-> n + 1]}
                                   ELSE {})
             /\ WakeItems(v, n + 1) = WakeItems(v, n) \cup
                  (IF k = "wake" THEN {[text |-> v, line |-> n + 1]} ELSE {})
             /\ \A d \in ReadItems(v, n) \cup CallItems(v, n) \cup WakeItems(v, n) : d.line < n + 1
<1>1. ReadItems(v, n + 1) = ReadItems(v, n) \cup
        (IF Entry(v, n + 1).kind = "header" THEN {}
         ELSE {[text |-> v, line |-> n + 1, part |-> "whole"]})
  BY LinesNext DEF ReadItems, Kinds
<1>2. CallItems(v, n + 1) = CallItems(v, n) \cup
        (IF Entry(v, n + 1).kind = "result"
         THEN {[text |-> v, call |-> CallFor(v, n + 1), line |-> n + 1]} ELSE {})
  <2>1. CASE Entry(v, n + 1).kind = "result"
    <3>1. LinesOf(v, n + 1, {"result"}) = LinesOf(v, n, {"result"}) \cup {n + 1}
      BY <2>1, LinesNext
    <3> QED  BY <2>1, <3>1 DEF CallItems
  <2>2. CASE Entry(v, n + 1).kind # "result"
    <3>1. LinesOf(v, n + 1, {"result"}) = LinesOf(v, n, {"result"})
      BY <2>2, LinesNext
    <3> QED  BY <2>2, <3>1 DEF CallItems
  <2> QED  BY <2>1, <2>2
<1>3. WakeItems(v, n + 1) = WakeItems(v, n) \cup
        (IF Entry(v, n + 1).kind = "wake" THEN {[text |-> v, line |-> n + 1]} ELSE {})
  <2>1. CASE Entry(v, n + 1).kind = "wake"
    <3>1. LinesOf(v, n + 1, {"wake"}) = LinesOf(v, n, {"wake"}) \cup {n + 1}
      BY <2>1, LinesNext
    <3> QED  BY <2>1, <3>1 DEF WakeItems
  <2>2. CASE Entry(v, n + 1).kind # "wake"
    <3>1. LinesOf(v, n + 1, {"wake"}) = LinesOf(v, n, {"wake"})
      BY <2>2, LinesNext
    <3> QED  BY <2>2, <3>1 DEF WakeItems
  <2> QED  BY <2>1, <2>2
<1>4. \A K : \A l \in LinesOf(v, n, K) : l < n + 1
  BY DEF LinesOf
<1>5. \A d \in ReadItems(v, n) \cup CallItems(v, n) \cup WakeItems(v, n) : d.line < n + 1
  BY <1>4 DEF ReadItems, CallItems, WakeItems
<1> QED
  BY <1>1, <1>2, <1>3, <1>5

LEMMA ItemsSame ==
  ASSUME NEW v, NEW n \in Nat
  PROVE  /\ Entry(v, n + 1).kind = "header" => ReadItems(v, n + 1) = ReadItems(v, n)
         /\ Entry(v, n + 1).kind # "result" => CallItems(v, n + 1) = CallItems(v, n)
         /\ Entry(v, n + 1).kind # "wake" => WakeItems(v, n + 1) = WakeItems(v, n)
<1>1. Entry(v, n + 1).kind = "header"
        => LinesOf(v, n + 1, Kinds \ {"header"}) = LinesOf(v, n, Kinds \ {"header"})
  BY LinesNext
<1>2. Entry(v, n + 1).kind # "result"
        => LinesOf(v, n + 1, {"result"}) = LinesOf(v, n, {"result"})
  BY LinesNext
<1>3. Entry(v, n + 1).kind # "wake" => LinesOf(v, n + 1, {"wake"}) = LinesOf(v, n, {"wake"})
  BY LinesNext
<1> QED
  BY <1>1, <1>2, <1>3 DEF ReadItems, CallItems, WakeItems

-----------------------------------------------------------------------------
(* What the index holds of path p once n lines of text v were read.         *)
Indexes(x, p, v, n) ==
  IF n = 0
  THEN Empty(x, x.files[p].session) /\ x.files[p].pending = {}
  ELSE /\ x.files[p].session = NameOf(p)
       /\ x.sessions[NameOf(p)].file = p
       /\ Holds(x, p, v, n)
       /\ x.files[p].pending = WaitItems(v, n)

LEMMA HoldsItems ==
  ASSUME NEW x, NEW p, NEW v, NEW n
  PROVE  Holds(x, p, v, n) <=> /\ Lists(x.sessions[x.files[p].session].read, ReadItems(v, n))
                               /\ Lists(x.calls[x.files[p].session], CallItems(v, n))
                               /\ Lists(x.wakes[x.files[p].session], WakeItems(v, n))
  BY DEF Holds, ReadItems, CallItems, WakeItems

(* Another path's steps keep it.                                            *)
LEMMA OthersIndexed ==
  ASSUME NEW p \in Paths, NEW q \in Paths \ {p}, NEW x, NEW y, Only(p, x, y),
         x.files[q].session \in Ids(q), NEW v, NEW n, Indexes(x, q, v, n)
  PROVE  Indexes(y, q, v, n)
<1> DEFINE s == x.files[q].session
<1>1. s \in Sessions \ Ids(p) /\ NameOf(q) \in Sessions \ Ids(p)
  BY IdsApart
<1>2. /\ y.files[q] = x.files[q]
      /\ y.sessions[s] = x.sessions[s] /\ y.calls[s] = x.calls[s] /\ y.wakes[s] = x.wakes[s]
      /\ y.sessions[NameOf(q)] = x.sessions[NameOf(q)]
  BY <1>1 DEF Only
<1> QED
  BY <1>2 DEF Indexes, Empty, Holds

(* A session is made for a path that has none.                              *)
LEMMA WithSessionFresh ==
  ASSUME NEW p \in Paths, NEW x, Keeps(p, x), Empty(x, x.files[p].session)
  PROVE  LET s == x.files[p].session
             y == WithSession(x, p)
         IN  /\ y.files = x.files
             /\ y.sessions[s] = [file |-> p, read |-> <<>>]
             /\ y.calls[s] = <<>> /\ y.wakes[s] = <<>>
<1> DEFINE s == x.files[p].session
           r == [file |-> p, read |-> <<>>]
<1>1. x.sessions[s].file # p
  <2>1. p # 0
    BY DEF Paths
  <2> QED  BY <2>1 DEF Empty, NoSession
<1>2. WithSession(x, p) = [x EXCEPT !.sessions = [x.sessions EXCEPT ![s] = r]]
  BY <1>1 DEF WithSession
<1>3. x \in IndexType /\ s \in Sessions
  BY IndexParts DEF Keeps
<1>4. [x.sessions EXCEPT ![s] = r][s] = r
  BY <1>3, IndexParts
<1> QED
  BY <1>2, <1>3, <1>4 DEF Empty, IndexType

(* The header: nothing is indexed yet, but under the right name.            *)
LEMMA HeaderIndexed ==
  ASSUME NEW p \in Paths, NEW x, Proper(p, x), \A s \in Ids(p) : Empty(x, s),
         x.files[p].pending = {}, NEW v \in Nat, Entry(v, 1).kind = "header"
  PROVE  Indexes(TakeLine(x, p, [text |-> v, line |-> 1, part |-> "whole"]), p, v, 1)
<1> DEFINE item == [text |-> v, line |-> 1, part |-> "whole"]
           x1 == Seen(x, p)
           s == x.files[p].session
           y == TakeHeader(x1, p)
<1>1. Keeps(p, x) /\ x \in IndexType /\ x.files[p] \in FileState /\ s \in Ids(p) /\ item \in Item
  BY IndexParts DEF Proper, Keeps, Item
<1>2. TakeLine(x, p, item) = y
  <2>1. item.part = "whole" /\ Entry(item.text, item.line).kind = "header"
    OBVIOUS
  <2> HIDE DEF item
  <2> QED  BY <1>1, <2>1, TakeLineIs
<1>3. /\ Keeps(p, x1) /\ x1.files[p].session = s /\ x1.files[p].pending = {}
      /\ x1.files[p] \in FileState
      /\ \A t \in Ids(p) : Empty(x1, t)
  <2> DEFINE g == [x.files[p] EXCEPT !.hdrDone = TRUE]
  <2>1. Keeps(p, x1) /\ x1 = [x EXCEPT !.files = [x.files EXCEPT ![p] = g]]
    BY <1>1, SeenKeeps
  <2>2. g.session = s /\ g.pending = {}
    BY <1>1 DEF FileState
  <2> HIDE DEF g, x1
  <2>3. x1.files[p] = g /\ x1.sessions = x.sessions /\ x1.calls = x.calls /\ x1.wakes = x.wakes
    BY <1>1, <2>1, IndexParts DEF IndexType
  <2> QED
    BY <2>1, <2>2, <2>3, IndexParts DEF Empty, Keeps
<1> HIDE DEF x1
<1>4. /\ y.files[p].session = NameOf(p) /\ y.files[p].pending = {}
      /\ y.sessions[NameOf(p)] = [file |-> p, read |-> <<>>]
      /\ y.calls[NameOf(p)] = <<>> /\ y.wakes[NameOf(p)] = <<>>
  <2>1. CASE HeaderOf[p] \in {s, NoId}
    <3>1. y = WithSession(x1, p) /\ s = NameOf(p)
      BY <1>1, <1>3, <2>1 DEF TakeHeader, NameOf, Ids
    <3> HIDE DEF y
    <3> QED  BY <1>1, <1>3, <3>1, WithSessionFresh
  <2>2. CASE HeaderOf[p] \notin {s, NoId}
    <3> DEFINE d == DropSession(x1, s, p)
               g == [d.files[p] EXCEPT !.session = HeaderOf[p]]
               z == Renamed(x1, p)
    <3>1. /\ Keeps(p, z) /\ y = WithSession(z, p)
          /\ z = [d EXCEPT !.files = [d.files EXCEPT ![p] = g]]
          /\ HeaderOf[p] = NameOf(p) /\ NameOf(p) \in Ids(p) /\ NameOf(p) # s
      BY <1>3, <2>2, RenamedKeeps, IdsApart DEF NameOf
    <3>2. /\ d \in IndexType /\ d.files = [x1.files EXCEPT ![p].pending = {}]
          /\ \A t \in Sessions \ {s} : Empty(x1, t) => Empty(d, t)
      <4>1. x1 \in IndexType /\ s \in Sessions
        BY <1>1, <1>3, IdsApart DEF Keeps
      <4> HIDE DEF s
      <4> QED  BY <4>1, DropSessionType
    <3>3. d.files[p] = [x1.files[p] EXCEPT !.pending = {}]
      BY <1>3, <3>2, IndexParts DEF Keeps
    <3>4. g.session = NameOf(p) /\ g.pending = {}
      BY <1>3, <3>1, <3>3 DEF FileState
    <3>5. Empty(d, NameOf(p))
      BY <1>3, <3>1, <3>2, IdsApart
    <3> HIDE DEF g, d, z, y
    <3>6. z.files[p] = g /\ Empty(z, NameOf(p))
      BY <3>1, <3>2, <3>5, IndexParts DEF IndexType, Empty
    <3>7. z.files[p].session = NameOf(p) /\ z.files[p].pending = {}
      BY <3>4, <3>6
    <3> QED  BY <3>1, <3>6, <3>7, WithSessionFresh
  <2> QED  BY <2>1, <2>2
<1>5. ReadItems(v, 1) = {} /\ CallItems(v, 1) = {} /\ WakeItems(v, 1) = {} /\ WaitItems(v, 1) = {}
  <2>1. \A K : "header" \notin K => LinesOf(v, 1, K) = {}
    BY DEF LinesOf
  <2>2. Waiting(v, 1) = {}
    BY <2>1 DEF Waiting
  <2> QED
    BY <2>1, <2>2 DEF ReadItems, CallItems, WakeItems, WaitItems
<1> HIDE DEF y
<1>6. Indexes(y, p, v, 1)
  <2>1. Holds(y, p, v, 1)
    <3>1. /\ y.sessions[y.files[p].session].read = <<>>
          /\ y.calls[y.files[p].session] = <<>> /\ y.wakes[y.files[p].session] = <<>>
      BY <1>4
    <3> QED  BY <1>5, <3>1, NoLists, HoldsItems
  <2> QED  BY <1>4, <1>5, <2>1 DEF Indexes
<1> QED
  BY <1>2, <1>6

(* The calls of a path that wait with an item's id, and with another's.     *)
SameId(x, p, item) ==
  {c \in x.files[p].pending : Entry(c.text, c.line).id = Entry(item.text, item.line).id}
OtherId(x, p, item) ==
  {c \in x.files[p].pending : Entry(c.text, c.line).id # Entry(item.text, item.line).id}
LineIn(set) == IF set = {} THEN 0 ELSE (CHOOSE c \in set : TRUE).line
Answer(x, p, item) ==
  [text |-> item.text, call |-> LineIn(SameId(x, p, item)), line |-> item.line]

(* What a call and a result do to what the path has, and to nothing else.   *)
LEMMA TakeCallDoes ==
  ASSUME NEW p \in Paths, NEW x, Keeps(p, x), NEW item \in Item
  PROVE  LET y == TakeCall(x, p, item)
         IN  /\ y.files[p].session = x.files[p].session
             /\ y.files[p].pending =
                  OtherId(x, p, item) \cup {[text |-> item.text, line |-> item.line]}
             /\ y.sessions = x.sessions /\ y.calls = x.calls /\ y.wakes = x.wakes
<1> DEFINE w == OtherId(x, p, item) \cup {[text |-> item.text, line |-> item.line]}
           g == [x.files[p] EXCEPT !.pending = w]
           y == TakeCall(x, p, item)
<1>1. x \in IndexType /\ x.files[p] \in FileState
  BY IndexParts DEF Keeps
<1>2. y = [x EXCEPT !.files = [x.files EXCEPT ![p] = g]]
  BY DEF TakeCall, OtherId
<1> HIDE DEF w, y
<1>3. g.session = x.files[p].session /\ g.pending = w
  BY <1>1 DEF FileState
<1> HIDE DEF g
<1>4. y.files[p] = g /\ y.sessions = x.sessions /\ y.calls = x.calls /\ y.wakes = x.wakes
  BY <1>1, <1>2, IndexParts DEF IndexType
<1> QED
  BY <1>3, <1>4 DEF w, y

LEMMA TakeResultDoes ==
  ASSUME NEW p \in Paths, NEW x, Keeps(p, x), NEW item \in Item
  PROVE  /\ TakeResult(x, p, item).files[p].session = x.files[p].session
         /\ TakeResult(x, p, item).files[p].pending = x.files[p].pending \ SameId(x, p, item)
         /\ TakeResult(x, p, item).sessions = x.sessions
         /\ TakeResult(x, p, item).wakes = x.wakes
         /\ TakeResult(x, p, item).calls[x.files[p].session] =
              Append(x.calls[x.files[p].session], Answer(x, p, item))
<1> DEFINE s == x.files[p].session
           r == Answer(x, p, item)
           w == x.files[p].pending \ SameId(x, p, item)
           g == [x.files[p] EXCEPT !.pending = w]
           z == [x EXCEPT !.files = [x.files EXCEPT ![p] = g]]
           y == TakeResult(x, p, item)
<1>1. x \in IndexType /\ x.files[p] \in FileState /\ s \in Sessions
  BY IndexParts DEF Keeps
<1>2. y = [z EXCEPT !.calls[z.files[p].session] = Append(@, r)]
  BY DEF TakeResult, Answer, SameId, LineIn
<1> HIDE DEF w, r, y
<1>3. g.session = s /\ g.pending = w
  BY <1>1 DEF FileState
<1> HIDE DEF g
<1>4. z.files[p] = g /\ z.sessions = x.sessions /\ z.calls = x.calls /\ z.wakes = x.wakes
  BY <1>1, IndexParts DEF IndexType
<1>5. y.files = z.files /\ y.sessions = z.sessions /\ y.wakes = z.wakes
  BY <1>1, <1>2 DEF IndexType
<1>6. y.calls = [z.calls EXCEPT ![s] = Append(@, r)]
  BY <1>1, <1>2, <1>3, <1>4 DEF IndexType
<1>7. y.calls[s] = Append(x.calls[s], r)
  BY <1>1, <1>4, <1>6, IndexParts
<1> QED
  BY <1>3, <1>4, <1>5, <1>7 DEF w, r, y

(* A line after the header, read by a path of which n lines are indexed.    *)
LEMMA LineIndexed ==
  ASSUME NEW p \in Paths, NEW x, Proper(p, x), NEW v \in Nat, NEW n \in Nat \ {0},
         Indexes(x, p, v, n), Entry(v, n + 1).kind \in Kinds
  PROVE  Indexes(TakeLine(x, p, [text |-> v, line |-> n + 1, part |-> "whole"]), p, v, n + 1)
<1> DEFINE item == [text |-> v, line |-> n + 1, part |-> "whole"]
           x1 == Seen(x, p)
           s == NameOf(p)
           y == WithSession(x1, p)
           z == Logged(y, p, item)
           k == Entry(v, n + 1).kind
           t == TakeLine(x, p, item)
<1>1. /\ Keeps(p, x) /\ x \in IndexType /\ x.files[p] \in FileState /\ s \in Sessions
      /\ item \in Item /\ item.text = v /\ item.line = n + 1 /\ item.part = "whole"
      /\ k \in Kinds /\ n + 1 # 0
  BY IndexParts, IdsApart DEF Proper, Keeps, Item
<1>2. /\ x.files[p].session = s /\ x.sessions[s].file = p
      /\ x.files[p].pending = WaitItems(v, n)
      /\ Lists(x.sessions[s].read, ReadItems(v, n))
      /\ Lists(x.calls[s], CallItems(v, n))
      /\ Lists(x.wakes[s], WakeItems(v, n))
  BY <1>1, HoldsItems DEF Indexes
<1>3. /\ Keeps(p, x1) /\ x1.files[p].session = s /\ x1.files[p].pending = WaitItems(v, n)
      /\ x1.sessions = x.sessions /\ x1.calls = x.calls /\ x1.wakes = x.wakes
  <2> DEFINE g == [x.files[p] EXCEPT !.hdrDone = TRUE]
  <2>1. Keeps(p, x1) /\ x1 = [x EXCEPT !.files = [x.files EXCEPT ![p] = g]]
    BY <1>1, SeenKeeps
  <2>2. g.session = s /\ g.pending = WaitItems(v, n)
    BY <1>1, <1>2 DEF FileState
  <2> HIDE DEF g, x1, s
  <2> QED
    BY <1>1, <2>1, <2>2, IndexParts DEF IndexType
<1>4. y = x1
  BY <1>2, <1>3 DEF WithSession
<1>5. /\ Keeps(p, z) /\ z.files = x1.files /\ z.calls = x.calls /\ z.wakes = x.wakes
      /\ z.sessions[s].file = p
      /\ z.sessions[s].read = Append(x.sessions[s].read, item)
  <2> DEFINE r == [x1.sessions[s] EXCEPT !.read = Append(@, item)]
  <2>1. z = [x1 EXCEPT !.sessions = [x1.sessions EXCEPT ![s] = r]]
    BY <1>3, <1>4 DEF Logged
  <2>2. Keeps(p, z)
    BY <1>1, <1>3, <1>4, LoggedKeeps
  <2>3. x1.sessions[s] \in SessionRec /\ x1 \in IndexType
    BY <1>1, <1>3, IndexParts DEF Keeps
  <2>4. r.file = p /\ r.read = Append(x.sessions[s].read, item)
    BY <1>2, <1>3, <2>3 DEF SessionRec
  <2> HIDE DEF r, z, x1, s
  <2>5. z.sessions[s] = r /\ z.files = x1.files /\ z.calls = x1.calls /\ z.wakes = x1.wakes
    BY <1>1, <2>1, <2>3, IndexParts DEF IndexType
  <2> QED
    BY <1>3, <2>2, <2>4, <2>5
<1>t. /\ k = "header" => t = TakeHeader(x1, p)
      /\ k = "call"   => t = TakeCall(z, p, item)
      /\ k = "result" => t = TakeResult(z, p, item)
      /\ k = "wake"   => t = Woken(z, p, item)
      /\ k = "note"   => t = z
  <2> HIDE DEF item, t
  <2> QED  BY <1>1, TakeLineIs DEF t
<1> HIDE DEF x1, y, z, t, s, item
<1>6. k # "header" => Lists(z.sessions[s].read, ReadItems(v, n + 1))
  <2>1. x.sessions[s].read \in Seq(Item)
    BY <1>1, IndexParts DEF SessionRec, ReadLines, Item
  <2>2. Lists(Append(x.sessions[s].read, item), ReadItems(v, n) \cup {item})
    <3>1. \A e \in Item : e.line \in Nat
      BY DEF Item
    <3>2. \A d \in ReadItems(v, n) : d.line < item.line
      BY <1>1, ItemsNext
    <3> QED  BY <1>1, <1>2, <2>1, <3>1, <3>2, AppendLists
  <2>3. k # "header" => ReadItems(v, n + 1) = ReadItems(v, n) \cup {item}
    BY <1>1, ItemsNext DEF item
  <2> QED  BY <1>5, <2>2, <2>3
<1>7. /\ k = "header" => ReadItems(v, n + 1) = ReadItems(v, n)
      /\ k # "result" => CallItems(v, n + 1) = CallItems(v, n)
      /\ k # "wake" => WakeItems(v, n + 1) = WakeItems(v, n)
      /\ k \notin {"call", "result"} => WaitItems(v, n + 1) = WaitItems(v, n)
  <2>4. k \notin {"call", "result"} => Waiting(v, n + 1) = Waiting(v, n)
    BY WaitingNext
  <2>5. k \notin {"call", "result"} => WaitItems(v, n + 1) = WaitItems(v, n)
    BY <2>4 DEF WaitItems
  <2> QED  BY <2>5, ItemsSame
<1>8. ASSUME /\ t.files[p].session = s /\ t.sessions[s].file = p
             /\ Lists(t.sessions[s].read, ReadItems(v, n + 1))
             /\ Lists(t.calls[s], CallItems(v, n + 1))
             /\ Lists(t.wakes[s], WakeItems(v, n + 1))
             /\ t.files[p].pending = WaitItems(v, n + 1)
      PROVE  Indexes(t, p, v, n + 1)
  BY <1>1, <1>8, HoldsItems DEF Indexes, s
<1>9. ASSUME k = "header" PROVE Indexes(t, p, v, n + 1)
  <2>1. t = WithSession(x1, p)
    BY <1>2, <1>3, <1>9, <1>t DEF TakeHeader, s, NameOf
  <2>2. t = x1
    BY <1>4, <2>1 DEF y
  <2> QED
    BY <1>2, <1>3, <1>7, <1>8, <1>9, <2>2
<1>10. ASSUME k = "note" PROVE Indexes(t, p, v, n + 1)
  BY <1>2, <1>3, <1>5, <1>6, <1>7, <1>8, <1>10, <1>t
<1>11. ASSUME k = "wake" PROVE Indexes(t, p, v, n + 1)
  <2> DEFINE e == [text |-> v, line |-> n + 1]
             E == [text : Nat, line : Nat]
             w == Append(x.wakes[s], e)
  <2>1. t = [z EXCEPT !.wakes = [z.wakes EXCEPT ![s] = w]]
    BY <1>1, <1>3, <1>5, <1>11, <1>t DEF Woken
  <2>2. /\ t.files = z.files /\ t.sessions = z.sessions /\ t.calls = z.calls
        /\ t.wakes[s] = w
    BY <1>1, <1>5, <2>1, IndexParts DEF Keeps, IndexType
  <2>3. Lists(w, WakeItems(v, n) \cup {e})
    <3>1. (\A d \in E : d.line \in Nat) /\ x.wakes[s] \in Seq(E) /\ e \in E /\ e.line = n + 1
      BY <1>1, IndexParts DEF WakeList
    <3>2. \A d \in WakeItems(v, n) : d.line < n + 1
      BY <1>1, ItemsNext
    <3> HIDE DEF e, E
    <3> QED  BY <1>2, <3>1, <3>2, AppendLists
  <2>4. WakeItems(v, n + 1) = WakeItems(v, n) \cup {e}
    BY <1>1, <1>11, ItemsNext
  <2> QED
    BY <1>2, <1>3, <1>5, <1>6, <1>7, <1>8, <1>11, <2>2, <2>3, <2>4
<1>12. ASSUME k = "call" PROVE Indexes(t, p, v, n + 1)
  <2>1. /\ t.files[p].session = s
        /\ t.files[p].pending =
             {c \in z.files[p].pending : Entry(c.text, c.line).id # Entry(v, n + 1).id}
               \cup {[text |-> v, line |-> n + 1]}
        /\ t.sessions = z.sessions /\ t.calls = z.calls /\ t.wakes = z.wakes
    <3> DEFINE w == OtherId(z, p, item)
               w1 == {c \in z.files[p].pending : Entry(c.text, c.line).id # Entry(v, n + 1).id}
    <3>1. z.files[p].session = s /\ t = TakeCall(z, p, item) /\ w = w1
      BY <1>1, <1>3, <1>5, <1>12, <1>t DEF OtherId
    <3>2. /\ TakeCall(z, p, item).files[p].session = z.files[p].session
          /\ TakeCall(z, p, item).files[p].pending = w \cup {[text |-> item.text, line |-> item.line]}
          /\ TakeCall(z, p, item).sessions = z.sessions
          /\ TakeCall(z, p, item).calls = z.calls
          /\ TakeCall(z, p, item).wakes = z.wakes
      BY <1>1, <1>5, TakeCallDoes
    <3> HIDE DEF w, w1
    <3>3. /\ t.files[p].session = s
          /\ t.files[p].pending = w1 \cup {[text |-> v, line |-> n + 1]}
          /\ t.sessions = z.sessions /\ t.calls = z.calls /\ t.wakes = z.wakes
      BY <1>1, <3>1, <3>2
    <3> QED  BY <3>3 DEF w1
  <2>2. Waiting(v, n + 1) =
          {i \in Waiting(v, n) : Entry(v, i).id # Entry(v, n + 1).id} \cup {n + 1}
    BY <1>12, WaitingNext
  <2>3. t.files[p].pending = WaitItems(v, n + 1)
    BY <1>3, <1>5, <2>1, <2>2 DEF WaitItems
  <2> QED
    BY <1>2, <1>5, <1>6, <1>7, <1>8, <1>12, <2>1, <2>3
<1>13. ASSUME k = "result" PROVE Indexes(t, p, v, n + 1)
  <2> DEFINE id == Entry(v, n + 1).id
             mine == {c \in WaitItems(v, n) : Entry(c.text, c.line).id = id}
             call == LineIn(mine)
             e == [text |-> v, call |-> call, line |-> n + 1]
             E == [text : Nat, call : Nat, line : Nat]
             asked == {i \in Waiting(v, n) : Entry(v, i).id = id}
  <2>1. /\ t.files[p].session = s
        /\ t.files[p].pending = WaitItems(v, n) \ mine
        /\ t.sessions = z.sessions /\ t.wakes = z.wakes
        /\ t.calls[s] = Append(z.calls[s], e)
    <3> DEFINE mine1 == SameId(z, p, item)
    <3>1. /\ z.files[p].session = s /\ z.files[p].pending = WaitItems(v, n)
          /\ t = TakeResult(z, p, item) /\ mine1 = mine
      BY <1>1, <1>3, <1>5, <1>13, <1>t DEF SameId
    <3>2. /\ TakeResult(z, p, item).files[p].session = z.files[p].session
          /\ TakeResult(z, p, item).files[p].pending = z.files[p].pending \ mine1
          /\ TakeResult(z, p, item).sessions = z.sessions
          /\ TakeResult(z, p, item).wakes = z.wakes
          /\ TakeResult(z, p, item).calls[z.files[p].session] =
               Append(z.calls[z.files[p].session], Answer(z, p, item))
      <4>1. Keeps(p, z) /\ item \in Item
        BY <1>1, <1>5
      <4> HIDE DEF mine1
      <4>2. mine1 = SameId(z, p, item)
        BY DEF mine1
      <4>3. /\ TakeResult(z, p, item).files[p].session = z.files[p].session
            /\ TakeResult(z, p, item).files[p].pending = z.files[p].pending \ SameId(z, p, item)
            /\ TakeResult(z, p, item).sessions = z.sessions
            /\ TakeResult(z, p, item).wakes = z.wakes
            /\ TakeResult(z, p, item).calls[z.files[p].session] =
                 Append(z.calls[z.files[p].session], Answer(z, p, item))
        BY <4>1, TakeResultDoes, Zenon
      <4> QED  BY <4>2, <4>3
    <3> HIDE DEF mine
    <3>4. Answer(z, p, item) = e
      BY <1>1, <3>1 DEF Answer
    <3> HIDE DEF mine1, e
    <3>3. /\ t.files[p].session = s
          /\ t.files[p].pending = WaitItems(v, n) \ mine
          /\ t.sessions = z.sessions /\ t.wakes = z.wakes
          /\ t.calls[s] = Append(z.calls[s], e)
      BY <1>1, <3>1, <3>2, <3>4
    <3> QED  BY <3>3 DEF mine, e
  <2>2. mine = {[text |-> v, line |-> i] : i \in asked}
    BY DEF WaitItems
  <2>3. call = CallFor(v, n + 1)
    <3>1. CallFor(v, n + 1) = IF asked = {} THEN 0 ELSE CHOOSE i \in asked : TRUE
      BY <1>1 DEF CallFor
    <3>2. CASE asked = {}
      BY <2>2, <3>1, <3>2 DEF LineIn
    <3>3. CASE asked # {}
      <4>1. PICK i \in asked : TRUE
        BY <3>3
      <4>2. asked = {i}
        BY <4>1, WaitingOne
      <4> DEFINE c == [text |-> v, line |-> i]
      <4>3. mine = {c} /\ c.line = i
        BY <2>2, <4>2
      <4> HIDE DEF mine, asked, c
      <4>4. (CHOOSE d \in mine : TRUE) = c /\ (CHOOSE j \in asked : TRUE) = i
        BY <4>2, <4>3
      <4> QED  BY <3>1, <4>2, <4>3, <4>4 DEF LineIn
    <3> QED  BY <3>2, <3>3
  <2>4. Waiting(v, n + 1) = {i \in Waiting(v, n) : Entry(v, i).id # id}
    BY <1>13, WaitingNext
  <2>5. t.files[p].pending = WaitItems(v, n + 1)
    BY <2>1, <2>4 DEF WaitItems
  <2>6. call \in Nat
    BY <2>2 DEF Waiting, LinesOf, LineIn
  <2> HIDE DEF mine, call
  <2>7. Lists(Append(x.calls[s], e), CallItems(v, n) \cup {e})
    <3>1. (\A d \in E : d.line \in Nat) /\ x.calls[s] \in Seq(E) /\ e \in E /\ e.line = n + 1
      BY <1>1, <2>6, IndexParts DEF CallList
    <3>2. \A d \in CallItems(v, n) : d.line < n + 1
      BY <1>1, ItemsNext
    <3> HIDE DEF e, E
    <3> QED  BY <1>2, <3>1, <3>2, AppendLists
  <2>8. CallItems(v, n + 1) = CallItems(v, n) \cup {e}
    BY <1>1, <1>13, <2>3, ItemsNext
  <2> HIDE DEF e
  <2> QED
    BY <1>2, <1>5, <1>6, <1>7, <1>8, <1>13, <2>1, <2>5, <2>7, <2>8
<1>14. Indexes(t, p, v, n + 1)
  BY <1>1, <1>9, <1>10, <1>11, <1>12, <1>13 DEF Kinds
<1> QED
  BY <1>14 DEF t, item

-----------------------------------------------------------------------------
(* The inductive invariant.  Of a path without a fault, what was taken ends *)
(* with a whole line, of the text that the stat saw; while it is read, the  *)
(* index is also still what the offset says, until the first line is taken. *)
Even(k) == k = 2 * (k \div 2)

DiskInv ==
  \A p \in Paths : There(p) => disk[p].text \in Versions /\ disk[p].lines <= Len(Texts[disk[p].text])

NamesInv == \A p \in Paths : files[p].session \in Ids(p)

OffsetWhole(p) ==
  /\ Even(files[p].offset)
  /\ files[p].offset > 0 => files[p].stat.text \in Versions

Remembered(p) == Indexes(Index, p, files[p].stat.text, files[p].offset \div 2)

BeingRead(p) ==
  /\ Even(scan.pos) /\ scan.pos >= files[p].offset
  /\ There(p) => disk[p].text = scan.stat.text
  /\ scan.stat.text \in Versions
  /\ scan.pos = files[p].offset => Remembered(p)
  /\ Indexes(Index, p, scan.stat.text, scan.pos \div 2)

PathInv(p) ==
  /\ OffsetWhole(p)
  /\ IF Reading(p) THEN BeingRead(p) ELSE Remembered(p)

PrefixInv == DiskInv /\ NamesInv /\ \A p \in Paths : Sound(p) => PathInv(p)

(* What is indexed of a path depends on no more of its file than these.     *)
LEMMA SameIndexed ==
  ASSUME NEW p, NEW x, NEW y, NEW v, NEW n,
         y.files[p].session = x.files[p].session, y.files[p].pending = x.files[p].pending,
         y.sessions = x.sessions, y.calls = x.calls, y.wakes = x.wakes,
         Indexes(x, p, v, n)
  PROVE  Indexes(y, p, v, n)
  BY DEF Indexes, Empty, Holds

(* No session but its own is a path's, and an unknown path has none.        *)
LEMMA SpareEmpty ==
  ASSUME NEW x, Grounded(x), \A q \in Paths : x.files[q].session \in Ids(q),
         NEW p \in Paths, NEW s \in Ids(p), ~x.files[p].known \/ x.files[p].session # s
  PROVE  Empty(x, s)
<1>1. s \in Sessions
  BY IdsApart
<1>2. ~KnownIn(x, s)
  <2> SUFFICES ASSUME NEW q \in Paths, x.files[q].known, x.files[q].session = s PROVE FALSE
    BY DEF KnownIn
  <2>1. q # p
    OBVIOUS
  <2>2. s \in Ids(q) /\ Ids(p) \cap Ids(q) = {}
    BY <2>1, IdsApart
  <2> QED  BY <2>2
<1> QED
  BY <1>1, <1>2 DEF Grounded

LEMMA ScanTypes ==
  ASSUME ScanInv
  PROVE  /\ Index \in IndexType /\ Grounded(Index)
         /\ Index.files = files /\ Index.sessions = sessions
         /\ Index.calls = calls /\ Index.wakes = wakes
         /\ disk \in [Paths -> Content] /\ scan \in ScanType
         /\ \A p \in Paths : files[p] \in FileState /\ files[p].offset \in Nat
  <1>1. Index \in IndexType /\ Index.files = files
    BY DEF ScanInv, TypeOK, Index
  <1>2. \A p \in Paths : files[p] \in FileState
    BY <1>1, IndexParts
  <1> QED
    BY <1>1, <1>2 DEF ScanInv, TypeOK, NothingOrphaned, Grounded, ScanType, Index, FileState

LEMMA PrefixInit == Init => PrefixInv
<1> SUFFICES ASSUME Init PROVE PrefixInv
  OBVIOUS
<1>1. \A p \in Paths : /\ files[p].offset = 0 /\ files[p].pending = {}
                         /\ files[p].session = SessionIn[p]
  BY DEF Init, Unknown
<1>2. DiskInv
  BY DEF Init, DiskInv, There, NoFile
<1>3. NamesInv
  BY <1>1, IdsApart DEF NamesInv
<1>4. ASSUME NEW p \in Paths PROVE PathInv(p)
  <2>1. files[p].offset = 0 /\ files[p].pending = {} /\ files[p].session \in Sessions
    BY <1>1, ScanAssumption
  <2>2. 0 \div 2 = 0 /\ ~Reading(p)
    BY DEF Init, Reading, Idle
  <2>3. Empty(Index, files[p].session) /\ Index.files = files
    BY <2>1 DEF Init, Index, Empty
  <2>4. Remembered(p)
    BY <2>1, <2>2, <2>3 DEF Remembered, Indexes
  <2> QED
    BY <2>1, <2>2, <2>4 DEF PathInv, OffsetWhole, Even
<1> QED
  BY <1>2, <1>3, <1>4 DEF PrefixInv

(* A step of the poll on path p: the others are as they were.               *)
LEMMA PrefixOthers ==
  ASSUME PrefixInv, NEW p \in Paths, Only(p, Index, Index'), disk' = disk,
         scan.at = p, scan'.reading => scan'.at = p,
         \A f \in faults : f[2] # p => f \in faults',
         Sound(p)' => PathInv(p)'
  PROVE  PrefixInv'
<1>1. DiskInv'
  BY DEF PrefixInv, DiskInv, There
<1>2. Index.files = files /\ Index'.files = files'
  BY DEF Index
<1>3. NamesInv'
  BY <1>2 DEF PrefixInv, NamesInv, Only
<1>4. ASSUME NEW q \in Paths \ {p}, Sound(q)' PROVE PathInv(q)'
  <2>1. Sound(q) /\ PathInv(q)
    BY <1>4 DEF Sound, PrefixInv
  <2>2. ~Reading(q) /\ ~Reading(q)' /\ files'[q] = files[q]
    BY <1>2 DEF Reading, Only
  <2>3. Remembered(q)'
    <3>1. Indexes(Index, q, files[q].stat.text, files[q].offset \div 2)
      BY <2>1, <2>2 DEF PathInv, Remembered
    <3>2. Index.files[q].session \in Ids(q)
      BY <1>2 DEF PrefixInv, NamesInv
    <3> DEFINE v == files[q].stat.text
               n == files[q].offset \div 2
    <3> HIDE DEF v, n
    <3>3. Indexes(Index', q, v, n)
      BY <3>1, <3>2, OthersIndexed DEF v, n
    <3> QED  BY <2>2, <3>3 DEF Remembered, v, n
  <2> QED
    BY <2>1, <2>2, <2>3 DEF PathInv, OffsetWhole
<1> QED
  BY <1>1, <1>3, <1>4 DEF PrefixInv

(* A step of the walk that leaves the index as it is.                       *)
LEMMA PrefixWalk ==
  ASSUME PrefixInv, NEW p \in Paths, UNCHANGED <<disk, index>>, scan.at = p, ~scan'.reading,
         faults \subseteq faults', Sound(p)' => Remembered(p)
  PROVE  PrefixInv'
<1>1. Index' = Index /\ files' = files
  BY DEF index, Index
<1>2. Only(p, Index, Index')
  BY <1>1 DEF Only, PrefixInv, NamesInv, Index
<1>3. ASSUME Sound(p)' PROVE PathInv(p)'
  <2>1. Sound(p) /\ OffsetWhole(p) /\ ~Reading(p)'
    BY <1>3 DEF Sound, PrefixInv, PathInv, Reading
  <2> QED
    BY <1>1, <1>3, <2>1 DEF PathInv, OffsetWhole, Remembered
<1> QED
  BY <1>2, <1>3, PrefixOthers

LEMMA EvenNext ==
  ASSUME NEW k \in Nat, Even(k)
  PROVE  LET m == 2 * (k \div 2) + 2
         IN  /\ k \div 2 \in Nat /\ k % 2 = 0
             /\ Even(m) /\ m \div 2 = k \div 2 + 1 /\ m > k /\ m \in Nat
  BY DEF Even

LEMMA PrefixStat ==
  ASSUME ScanInv, PrefixInv, NEW p \in Paths, StatFile(p)
  PROVE  PrefixInv'
<1> DEFINE known == [Index EXCEPT !.files[p].known = TRUE]
           g == [Index.files[p] EXCEPT !.known = TRUE]
           shrunk == Size(disk[p]) < files[p].offset
           y == IF shrunk THEN Rewind(known, p) ELSE known
<1>1. /\ Index \in IndexType /\ Grounded(Index) /\ Index.files = files
      /\ Index.files[p] \in FileState
  BY ScanTypes, IndexParts
<1>2. /\ g \in FileState /\ g.known /\ g.session = files[p].session
      /\ g.pending = files[p].pending /\ g.offset = files[p].offset /\ g.stat = files[p].stat
  BY <1>1 DEF FileState
<1>3. known = [Index EXCEPT !.files = [Index.files EXCEPT ![p] = g]]
  OBVIOUS
<1> HIDE DEF g
<1>4. Keeps(p, known)
  BY <1>1, <1>2, <1>3, FileUpdateKeeps
<1>5. /\ known.files[p] = g /\ known.sessions = Index.sessions /\ known.calls = Index.calls
      /\ known.wakes = Index.wakes
  BY <1>1, <1>3, IndexParts DEF IndexType
<1>6. Becomes(y)
  BY DEF StatFile
<1> HIDE DEF known
<1>7. Only(p, Index, known) /\ Proper(p, known)
  <2>1. g.session \in Ids(p)
    BY <1>2 DEF PrefixInv, NamesInv
  <2> QED  BY <1>1, <1>3, <1>4, <1>5, <2>1, FileOnly DEF Proper
<1>8. Keeps(p, y) /\ Only(p, Index, y)
  BY <1>4, <1>7, RewindKeeps, RewindOnlyPath, OnlyTrans
<1>9. Index' = y
  BY <1>6, <1>8, BecomesIndex DEF Keeps
<1> HIDE DEF y, shrunk
<1>10. /\ scan.at = p /\ scan'.at = p /\ Reading(p)' /\ ~Reading(p) /\ disk' = disk
       /\ scan'.stat = disk[p] /\ scan'.pos = IF shrunk THEN 0 ELSE files[p].offset
       /\ There(p)
  BY ScanTypes DEF StatFile, On, Reading, ScanType, shrunk
<1>11. \A f \in faults : f[2] # p => f \in faults'
  BY DEF StatFile
<1>12. disk[p].text \in Versions
  BY <1>10 DEF PrefixInv, DiskInv
<1>13. Index'.files[p] = files'[p]
  BY DEF Index
<1>14. CASE shrunk
  <2>1. Empty(Index', files'[p].session) /\ files'[p].offset = 0 /\ files'[p].pending = {}
    <3>1. /\ Empty(y, y.files[p].session)
          /\ y.files[p] = [g EXCEPT !.pending = {}, !.offset = 0, !.hdrDone = FALSE]
      BY <1>5, <1>7, <1>14, RewindOnlyPath DEF y
    <3>2. y.files[p].offset = 0 /\ y.files[p].pending = {}
      BY <1>2, <3>1 DEF FileState
    <3> QED  BY <1>9, <1>13, <3>1, <3>2
  <2>2. 0 \div 2 = 0 /\ Even(0) /\ 0 >= 0
    BY DEF Even
  <2>3. \A v : Indexes(Index', p, v, 0)
    BY <1>13, <2>1 DEF Indexes
  <2>4. scan'.pos = 0 /\ disk'[p].text = scan'.stat.text /\ scan'.stat.text \in Versions
    BY <1>10, <1>12, <1>14
  <2>5. BeingRead(p)'
    BY <2>1, <2>2, <2>3, <2>4 DEF BeingRead, Remembered
  <2>6. OffsetWhole(p)'
    BY <2>1, <2>2 DEF OffsetWhole
  <2>7. PathInv(p)'
    BY <1>10, <2>5, <2>6 DEF PathInv
  <2> QED  BY <1>8, <1>9, <1>10, <1>11, <2>7, PrefixOthers
<1>15. CASE ~shrunk
  <2>1. Index' = known /\ files'[p] = g
    BY <1>5, <1>9, <1>13, <1>15 DEF y
  <2> SUFFICES ASSUME Sound(p)' PROVE PathInv(p)'
    BY <1>8, <1>9, <1>10, <1>11, PrefixOthers
  <2>2. /\ Sound(p)
        /\ files[p].offset > 0 => disk[p].text = files[p].stat.text
    <3>1. faults' = IF files[p].offset > 0 /\ disk[p].text # files[p].stat.text
                    THEN (faults \ {<<"cut", p>>}) \cup {<<"longer", p>>}
                    ELSE faults \ {<<"cut", p>>}
      BY <1>15 DEF StatFile, shrunk
    <3>2. <<"longer", p>> \notin faults'
      BY DEF Sound, Mistakes
    <3>3. ~(files[p].offset > 0 /\ disk[p].text # files[p].stat.text)
      BY <3>1, <3>2
    <3>4. faults \subseteq faults' \cup {<<"cut", p>>}
      BY <3>1
    <3> QED  BY <3>3, <3>4 DEF Sound, Mistakes
  <2>3. OffsetWhole(p) /\ Remembered(p)
    BY <1>10, <2>2 DEF PrefixInv, PathInv
  <2> DEFINE n == files[p].offset \div 2
             v == files[p].stat.text
  <2>4. Indexes(known, p, v, n)
    <3>1. Indexes(Index, p, v, n)
      BY <2>3 DEF Remembered
    <3> HIDE DEF v, n
    <3> QED  BY <1>1, <1>2, <1>5, <3>1, SameIndexed
  <2>5. Indexes(known, p, disk[p].text, n)
    <3>1. CASE files[p].offset > 0
      BY <2>2, <2>4, <3>1
    <3>2. CASE files[p].offset = 0
      <4>1. n = 0
        BY <3>2
      <4> HIDE DEF n, v
      <4> QED  BY <2>4, <4>1 DEF Indexes
    <3> QED  BY <3>1, <3>2, ScanTypes
  <2>6. /\ scan'.pos = files[p].offset /\ disk'[p].text = scan'.stat.text
        /\ scan'.stat.text = disk[p].text
        /\ files'[p].offset = files[p].offset /\ files'[p].stat = files[p].stat
        /\ files[p].offset >= files[p].offset
    BY <1>2, <1>10, <1>15, <2>1, ScanTypes
  <2>7. Remembered(p)'
    BY <2>1, <2>4, <2>6 DEF Remembered
  <2>8. OffsetWhole(p)'
    BY <2>3, <2>6 DEF OffsetWhole
  <2>9. BeingRead(p)'
    BY <1>12, <2>1, <2>3, <2>5, <2>6, <2>7 DEF BeingRead, OffsetWhole
  <2> QED
    BY <1>10, <2>8, <2>9 DEF PathInv
<1> QED
  BY <1>14, <1>15

(* Lines do not touch the offset and the stat that the path remembers.      *)
KeepsOffset(p, x, y) ==
  y.files[p].offset = x.files[p].offset /\ y.files[p].stat = x.files[p].stat

LEMMA HeaderKeepsOffset ==
  ASSUME NEW p \in Paths, NEW x, Keeps(p, x)
  PROVE  KeepsOffset(p, x, TakeHeader(x, p))
<1>1. CASE HeaderOf[p] \in {x.files[p].session, NoId}
  BY <1>1, WithSessionKeeps DEF TakeHeader, KeepsOffset
<1>2. CASE HeaderOf[p] \notin {x.files[p].session, NoId}
  <2> DEFINE s == x.files[p].session
             d == DropSession(x, s, p)
             g == [d.files[p] EXCEPT !.session = HeaderOf[p]]
             z == Renamed(x, p)
  <2>1. /\ Keeps(p, z) /\ TakeHeader(x, p) = WithSession(z, p)
        /\ z = [d EXCEPT !.files = [d.files EXCEPT ![p] = g]]
    BY <1>2, RenamedKeeps
  <2>2. x \in IndexType /\ s \in Sessions /\ x.files[p] \in FileState
    BY IndexParts DEF Keeps
  <2>3. d \in IndexType /\ d.files = [x.files EXCEPT ![p].pending = {}]
    <3> HIDE DEF s
    <3> QED  BY <2>2, DropSessionType
  <2>4. d.files[p] = [x.files[p] EXCEPT !.pending = {}]
    BY <2>2, <2>3, IndexParts
  <2>5. g.offset = x.files[p].offset /\ g.stat = x.files[p].stat
    BY <2>2, <2>4 DEF FileState
  <2> HIDE DEF g, d, z
  <2>6. z.files[p] = g
    BY <2>1, <2>3, IndexParts DEF IndexType
  <2> QED
    BY <2>1, <2>5, <2>6, WithSessionKeeps DEF KeepsOffset
<1> QED
  BY <1>1, <1>2

LEMMA PendingKeepsOffset ==
  ASSUME NEW p \in Paths, NEW x \in IndexType, NEW w
  PROVE  KeepsOffset(p, x, [x EXCEPT !.files = [x.files EXCEPT ![p] = [x.files[p] EXCEPT !.pending = w]]])
<1> DEFINE g == [x.files[p] EXCEPT !.pending = w]
<1>1. g.offset = x.files[p].offset /\ g.stat = x.files[p].stat
  BY IndexParts DEF FileState
<1> HIDE DEF g
<1>2. [x EXCEPT !.files = [x.files EXCEPT ![p] = g]].files[p] = g
  BY IndexParts DEF IndexType
<1> QED
  BY <1>1, <1>2 DEF KeepsOffset, g

LEMMA TakeLineKeepsOffset ==
  ASSUME NEW p \in Paths, NEW x, Keeps(p, x), NEW item \in Item
  PROVE  KeepsOffset(p, x, TakeLine(x, p, item))
<1> DEFINE x1 == Seen(x, p)
           y == WithSession(x1, p)
           z == Logged(y, p, item)
<1>1. Keeps(p, x1) /\ Keeps(p, y) /\ Keeps(p, z) /\ x \in IndexType /\ z \in IndexType
  BY TakeLineIs, SeenKeeps DEF Keeps
<1>2. TakeLine(x, p, item) \in
        {TakeHeader(x1, p), x1, TakeCall(z, p, item), TakeResult(z, p, item), Woken(z, p, item), z}
  BY TakeLineIs
<1>3. KeepsOffset(p, x, x1)
  <2> DEFINE g == [x.files[p] EXCEPT !.hdrDone = TRUE]
  <2>1. x1 = [x EXCEPT !.files = [x.files EXCEPT ![p] = g]]
    BY DEF Seen
  <2>2. g.offset = x.files[p].offset /\ g.stat = x.files[p].stat
    BY <1>1, IndexParts DEF FileState
  <2> HIDE DEF g, x1
  <2>3. x1.files[p] = g
    BY <1>1, <2>1, IndexParts DEF IndexType
  <2> QED  BY <2>2, <2>3 DEF KeepsOffset
<1>4. z.files = x1.files
  <2>1. y.files = x1.files
    BY <1>1, WithSessionKeeps
  <2> HIDE DEF y
  <2>2. z.files = y.files
    BY <1>1 DEF Logged, Keeps, IndexType
  <2> QED  BY <2>1, <2>2
<1> HIDE DEF x1, y, z
<1>5. KeepsOffset(p, x, z)
  BY <1>3, <1>4 DEF KeepsOffset
<1>6. KeepsOffset(p, x, TakeHeader(x1, p))
  BY <1>1, <1>3, HeaderKeepsOffset DEF KeepsOffset
<1>7. KeepsOffset(p, x, TakeCall(z, p, item))
  <2> DEFINE w == OtherId(z, p, item) \cup {[text |-> item.text, line |-> item.line]}
  <2>1. TakeCall(z, p, item) =
          [z EXCEPT !.files = [z.files EXCEPT ![p] = [z.files[p] EXCEPT !.pending = w]]]
    BY DEF TakeCall, OtherId
  <2> HIDE DEF w
  <2> QED  BY <1>1, <1>5, <2>1, PendingKeepsOffset DEF KeepsOffset
<1>8. KeepsOffset(p, x, TakeResult(z, p, item))
  <2> DEFINE w == z.files[p].pending \ SameId(z, p, item)
             u == [z EXCEPT !.files = [z.files EXCEPT ![p] = [z.files[p] EXCEPT !.pending = w]]]
             r == Answer(z, p, item)
  <2>1. TakeResult(z, p, item) = [u EXCEPT !.calls[u.files[p].session] = Append(@, r)]
    BY DEF TakeResult, Answer, SameId, LineIn
  <2> HIDE DEF w, r
  <2>2. KeepsOffset(p, z, u)
    BY <1>1, PendingKeepsOffset
  <2>3. TakeResult(z, p, item).files = u.files
    BY <1>1, <2>1 DEF IndexType
  <2> HIDE DEF u
  <2> QED  BY <1>5, <2>2, <2>3 DEF KeepsOffset
<1>9. KeepsOffset(p, x, Woken(z, p, item))
  <2>1. Woken(z, p, item).files = z.files
    BY <1>1 DEF Woken, IndexType
  <2> QED  BY <1>5, <2>1 DEF KeepsOffset
<1> QED
  BY <1>2, <1>3, <1>5, <1>6, <1>7, <1>8, <1>9

LEMMA PrefixRead ==
  ASSUME ScanInv, PrefixInv, NEW p \in Paths, ReadLine(p)
  PROVE  PrefixInv'
<1> DEFINE item == NextLine(p)
           y == TakeLine(Index, p, item)
           v == scan.stat.text
           n == scan.pos \div 2
<1>1. /\ Index \in IndexType /\ Grounded(Index) /\ Index.files = files /\ Proper(p, Index)
      /\ scan \in ScanType /\ scan.pos \in Nat /\ disk[p].text \in Nat /\ disk[p].lines \in Nat
      /\ files[p].offset \in Nat /\ n \in Nat
  BY ScanTypes DEF Proper, Keeps, ScanInv, ReadIsKnown, PrefixInv, NamesInv, ReadLine, ScanType,
                   Content
<1>2. item \in Item
  BY <1>1 DEF NextLine, Item
<1>3. Keeps(p, y) /\ Only(p, Index, y)
  BY <1>1, <1>2, TakeLineKeeps, TakeLineOnly DEF Proper
<1>4. Index' = y
  BY <1>3, BecomesIndex DEF ReadLine, Keeps
<1> HIDE DEF y
<1>5. /\ scan.at = p /\ scan'.at = p /\ Reading(p) /\ Reading(p)' /\ disk' = disk
      /\ faults' = faults /\ scan'.stat = scan.stat /\ scan'.pos = 2 * n + 2
      /\ There(p) /\ n < disk[p].lines
  BY <1>1 DEF ReadLine, Reading, ScanType
<1> SUFFICES ASSUME Sound(p)' PROVE PathInv(p)'
  BY <1>3, <1>4, <1>5, PrefixOthers
<1>6. Sound(p) /\ OffsetWhole(p) /\ BeingRead(p)
  BY <1>5 DEF Sound, PrefixInv, PathInv
<1>7. disk[p].text = v /\ v \in Versions /\ Indexes(Index, p, v, n)
  BY <1>5, <1>6 DEF BeingRead
<1>8. /\ Even(scan'.pos) /\ scan'.pos \div 2 = n + 1 /\ scan'.pos > scan.pos /\ scan'.pos \in Nat
      /\ scan.pos % 2 = 0
  BY <1>1, <1>5, <1>6, EvenNext DEF BeingRead
<1>9. item = [text |-> v, line |-> n + 1, part |-> "whole"]
  BY <1>7, <1>8 DEF NextLine
<1>10. /\ v \in DOMAIN Texts /\ n + 1 \in 1..Len(Texts[v]) /\ Texts[v] \in Seq([kind : Kinds, id : Nat])
       /\ v \in Nat
  <2>1. v \in DOMAIN Texts /\ Texts[v] \in Seq([kind : Kinds, id : Nat]) /\ v \in Nat
    BY <1>7, ScanAssumption DEF Versions
  <2>2. disk[p].lines <= Len(Texts[v]) /\ Len(Texts[v]) \in Nat
    BY <1>5, <1>7, <2>1 DEF PrefixInv, DiskInv
  <2>3. n \in Nat /\ n < disk[p].lines /\ disk[p].lines \in Nat
    BY <1>1, <1>5
  <2> HIDE DEF n, v
  <2>4. n + 1 \in 1..Len(Texts[v])
    BY <2>2, <2>3
  <2> QED  BY <2>1, <2>4
<1> HIDE DEF v, n, item
<1>11. Entry(v, n + 1).kind \in Kinds
  <2> DEFINE text == Texts[v]
             E == [kind : Kinds, id : Nat]
  <2>1. text \in Seq(E) /\ n + 1 \in 1..Len(text)
    BY <1>10
  <2>2. \A e \in E : e.kind \in Kinds
    OBVIOUS
  <2> HIDE DEF text, E
  <2>3. text[n + 1] \in E
    BY <2>1
  <2> QED  BY <2>2, <2>3 DEF Entry, text
<1>12. Indexes(y, p, v, n + 1)
  <2>1. CASE n = 0
    <3>1. Empty(Index, files[p].session) /\ files[p].pending = {}
      BY <1>1, <1>7, <2>1 DEF Indexes
    <3>2. \A s \in Ids(p) : Empty(Index, s)
      BY <1>1, <3>1, SpareEmpty DEF PrefixInv, NamesInv
    <3>3. Entry(v, 1).kind = "header"
      <4>1. Texts[v] # <<>> /\ \A u \in DOMAIN Texts : Texts[u] # <<>> => Texts[u][1].kind = "header"
        BY <1>10, ScanAssumption
      <4> QED  BY <1>10, <4>1 DEF Entry
    <3>4. n + 1 = 1
      BY <2>1
    <3> QED  BY <1>1, <1>9, <1>10, <3>1, <3>2, <3>3, <3>4, HeaderIndexed DEF y
  <2>2. CASE n # 0
    <3>1. n \in Nat \ {0}
      BY <1>1, <2>2
    <3> QED  BY <1>1, <1>7, <1>9, <1>10, <1>11, <3>1, LineIndexed DEF y
  <2> QED  BY <2>1, <2>2
<1>13. files'[p].offset = files[p].offset /\ files'[p].stat = files[p].stat
  BY <1>1, <1>2, <1>4, TakeLineKeepsOffset DEF y, Index, KeepsOffset, Proper
<1>14. OffsetWhole(p)'
  BY <1>6, <1>13 DEF OffsetWhole
<1>15. BeingRead(p)'
  <2>1. /\ scan'.pos > files'[p].offset /\ scan'.pos >= files'[p].offset
        /\ scan'.pos # files'[p].offset
    BY <1>1, <1>6, <1>8, <1>13 DEF BeingRead
  <2>2. Indexes(Index', p, scan'.stat.text, scan'.pos \div 2)
    BY <1>4, <1>5, <1>8, <1>12 DEF v
  <2> QED  BY <1>5, <1>7, <1>8, <2>1, <2>2 DEF BeingRead, There, v
<1> QED
  BY <1>5, <1>14, <1>15 DEF PathInv

(* Wherever the reading of a file stops, its offset is after a whole line,  *)
(* unless half a line was trusted.                                          *)
LEMMA PrefixStop ==
  ASSUME ScanInv, PrefixInv, NEW p \in Paths, NEW half, Reading(p), Stop(p, half),
         faults \cup HalfFault(p, half) \subseteq faults'
  PROVE  PrefixInv'
<1> DEFINE taken == half /\ Trusted(p)
           item == [text |-> disk[p].text, line |-> scan.pos \div 2 + 1, part |-> "half"]
           x == IF taken THEN TakeLine(Index, p, item) ELSE Index
           offset == scan.pos + (IF taken THEN 1 ELSE 0)
           g == [x.files[p] EXCEPT !.offset = offset, !.stat = scan.stat, !.stable = FALSE]
           y == [x EXCEPT !.files[p] =
                  [@ EXCEPT !.offset = offset, !.stat = scan.stat, !.stable = FALSE]]
           v == scan.stat.text
           n == scan.pos \div 2
<1>1. /\ Index \in IndexType /\ Index.files = files /\ Proper(p, Index)
      /\ scan \in ScanType /\ scan.pos \in Nat /\ scan.stat \in Content
  BY ScanTypes DEF Proper, Keeps, ScanInv, ReadIsKnown, PrefixInv, NamesInv, ScanType
<1>2. item \in Item
  <2>1. disk[p].text \in Nat /\ scan.pos \div 2 + 1 \in Nat
    BY <1>1 DEF ScanInv, TypeOK, Content
  <2> QED  BY <2>1 DEF Item
<1> HIDE DEF taken, item
<1>3. Keeps(p, x) /\ Only(p, Index, x)
  <2>1. Only(p, Index, Index)
    BY <1>1 DEF Only, Proper
  <2> QED  BY <1>1, <1>2, <2>1, TakeLineKeeps, TakeLineOnly DEF Proper
<1>4. Becomes(y)
  BY DEF Stop, taken, item
<1>5. offset \in Nat
  BY <1>1
<1> HIDE DEF x, offset
<1>6. x \in IndexType /\ Grounded(x) /\ x.files[p] \in FileState /\ x.files[p].known
  BY <1>3, IndexParts DEF Keeps
<1>7. /\ g \in FileState /\ g.known /\ g.session = x.files[p].session
      /\ g.pending = x.files[p].pending /\ g.offset = offset /\ g.stat = scan.stat
  BY <1>1, <1>5, <1>6 DEF FileState
<1>8. y = [x EXCEPT !.files = [x.files EXCEPT ![p] = g]]
  OBVIOUS
<1> HIDE DEF g, y
<1>9. Keeps(p, y) /\ Only(p, Index, y)
  <2>1. Keeps(p, y)
    BY <1>6, <1>7, <1>8, FileUpdateKeeps
  <2>2. g.session \in Ids(p)
    BY <1>3, <1>7 DEF Only
  <2>3. Only(p, x, y)
    BY <1>6, <1>8, <2>2, FileOnly
  <2> QED  BY <1>3, <2>1, <2>3, OnlyTrans
<1>10. Index' = y /\ y.files[p] = g /\ files'[p] = g
  <2>1. Index' = y
    BY <1>4, <1>9, BecomesIndex DEF Keeps
  <2>2. y.files[p] = g
    BY <1>6, <1>8, IndexParts DEF IndexType
  <2> QED  BY <1>4, <2>1, <2>2 DEF Becomes
<1>11. scan.at = p /\ Reading(p) /\ ~scan'.reading /\ disk' = disk /\ faults \subseteq faults'
  BY NextPathType DEF Stop, Reading
<1> SUFFICES ASSUME Sound(p)' PROVE PathInv(p)'
  BY <1>9, <1>10, <1>11, PrefixOthers
<1>12. Sound(p) /\ ~taken
  <2>1. taken => <<"half", p>> \in faults'
    BY DEF HalfFault, taken
  <2> QED  BY <1>11, <2>1 DEF Sound, Mistakes
<1>13. x = Index /\ offset = scan.pos
  BY <1>1, <1>12 DEF x, offset
<1>14. BeingRead(p)
  BY <1>11, <1>12 DEF PrefixInv, PathInv
<1>15. Indexes(y, p, v, n)
  <2>1. Indexes(Index, p, v, n)
    BY <1>14 DEF BeingRead
  <2> HIDE DEF v, n
  <2>2. y.sessions = x.sessions /\ y.calls = x.calls /\ y.wakes = x.wakes
    BY <1>6, <1>8 DEF IndexType
  <2> QED  BY <1>7, <1>10, <1>13, <2>1, <2>2, SameIndexed
<1>16. files'[p].offset = scan.pos /\ files'[p].stat = scan.stat
  BY <1>7, <1>10, <1>13
<1>17. Remembered(p)' /\ OffsetWhole(p)'
  BY <1>10, <1>14, <1>15, <1>16 DEF Remembered, OffsetWhole, BeingRead
<1> QED
  BY <1>11, <1>17 DEF PathInv, Reading

LEMMA PrefixFinish ==
  ASSUME ScanInv, PrefixInv, NEW p \in Paths, Finish(p) \/ CutShort(p)
  PROVE  PrefixInv'
  BY PrefixStop DEF Finish, CutShort

LEMMA PrefixSweep ==
  ASSUME ScanInv, PrefixInv, Sweep
  PROVE  PrefixInv'
<1> DEFINE gone == {p \in Paths : files[p].known /\ p \notin scan.seen}
           y == Forget(Index, gone)
<1>1. Index \in IndexType /\ Grounded(Index) /\ Index.files = files
  BY ScanTypes
<1>2. Becomes(y) /\ disk' = disk
  BY DEF Sweep
<1>3. y \in IndexType /\ Grounded(y) /\ Index' = y
  BY <1>1, <1>2, ForgetGrounds, BecomesIndex
<1> HIDE DEF gone
<1>4. /\ gone \subseteq Paths
      /\ \A p \in Paths : y.files[p] = IF p \in gone THEN Unknown(p) ELSE files[p]
  BY DEF gone, Forget, Index
<1>5. \A p \in Paths : y.files[p].session \in Ids(p)
  <2>1. \A p \in Paths : Unknown(p).session = SessionIn[p]
    BY DEF Unknown
  <2> QED  BY <1>4, <2>1, IdsApart DEF PrefixInv, NamesInv
<1>6. files' = y.files /\ NamesInv' /\ DiskInv'
  BY <1>2, <1>5 DEF Becomes, NamesInv, PrefixInv, DiskInv, There
<1>7. \A p \in Paths : ~Reading(p) /\ ~Reading(p)'
  BY ScanAssumption DEF Sweep, Reading, Paths, Idle
<1>8. ASSUME NEW p \in gone PROVE PathInv(p)'
  <2>1. y.files[p] = Unknown(p) /\ p \in Paths
    BY <1>4
  <2>2. /\ ~y.files[p].known /\ y.files[p].session \in Ids(p) /\ y.files[p].offset = 0
        /\ y.files[p].pending = {}
    BY <1>5, <2>1 DEF Unknown
  <2>3. Empty(y, y.files[p].session)
    <3> HIDE DEF y
    <3> QED  BY <1>3, <1>5, <2>1, <2>2, SpareEmpty
  <2> HIDE DEF y
  <2>4. 0 \div 2 = 0
    OBVIOUS
  <2>5. Remembered(p)'
    BY <1>3, <1>6, <2>2, <2>3, <2>4 DEF Remembered, Indexes
  <2> QED  BY <1>6, <1>7, <2>1, <2>2, <2>4, <2>5 DEF PathInv, OffsetWhole, Even
<1>9. ASSUME NEW p \in Paths \ gone, Sound(p)' PROVE PathInv(p)'
  <2>1. Sound(p)
    <3>1. faults' = faults \ (Faults \X gone)
      BY DEF Sweep, gone
    <3>2. ASSUME NEW k, <<k, p>> \in faults PROVE <<k, p>> \in faults'
      BY <1>9, <3>1, <3>2
    <3> QED  BY <1>9, <3>2 DEF Sound
  <2>2. OffsetWhole(p) /\ Remembered(p)
    BY <1>7, <2>1 DEF PrefixInv, PathInv
  <2>3. y.files[p] = files[p]
    BY <1>4
  <2>4. ASSUME NEW s \in Ids(p)
        PROVE  /\ y.sessions[s] = sessions[s] /\ y.calls[s] = calls[s] /\ y.wakes[s] = wakes[s]
    <3>1. s \in Sessions
      BY IdsApart
    <3>2. ASSUME NEW q \in gone PROVE files[q].session # s
      <4>1. q \in Paths /\ q # p /\ files[q].session \in Ids(q)
        BY <1>4 DEF PrefixInv, NamesInv
      <4> QED  BY <4>1, IdsApart
    <3>3. s \notin {files[q].session : q \in gone}
      BY <3>2
    <3> QED  BY <3>1, <3>3 DEF Forget, Index
  <2> HIDE DEF y
  <2> DEFINE v == files[p].stat.text
             n == files[p].offset \div 2
  <2>5. Indexes(Index, p, v, n)
    BY <2>2 DEF Remembered
  <2>6. files[p].session \in Ids(p) /\ NameOf(p) \in Ids(p)
    BY IdsApart DEF PrefixInv, NamesInv
  <2> HIDE DEF v, n
  <2>7. Indexes(y, p, v, n)
    BY <2>3, <2>4, <2>5, <2>6, ScanTypes DEF Indexes, Empty, Holds
  <2>8. Remembered(p)'
    BY <1>3, <1>6, <2>3, <2>7 DEF Remembered, v, n
  <2> QED  BY <1>6, <1>7, <2>2, <2>3, <2>8 DEF PathInv, OffsetWhole
<1> QED
  BY <1>6, <1>8, <1>9 DEF PrefixInv

(* A write changes only what is on disk; a text that replaces one that is   *)
(* being read is a fault.                                                   *)
LEMMA PrefixWrite ==
  ASSUME ScanInv, PrefixInv, NEW p \in Paths,
         AppendLine(p) \/ AppendHalf(p) \/ Replace(p) \/ Delete(p)
  PROVE  PrefixInv'
<1>1. Index' = Index /\ files' = files /\ scan' = scan /\ faults \subseteq faults'
  BY DEF AppendLine, AppendHalf, Replace, Delete, Write, index, Index
<1>2. disk \in [Paths -> Content] /\ disk[p] \in Content
  BY ScanTypes
<1>3. NamesInv'
  BY <1>1 DEF PrefixInv, NamesInv
<1>4. \A q \in Paths \ {p} : disk'[q] = disk[q]
  BY <1>2 DEF AppendLine, AppendHalf, Replace, Delete, Write
<1>5. /\ There(p)' => disk'[p].text \in Versions /\ disk'[p].lines <= Len(Texts[disk'[p].text])
      /\ There(p)' /\ Reading(p) /\ Sound(p)' => There(p) /\ disk'[p].text = disk[p].text
  <2>1. CASE AppendLine(p)
    <3> DEFINE f == disk[p]
    <3>1. f \in Content /\ f.text \in Versions /\ f.lines < Len(Texts[f.text]) /\ f.text # 0
      BY <1>2, <2>1 DEF AppendLine, PrefixInv, DiskInv, There
    <3> HIDE DEF f
    <3> DEFINE g == [f EXCEPT !.lines = @ + 1, !.torn = FALSE]
    <3>2. g.text = f.text /\ g.lines = f.lines + 1 /\ f.lines \in Nat
      BY <3>1 DEF Content
    <3>3. disk'[p] = g
      BY <1>2, <2>1 DEF AppendLine, Write, f
    <3> HIDE DEF g
    <3>4. Len(Texts[f.text]) \in Nat
      BY <3>1, ScanAssumption DEF Versions
    <3> QED  BY <3>1, <3>2, <3>3, <3>4 DEF There, f
  <2>2. CASE AppendHalf(p)
    <3>1. disk'[p] = [disk[p] EXCEPT !.torn = TRUE]
      BY <1>2, <2>2 DEF AppendHalf
    <3>2. disk'[p].text = disk[p].text /\ disk'[p].lines = disk[p].lines
      BY <1>2, <3>1 DEF Content
    <3> QED  BY <2>2, <3>2 DEF AppendHalf, There, PrefixInv, DiskInv
  <2>3. CASE Replace(p)
    <3>1. PICK m \in 0..Len(Texts[written + 1]) :
            /\ disk' = [disk EXCEPT ![p] = [text |-> written + 1, lines |-> m, torn |-> FALSE]]
            /\ faults' = IF Reading(p) THEN faults \cup {<<"longer", p>>} ELSE faults
      BY <2>3 DEF Replace
    <3>2. disk'[p].text = written + 1 /\ disk'[p].lines = m
      BY <1>2, <3>1
    <3>3. written + 1 \in Versions
      BY <2>3, ScanAssumption DEF Replace, ScanInv, TypeOK, Versions
    <3>4. Len(Texts[written + 1]) \in Nat
      BY <3>3, ScanAssumption DEF Versions
    <3>5. ~(Reading(p) /\ Sound(p)')
      <4>1. Reading(p) => <<"longer", p>> \in faults'
        BY <3>1
      <4> QED  BY <4>1 DEF Sound, Mistakes
    <3> QED  BY <3>2, <3>3, <3>4, <3>5
  <2>4. CASE Delete(p)
    <3>1. disk'[p] = NoFile
      BY <1>2, <2>4 DEF Delete, Write
    <3> QED  BY <3>1 DEF There, NoFile
  <2> QED  BY <2>1, <2>2, <2>3, <2>4
<1>6. DiskInv'
  BY <1>4, <1>5 DEF PrefixInv, DiskInv, There
<1>7. ASSUME NEW q \in Paths, Sound(q)' PROVE PathInv(q)'
  <2>1. Sound(q) /\ PathInv(q) /\ (Reading(q)' <=> Reading(q))
    BY <1>1, <1>7 DEF Sound, PrefixInv, Reading
  <2>2. OffsetWhole(q)' /\ (Remembered(q)' <=> Remembered(q))
    BY <1>1, <2>1 DEF OffsetWhole, Remembered, PathInv
  <2>3. ASSUME Reading(q) PROVE BeingRead(q)'
    <3>1. BeingRead(q)
      BY <2>1, <2>3 DEF PathInv
    <3>2. There(q)' => There(q) /\ disk'[q].text = disk[q].text
      BY <1>4, <1>5, <1>7, <2>3 DEF There
    <3> QED  BY <1>1, <2>2, <3>1, <3>2 DEF BeingRead
  <2> QED  BY <2>1, <2>2, <2>3 DEF PathInv
<1> QED
  BY <1>3, <1>6, <1>7 DEF PrefixInv

LEMMA PrefixStep == ScanInv /\ PrefixInv /\ [Next]_vars => PrefixInv'
<1> SUFFICES ASSUME ScanInv, PrefixInv, [Next]_vars PROVE PrefixInv'
  OBVIOUS
<1>1. CASE Start \/ UNCHANGED vars
  <2>1. Index' = Index /\ files' = files /\ disk' = disk /\ faults' = faults
    BY <1>1 DEF Start, vars, index, Index
  <2>2. scan' = scan \/ \A q \in Paths : ~Reading(q) /\ ~Reading(q)'
    BY <1>1 DEF Start, vars, Reading, Idle, Paths
  <2>3. DiskInv' /\ NamesInv'
    BY <2>1 DEF PrefixInv, DiskInv, NamesInv, There
  <2>4. ASSUME NEW q \in Paths, Sound(q)' PROVE PathInv(q)'
    <3>1. PathInv(q)
      BY <2>1, <2>4 DEF PrefixInv, Sound
    <3> QED
      BY <2>1, <2>2, <3>1
         DEF PathInv, OffsetWhole, Remembered, BeingRead, Reading, There
  <2> QED  BY <2>3, <2>4 DEF PrefixInv
<1>2. ASSUME NEW p \in Paths, SkipMissing(p) \/ CannotLook(p) PROVE PrefixInv'
  <2>1. UNCHANGED <<disk, index, faults>> /\ scan.at = p /\ ~Reading(p)
    BY <1>2 DEF SkipMissing, CannotLook, On, Reading
  <2>2. ~scan'.reading
    <3>1. CASE SkipMissing(p)
      BY <2>1, <3>1, NextPathType DEF SkipMissing
    <3>2. CASE CannotLook(p)
      <4>1. PICK listed \in BOOLEAN :
              scan' = [NextPath EXCEPT !.seen = @ \cup (IF listed THEN {p} ELSE {})]
        BY <3>2 DEF CannotLook
      <4> DEFINE S == IF listed THEN {p} ELSE {}
      <4>2. S \in SUBSET Paths
        OBVIOUS
      <4> HIDE DEF S
      <4>3. scan' = [NextPath EXCEPT !.seen = @ \cup S]
        BY <4>1 DEF S
      <4> QED  BY <2>1, <4>2, <4>3, NextPathType
    <3> QED  BY <1>2, <3>1, <3>2
  <2>3. Sound(p)' => Remembered(p)
    BY <2>1 DEF Sound, PrefixInv, PathInv
  <2> QED  BY <2>1, <2>2, <2>3, PrefixWalk
<1>3. ASSUME NEW p \in Paths, CannotRead(p) PROVE PrefixInv'
  <2>1. UNCHANGED <<disk, index>> /\ scan.at = p /\ Reading(p) /\ faults \subseteq faults'
    BY <1>3 DEF CannotRead, Reading
  <2>2. ~scan'.reading
    BY <1>3, <2>1, NextPathType DEF CannotRead
  <2>3. ASSUME Sound(p)' PROVE Remembered(p)
    <3>1. BeingRead(p)
      BY <2>1, <2>3 DEF Sound, PrefixInv, PathInv
    <3>2. ~(scan.pos > files[p].offset)
      <4>1. scan.pos > files[p].offset => <<"broken", p>> \in faults'
        BY <1>3 DEF CannotRead
      <4> QED  BY <2>3, <4>1 DEF Sound, Mistakes
    <3>3. scan.pos \in Nat /\ files[p].offset \in Nat
      BY ScanTypes DEF ScanType
    <3>4. scan.pos = files[p].offset
      BY <3>1, <3>2, <3>3 DEF BeingRead
    <3> QED  BY <3>1, <3>4 DEF BeingRead
  <2> QED  BY <2>1, <2>2, <2>3, PrefixWalk
<1>4. ASSUME NEW p \in Paths, SkipUnchanged(p) PROVE PrefixInv'
  <2> DEFINE g == [files[p] EXCEPT !.stable = TRUE]
  <2>1. /\ files' = [files EXCEPT ![p] = g] /\ disk' = disk /\ faults' = faults
        /\ sessions' = sessions /\ calls' = calls /\ wakes' = wakes
        /\ scan.at = p /\ ~Reading(p)
    BY <1>4 DEF SkipUnchanged, On, Reading
  <2>2. ~scan'.reading
    BY <1>4, <2>1, NextPathType DEF SkipUnchanged
  <2>3. /\ g.session = files[p].session /\ g.pending = files[p].pending
        /\ g.offset = files[p].offset /\ g.stat = files[p].stat
    BY ScanTypes DEF FileState
  <2> HIDE DEF g
  <2>4. files \in [Paths -> FileState] /\ files'[p] = g /\ \A q \in Paths \ {p} : files'[q] = files[q]
    BY <2>1, ScanTypes, IndexParts
  <2>5. Only(p, Index, Index')
    BY <2>1, <2>3, <2>4 DEF Only, Index, PrefixInv, NamesInv
  <2>6. ASSUME Sound(p)' PROVE PathInv(p)'
    <3>1. OffsetWhole(p) /\ Remembered(p)
      BY <2>1, <2>6 DEF Sound, PrefixInv, PathInv
    <3> DEFINE v == files[p].stat.text
               n == files[p].offset \div 2
    <3>2. Indexes(Index, p, v, n)
      BY <3>1 DEF Remembered
    <3> HIDE DEF v, n
    <3>3. Indexes(Index', p, v, n)
      <4>1. /\ Index'.files[p].session = Index.files[p].session
            /\ Index'.files[p].pending = Index.files[p].pending
            /\ Index'.sessions = Index.sessions
            /\ Index'.calls = Index.calls /\ Index'.wakes = Index.wakes
        BY <2>1, <2>3, <2>4 DEF Index
      <4> QED  BY <3>2, <4>1, SameIndexed
    <3>4. Remembered(p)' /\ OffsetWhole(p)'
      BY <2>3, <2>4, <3>1, <3>3 DEF Remembered, OffsetWhole, v, n
    <3> QED  BY <2>2, <3>4 DEF PathInv, Reading
  <2> QED  BY <2>1, <2>2, <2>5, <2>6, PrefixOthers
<1> QED
  BY <1>1, <1>2, <1>3, <1>4, PrefixStat, PrefixRead, PrefixFinish, PrefixSweep, PrefixWrite
     DEF Next, Poll, Writers

LEMMA PrefixImplies == ScanInv /\ PrefixInv => IndexIsPrefix
<1> SUFFICES ASSUME ScanInv, PrefixInv, NEW p \in Paths, Sound(p), Consumed(p) > 0
             PROVE  \E v \in Versions : Holds(Index, p, v, Consumed(p))
  BY DEF IndexIsPrefix
<1>1. PathInv(p) /\ scan.pos \in Nat /\ files[p].offset \in Nat
  BY ScanTypes DEF PrefixInv, ScanType
<1>2. CASE Reading(p)
  BY <1>1, <1>2 DEF PathInv, BeingRead, Indexes, Consumed
<1>3. CASE ~Reading(p)
  <2>1. files[p].offset > 0
    BY <1>1, <1>3 DEF Consumed
  <2> QED  BY <1>1, <1>3, <2>1 DEF PathInv, OffsetWhole, Remembered, Indexes, Consumed
<1> QED
  BY <1>2, <1>3

(* However polls, writes, rewrites, deletions and failed reads interleave,  *)
(* the index of every file it knows holds the whole lines it has read of    *)
(* one text of that file, each once and in order, with every result paired  *)
(* with the call that waited for it, in whichever poll that was read: for   *)
(* any number of files, of any length (scan.go, consume, line and           *)
(* teamRoomLine).                                                           *)
THEOREM IndexIsPrefixHolds == Spec => []IndexIsPrefix
<1>1. Init => ScanInv /\ PrefixInv
  BY ScanInit, PrefixInit
<1>2. ScanInv /\ PrefixInv /\ [Next]_vars => (ScanInv /\ PrefixInv)'
  BY ScanStep, PrefixStep
<1> QED
  BY <1>1, <1>2, PrefixImplies, PTL DEF Spec
===========================================================================
