----------------------------- MODULE RoomMerge -----------------------------
(***************************************************************************)
(* How the viewer merges what is left of a message into one bubble          *)
(* (viewer/build.go): the room's record, the call in the sender's           *)
(* transcript and the wakes in the recipient's, each of which may be gone,  *)
(* and of which only some name the message they are about.                  *)
(*                                                                         *)
(* A history is what really happened and what of it is still on disk.  Go   *)
(* visits a map in any order, so where the code takes the best of several   *)
(* candidates, any of the best may be taken.                                *)
(*                                                                         *)
(* A send is its number in the history; so is its id, which a record may    *)
(* quote in full or by its first eight characters (build.go, findReply:     *)
(* shorter prefixes are left out).  Times are numbers, 0 is no time.        *)
(***************************************************************************)
EXTENDS Integers, SequencesExt

CONSTANTS
  Histories,      (* what happened, [sends, wakes], and what of it is left:  *)
                  (* kept by the room, quoted by a confirmation, indexed (of *)
                  (* the sessions), named by its wake                        *)
  LabelOf,        (* of each session: the actor label it is shown under      *)
  NameOf,         (* of each session: the name the room knows it by          *)
  ActorNamed,     (* of each name an agent may type: the label it stands for *)
  Answering,      (* of each name: the sessions it may mean, in order        *)
  Life,           (* of each session: [started, last]                        *)
  LongTexts,      (* the texts long enough to be recognised in a wake        *)
  CallWindow, FeedWindow, WakeEarly, WakeNear, WakeFar, AliveFor

Sessions == DOMAIN LabelOf
Direct == {"ask", "reply", "delegate", "steer"}

ASSUME MergeAssumption ==
  /\ DOMAIN Life = Sessions /\ DOMAIN Answering = DOMAIN ActorNamed
  /\ NameOf \in [Sessions -> DOMAIN Answering]
  /\ \A name \in DOMAIN Answering : Answering[name] \in Seq(Sessions)
  /\ {CallWindow, FeedWindow, WakeEarly, WakeNear, WakeFar, AliveFor} \subseteq Nat

(* An entry of a transcript and a time are never 0, which says there is     *)
(* none.  A record, a confirmation or a wake is of a message that was sent, *)
(* and only a session that is still indexed can quote what it was told.     *)
ASSUME HistoriesAssumption ==
  \A h \in Histories :
    LET messages == {n \in DOMAIN h.sends : ~h.sends[n].refused /\ h.sends[n].kind \in Direct}
    IN /\ h.sends \in Seq(Range(h.sends)) /\ h.wakes \in Seq(Range(h.wakes))
       /\ \A s \in Range(h.sends) :
            /\ s.from \in Sessions /\ s.name \in DOMAIN ActorNamed \cup {""}
            /\ s.kind \in Direct => s.to \in Sessions
            /\ s.refused \in BOOLEAN /\ s.parent \in Nat
            /\ {s.at, s.made, s.entry} \subseteq Nat \ {0}
       /\ \A w \in Range(h.wakes) :
            w.session \in Sessions /\ w.of \in Seq(messages) /\ w.at \in Nat \ {0}
       /\ h.kept \subseteq DOMAIN h.sends /\ \A n \in h.kept : ~h.sends[n].refused
       /\ h.quoted \subseteq messages
       /\ \A n \in h.quoted : h.sends[n].from \in h.indexed

VARIABLES
  said,           (* the history                                             *)
  calls, wakes,   (* the calls and the wakes' messages still to be merged    *)
  updates,        (* the room's updates still to be looked for on the feed   *)
  ds,             (* [bubbles, keys, rejected, feed]                         *)
  stage           (* how far the page has come since                         *)

mergeVars == <<said, calls, wakes, updates, ds, stage>>

Send(n) == said.sends[n]
Sends == DOMAIN said.sends
IsDirect(n) == Send(n).kind \in Direct
Within(s, t, window) == s - t <= window /\ t - s <= window

-----------------------------------------------------------------------------
(* The data set: bubbles in the order they were made, and the keys by which *)
(* they are found.  Only what has a key is shown.                           *)

FullKey(n) == <<"room", "", n, 0>>
ShortKey(n) == <<"short", "", n, 0>>
CallKey(n) == <<"call", Send(n).from, Send(n).entry, 0>>
WakeKey(w, k) == <<"wake", said.wakes[w].session, w, k>>

Shown == Range(ds.keys)
Bubble(i) == ds.bubbles[i]

SetKey(keys, key, i) == [k \in DOMAIN keys \cup {key} |-> IF k = key THEN i ELSE keys[k]]
AddKey(keys, key, i) == IF key \in DOMAIN keys THEN keys ELSE SetKey(keys, key, i)

Put(d, b) ==
  LET i == Len(d.bubbles) + 1
      keys == SetKey(d.keys, b.id, i)
  IN [d EXCEPT !.bubbles = Append(@, b),
               !.keys = IF b.short = 0 THEN keys ELSE AddKey(keys, ShortKey(b.short), i)]

(* The id a wake gave is a fact only it knows.                              *)
Register(d, n, i) == [d EXCEPT !.keys = AddKey(AddKey(@, FullKey(n), i), ShortKey(n), i)]

Found(n) ==
  {ds.keys[key] : key \in {FullKey(n)} \cap DOMAIN ds.keys}
  \cup {ds.keys[key] : key \in IF FullKey(n) \in DOMAIN ds.keys THEN {}
                               ELSE {ShortKey(n)} \cap DOMAIN ds.keys}

-----------------------------------------------------------------------------
(* Who a name means: of the sessions that answer to it, but for the sender, *)
(* the first of those most likely to have been there.                       *)

Likely(s, at) ==
  IF Life[s].started <= at /\ at < Life[s].last + AliveFor THEN 3
  ELSE IF Life[s].last < at THEN 1 ELSE 0

Resolve(name, at, sender) ==
  LET score == [i \in DOMAIN Answering[name] |-> Likely(Answering[name][i], at)]
      others == {i \in DOMAIN score : Answering[name][i] # sender}
      best == {i \in others : \A j \in others : score[i] >= score[j]}
  IN IF best = {} THEN "" ELSE Answering[name][Min(best)]

(* An agent that replies names nobody.                                      *)
Target(n) == IF Send(n).name = "" THEN "" ELSE Resolve(Send(n).name, Send(n).at, Send(n).from)
TargetLabel(n, unnamed) ==
  IF Target(n) # "" THEN LabelOf[Target(n)]
  ELSE IF Send(n).name # "" THEN ActorNamed[Send(n).name] ELSE unnamed

-----------------------------------------------------------------------------
FromRoom(n) ==
  [id |-> FullKey(n), short |-> n, kind |-> Send(n).kind,
   from |-> Send(n).from, fromActor |-> LabelOf[Send(n).from],
   to |-> Send(n).to, toActor |-> LabelOf[Send(n).to],
   texts |-> {Send(n).text}, replyTo |-> Send(n).parent, at |-> Send(n).made,
   entry |-> 0, wokenBy |-> {}, wakeEntry |-> 0, wakeCount |-> 0, inferred |-> FALSE,
   evidence |-> {<<"room", n>>}]

FromCall(n, quoted) ==
  [FromRoom(n) EXCEPT !.id = CallKey(n), !.short = IF quoted THEN n ELSE 0,
                      !.to = Target(n), !.toActor = TargetLabel(n, "?"),
                      !.at = Send(n).at, !.evidence = {}]

(* What a recipient alone knows of a message: when it came, and the text of *)
(* everything that came with it.                                            *)
Body(w) == {Send(n).text : n \in ToSet(said.wakes[w].of)}
FromWake(w, k) ==
  LET n == said.wakes[w].of[k]
      s == said.wakes[w].session
  IN [FromRoom(n) EXCEPT !.id = WakeKey(w, k), !.short = 0, !.from = "", !.to = s,
                         !.toActor = LabelOf[s], !.texts = Body(w), !.replyTo = 0,
                         !.at = said.wakes[w].at, !.evidence = {}]

-----------------------------------------------------------------------------
(* The calls and the wakes come in the order of each session's transcript.  *)

Indexed(n) == Send(n).from \in said.indexed
Heard == {w \in DOMAIN said.wakes : said.wakes[w].session \in said.indexed}

Slots == UNION {{w} \X DOMAIN said.wakes[w].of : w \in Heard}

KeptSends == {n \in said.kept : IsDirect(n)}
KeptUpdates == {n \in said.kept : ~IsDirect(n)}

InTurn(order) == \A i, j \in DOMAIN order : i < j => order[i] < order[j]

CallsInTurn(order) ==
  \A i, j \in DOMAIN order :
    i < j /\ Send(order[i]).from = Send(order[j]).from => order[i] < order[j]

(* What one wake brought is merged at once.                                 *)
WakesInTurn(order) ==
  \A i, j \in DOMAIN order : i < j =>
    LET v == order[i][1]
        w == order[j][1]
    IN /\ v # w /\ said.wakes[v].session = said.wakes[w].session => v < w
       /\ v = w => order[i][2] < order[j][2] /\ \A k \in i..j : order[k][1] = v

(* The room's records, under their ids and the ids' first characters.       *)
FromRecords(order) ==
  [bubbles |-> [i \in DOMAIN order |-> FromRoom(order[i])],
   keys |-> [key \in UNION {{FullKey(n), ShortKey(n)} : n \in Range(order)} |->
               CHOOSE i \in DOMAIN order : order[i] = key[3]],
   rejected |-> <<>>, feed |-> <<>>]

InitMerge ==
  /\ said \in Histories
  /\ calls \in SetToSeqs({n \in Sends : Indexed(n)}) /\ CallsInTurn(calls)
  /\ wakes \in SetToSeqs(Slots) /\ WakesInTurn(wakes)
  /\ updates \in SetToSeqs(KeptUpdates) /\ InTurn(updates)
  /\ \E order \in SetToSeqs(KeptSends) : InTurn(order) /\ ds = FromRecords(order)
  /\ stage = "merge"

Taking(n) == calls # <<>> /\ n = Head(calls) /\ calls' = Tail(calls)

(* The room refused it: it is no message, but it was said.                  *)
RejectCall(n) ==
  /\ Taking(n) /\ Send(n).refused
  /\ ds' = [ds EXCEPT !.rejected = Append(@, [FromCall(n, FALSE) EXCEPT
                !.id = <<"rejected", Send(n).from, Send(n).entry, 0>>,
                !.toActor = TargetLabel(n, ""), !.evidence = {<<"call", n>>}])]
  /\ UNCHANGED <<said, wakes, updates, stage>>

(* Mutant of LooksLike: a bubble may take a second call.                    *)
LooksLikeAny(i, n) ==
  LET b == Bubble(i)
  IN /\ b.kind = Send(n).kind
     /\ b.from = Send(n).from \/ b.fromActor = LabelOf[Send(n).from]
     /\ Within(b.at, Send(n).at, CallWindow)
     /\ b.texts = {Send(n).text}

LooksLike(i, n) ==
  LET b == Bubble(i)
  IN /\ b.entry = 0
     /\ b.kind = Send(n).kind
     /\ b.from = Send(n).from \/ b.fromActor = LabelOf[Send(n).from]
     /\ Within(b.at, Send(n).at, CallWindow)
     /\ b.texts = {Send(n).text}

(* Mutant of MatchCall: looks decide before ids.                            *)
MatchCallByLooks(n) ==
  LET alike == {i \in Shown : LooksLike(i, n)}
      Far(i) == IF Bubble(i).at < Send(n).at THEN Send(n).at - Bubble(i).at
                ELSE Bubble(i).at - Send(n).at
  IN {i \in alike : \A j \in alike : Far(i) <= Far(j)}

(* The bubbles a call may be taken for: the room's record of the id it      *)
(* quotes, or else the nearest in time of those that look like it.          *)
MatchCall(n) ==
  LET known == {i \in DOMAIN ds.bubbles : n \in said.quoted \cap said.kept
                                           /\ i = ds.keys[FullKey(n)] /\ Bubble(i).entry = 0}
      alike == {i \in Shown : LooksLike(i, n)}
      Far(i) == IF Bubble(i).at < Send(n).at THEN Send(n).at - Bubble(i).at
                ELSE Bubble(i).at - Send(n).at
  IN IF known # {} THEN known ELSE {i \in alike : \A j \in alike : Far(i) <= Far(j)}

AttachCall(b, n) ==
  LET to == IF b.to = "" THEN Target(n) ELSE b.to
  IN [b EXCEPT !.entry = Send(n).entry,
               !.short = IF @ = 0 /\ n \in said.quoted THEN n ELSE @,
               !.to = to,
               !.toActor = IF @ \notin {"", "?"} THEN @
                           ELSE IF to # "" THEN LabelOf[to]
                           ELSE IF Send(n).name # "" THEN ActorNamed[Send(n).name] ELSE @,
               !.replyTo = IF @ = 0 THEN Send(n).parent ELSE @,
               !.evidence = @ \cup {<<"call", n>>}]

TakeCall(n) ==
  /\ Taking(n) /\ ~Send(n).refused /\ IsDirect(n)
  /\ \/ \E i \in MatchCall(n) : ds' = [ds EXCEPT !.bubbles[i] = AttachCall(@, n)]
     \/ /\ MatchCall(n) = {}
        /\ ds' = Put(ds, AttachCall(FromCall(n, n \in said.quoted), n))
  /\ UNCHANGED <<said, wakes, updates, stage>>

(* Shared with everyone.                                                    *)
FeedItem(n, by) ==
  [from |-> Send(n).from, text |-> Send(n).text,
   at |-> IF by = "call" THEN Send(n).at ELSE Send(n).made, evidence |-> {<<by, n>>}]

(* What says nothing, such as a checkpoint that is only looked at, is left  *)
(* out.                                                                     *)
ShareCall(n) ==
  /\ Taking(n) /\ ~Send(n).refused /\ ~IsDirect(n)
  /\ ds' = IF Send(n).text = "" THEN ds
           ELSE [ds EXCEPT !.feed = Append(@, FeedItem(n, "call"))]
  /\ UNCHANGED <<said, wakes, updates, stage>>

-----------------------------------------------------------------------------
(* The wakes, one message of one wake at a time.                            *)

(* A bubble that no wake has reached, of the kind and the sender the wake   *)
(* names: one that went to this session about then, or else one whose text  *)
(* is in the wake.                                                          *)
Reachable(i, w, k) ==
  LET b == Bubble(i)
      n == said.wakes[w].of[k]
      at == said.wakes[w].at
  IN /\ b.wakeCount = 0
     /\ b.at <= at + WakeEarly /\ at - WakeFar <= b.at
     /\ b.kind = Send(n).kind
     /\ b.fromActor = LabelOf[Send(n).from]

Latest(S) == {i \in S : \A j \in S : Bubble(j).at <= Bubble(i).at}

MatchWake(w, k) ==
  LET reachable == {i \in Shown : Reachable(i, w, k)}
      near == {i \in reachable : /\ Bubble(i).to = said.wakes[w].session
                                 /\ Within(Bubble(i).at, said.wakes[w].at, WakeNear)}
      told == {i \in reachable \ near : Bubble(i).texts \subseteq Body(w) \cap LongTexts}
  IN IF near # {} THEN Latest(near) ELSE Latest(told)

RecordWake(b, w, k) ==
  [b EXCEPT !.wakeEntry = IF @ = 0 THEN w ELSE @,
            !.wokenBy = @ \cup {said.wakes[w].session},
            !.wakeCount = @ + 1,
            !.evidence = @ \cup {<<"wake", w, k>>}]

TakeWake(w, k) ==
  LET n == said.wakes[w].of[k]
      candidates == IF Found(n) # {} THEN Found(n) ELSE MatchWake(w, k)
  IN /\ calls = <<>> /\ wakes # <<>> /\ <<w, k>> = Head(wakes) /\ w \in said.named
     /\ wakes' = Tail(wakes)
     /\ \/ \E i \in candidates :
             ds' = Register([ds EXCEPT !.bubbles[i] = RecordWake(@, w, k)], n, i)
        \/ /\ candidates = {}
           /\ ds' = Put(ds, RecordWake(FromWake(w, k), w, k))
     /\ UNCHANGED <<said, calls, updates, stage>>

(* A wake that names no message stands for itself.                          *)
TakeNamelessWake(w, k) ==
  /\ calls = <<>> /\ wakes # <<>> /\ <<w, k>> = Head(wakes) /\ w \notin said.named
  /\ wakes' = Tail(wakes)
  /\ ds' = Put(ds, RecordWake(FromWake(w, k), w, k))
  /\ UNCHANGED <<said, calls, updates, stage>>

-----------------------------------------------------------------------------
(* Updates of the room that no call on the feed accounts for.               *)
MatchedBroadcast(feed, n) ==
  \E i \in DOMAIN feed :
    /\ feed[i].from = Send(n).from /\ feed[i].text = Send(n).text
    /\ Within(feed[i].at, Send(n).made, FeedWindow)

AddUpdate(n) ==
  /\ calls = <<>> /\ wakes = <<>> /\ updates # <<>> /\ n = Head(updates)
  /\ updates' = Tail(updates)
  /\ ds' = IF MatchedBroadcast(ds.feed, n) THEN ds
           ELSE [ds EXCEPT !.feed = Append(@, FeedItem(n, "room"))]
  /\ UNCHANGED <<said, calls, wakes, stage>>

Merged == calls = <<>> /\ wakes = <<>> /\ updates = <<>>

NextMerge ==
  \/ \E n \in Sends : RejectCall(n) \/ TakeCall(n) \/ ShareCall(n)
  \/ \E w \in DOMAIN said.wakes : \E k \in DOMAIN said.wakes[w].of :
       TakeWake(w, k) \/ TakeNamelessWake(w, k)
  \/ \E n \in Sends : AddUpdate(n)

-----------------------------------------------------------------------------
(* Nothing that is left of a message is dropped, nor counted twice: every   *)
(* record, call and wake the merge has taken is on exactly one bubble that  *)
(* is shown, on which no other call is, and a bubble counts the wakes it    *)
(* has (viewer/README.md:16-18).  But of two calls in one entry of a        *)
(* transcript, neither of which the room knows, the last is shown alone,    *)
(* and a call to everyone that says nothing is not shown.                   *)
Evidence(i) == Bubble(i).evidence
On(e) == {i \in Shown : e \in Evidence(i)}
Overwritten(n) ==
  \E m \in Sends \ {n} : CallKey(m) = CallKey(n) /\ On(<<"call", m>>) # {}
Taken(n) == Indexed(n) /\ n \notin ToSet(calls)

EvidenceKept ==
  /\ \A n \in KeptSends : Cardinality(On(<<"room", n>>)) = 1
  /\ \A n \in Sends : Taken(n) =>
       IF Send(n).refused THEN \E i \in DOMAIN ds.rejected : <<"call", n>> \in ds.rejected[i].evidence
       ELSE IF ~IsDirect(n) THEN
         Send(n).text = "" \/ \E i \in DOMAIN ds.feed : <<"call", n>> \in ds.feed[i].evidence
       ELSE Cardinality(On(<<"call", n>>)) = 1 \/ Overwritten(n)
  /\ \A w \in Heard : \A k \in DOMAIN said.wakes[w].of :
       <<w, k>> \notin ToSet(wakes) => Cardinality(On(<<"wake", w, k>>)) = 1
  /\ \A i \in Shown :
       /\ Cardinality({e \in Evidence(i) : e[1] = "call"}) <= 1
       /\ Bubble(i).wakeCount = Cardinality({e \in Evidence(i) : e[1] = "wake"})
  /\ \A n \in KeptUpdates \ ToSet(updates) : MatchedBroadcast(ds.feed, n)

(* Where the room has a message, its record decides: what quotes the id of  *)
(* a message is on the bubble of its record, whatever else was sent and in  *)
(* whatever order it is merged (build.go:292-293, matchCall).  The viewer   *)
(* can only be misled by a call that says the same and that it cannot       *)
(* match by its id.                                                         *)
Alike(m, n) ==
  /\ Send(m).kind = Send(n).kind /\ LabelOf[Send(m).from] = LabelOf[Send(n).from]
  /\ Send(m).text = Send(n).text
Misled(n) == \E m \in Sends \ {n} : Alike(m, n) /\ m \notin said.quoted \cap said.kept
RoomRecordWins ==
  \A n \in KeptSends : ~Misled(n) =>
    /\ n \in said.quoted => On(<<"call", n>>) \subseteq On(<<"room", n>>)
    /\ \A w \in said.named : \A k \in DOMAIN said.wakes[w].of :
         said.wakes[w].of[k] = n => On(<<"wake", w, k>>) \subseteq On(<<"room", n>>)
=============================================================================
