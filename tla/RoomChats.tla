----------------------------- MODULE RoomChats -----------------------------
(***************************************************************************)
(* What the viewer makes of the merged bubbles: threads, the recipients it  *)
(* infers, and the chats it shows (viewer/build.go and group.go).           *)
(***************************************************************************)
EXTENDS RoomMerge

CONSTANTS RefusalWindow, EpisodeGap

ASSUME ChatsAssumption == RefusalWindow \in Nat /\ EpisodeGap \in Nat

VARIABLES
  forest,         (* disjoint sets: of each member, the root of its set      *)
  links,          (* the pairs of members still to be joined                 *)
  thread,         (* of each bubble shown: the bubble that names its thread  *)
  chats           (* the chats, as shown last                                *)

vars == <<said, calls, wakes, updates, ds, stage, forest, links, thread, chats>>

Init ==
  /\ InitMerge
  /\ forest = <<>> /\ links = {}
  /\ thread = <<>>
  /\ chats = [mode |-> "participants", split |-> FALSE, list |-> {}]

-----------------------------------------------------------------------------
(* Disjoint sets (unionFind): the paths to a root, which Go shortens as it  *)
(* goes, are as short as they can be here.                                  *)

Apart(nodes) == [x \in nodes |-> x]

(* Mutant of Joined: only the root itself goes to the other root.           *)
JoinedAlone(x, y) == [forest EXCEPT ![forest[y]] = forest[x]]

Joined(x, y) == [z \in DOMAIN forest |-> IF forest[z] = forest[y] THEN forest[x] ELSE forest[z]]

Join ==
  \E link \in links :
    /\ forest' = Joined(link[1], link[2])
    /\ links' = links \ {link}
    /\ UNCHANGED <<said, calls, wakes, updates, ds, stage, thread, chats>>

-----------------------------------------------------------------------------
(* The messages shown, by time; those of one moment by an arbitrary order   *)
(* of their ids, here the order in which they were made.                    *)
Before(i, j) == Bubble(i).at < Bubble(j).at \/ (Bubble(i).at = Bubble(j).at /\ i < j)
First(S) == CHOOSE i \in S : \A j \in S \ {i} : Before(i, j)

(* The bubble a reply answers, if it can be found: a set of at most one.    *)
Parents(i) == IF Bubble(i).replyTo = 0 THEN {} ELSE Found(Bubble(i).replyTo)

ReplyLinks == {l \in Shown \X Shown : l[2] \in Parents(l[1])}

(* Of what one wake brought a session, everything is linked with the first. *)
Woken(wake, s) == {i \in Shown : Bubble(i).wakeEntry = wake /\ s \in Bubble(i).wokenBy}
BatchLinks ==
  {l \in Shown \X Shown :
     \E s \in Bubble(l[2]).wokenBy : l[1] = First(Woken(Bubble(l[2]).wakeEntry, s))}

LinkThreads ==
  /\ stage = "merge" /\ Merged
  /\ stage' = "linking"
  /\ forest' = Apart({Bubble(i).id : i \in Shown})
  /\ links' = {p \in (DOMAIN forest') \X (DOMAIN forest') :
                 \E l \in ReplyLinks \cup BatchLinks :
                   p[1] # p[2] /\ p = <<Bubble(l[1]).id, Bubble(l[2]).id>>}
  /\ UNCHANGED <<said, calls, wakes, updates, ds, thread, chats>>

(* The first message of a thread names it, not its root.                    *)
NameThreads ==
  /\ stage = "linking" /\ links = {}
  /\ stage' = "threads"
  /\ thread' = [i \in Shown |-> First({j \in Shown : forest[Bubble(j).id] = forest[Bubble(i).id]})]
  /\ UNCHANGED <<said, calls, wakes, updates, ds, forest, links, chats>>

-----------------------------------------------------------------------------
(* A recipient nothing named: who the answered message came from, or the    *)
(* only session it woke.                                                    *)
Inferred(i) ==
  LET b == Bubble(i)
      answered == {p \in Parents(i) : Bubble(p).from # ""}
  IN IF b.to # "" /\ b.toActor \notin {"", "?"} THEN b
     ELSE IF answered # {} THEN
       LET p == CHOOSE p \in answered : TRUE
       IN [b EXCEPT !.to = Bubble(p).from, !.toActor = Bubble(p).fromActor, !.inferred = TRUE]
     ELSE IF Cardinality(b.wokenBy) = 1 THEN
       LET s == CHOOSE s \in b.wokenBy : TRUE
       IN [b EXCEPT !.to = s, !.toActor = LabelOf[s], !.inferred = TRUE]
     ELSE b

InferTargets ==
  /\ stage = "threads"
  /\ stage' = "targets"
  /\ ds' = [ds EXCEPT !.bubbles = [i \in DOMAIN @ |-> IF i \in Shown THEN Inferred(i) ELSE @[i]]]
  /\ UNCHANGED <<said, calls, wakes, updates, forest, links, thread, chats>>

(* A refused reply to nothing the room knows: the one peer of the wake that *)
(* came last before it, if that is one and not long ago.                    *)
Prompts(m) ==
  {w \in Heard :
     /\ said.wakes[w].session = m.from
     /\ said.wakes[w].at <= m.at /\ m.at - said.wakes[w].at <= RefusalWindow}
Peers(w, m) ==
  {Resolve(NameOf[Send(n).from], m.at, m.from) : n \in ToSet(said.wakes[w].of)} \ {""}

(* Mutant of Attributed: the peer is named by its label.                    *)
AttributedByLabel(m) ==
  LET last == {w \in Prompts(m) : \A v \in Prompts(m) : said.wakes[v].at <= said.wakes[w].at}
      peers == IF last = {} THEN {} ELSE Peers(Min(last), m)
  IN IF m.to = "" /\ m.kind \in {"reply", "steer"} /\ Cardinality(peers) = 1
     THEN [m EXCEPT !.to = LabelOf[CHOOSE s \in peers : TRUE], !.inferred = TRUE]
     ELSE m

Attributed(m) ==
  LET last == {w \in Prompts(m) : \A v \in Prompts(m) : said.wakes[v].at <= said.wakes[w].at}
      peers == IF last = {} THEN {} ELSE Peers(Min(last), m)
  IN IF m.to = "" /\ m.kind \in {"reply", "steer"} /\ Cardinality(peers) = 1
     THEN LET s == CHOOSE s \in peers : TRUE
          IN [m EXCEPT !.to = s, !.toActor = LabelOf[s], !.inferred = TRUE]
     ELSE m

(* Sorted by time, those of one moment as they were.                        *)
Stable(order, list) ==
  \A x, y \in DOMAIN order : x < y =>
    \/ list[order[x]].at < list[order[y]].at
    \/ list[order[x]].at = list[order[y]].at /\ order[x] < order[y]

InferRefused ==
  /\ stage = "targets"
  /\ stage' = "refused"
  /\ \E order \in SetToSeqs(DOMAIN ds.rejected) :
       /\ Stable(order, ds.rejected)
       /\ ds' = [ds EXCEPT !.rejected = [x \in DOMAIN @ |-> Attributed(@[order[x]])]]
  /\ UNCHANGED <<said, calls, wakes, updates, forest, links, thread, chats>>

-----------------------------------------------------------------------------
(* Chats: of the messages, and of the refused ones that name a real peer.   *)

(* The refused are numbered after the bubbles.                              *)
Combined ==
  LET after == Len(ds.bubbles)
      refused == {x \in DOMAIN ds.rejected : ds.rejected[x].to # ""}
  IN [x \in Shown \cup {after + y : y \in refused} |->
        IF x \in Shown THEN Bubble(x) ELSE ds.rejected[x - after]]

Actors(m) == {m.fromActor, m.toActor} \ {""}
KeyIn(mode, m) == IF mode = "sessions" THEN {m.from, m.to} ELSE Actors(m)

(* Messages with one key: the first of them stands for the bucket.          *)
Ahead(x, y) == IF {x, y} \subseteq Shown THEN Before(x, y) ELSE x < y
Lead(places) == CHOOSE x \in places : \A y \in places \ {x} : Ahead(x, y)

Buckets(all, mode) ==
  LET Same(x) == {y \in DOMAIN all : KeyIn(mode, all[y]) = KeyIn(mode, all[x])}
      Bucket(places) ==
        [places |-> places, lead |-> Lead(places),
         first |-> Min({all[x].at : x \in places}), last |-> Max({all[x].at : x \in places}),
         actors |-> UNION {Actors(all[x]) : x \in places}]
  IN {Bucket(Same(x)) : x \in DOMAIN all}

(* Mutant of Overlap: a party that paused does not go on.                   *)
OverlapAtOnce(a, b) == a.first <= b.last /\ b.first <= a.last

Overlap(a, b) == a.first <= b.last + EpisodeGap /\ b.first <= a.last + EpisodeGap

(* The measure of Jaccard, at least 0.34.                                   *)
SameParty(a, b) ==
  /\ a.actors \cup b.actors # {}
  /\ 100 * Cardinality(a.actors \cap b.actors) >= 34 * Cardinality(a.actors \cup b.actors)

(* Go tries the pairs again while a pass joined some; what joins two does   *)
(* not change meanwhile, so the first pass joins them all.                  *)
GroupChats(mode, split) ==
  LET buckets == Buckets(Combined, mode)
  IN /\ stage = "refused"
     /\ stage' = "joining"
     /\ chats' = [mode |-> mode, split |-> split, list |-> {}]
     /\ forest' = Apart({b.lead : b \in buckets})
     /\ links' = {<<p[1].lead, p[2].lead>> : p \in {q \in buckets \X buckets :
                    q[1].lead < q[2].lead /\ Overlap(q[1], q[2]) /\ SameParty(q[1], q[2])}}
     /\ UNCHANGED <<said, calls, wakes, updates, ds, thread>>

Parties(buckets) ==
  {{b \in buckets : forest[b.lead] = forest[a.lead]} : a \in buckets}

(* Of the messages of merged buckets, the first in time, and the episode of *)
(* each: how often the party was silent for longer than the gap before it.  *)
Opening(all, group, places) ==
  LET Of(x) == (CHOOSE b \in group : x \in b.places).lead
      Sooner(x, y) ==
        \/ all[x].at < all[y].at
        \/ all[x].at = all[y].at /\ (Ahead(Of(x), Of(y)) \/ (Of(x) = Of(y) /\ Ahead(x, y)))
  IN CHOOSE x \in places : \A y \in places \ {x} : Sooner(x, y)

Episode(all, places, x) ==
  LET times == {all[y].at : y \in places}
      Resumes(t) == \E s \in times : s < t /\ t - Max({u \in times : u < t}) > EpisodeGap
  IN 1 + Cardinality({t \in times : t <= all[x].at /\ Resumes(t)})

(* One chat of a merged party, or one of each of its episodes.              *)
ChatsOf(all, group, split) ==
  LET party == UNION {b.places : b \in group}
      actors == UNION {b.actors : b \in group}
      Chat(places, episode) ==
        [id |-> <<actors, all[Opening(all, group, places)].id, episode>>, nth |-> 0,
         places |-> places, last |-> Max({all[x].at : x \in places})]
      Of(e) == {x \in party : Episode(all, party, x) = e}
  IN IF split THEN {Chat(Of(e), e) : e \in {Episode(all, party, x) : x \in party}}
     ELSE {Chat(party, -1)}

(* Chats with one id are told apart by a count, the latest of them first.   *)
UniqueIDs(list) ==
  LET Sooner(c, d) == c.last > d.last \/ (c.last = d.last /\ Min(c.places) < Min(d.places))
  IN {[c EXCEPT !.nth = Cardinality({d \in list : d.id = c.id /\ Sooner(d, c)})] : c \in list}

(* buildChats, before a page's filters and its limit.                       *)
BuildChats ==
  /\ stage = "joining" /\ links = {}
  /\ stage' = "shown"
  /\ LET all == Combined
     IN chats' = [chats EXCEPT !.list =
          UniqueIDs(UNION {ChatsOf(all, group, chats.split) :
                             group \in Parties(Buckets(all, chats.mode))})]
  /\ UNCHANGED <<said, calls, wakes, updates, ds, forest, links, thread>>

Next ==
  \/ NextMerge /\ UNCHANGED <<forest, links, thread, chats>>
  \/ Join
  \/ LinkThreads \/ NameThreads \/ InferTargets \/ InferRefused
  \/ \E mode \in {"participants", "sessions"}, split \in BOOLEAN : GroupChats(mode, split)
  \/ BuildChats

Spec == Init /\ [][Next]_vars

-----------------------------------------------------------------------------
Ids == (UNION {{<<"room", "", n, 0>>, <<"short", "", n, 0>>, CallKey(n),
                <<"rejected", Send(n).from, Send(n).entry, 0>>} : n \in Sends})
       \cup UNION {{WakeKey(w, k) : k \in DOMAIN said.wakes[w].of} : w \in DOMAIN said.wakes}

(* A session field holds a session or nothing, never an actor's label       *)
(* (unit_test.go:469-471).                                                  *)
MessageOK(m) ==
  /\ m.id \in Ids /\ m.to \in Sessions \cup {""} /\ m.from \in Sessions \cup {""}
  /\ m.toActor \in Range(LabelOf) \cup Range(ActorNamed) \cup {"", "?"}
  /\ m.wokenBy \subseteq Sessions /\ m.wakeCount \in Nat /\ m.inferred \in BOOLEAN

TypeOK ==
  /\ stage \in {"merge", "linking", "threads", "targets", "refused", "joining", "shown"}
  /\ ToSet(calls) \subseteq Sends
  /\ DOMAIN ds.keys \subseteq Ids /\ Shown \subseteq DOMAIN ds.bubbles
  /\ \A m \in Range(ds.bubbles) \cup Range(ds.rejected) : MessageOK(m)
  /\ forest \in [DOMAIN forest -> DOMAIN forest] /\ links \subseteq (DOMAIN forest) \X (DOMAIN forest)
  /\ stage \notin {"merge", "linking"} => thread \in [Shown -> Shown]

(* What a chain of links leads to from x: every set with x in it that no    *)
(* link leaves has it too.                                                  *)
Chain(x, nodes, linked) ==
  {y \in nodes : \A S \in SUBSET nodes :
     x \in S /\ (\A l \in linked : l[1] \in S <=> l[2] \in S) => y \in S}

(* Two messages are in one thread just if a chain of replies and of common  *)
(* first deliveries leads from one to the other, however the joins are      *)
(* ordered, and the thread is named by its first message, so that it is the *)
(* same after every rebuild (linkThreads; build.go:841-842).  A delivery    *)
(* that was not a message's first links nothing: see BatchesAreExchanges.   *)
Exchanging ==
  {l \in Shown \X Shown :
     \/ l[2] \in Parents(l[1])
     \/ Bubble(l[1]).id = Bubble(l[2]).id
     \/ /\ Bubble(l[1]).wakeEntry = Bubble(l[2]).wakeEntry
        /\ Bubble(l[1]).wokenBy \cap Bubble(l[2]).wokenBy # {}}
ThreadsAreExchanges ==
  stage = "threads" =>
    \A i \in Shown :
      LET exchange == Chain(i, Shown, Exchanging)
      IN /\ exchange = {j \in Shown : thread[j] = thread[i]}
         /\ thread[i] \in exchange
         /\ \A j \in exchange : Bubble(thread[i]).at <= Bubble(j).at

(* "a batch of messages that woke one session together is one exchange"     *)
(* (build.go:813-814, and again at 828): what came in one wake is in one    *)
(* thread.  Not so if one of the messages had been delivered before.        *)
BatchesAreExchanges ==
  stage = "threads" =>
    \A w \in Heard : \A k, l \in DOMAIN said.wakes[w].of :
      \A i \in On(<<"wake", w, k>>), j \in On(<<"wake", w, l>>) : thread[i] = thread[j]

(* Every message is in exactly one chat: two are in one just if a chain of  *)
(* overlapping parties that share their actors joins them and, where chats  *)
(* are split, no silence longer than the gap parts them; and no two chats   *)
(* have one id, so that a link leads to the chat it was made for            *)
(* (group.go, buildChats and uniqueChatIDs).                                *)
Meeting(buckets) ==
  {l \in buckets \X buckets : /\ SameParty(l[1], l[2])
                              /\ l[1].first - l[2].last <= EpisodeGap
                              /\ l[2].first - l[1].last <= EpisodeGap}
Party(all, buckets, x) ==
  LET home == CHOOSE b \in buckets : x \in b.places
  IN UNION {b.places : b \in Chain(home, buckets, Meeting(buckets))}
Episodes(all, party, x) ==
  Chain(x, party, {l \in party \X party : Within(all[l[1]].at, all[l[2]].at, EpisodeGap)})
ChatsAreComponents ==
  stage = "shown" =>
    LET all == Combined
        buckets == Buckets(all, chats.mode)
    IN /\ \A x \in DOMAIN all :
            \E c \in chats.list :
              LET party == Party(all, buckets, x)
              IN /\ {d \in chats.list : x \in d.places} = {c}
                 /\ c.places = IF chats.split THEN Episodes(all, party, x) ELSE party
       /\ \A c, d \in chats.list : c.id = d.id /\ c.nth = d.nth => c = d
=============================================================================
