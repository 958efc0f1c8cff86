--------------------------- MODULE RoomChatsProofs ---------------------------
(***************************************************************************)
(* What the viewer makes of the room, for any history and whatever is left *)
(* of it: no record, call or wake is lost or counted twice, what quotes an *)
(* id is on its record, threads are chains of replies and deliveries, and  *)
(* chats are chains of parties that meet, or of messages near each other.  *)
(***************************************************************************)
EXTENDS RoomChats, FiniteSetTheorems, SequenceTheorems, WellFoundedInduction, TLAPS

-----------------------------------------------------------------------------
(* Sets of numbers have a least, sets listed without repetition are listed  *)
(* whole.                                                                   *)

LEMMA MinIsLeast ==
  ASSUME NEW S \in SUBSET Nat, S # {}
  PROVE  Min(S) \in S /\ \A x \in S : Min(S) <= x
<1>1. PICK m \in S : \A x \in S : ~(<<x, m>> \in OpToRel(<, Nat))
  BY NatLessThanWellFounded, WFMin
<1>2. \A x \in S : ~(x < m)
  BY <1>1 DEF OpToRel
<1>3. \E x \in S : \A y \in S : x <= y
  BY <1>2
<1> QED
  BY <1>3, Zenon DEF Min

(* A finite set has a greatest: with its members counted, take the fewest   *)
(* of the last that can be left out for one to be above the others.         *)
LEMMA MaxIsGreatest ==
  ASSUME NEW S \in SUBSET Nat, IsFiniteSet(S), S # {}
  PROVE  Max(S) \in S /\ \A x \in S : x <= Max(S)
<1>1. PICK n \in Nat : ExistsBijection(1..n, S)
  BY FS_NatBijection
<1>2. PICK f : f \in Bijection(1..n, S)
  BY <1>1 DEF ExistsBijection
<1>3. f \in [1..n -> S] /\ \A x \in S : \E i \in 1..n : f[i] = x
  BY <1>2 DEF Bijection, Surjection, Injection
<1> DEFINE above == {k \in 0..n : \E m \in S : \A i \in 1..n : i <= n - k => f[i] <= m}
<1>4. above \in SUBSET Nat /\ n \in above
  <2>1. \A i \in 1..n : ~(i <= n - n)
    OBVIOUS
  <2>2. \E m \in S : \A i \in 1..n : i <= n - n => f[i] <= m
    BY <2>1
  <2>3. n \in 0..n /\ above \subseteq Nat
    OBVIOUS
  <2> QED
    BY <2>2, <2>3
<1>5. Min(above) \in above /\ \A k \in above : Min(above) <= k
  BY <1>4, MinIsLeast
<1>6. PICK m \in S : \A i \in 1..n : i <= n - Min(above) => f[i] <= m
  BY <1>5
<1>7. Min(above) = 0
  <2> SUFFICES ASSUME Min(above) # 0 PROVE FALSE
    OBVIOUS
  <2> DEFINE k == Min(above) - 1
  <2>1. k \in 0..n /\ n - k \in 1..n /\ n - k = n - Min(above) + 1 /\ n \in Nat
    BY <1>5
  <2>2. f[n - k] \in S /\ S \subseteq Nat
    BY <1>3, <2>1
  <2> DEFINE g == IF f[n - k] <= m THEN m ELSE f[n - k]
  <2> HIDE DEF k
  <2>5. g \in S /\ f[n - k] <= g /\ \A t \in Nat : t <= m => t <= g
    <3>1. m \in Nat /\ f[n - k] \in Nat
      BY <2>2
    <3> QED
      BY <2>2, <3>1
  <2> HIDE DEF g
  <2>3. \A i \in 1..n : i <= n - k => f[i] <= g
    <3> SUFFICES ASSUME NEW i \in 1..n, i <= n - k PROVE f[i] <= g
      OBVIOUS
    <3>1. CASE i = n - k
      BY <2>5, <3>1
    <3>2. CASE i <= n - Min(above)
      <4>1. f[i] <= m /\ f[i] \in Nat
        BY <1>3, <1>6, <3>2
      <4> QED
        BY <2>5, <4>1
    <3> QED
      BY <1>5, <2>1, <3>1, <3>2
  <2>4. k \in above
    BY <2>1, <2>3, <2>5
  <2> QED
    BY <1>5, <2>1, <2>4 DEF k
<1>8. \A x \in S : x <= m
  <2> SUFFICES ASSUME NEW x \in S PROVE x <= m
    OBVIOUS
  <2>1. PICK i \in 1..n : f[i] = x
    BY <1>3
  <2> QED
    BY <1>1, <1>6, <1>7, <2>1
<1>9. \E x \in S : \A y \in S : x >= y
  BY <1>8
<1>10. Max(S) \in S /\ \A y \in S : Max(S) >= y
  BY <1>9, Zenon DEF Max
<1> QED
  BY <1>10

LEMMA ImageIsFinite ==
  ASSUME NEW S, IsFiniteSet(S), NEW f, DOMAIN f = S
  PROVE  IsFiniteSet({f[x] : x \in S})
<1> DEFINE T == {f[x] : x \in S}
           g == [x \in S |-> f[x]]
<1>1. g \in Surjection(S, T)
  BY DEF Surjection
<1> QED
  BY <1>1, FS_Surjection

LEMMA ListsAll ==
  ASSUME NEW S, IsFiniteSet(S), NEW list \in SetToSeqs(S)
  PROVE  /\ list \in Seq(S) /\ DOMAIN list = 1..Cardinality(S)
         /\ \A i, j \in DOMAIN list : list[i] = list[j] => i = j
         /\ Range(list) = S /\ ToSet(list) = S
<1>1. Cardinality(S) \in Nat
  BY FS_CardinalityType
<1>2. /\ list \in [1..Cardinality(S) -> S]
      /\ \A i, j \in 1..Cardinality(S) : i # j => list[i] # list[j]
  BY DEF SetToSeqs
<1>3. list \in Injection(1..Cardinality(S), S)
  BY <1>2 DEF Injection, IsInjective
<1>4. Cardinality(1..Cardinality(S)) = Cardinality(S)
  BY <1>1, FS_Interval
<1>5. list \in Surjection(1..Cardinality(S), S)
  BY <1>3, <1>4, FS_Injection
<1>6. Range(list) = S
  BY <1>2, <1>5 DEF Surjection, Range
<1>7. ToSet(list) = S
  BY <1>6 DEF ToSet, Range
<1> QED
  BY <1>1, <1>2, <1>6, <1>7

LEMMA Lists ==
  ASSUME NEW S, NEW list \in Seq(S)
  PROVE  /\ DOMAIN list = 1..Len(list) /\ Len(list) \in Nat
         /\ DOMAIN list \subseteq Nat \ {0} /\ IsFiniteSet(DOMAIN list)
         /\ \A i \in DOMAIN list : list[i] \in S
         /\ ToSet(list) \subseteq S
<1>1. DOMAIN list = 1..Len(list) /\ Len(list) \in Nat /\ \A i \in DOMAIN list : list[i] \in S
  OBVIOUS
<1>2. IsFiniteSet(1..Len(list))
  BY <1>1, FS_Interval
<1> QED
  BY <1>1, <1>2 DEF ToSet

(* What is taken from a list of different things is not in what is left.    *)
Distinct(list) == \A i, j \in DOMAIN list : list[i] = list[j] => i = j

LEMMA TakenOff ==
  ASSUME NEW S, NEW list \in Seq(S), list # <<>>, Distinct(list)
  PROVE  /\ Head(list) \in S /\ Tail(list) \in Seq(S) /\ Distinct(Tail(list))
         /\ ToSet(Tail(list)) = ToSet(list) \ {Head(list)}
         /\ Head(list) \in ToSet(list)
<1>1. /\ Tail(list) \in Seq(S) /\ Head(list) \in S
      /\ Len(Tail(list)) = Len(list) - 1 /\ Len(list) \in Nat \ {0}
      /\ \A i \in 1..Len(Tail(list)) : Tail(list)[i] = list[i + 1]
  BY HeadTailProperties
<1>2. /\ DOMAIN Tail(list) = 1..(Len(list) - 1) /\ DOMAIN list = 1..Len(list)
      /\ Head(list) = list[1]
  BY <1>1
<1>3. Distinct(Tail(list))
  BY <1>1, <1>2 DEF Distinct
<1>4. ASSUME NEW x \in ToSet(Tail(list))
      PROVE  x \in ToSet(list) /\ x # Head(list)
  <2>1. PICK i \in 1..(Len(list) - 1) : x = Tail(list)[i]
    BY <1>2 DEF ToSet
  <2>2. x = list[i + 1] /\ i + 1 \in DOMAIN list /\ i + 1 # 1 /\ 1 \in DOMAIN list
    BY <1>1, <1>2, <2>1
  <2> QED
    BY <1>2, <2>2 DEF ToSet, Distinct
<1>5. ASSUME NEW x \in ToSet(list), x # Head(list)
      PROVE  x \in ToSet(Tail(list))
  <2>1. PICK i \in 1..Len(list) : x = list[i]
    BY <1>2 DEF ToSet
  <2>2. i # 1
    BY <1>2, <1>5, <2>1
  <2>3. i - 1 \in 1..(Len(list) - 1) /\ Tail(list)[i - 1] = list[i]
    BY <1>1, <2>1, <2>2
  <2> QED
    BY <1>2, <2>1, <2>3 DEF ToSet
<1>6. Head(list) \in ToSet(list)
  BY <1>1, <1>2 DEF ToSet
<1> QED
  BY <1>1, <1>3, <1>4, <1>5, <1>6

-----------------------------------------------------------------------------
(* What the assumption says of the history at hand.                         *)

Made == said \in Histories

LEMMA SaidSends ==
  ASSUME Made
  PROVE  /\ Sends = 1..Len(said.sends) /\ Len(said.sends) \in Nat /\ IsFiniteSet(Sends)
         /\ \A n \in Sends :
              /\ Send(n).from \in Sessions /\ Send(n).name \in DOMAIN ActorNamed \cup {""}
              /\ Send(n).kind \in Direct => Send(n).to \in Sessions
              /\ Send(n).refused \in BOOLEAN /\ Send(n).parent \in Nat
              /\ Send(n).at \in Nat \ {0} /\ Send(n).made \in Nat \ {0}
              /\ Send(n).entry \in Nat \ {0}
         /\ said.kept \subseteq Sends /\ \A n \in said.kept : ~Send(n).refused
         /\ said.quoted \subseteq {n \in Sends : IsDirect(n) /\ ~Send(n).refused}
<1>1. said.sends \in Seq(Range(said.sends))
  BY HistoriesAssumption DEF Made
<1>2. Sends = 1..Len(said.sends) /\ Len(said.sends) \in Nat
  BY <1>1 DEF Sends
<1>3. ASSUME NEW n \in Sends
      PROVE  /\ Send(n).from \in Sessions /\ Send(n).name \in DOMAIN ActorNamed \cup {""}
             /\ Send(n).kind \in Direct => Send(n).to \in Sessions
             /\ Send(n).refused \in BOOLEAN /\ Send(n).parent \in Nat
             /\ {Send(n).at, Send(n).made, Send(n).entry} \subseteq Nat \ {0}
  <2>1. Send(n) \in Range(said.sends)
    BY DEF Range, Sends, Send
  <2> QED
    BY <2>1, HistoriesAssumption DEF Made
<1>4. /\ said.kept \subseteq Sends /\ \A n \in said.kept : ~Send(n).refused
      /\ said.quoted \subseteq {n \in Sends : IsDirect(n) /\ ~Send(n).refused}
  BY HistoriesAssumption DEF Made, Sends, Send, IsDirect
<1>5. IsFiniteSet(Sends)
  BY <1>1, Lists DEF Sends
<1>6. \A n \in Sends : /\ Send(n).at \in Nat \ {0} /\ Send(n).made \in Nat \ {0}
                       /\ Send(n).entry \in Nat \ {0}
  BY <1>3
<1> QED
  BY <1>2, <1>3, <1>4, <1>5, <1>6, Zenon

LEMMA SaidWakes ==
  ASSUME Made
  PROVE  /\ DOMAIN said.wakes \subseteq Nat \ {0} /\ IsFiniteSet(DOMAIN said.wakes)
         /\ \A w \in DOMAIN said.wakes :
              /\ said.wakes[w].session \in Sessions /\ said.wakes[w].at \in Nat \ {0}
              /\ DOMAIN said.wakes[w].of \subseteq Nat \ {0}
              /\ IsFiniteSet(DOMAIN said.wakes[w].of)
              /\ \A k \in DOMAIN said.wakes[w].of :
                   /\ said.wakes[w].of[k] \in Sends /\ IsDirect(said.wakes[w].of[k])
                   /\ ~Send(said.wakes[w].of[k]).refused
<1> DEFINE messages == {n \in DOMAIN said.sends : ~said.sends[n].refused /\ said.sends[n].kind \in Direct}
<1>1. said.wakes \in Seq(Range(said.wakes))
  BY HistoriesAssumption DEF Made
<1>3. ASSUME NEW w \in DOMAIN said.wakes
      PROVE  /\ said.wakes[w].session \in Sessions /\ said.wakes[w].at \in Nat \ {0}
             /\ said.wakes[w].of \in Seq(messages)
  <2>1. said.wakes[w] \in Range(said.wakes)
    BY DEF Range
  <2> QED
    BY <2>1, HistoriesAssumption DEF Made
<1>4. ASSUME NEW w \in DOMAIN said.wakes
      PROVE  /\ DOMAIN said.wakes[w].of \subseteq Nat \ {0}
             /\ IsFiniteSet(DOMAIN said.wakes[w].of)
             /\ \A k \in DOMAIN said.wakes[w].of : said.wakes[w].of[k] \in messages
  <2>1. said.wakes[w].of \in Seq(messages)
    BY <1>3
  <2> QED
    BY <2>1, Lists
<1>5. IsFiniteSet(DOMAIN said.wakes) /\ DOMAIN said.wakes \subseteq Nat \ {0}
  BY <1>1, Lists
<1>6. \A n \in messages : n \in Sends /\ IsDirect(n) /\ ~Send(n).refused
  BY DEF Sends, Send, IsDirect
<1> HIDE DEF messages
<1>7. ASSUME NEW w \in DOMAIN said.wakes, NEW k \in DOMAIN said.wakes[w].of
      PROVE  /\ said.wakes[w].of[k] \in Sends /\ IsDirect(said.wakes[w].of[k])
             /\ ~Send(said.wakes[w].of[k]).refused
  BY <1>4, <1>6
<1>8. \A w \in DOMAIN said.wakes :
        /\ said.wakes[w].session \in Sessions /\ said.wakes[w].at \in Nat \ {0}
        /\ DOMAIN said.wakes[w].of \subseteq Nat \ {0}
        /\ IsFiniteSet(DOMAIN said.wakes[w].of)
  BY <1>3, <1>4
<1> QED
  BY <1>5, <1>7, <1>8, Zenon

LEMMA SlotsFinite ==
  ASSUME Made
  PROVE  /\ IsFiniteSet(Slots)
         /\ \A s \in Slots : /\ s = <<s[1], s[2]>> /\ s[1] \in Heard
                             /\ s[1] \in DOMAIN said.wakes /\ s[2] \in DOMAIN said.wakes[s[1]].of
         /\ \A w \in Heard : \A k \in DOMAIN said.wakes[w].of : <<w, k>> \in Slots
<1> DEFINE Of == [w \in Heard |-> {w} \X DOMAIN said.wakes[w].of]
<1>1. IsFiniteSet(Heard)
  BY SaidWakes, FS_Subset DEF Heard
<1>2. Of \in Surjection(Heard, Range(Of))
  <2>1. \A w \in Heard : Of[w] \in Range(Of)
    BY DEF Range
  <2>2. \A T \in Range(Of) : \E w \in Heard : Of[w] = T
    BY DEF Range
  <2> QED
    BY <2>1, <2>2 DEF Surjection
<1>3. IsFiniteSet(Range(Of))
  BY <1>1, <1>2, FS_Surjection
<1>4. ASSUME NEW T \in Range(Of) PROVE IsFiniteSet(T)
  <2>1. PICK w \in Heard : T = {w} \X DOMAIN said.wakes[w].of
    BY DEF Range
  <2>2. w \in DOMAIN said.wakes
    BY DEF Heard
  <2>3. IsFiniteSet(DOMAIN said.wakes[w].of)
    BY <2>2, SaidWakes
  <2>4. IsFiniteSet({w})
    BY FS_Singleton
  <2>5. IsFiniteSet({w} \X DOMAIN said.wakes[w].of)
    BY <2>3, <2>4, FS_Product
  <2> QED
    BY <2>1, <2>5
<1>5. Slots = UNION Range(Of)
  BY DEF Slots, Range
<1>6. IsFiniteSet(Slots)
  BY <1>3, <1>4, <1>5, FS_UNION
<1> QED
  BY <1>6 DEF Slots, Heard

-----------------------------------------------------------------------------
(* The types of what the merge makes.                                       *)

Labels == Range(LabelOf) \cup Range(ActorNamed) \cup {"", "?"}
Kinds == {Send(n).kind : n \in Sends}
Texts == {Send(n).text : n \in Sends}
Marks == {<<"room", n>> : n \in Sends} \cup {<<"call", n>> : n \in Sends}
         \cup {<<"wake", s[1], s[2]>> : s \in Slots}

Bubbles ==
  [id : Ids, short : Sends \cup {0}, kind : Kinds,
   from : Sessions \cup {""}, fromActor : Range(LabelOf),
   to : Sessions \cup {""}, toActor : Labels,
   texts : SUBSET Texts, replyTo : Nat, at : Nat,
   entry : Nat, wokenBy : SUBSET Sessions, wakeEntry : Nat, wakeCount : Nat,
   inferred : BOOLEAN, evidence : SUBSET Marks]

FeedItems == [from : Sessions, text : Texts, at : Nat, evidence : SUBSET Marks]

DataSets ==
  [bubbles : Seq(Bubbles), keys : UNION {[K -> Nat] : K \in SUBSET Ids},
   rejected : Seq(Bubbles), feed : Seq(FeedItems)]

(* Every key leads to a bubble.                                             *)
DataOK(d) == d \in DataSets /\ Range(d.keys) \subseteq DOMAIN d.bubbles

LEMMA ResolveSession ==
  ASSUME NEW name \in DOMAIN Answering, NEW at, NEW sender
  PROVE  Resolve(name, at, sender) \in Sessions \cup {""}
<1> DEFINE score == [i \in DOMAIN Answering[name] |-> Likely(Answering[name][i], at)]
           others == {i \in DOMAIN score : Answering[name][i] # sender}
           best == {i \in others : \A j \in others : score[i] >= score[j]}
<1>1. best \subseteq DOMAIN Answering[name]
  OBVIOUS
<1>2. Answering[name] \in Seq(Sessions)
  BY MergeAssumption
<1>3. best \in SUBSET Nat
  BY <1>1, <1>2, Lists
<1>4. best # {} => Min(best) \in DOMAIN Answering[name]
  BY <1>1, <1>3, MinIsLeast
<1>5. Resolve(name, at, sender) = IF best = {} THEN "" ELSE Answering[name][Min(best)]
  BY DEF Resolve
<1> HIDE DEF best
<1>6. best # {} => Answering[name][Min(best)] \in Sessions
  BY <1>2, <1>4, Lists
<1> QED
  BY <1>5, <1>6

LEMMA TargetType ==
  ASSUME Made, NEW n \in Sends, NEW unnamed \in {"", "?"}
  PROVE  /\ Target(n) \in Sessions \cup {""} /\ TargetLabel(n, unnamed) \in Labels
         /\ Send(n).name # "" => ActorNamed[Send(n).name] \in Labels
<1>1. Send(n).name \in DOMAIN ActorNamed \cup {""} /\ DOMAIN Answering = DOMAIN ActorNamed
  BY SaidSends, MergeAssumption
<1>2. Target(n) \in Sessions \cup {""}
  BY <1>1, ResolveSession DEF Target
<1>3. \A s \in Sessions : LabelOf[s] \in Labels
  BY DEF Sessions, Labels, Range
<1>4. \A name \in DOMAIN ActorNamed : ActorNamed[name] \in Labels
  BY DEF Labels, Range
<1>5. unnamed \in Labels
  BY DEF Labels
<1> QED
  BY <1>1, <1>2, <1>3, <1>4, <1>5 DEF TargetLabel

LEMMA IdsHold ==
  /\ \A n \in Sends : /\ FullKey(n) \in Ids /\ ShortKey(n) \in Ids /\ CallKey(n) \in Ids
                      /\ <<"rejected", Send(n).from, Send(n).entry, 0>> \in Ids
  /\ \A w \in DOMAIN said.wakes : \A k \in DOMAIN said.wakes[w].of : WakeKey(w, k) \in Ids
<1> DEFINE OfSend(n) == {<<"room", "", n, 0>>, <<"short", "", n, 0>>, CallKey(n),
                         <<"rejected", Send(n).from, Send(n).entry, 0>>}
           OfWake(w) == {WakeKey(w, k) : k \in DOMAIN said.wakes[w].of}
<1>1. Ids = (UNION {OfSend(n) : n \in Sends}) \cup UNION {OfWake(w) : w \in DOMAIN said.wakes}
  BY DEF Ids
<1>2. \A n \in Sends : /\ FullKey(n) \in OfSend(n) /\ ShortKey(n) \in OfSend(n)
                       /\ CallKey(n) \in OfSend(n)
                       /\ <<"rejected", Send(n).from, Send(n).entry, 0>> \in OfSend(n)
  BY DEF FullKey, ShortKey
<1>3. \A w \in DOMAIN said.wakes : \A k \in DOMAIN said.wakes[w].of : WakeKey(w, k) \in OfWake(w)
  OBVIOUS
<1>4. /\ \A n \in Sends : OfSend(n) \in {OfSend(m) : m \in Sends}
      /\ \A w \in DOMAIN said.wakes : OfWake(w) \in {OfWake(v) : v \in DOMAIN said.wakes}
  OBVIOUS
<1> HIDE DEF OfSend, OfWake
<1>5. /\ \A n \in Sends : OfSend(n) \subseteq Ids
      /\ \A w \in DOMAIN said.wakes : OfWake(w) \subseteq Ids
  <2>1. \A n \in Sends : OfSend(n) \subseteq Ids
    BY <1>1, <1>4
  <2>2. \A w \in DOMAIN said.wakes : OfWake(w) \subseteq Ids
    BY <1>1, <1>4
  <2> QED
    BY <2>1, <2>2
<1> QED
  BY <1>2, <1>3, <1>5

LEMMA FromRoomType ==
  ASSUME Made, NEW n \in Sends, IsDirect(n)
  PROVE  FromRoom(n) \in Bubbles
<1>1. /\ Send(n).from \in Sessions /\ Send(n).to \in Sessions
      /\ Send(n).parent \in Nat /\ Send(n).made \in Nat
  BY SaidSends DEF IsDirect
<1>2. LabelOf[Send(n).from] \in Range(LabelOf) /\ LabelOf[Send(n).to] \in Labels
  BY <1>1 DEF Sessions, Labels, Range
<1>3. FullKey(n) \in Ids
  BY IdsHold
<1>4. <<"room", n>> \in Marks
  BY DEF Marks
<1>5. Send(n).kind \in Kinds /\ Send(n).text \in Texts
  BY DEF Kinds, Texts
<1> QED
  BY <1>1, <1>2, <1>3, <1>4, <1>5 DEF FromRoom, Bubbles

LEMMA FromCallType ==
  ASSUME Made, NEW n \in Sends, NEW quoted \in BOOLEAN
  PROVE  FromCall(n, quoted) \in Bubbles
<1>1. /\ Send(n).from \in Sessions /\ Target(n) \in Sessions \cup {""}
      /\ Send(n).parent \in Nat /\ Send(n).at \in Nat /\ TargetLabel(n, "?") \in Labels
  BY SaidSends, TargetType
<1>2. LabelOf[Send(n).from] \in Range(LabelOf)
  BY <1>1 DEF Sessions, Range
<1>3. CallKey(n) \in Ids
  BY IdsHold
<1>5. Send(n).kind \in Kinds /\ Send(n).text \in Texts
  BY DEF Kinds, Texts
<1> QED
  BY <1>1, <1>2, <1>3, <1>5, ZenonT(30) DEF FromCall, FromRoom, Bubbles

LEMMA FromWakeType ==
  ASSUME Made, NEW w \in Heard, NEW k \in DOMAIN said.wakes[w].of
  PROVE  /\ FromWake(w, k) \in Bubbles
         /\ FromWake(w, k).id = WakeKey(w, k) /\ FromWake(w, k).short = 0
         /\ FromWake(w, k).evidence = {} /\ FromWake(w, k).entry = 0
         /\ FromWake(w, k).wakeCount = 0
<1> DEFINE n == said.wakes[w].of[k]
           s == said.wakes[w].session
<1>1. w \in DOMAIN said.wakes /\ s \in Sessions /\ said.wakes[w].at \in Nat
      /\ n \in Sends /\ IsDirect(n)
  BY SaidWakes DEF Heard
<1>2. FromRoom(n) \in Bubbles
  BY <1>1, FromRoomType
<1>3. WakeKey(w, k) \in Ids
  BY <1>1, IdsHold
<1>4. LabelOf[s] \in Labels
  BY <1>1 DEF Sessions, Labels, Range
<1>5. Body(w) \subseteq Texts
  <2>1. ToSet(said.wakes[w].of) \subseteq Sends
    BY <1>1, SaidWakes DEF ToSet
  <2> QED
    BY <2>1 DEF Body, Texts
<1>6. Body(w) \in SUBSET Texts
  BY <1>5
<1>7. FromWake(w, k) \in Bubbles
  BY <1>1, <1>2, <1>3, <1>4, <1>6 DEF FromWake, Bubbles
<1> QED
  BY <1>7 DEF FromWake, FromRoom

LEMMA AttachCallType ==
  ASSUME Made, NEW b \in Bubbles, NEW n \in Sends
  PROVE  /\ AttachCall(b, n) \in Bubbles
         /\ AttachCall(b, n).entry = Send(n).entry
         /\ AttachCall(b, n).evidence = b.evidence \cup {<<"call", n>>}
         /\ AttachCall(b, n).id = b.id /\ AttachCall(b, n).kind = b.kind
         /\ AttachCall(b, n).from = b.from /\ AttachCall(b, n).fromActor = b.fromActor
         /\ AttachCall(b, n).texts = b.texts /\ AttachCall(b, n).wakeCount = b.wakeCount
<1> DEFINE to == IF b.to = "" THEN Target(n) ELSE b.to
           toActor == IF b.toActor \notin {"", "?"} THEN b.toActor
                      ELSE IF to # "" THEN LabelOf[to]
                      ELSE IF Send(n).name # "" THEN ActorNamed[Send(n).name] ELSE b.toActor
           short == IF b.short = 0 /\ n \in said.quoted THEN n ELSE b.short
           replyTo == IF b.replyTo = 0 THEN Send(n).parent ELSE b.replyTo
<1>1. /\ b.to \in Sessions \cup {""} /\ b.toActor \in Labels /\ b.short \in Sends \cup {0}
      /\ b.replyTo \in Nat /\ b.evidence \subseteq Marks
  BY DEF Bubbles
<1>2. /\ Target(n) \in Sessions \cup {""} /\ Send(n).entry \in Nat /\ Send(n).parent \in Nat
      /\ Send(n).name # "" => ActorNamed[Send(n).name] \in Labels
  BY TargetType, SaidSends
<1>3. to \in Sessions \cup {""}
  BY <1>1, <1>2
<1>4. to # "" => LabelOf[to] \in Labels
  BY <1>3 DEF Sessions, Labels, Range
<1>5. toActor \in Labels
  BY <1>1, <1>2, <1>4
<1>6. short \in Sends \cup {0} /\ replyTo \in Nat
  BY <1>1, <1>2
<1>7. <<"call", n>> \in Marks
  BY DEF Marks
<1> DEFINE evidence == b.evidence \cup {<<"call", n>>}
<1>8. evidence \in SUBSET Marks
  BY <1>1, <1>7
<1>9. AttachCall(b, n) =
        [b EXCEPT !.entry = Send(n).entry, !.short = short, !.to = to, !.toActor = toActor,
                  !.replyTo = replyTo, !.evidence = evidence]
  BY DEF AttachCall
<1> HIDE DEF to, toActor, short, replyTo, evidence
<1>10. AttachCall(b, n) \in Bubbles
  BY <1>2, <1>3, <1>5, <1>6, <1>8, <1>9, ZenonT(30) DEF Bubbles
<1> QED
  BY <1>9, <1>10 DEF Bubbles, evidence

LEMMA RecordWakeType ==
  ASSUME Made, NEW b \in Bubbles, NEW w \in Heard, NEW k \in DOMAIN said.wakes[w].of
  PROVE  /\ RecordWake(b, w, k) \in Bubbles
         /\ RecordWake(b, w, k).wakeCount = b.wakeCount + 1
         /\ RecordWake(b, w, k).evidence = b.evidence \cup {<<"wake", w, k>>}
         /\ RecordWake(b, w, k).id = b.id /\ RecordWake(b, w, k).short = b.short
         /\ RecordWake(b, w, k).kind = b.kind /\ RecordWake(b, w, k).entry = b.entry
         /\ RecordWake(b, w, k).from = b.from /\ RecordWake(b, w, k).fromActor = b.fromActor
         /\ RecordWake(b, w, k).texts = b.texts
<1>1. w \in DOMAIN said.wakes /\ w \in Nat /\ said.wakes[w].session \in Sessions
  BY SaidWakes DEF Heard
<1>2. <<w, k>> \in Slots
  BY SlotsFinite
<1>3. <<"wake", w, k>> \in Marks
  BY <1>2 DEF Marks
<1>4. b.wakeCount \in Nat /\ b.wokenBy \subseteq Sessions /\ b.evidence \subseteq Marks
      /\ b.wakeEntry \in Nat
  BY DEF Bubbles
<1> DEFINE wakeEntry == IF b.wakeEntry = 0 THEN w ELSE b.wakeEntry
             wokenBy == b.wokenBy \cup {said.wakes[w].session}
             evidence == b.evidence \cup {<<"wake", w, k>>}
<1>6. RecordWake(b, w, k) = [b EXCEPT !.wakeEntry = wakeEntry, !.wokenBy = wokenBy,
                                      !.wakeCount = b.wakeCount + 1, !.evidence = evidence]
  BY DEF RecordWake
<1>7. wakeEntry \in Nat /\ wokenBy \in SUBSET Sessions /\ evidence \in SUBSET Marks
      /\ b.wakeCount + 1 \in Nat
  BY <1>1, <1>3, <1>4
<1> HIDE DEF wakeEntry, wokenBy, evidence
<1>8. RecordWake(b, w, k) \in Bubbles
  BY <1>6, <1>7, ZenonT(30) DEF Bubbles
<1> QED
  BY <1>6, <1>8 DEF Bubbles, wokenBy, evidence

(* A new bubble takes the key of its id from whatever had it, and the short *)
(* one only if it is free; what a wake tells of an id takes no key.         *)
LEMMA PutEffect ==
  ASSUME Made, NEW d, DataOK(d), NEW b \in Bubbles
  PROVE  /\ DataOK(Put(d, b))
         /\ Put(d, b).bubbles = Append(d.bubbles, b)
         /\ Put(d, b).rejected = d.rejected /\ Put(d, b).feed = d.feed
         /\ b.id \in DOMAIN Put(d, b).keys /\ Put(d, b).keys[b.id] = Len(d.bubbles) + 1
         /\ \A key \in DOMAIN d.keys \ {b.id} :
              key \in DOMAIN Put(d, b).keys /\ Put(d, b).keys[key] = d.keys[key]
         /\ \A key \in DOMAIN Put(d, b).keys :
              \/ /\ Put(d, b).keys[key] = Len(d.bubbles) + 1
                 /\ key = b.id \/ (b.short # 0 /\ key = ShortKey(b.short))
              \/ key \in DOMAIN d.keys \ {b.id} /\ Put(d, b).keys[key] = d.keys[key]
<1> DEFINE i == Len(d.bubbles) + 1
           keys == SetKey(d.keys, b.id, i)
           all == IF b.short = 0 THEN keys ELSE AddKey(keys, ShortKey(b.short), i)
<1>1. /\ d \in DataSets /\ d.bubbles \in Seq(Bubbles) /\ Len(d.bubbles) \in Nat
      /\ DOMAIN d.bubbles = 1..Len(d.bubbles)
      /\ DOMAIN d.keys \subseteq Ids /\ \A key \in DOMAIN d.keys : d.keys[key] \in DOMAIN d.bubbles
  BY Lists DEF DataOK, DataSets, Range
<1>2. Put(d, b) = [d EXCEPT !.bubbles = Append(d.bubbles, b), !.keys = all]
  BY DEF Put
<1>3. /\ DOMAIN keys = DOMAIN d.keys \cup {b.id} /\ keys[b.id] = i
      /\ \A key \in DOMAIN d.keys \ {b.id} : keys[key] = d.keys[key]
      /\ keys = [key \in DOMAIN keys |-> keys[key]]
  BY DEF SetKey
<1>4. /\ DOMAIN all = DOMAIN keys \cup IF b.short = 0 THEN {} ELSE {ShortKey(b.short)}
      /\ \A key \in DOMAIN keys : all[key] = keys[key]
      /\ b.short # 0 => all[ShortKey(b.short)] = i \/ ShortKey(b.short) \in DOMAIN keys
      /\ all = [key \in DOMAIN all |-> all[key]]
  <2> HIDE DEF keys
  <2> QED
    BY <1>3 DEF AddKey, SetKey
<1>5. b.id \in Ids /\ (b.short # 0 => ShortKey(b.short) \in Ids)
  BY IdsHold DEF Bubbles
<1> HIDE DEF keys, all
<1>6. /\ DOMAIN all \subseteq Ids
      /\ \A key \in DOMAIN all :
           \/ /\ all[key] = i
              /\ key = b.id \/ (b.short # 0 /\ key = ShortKey(b.short))
           \/ key \in DOMAIN d.keys \ {b.id} /\ all[key] = d.keys[key]
      /\ all[b.id] = i /\ b.id \in DOMAIN all
      /\ \A key \in DOMAIN d.keys \ {b.id} : key \in DOMAIN all /\ all[key] = d.keys[key]
  BY <1>1, <1>3, <1>4, <1>5
<1>7. /\ Append(d.bubbles, b) \in Seq(Bubbles)
      /\ DOMAIN Append(d.bubbles, b) = 1..i /\ i \in Nat
  BY <1>1
<1>8. \A key \in DOMAIN all : all[key] \in 1..i
  BY <1>1, <1>6, <1>7
<1>9. all \in [DOMAIN all -> Nat]
  BY <1>4, <1>8
<1>10. [d EXCEPT !.bubbles = Append(d.bubbles, b), !.keys = all] \in DataSets
  BY <1>1, <1>6, <1>7, <1>9 DEF DataSets
<1>11. /\ Put(d, b).bubbles = Append(d.bubbles, b) /\ Put(d, b).keys = all
       /\ Put(d, b).rejected = d.rejected /\ Put(d, b).feed = d.feed
  BY <1>1, <1>2 DEF DataSets
<1>12. DataOK(Put(d, b))
  BY <1>2, <1>7, <1>8, <1>10, <1>11 DEF DataOK, Range
<1> QED
  BY <1>6, <1>11, <1>12

LEMMA DataParts ==
  ASSUME NEW d, DataOK(d)
  PROVE  /\ d.bubbles \in Seq(Bubbles) /\ Len(d.bubbles) \in Nat
         /\ DOMAIN d.bubbles = 1..Len(d.bubbles)
         /\ \A i \in DOMAIN d.bubbles : d.bubbles[i] \in Bubbles
         /\ d.keys \in [DOMAIN d.keys -> DOMAIN d.bubbles]
         /\ DOMAIN d.keys \subseteq Ids /\ Range(d.keys) \subseteq DOMAIN d.bubbles
         /\ d.rejected \in Seq(Bubbles) /\ d.feed \in Seq(FeedItems)
<1>1. /\ d.bubbles \in Seq(Bubbles) /\ d.keys \in UNION {[K -> Nat] : K \in SUBSET Ids}
      /\ Range(d.keys) \subseteq DOMAIN d.bubbles
      /\ d.rejected \in Seq(Bubbles) /\ d.feed \in Seq(FeedItems)
  BY DEF DataOK, DataSets
<1>2. d.keys = [key \in DOMAIN d.keys |-> d.keys[key]] /\ DOMAIN d.keys \subseteq Ids
  BY <1>1
<1>3. \A key \in DOMAIN d.keys : d.keys[key] \in DOMAIN d.bubbles
  BY <1>1 DEF Range
<1>4. d.keys \in [DOMAIN d.keys -> DOMAIN d.bubbles]
  BY <1>2, <1>3
<1> QED
  BY <1>1, <1>2, <1>4, Lists

LEMMA RegisterEffect ==
  ASSUME NEW d, DataOK(d), NEW n \in Sends, NEW i \in DOMAIN d.bubbles
  PROVE  /\ DataOK(Register(d, n, i))
         /\ Register(d, n, i).bubbles = d.bubbles
         /\ Register(d, n, i).rejected = d.rejected /\ Register(d, n, i).feed = d.feed
         /\ \A key \in DOMAIN d.keys :
              key \in DOMAIN Register(d, n, i).keys /\ Register(d, n, i).keys[key] = d.keys[key]
         /\ \A key \in DOMAIN Register(d, n, i).keys :
              \/ key \in DOMAIN d.keys /\ Register(d, n, i).keys[key] = d.keys[key]
              \/ key \in {FullKey(n), ShortKey(n)} /\ Register(d, n, i).keys[key] = i
<1> DEFINE full == AddKey(d.keys, FullKey(n), i)
           both == AddKey(full, ShortKey(n), i)
<1>1. d.keys \in [DOMAIN d.keys -> DOMAIN d.bubbles] /\ DOMAIN d.keys \subseteq Ids
      /\ DOMAIN d.bubbles \subseteq Nat /\ FullKey(n) \in Ids /\ ShortKey(n) \in Ids
  <2>1. FullKey(n) \in Ids /\ ShortKey(n) \in Ids
    BY IdsHold
  <2>2. /\ d.keys \in [DOMAIN d.keys -> DOMAIN d.bubbles] /\ DOMAIN d.keys \subseteq Ids
        /\ DOMAIN d.bubbles = 1..Len(d.bubbles) /\ Len(d.bubbles) \in Nat
    BY DataParts
  <2> QED
    BY <2>1, <2>2
<1>2. /\ full \in [DOMAIN full -> DOMAIN d.bubbles] /\ DOMAIN full = DOMAIN d.keys \cup {FullKey(n)}
      /\ \A key \in DOMAIN d.keys : full[key] = d.keys[key]
      /\ \A key \in DOMAIN full \ DOMAIN d.keys : full[key] = i
  BY <1>1 DEF AddKey, SetKey
<1>3. /\ both \in [DOMAIN both -> DOMAIN d.bubbles] /\ DOMAIN both = DOMAIN full \cup {ShortKey(n)}
      /\ \A key \in DOMAIN full : both[key] = full[key]
      /\ \A key \in DOMAIN both \ DOMAIN full : both[key] = i
  <2> HIDE DEF full
  <2> QED
    BY <1>2 DEF AddKey, SetKey
<1> HIDE DEF full, both
<1>4. /\ \A key \in DOMAIN d.keys : key \in DOMAIN both /\ both[key] = d.keys[key]
      /\ \A key \in DOMAIN both :
           \/ key \in DOMAIN d.keys /\ both[key] = d.keys[key]
           \/ key \in {FullKey(n), ShortKey(n)} /\ both[key] = i
      /\ both \in [DOMAIN both -> Nat] /\ DOMAIN both \subseteq Ids
      /\ \A key \in DOMAIN both : both[key] \in DOMAIN d.bubbles
  BY <1>1, <1>2, <1>3
<1>5. [d EXCEPT !.keys = both] \in DataSets
  <2>1. both \in UNION {[K -> Nat] : K \in SUBSET Ids}
    BY <1>4
  <2> QED
    BY <2>1 DEF DataOK, DataSets
<1>6. Register(d, n, i) = [d EXCEPT !.keys = both]
  BY DEF Register, full, both
<1>7. /\ Register(d, n, i).bubbles = d.bubbles /\ Register(d, n, i).keys = both
      /\ Register(d, n, i).rejected = d.rejected /\ Register(d, n, i).feed = d.feed
  BY <1>6 DEF DataOK, DataSets
<1>8. DataOK(Register(d, n, i))
  BY <1>4, <1>5, <1>6, <1>7 DEF DataOK, Range
<1> QED
  BY <1>4, <1>7, <1>8

LEMMA AlteredEffect ==
  ASSUME NEW d, DataOK(d), NEW i \in DOMAIN d.bubbles, NEW b \in Bubbles
  PROVE  /\ DataOK([d EXCEPT !.bubbles[i] = b])
         /\ [d EXCEPT !.bubbles[i] = b].bubbles = [d.bubbles EXCEPT ![i] = b]
         /\ [d EXCEPT !.bubbles[i] = b].keys = d.keys
         /\ [d EXCEPT !.bubbles[i] = b].rejected = d.rejected
         /\ [d EXCEPT !.bubbles[i] = b].feed = d.feed
<1>1. d.bubbles \in Seq(Bubbles)
  BY DataParts
<1>2. [d.bubbles EXCEPT ![i] = b] \in Seq(Bubbles) /\ DOMAIN [d.bubbles EXCEPT ![i] = b] = DOMAIN d.bubbles
  BY <1>1, ExceptSeq
<1> QED
  BY <1>2 DEF DataOK, DataSets

LEMMA RecordsEffect ==
  ASSUME Made, NEW order \in SetToSeqs(KeptSends)
  PROVE  /\ DataOK(FromRecords(order))
         /\ FromRecords(order).rejected = <<>> /\ FromRecords(order).feed = <<>>
         /\ FromRecords(order).bubbles = [i \in DOMAIN order |-> FromRoom(order[i])]
         /\ \A i \in DOMAIN order : order[i] \in KeptSends
         /\ \A i, j \in DOMAIN order : order[i] = order[j] => i = j
         /\ \A n \in KeptSends : /\ FullKey(n) \in DOMAIN FromRecords(order).keys
                                /\ FromRecords(order).keys[FullKey(n)] \in DOMAIN order
                                /\ order[FromRecords(order).keys[FullKey(n)]] = n
         /\ \A key \in DOMAIN FromRecords(order).keys :
              \E n \in KeptSends : key \in {FullKey(n), ShortKey(n)}
<1>1. KeptSends \subseteq Sends /\ \A n \in KeptSends : IsDirect(n)
  BY SaidSends DEF KeptSends
<1>2. IsFiniteSet(KeptSends)
  BY <1>1, SaidSends, FS_Subset
<1>3. /\ order \in Seq(KeptSends) /\ Range(order) = KeptSends
      /\ \A i, j \in DOMAIN order : order[i] = order[j] => i = j
  BY <1>2, ListsAll
<1>4. /\ DOMAIN order = 1..Len(order) /\ Len(order) \in Nat
      /\ \A i \in DOMAIN order : order[i] \in KeptSends
  BY <1>3, Lists
<1> DEFINE bubbles == [i \in DOMAIN order |-> FromRoom(order[i])]
           Both(n) == {FullKey(n), ShortKey(n)}
           all == UNION {Both(n) : n \in Range(order)}
           At(key) == CHOOSE i \in DOMAIN order : order[i] = key[3]
           keys == [key \in all |-> At(key)]
<1>5. \A i \in DOMAIN order : bubbles[i] \in Bubbles
  BY <1>1, <1>4, FromRoomType
<1>6. bubbles \in Seq(Bubbles) /\ DOMAIN bubbles = DOMAIN order
  BY <1>4, <1>5
<1>7. \A key : key \in all <=> \E n \in KeptSends : key \in Both(n)
  <2> HIDE DEF Both
  <2> QED
    BY <1>3
<1>8. ASSUME NEW n \in KeptSends, NEW key \in Both(n)
      PROVE  At(key) \in DOMAIN order /\ order[At(key)] = n
  <2>1. key = FullKey(n) \/ key = ShortKey(n)
    OBVIOUS
  <2>2. FullKey(n)[3] = n /\ ShortKey(n)[3] = n
    BY DEF FullKey, ShortKey
  <2>3. \E i \in DOMAIN order : order[i] = n
    BY <1>3 DEF Range
  <2> QED
    BY <2>1, <2>2, <2>3
<1>9. FromRecords(order) = [bubbles |-> bubbles, keys |-> keys, rejected |-> <<>>, feed |-> <<>>]
  BY DEF FromRecords
<1>10. ASSUME NEW key \in all PROVE key \in Ids
  <2>1. PICK n \in KeptSends : key \in Both(n)
    BY <1>7
  <2> QED
    BY <1>1, <2>1, IdsHold
<1> HIDE DEF all, At, bubbles
<1>11. \A key \in all : At(key) \in DOMAIN order
  BY <1>7, <1>8
<1>12. keys \in [all -> Nat]
  BY <1>4, <1>11
<1> HIDE DEF keys
<1>13. keys \in UNION {[K -> Nat] : K \in SUBSET Ids}
  BY <1>10, <1>12
<1>14. <<>> \in Seq(Bubbles) /\ <<>> \in Seq(FeedItems)
  OBVIOUS
<1>15. FromRecords(order) \in DataSets
  BY <1>6, <1>9, <1>13, <1>14 DEF DataSets
<1>16. Range(keys) \subseteq DOMAIN bubbles
  BY <1>6, <1>11 DEF Range, keys
<1>17. DataOK(FromRecords(order))
  BY <1>9, <1>15, <1>16 DEF DataOK
<1>18. \A n \in KeptSends : /\ FullKey(n) \in DOMAIN keys /\ keys[FullKey(n)] \in DOMAIN order
                           /\ order[keys[FullKey(n)]] = n
  BY <1>7, <1>8 DEF keys
<1>19. \A key \in DOMAIN keys : \E n \in KeptSends : key \in Both(n)
  BY <1>7 DEF keys
<1> QED
  BY <1>3, <1>4, <1>9, <1>17, <1>18, <1>19 DEF bubbles

-----------------------------------------------------------------------------
(* The types hold throughout: what is still to be merged is of the history  *)
(* and each of it is taken once, and every bubble and key is of its set.    *)

Queued(cs, ws, us) ==
  /\ cs \in Seq(Sends) /\ Distinct(cs)
  /\ ws \in Seq(Slots) /\ Distinct(ws)
  /\ us \in Seq(KeptUpdates) /\ Distinct(us)

Merging == Made /\ Queued(calls, wakes, updates) /\ DataOK(ds)

LEMMA SameHistory ==
  ASSUME said' = said
  PROVE  /\ Made' <=> Made
         /\ Sends' = Sends /\ Slots' = Slots /\ KeptUpdates' = KeptUpdates
         /\ Ids' = Ids /\ DataSets' = DataSets
<1>1. /\ Made' <=> Made
      /\ Sends' = Sends /\ KeptUpdates' = KeptUpdates /\ KeptSends' = KeptSends
      /\ Kinds' = Kinds /\ Texts' = Texts
  BY DEF Made, Sends, KeptUpdates, KeptSends, IsDirect, Send, Kinds, Texts
<1>2. Slots' = Slots
  BY DEF Slots, Heard
<1>3. Ids' = Ids
  BY DEF Ids, CallKey, WakeKey, Send, Sends
<1>4. Marks' = Marks
  BY <1>1, <1>2 DEF Marks
<1>5. Bubbles' = Bubbles /\ FeedItems' = FeedItems
  BY <1>1, <1>3, <1>4 DEF Bubbles, FeedItems
<1>6. DataSets' = DataSets
  BY <1>3, <1>5 DEF DataSets
<1> QED
  BY <1>1, <1>2, <1>3, <1>6

LEMMA MergingKept ==
  ASSUME Merging, said' = said, Queued(calls', wakes', updates'), DataOK(ds')
  PROVE  Merging'
<1>1. /\ Made' <=> Made
      /\ Sends' = Sends /\ Slots' = Slots /\ KeptUpdates' = KeptUpdates
      /\ DataSets' = DataSets
  BY SameHistory
<1> QED
  BY <1>1 DEF Merging, Queued, DataOK, Distinct

LEMMA InitMerging ==
  ASSUME InitMerge
  PROVE  Merging
<1>1. Made
  BY DEF InitMerge, Made
<1>2. /\ IsFiniteSet({n \in Sends : Indexed(n)}) /\ IsFiniteSet(KeptUpdates)
      /\ IsFiniteSet(Slots)
  <2>1. KeptUpdates \subseteq Sends /\ {n \in Sends : Indexed(n)} \subseteq Sends
    BY <1>1, SaidSends DEF KeptUpdates
  <2> QED
    BY <1>1, <2>1, SaidSends, SlotsFinite, FS_Subset
<1>3. calls \in Seq({n \in Sends : Indexed(n)}) /\ Distinct(calls)
  BY <1>2, ListsAll DEF InitMerge, Distinct
<1>4. calls \in Seq(Sends)
  BY <1>3, SeqMonotonic
<1>5. wakes \in Seq(Slots) /\ Distinct(wakes)
  BY <1>2, ListsAll DEF InitMerge, Distinct
<1>6. updates \in Seq(KeptUpdates) /\ Distinct(updates)
  BY <1>2, ListsAll DEF InitMerge, Distinct
<1>7. DataOK(ds)
  <2>1. PICK order \in SetToSeqs(KeptSends) : ds = FromRecords(order)
    BY DEF InitMerge
  <2>2. DataOK(FromRecords(order))
    BY <1>1, RecordsEffect
  <2> QED
    BY <2>1, <2>2
<1> QED
  BY <1>1, <1>3, <1>4, <1>5, <1>6, <1>7 DEF Merging, Queued

LEMMA TakingOff ==
  ASSUME Merging, NEW n, Taking(n)
  PROVE  /\ n \in Sends /\ n \in ToSet(calls) /\ calls # <<>>
         /\ calls' \in Seq(Sends) /\ Distinct(calls')
         /\ ToSet(calls') = ToSet(calls) \ {n}
BY TakenOff DEF Taking, Merging, Queued

LEMMA WakeOff ==
  ASSUME Merging, NEW w, NEW k, wakes # <<>>, <<w, k>> = Head(wakes), wakes' = Tail(wakes)
  PROVE  /\ w \in Heard /\ k \in DOMAIN said.wakes[w].of /\ <<w, k>> \in Slots
         /\ said.wakes[w].of[k] \in Sends
         /\ wakes' \in Seq(Slots) /\ Distinct(wakes')
         /\ <<w, k>> \in ToSet(wakes) /\ ToSet(wakes') = ToSet(wakes) \ {<<w, k>>}
<1>1. /\ <<w, k>> \in Slots /\ wakes' \in Seq(Slots) /\ Distinct(wakes')
      /\ <<w, k>> \in ToSet(wakes) /\ ToSet(wakes') = ToSet(wakes) \ {<<w, k>>}
  <2>1. wakes \in Seq(Slots) /\ Distinct(wakes)
    BY DEF Merging, Queued
  <2> DEFINE slot == Head(wakes)
  <2>2. /\ slot \in Slots /\ Tail(wakes) \in Seq(Slots) /\ Distinct(Tail(wakes))
        /\ slot \in ToSet(wakes) /\ ToSet(Tail(wakes)) = ToSet(wakes) \ {slot}
    BY <2>1, TakenOff
  <2>3. <<w, k>> = slot
    OBVIOUS
  <2> HIDE DEF slot
  <2> QED
    BY <2>2, <2>3
<1>2. w \in Heard /\ w \in DOMAIN said.wakes /\ k \in DOMAIN said.wakes[w].of
  BY <1>1, SlotsFinite DEF Merging
<1> QED
  BY <1>1, <1>2, SaidWakes DEF Merging

LEMMA Matches ==
  ASSUME Merging, NEW n
  PROVE  MatchCall(n) \subseteq DOMAIN ds.bubbles
<1>1. Shown \subseteq DOMAIN ds.bubbles
  BY DEF Merging, DataOK, Shown
<1> QED
  BY <1>1 DEF MatchCall

LEMMA WakeMatches ==
  ASSUME Merging, NEW w, NEW k, NEW n
  PROVE  Found(n) \subseteq Shown /\ MatchWake(w, k) \subseteq Shown
         /\ Shown \subseteq DOMAIN ds.bubbles
<1>1. Shown \subseteq DOMAIN ds.bubbles
  BY DEF Merging, DataOK, Shown
<1>2. Found(n) \subseteq Shown
  <2>1. \A key \in DOMAIN ds.keys : ds.keys[key] \in Shown
    BY DEF Shown, Range
  <2> QED
    BY <2>1 DEF Found
<1>3. MatchWake(w, k) \subseteq Shown
  BY DEF MatchWake, Latest
<1> QED
  BY <1>1, <1>2, <1>3

(* What a new bubble of a call or of a wake is made of.                     *)
CallBubble(n) == AttachCall(FromCall(n, n \in said.quoted), n)
WakeBubble(w, k) == RecordWake(FromWake(w, k), w, k)

LEMMA CallBubbleType ==
  ASSUME Made, NEW n \in Sends
  PROVE  /\ CallBubble(n) \in Bubbles /\ CallBubble(n).id = CallKey(n)
         /\ CallBubble(n).evidence = {<<"call", n>>}
         /\ CallBubble(n).entry # 0 /\ CallBubble(n).wakeCount = 0
<1> DEFINE b == FromCall(n, n \in said.quoted)
<1>1. b \in Bubbles
  <2>1. (n \in said.quoted) \in BOOLEAN
    OBVIOUS
  <2> QED
    BY <2>1, FromCallType
<1>2. b.id = CallKey(n) /\ b.evidence = {} /\ b.wakeCount = 0
  BY DEF FromCall, FromRoom
<1>3. CallBubble(n) = AttachCall(b, n)
  BY DEF CallBubble
<1>4. Send(n).entry # 0
  BY SaidSends
<1> HIDE DEF b
<1> QED
  BY <1>1, <1>2, <1>3, <1>4, AttachCallType

LEMMA WakeBubbleType ==
  ASSUME Made, NEW w \in Heard, NEW k \in DOMAIN said.wakes[w].of
  PROVE  /\ WakeBubble(w, k) \in Bubbles /\ WakeBubble(w, k).id = WakeKey(w, k)
         /\ WakeBubble(w, k).short = 0 /\ WakeBubble(w, k).evidence = {<<"wake", w, k>>}
         /\ WakeBubble(w, k).entry = 0 /\ WakeBubble(w, k).wakeCount = 1
BY FromWakeType, RecordWakeType DEF WakeBubble

LEMMA AppendedEffect ==
  ASSUME NEW d, DataOK(d)
  PROVE  /\ \A b \in Bubbles : DataOK([d EXCEPT !.rejected = Append(@, b)])
         /\ \A item \in FeedItems : DataOK([d EXCEPT !.feed = Append(@, item)])
<1>1. d.rejected \in Seq(Bubbles) /\ d.feed \in Seq(FeedItems)
  BY DataParts
<1>2. /\ \A b \in Bubbles : Append(d.rejected, b) \in Seq(Bubbles)
      /\ \A item \in FeedItems : Append(d.feed, item) \in Seq(FeedItems)
  BY <1>1
<1> QED
  BY <1>2 DEF DataOK, DataSets

RejectedCall(n) ==
  [FromCall(n, FALSE) EXCEPT !.id = <<"rejected", Send(n).from, Send(n).entry, 0>>,
                             !.toActor = TargetLabel(n, ""), !.evidence = {<<"call", n>>}]

LEMMA RejectedType ==
  ASSUME Made, NEW n \in Sends
  PROVE  RejectedCall(n) \in Bubbles /\ RejectedCall(n).evidence = {<<"call", n>>}
<1>1. FromCall(n, FALSE) \in Bubbles
  BY FromCallType
<1>2. <<"rejected", Send(n).from, Send(n).entry, 0>> \in Ids
  BY IdsHold
<1>3. TargetLabel(n, "") \in Labels
  BY TargetType
<1>4. {<<"call", n>>} \in SUBSET Marks
  BY DEF Marks
<1> QED
  BY <1>1, <1>2, <1>3, <1>4 DEF RejectedCall, Bubbles

LEMMA FeedItemType ==
  ASSUME Made, NEW n \in Sends, NEW by \in {"call", "room"}
  PROVE  FeedItem(n, by) \in FeedItems /\ FeedItem(n, by).evidence = {<<by, n>>}
<1>1. Send(n).from \in Sessions /\ Send(n).at \in Nat /\ Send(n).made \in Nat
  BY SaidSends
<1>2. Send(n).text \in Texts /\ <<by, n>> \in Marks
  BY DEF Texts, Marks
<1> QED
  BY <1>1, <1>2 DEF FeedItem, FeedItems

LEMMA RejectCallMerging ==
  ASSUME Merging, NEW n, RejectCall(n)
  PROVE  Merging'
<1>1. /\ n \in Sends /\ calls' \in Seq(Sends) /\ Distinct(calls')
      /\ UNCHANGED <<said, wakes, updates>>
  BY TakingOff DEF RejectCall
<1>2. ds' = [ds EXCEPT !.rejected = Append(@, RejectedCall(n))]
  BY DEF RejectCall, RejectedCall
<1>3. DataOK(ds')
  BY <1>1, <1>2, AppendedEffect, RejectedType DEF Merging
<1>4. Queued(calls', wakes', updates')
  BY <1>1 DEF Merging, Queued
<1> QED
  BY <1>1, <1>3, <1>4, MergingKept

LEMMA ShareCallMerging ==
  ASSUME Merging, NEW n, ShareCall(n)
  PROVE  Merging'
<1>1. /\ n \in Sends /\ calls' \in Seq(Sends) /\ Distinct(calls')
      /\ UNCHANGED <<said, wakes, updates>>
  BY TakingOff DEF ShareCall
<1>2. DataOK([ds EXCEPT !.feed = Append(@, FeedItem(n, "call"))])
  BY <1>1, AppendedEffect, FeedItemType DEF Merging
<1>3. DataOK(ds')
  BY <1>2 DEF Merging, ShareCall
<1>4. Queued(calls', wakes', updates')
  BY <1>1 DEF Merging, Queued
<1> QED
  BY <1>1, <1>3, <1>4, MergingKept

LEMMA AddUpdateMerging ==
  ASSUME Merging, NEW n, AddUpdate(n)
  PROVE  Merging' /\ n \in KeptUpdates /\ ToSet(updates') = ToSet(updates) \ {n}
<1>1. /\ n \in KeptUpdates /\ updates' \in Seq(KeptUpdates) /\ Distinct(updates')
      /\ ToSet(updates') = ToSet(updates) \ {n}
      /\ UNCHANGED <<said, calls, wakes>>
  BY TakenOff DEF AddUpdate, Merging, Queued
<1>2. n \in Sends
  BY <1>1, SaidSends DEF Merging, KeptUpdates
<1>3. DataOK([ds EXCEPT !.feed = Append(@, FeedItem(n, "room"))])
  BY <1>2, AppendedEffect, FeedItemType DEF Merging
<1>4. DataOK(ds')
  BY <1>3 DEF Merging, AddUpdate
<1>5. Queued(calls', wakes', updates')
  BY <1>1 DEF Merging, Queued
<1> QED
  BY <1>1, <1>4, <1>5, MergingKept

LEMMA TakeCallMerging ==
  ASSUME Merging, NEW n, TakeCall(n)
  PROVE  Merging'
<1>1. /\ n \in Sends /\ calls' \in Seq(Sends) /\ Distinct(calls')
      /\ UNCHANGED <<said, wakes, updates>>
  BY TakingOff DEF TakeCall
<1>2. ASSUME NEW i \in MatchCall(n), ds' = [ds EXCEPT !.bubbles[i] = AttachCall(@, n)]
      PROVE  DataOK(ds')
  <2>1. i \in DOMAIN ds.bubbles /\ ds.bubbles[i] \in Bubbles
    BY Matches, DataParts DEF Merging
  <2>2. AttachCall(ds.bubbles[i], n) \in Bubbles
    BY <1>1, <2>1, AttachCallType DEF Merging
  <2>3. DataOK([ds EXCEPT !.bubbles[i] = AttachCall(ds.bubbles[i], n)])
    BY <2>1, <2>2, AlteredEffect DEF Merging
  <2> QED
    BY <1>2, <2>3
<1>3. ASSUME ds' = Put(ds, CallBubble(n))
      PROVE  DataOK(ds')
  <2>1. DataOK(Put(ds, CallBubble(n)))
    BY <1>1, CallBubbleType, PutEffect DEF Merging
  <2> QED
    BY <1>3, <2>1
<1>4. DataOK(ds')
  BY <1>2, <1>3 DEF TakeCall, CallBubble
<1>5. Queued(calls', wakes', updates')
  BY <1>1 DEF Merging, Queued
<1> QED
  BY <1>1, <1>4, <1>5, MergingKept

(* The bubble a wake is counted at, and the data set that shows it there.   *)
WakeRecorded(w, k, i) == [ds EXCEPT !.bubbles[i] = RecordWake(@, w, k)]

LEMMA RecordedEffect ==
  ASSUME Made, DataOK(ds), NEW w \in Heard, NEW k \in DOMAIN said.wakes[w].of,
         NEW i \in DOMAIN ds.bubbles, NEW n \in Sends
  PROVE  /\ RecordWake(ds.bubbles[i], w, k) \in Bubbles
         /\ DataOK(WakeRecorded(w, k, i))
         /\ DOMAIN WakeRecorded(w, k, i).bubbles = DOMAIN ds.bubbles
         /\ WakeRecorded(w, k, i).bubbles = [ds.bubbles EXCEPT ![i] = RecordWake(@, w, k)]
         /\ WakeRecorded(w, k, i).keys = ds.keys
         /\ WakeRecorded(w, k, i).rejected = ds.rejected
         /\ WakeRecorded(w, k, i).feed = ds.feed
         /\ DataOK(Register(WakeRecorded(w, k, i), n, i))
<1>1. ds.bubbles[i] \in Bubbles
  BY DataParts
<1>2. RecordWake(ds.bubbles[i], w, k) \in Bubbles
  BY <1>1, RecordWakeType
<1>3. WakeRecorded(w, k, i) = [ds EXCEPT !.bubbles[i] = RecordWake(ds.bubbles[i], w, k)]
  BY DEF WakeRecorded
<1>4. /\ DataOK(WakeRecorded(w, k, i))
      /\ WakeRecorded(w, k, i).bubbles = [ds.bubbles EXCEPT ![i] = RecordWake(@, w, k)]
      /\ WakeRecorded(w, k, i).keys = ds.keys
      /\ WakeRecorded(w, k, i).rejected = ds.rejected
      /\ WakeRecorded(w, k, i).feed = ds.feed
  BY <1>2, <1>3, AlteredEffect
<1>5. DOMAIN WakeRecorded(w, k, i).bubbles = DOMAIN ds.bubbles
  BY <1>4
<1>6. DataOK(Register(WakeRecorded(w, k, i), n, i))
  BY <1>4, <1>5, RegisterEffect
<1> QED
  BY <1>2, <1>4, <1>5, <1>6

LEMMA TakeWakeMerging ==
  ASSUME Merging, NEW w, NEW k, TakeWake(w, k) \/ TakeNamelessWake(w, k)
  PROVE  Merging'
<1>1. wakes # <<>> /\ <<w, k>> = Head(wakes) /\ wakes' = Tail(wakes)
      /\ UNCHANGED <<said, calls, updates>>
  BY DEF TakeWake, TakeNamelessWake
<1>2. /\ w \in Heard /\ k \in DOMAIN said.wakes[w].of /\ said.wakes[w].of[k] \in Sends
      /\ wakes' \in Seq(Slots) /\ Distinct(wakes')
  BY <1>1, WakeOff
<1> DEFINE n == said.wakes[w].of[k]
           candidates == IF Found(n) # {} THEN Found(n) ELSE MatchWake(w, k)
<1>3. ASSUME NEW i \in candidates, ds' = Register(WakeRecorded(w, k, i), n, i)
      PROVE  DataOK(ds')
  <2>1. i \in DOMAIN ds.bubbles
    BY WakeMatches
  <2>2. DataOK(Register(WakeRecorded(w, k, i), n, i))
    BY <1>2, <2>1, RecordedEffect DEF Merging
  <2> QED
    BY <1>3, <2>2
<1>4. ASSUME ds' = Put(ds, WakeBubble(w, k))
      PROVE  DataOK(ds')
  <2>1. DataOK(Put(ds, WakeBubble(w, k)))
    BY <1>2, WakeBubbleType, PutEffect DEF Merging
  <2> QED
    BY <1>4, <2>1
<1>5. \/ \E i \in candidates : ds' = Register(WakeRecorded(w, k, i), n, i)
      \/ ds' = Put(ds, WakeBubble(w, k))
  BY DEF TakeWake, TakeNamelessWake, WakeRecorded, WakeBubble
<1>6. DataOK(ds')
  BY <1>3, <1>4, <1>5
<1>7. Queued(calls', wakes', updates')
  BY <1>1, <1>2 DEF Merging, Queued
<1> QED
  BY <1>1, <1>6, <1>7, MergingKept

LEMMA NextMerging ==
  ASSUME Merging, NextMerge
  PROVE  Merging' /\ ~Merged /\ UNCHANGED <<said, stage>>
<1>1. CASE \E n \in Sends : RejectCall(n)
  BY <1>1, RejectCallMerging DEF RejectCall, Taking, Merged
<1>2. CASE \E n \in Sends : TakeCall(n)
  BY <1>2, TakeCallMerging DEF TakeCall, Taking, Merged
<1>3. CASE \E n \in Sends : ShareCall(n)
  BY <1>3, ShareCallMerging DEF ShareCall, Taking, Merged
<1>4. CASE \E w \in DOMAIN said.wakes : \E k \in DOMAIN said.wakes[w].of :
             TakeWake(w, k) \/ TakeNamelessWake(w, k)
  BY <1>4, TakeWakeMerging DEF TakeWake, TakeNamelessWake, Merged
<1>5. CASE \E n \in Sends : AddUpdate(n)
  BY <1>5, AddUpdateMerging DEF AddUpdate, Merged
<1> QED
  BY <1>1, <1>2, <1>3, <1>4, <1>5 DEF NextMerge

-----------------------------------------------------------------------------
(* The page: of bubbles there is a first, and what the page infers of a     *)
(* recipient is a session.                                                  *)

LEMMA FirstIsFirst ==
  ASSUME Merging, NEW S \in SUBSET DOMAIN ds.bubbles, S # {}
  PROVE  First(S) \in S /\ \A j \in S \ {First(S)} : Before(First(S), j)
<1> DEFINE times == {Bubble(i).at : i \in S}
           soonest == {i \in S : Bubble(i).at = Min(times)}
<1>1. /\ DOMAIN ds.bubbles \subseteq Nat
      /\ \A i \in DOMAIN ds.bubbles : Bubble(i).at \in Nat
  <2>1. DOMAIN ds.bubbles = 1..Len(ds.bubbles) /\ Len(ds.bubbles) \in Nat
    BY DataParts DEF Merging
  <2>2. \A i \in DOMAIN ds.bubbles : Bubble(i) \in Bubbles
    BY DataParts DEF Merging, Bubble
  <2>3. \A b \in Bubbles : b.at \in Nat
    BY DEF Bubbles
  <2> QED
    BY <2>1, <2>2, <2>3
<1>2. times \in SUBSET Nat /\ times # {}
  BY <1>1
<1>3. Min(times) \in times /\ \A t \in times : Min(times) <= t
  BY <1>2, MinIsLeast
<1>4. soonest \in SUBSET Nat /\ soonest # {}
  BY <1>1, <1>3
<1>5. Min(soonest) \in soonest /\ \A i \in soonest : Min(soonest) <= i
  BY <1>4, MinIsLeast
<1>6. \A j \in S : Bubble(j).at \in times
  OBVIOUS
<1>7. ASSUME NEW j \in S \ {Min(soonest)}
      PROVE  Before(Min(soonest), j)
  <2>1. Bubble(Min(soonest)).at = Min(times) /\ Min(times) <= Bubble(j).at
    BY <1>3, <1>5, <1>6
  <2>2. Bubble(j).at = Min(times) => Min(soonest) <= j
    BY <1>5
  <2>3. Min(times) \in Nat /\ Bubble(j).at \in Nat /\ Min(soonest) \in Nat /\ j \in Nat
    BY <1>1, <1>2, <1>3, <1>4, <1>5
  <2> QED
    BY <2>1, <2>2, <2>3 DEF Before
<1>8. \E i \in S : \A j \in S \ {i} : Before(i, j)
  BY <1>5, <1>7
<1> QED
  BY <1>8 DEF First

LEMMA ParentsShown ==
  ASSUME Merging, NEW i
  PROVE  Parents(i) \subseteq Shown /\ Shown \subseteq DOMAIN ds.bubbles
BY WakeMatches DEF Parents

(* What an inference leaves as it is.                                       *)
SameMessage(b, c) ==
  /\ b.id = c.id /\ b.kind = c.kind /\ b.from = c.from /\ b.fromActor = c.fromActor
  /\ b.texts = c.texts /\ b.at = c.at /\ b.entry = c.entry
  /\ b.wakeCount = c.wakeCount /\ b.evidence = c.evidence

LEMMA InferredType ==
  ASSUME Merging, NEW i \in DOMAIN ds.bubbles
  PROVE  /\ Inferred(i) \in Bubbles
         /\ SameMessage(Inferred(i), Bubble(i))
<1> DEFINE b == Bubble(i)
           answered == {p \in Parents(i) : Bubble(p).from # ""}
           p == CHOOSE p \in answered : TRUE
           s == CHOOSE s \in b.wokenBy : TRUE
<1>1. b \in Bubbles /\ b.wokenBy \subseteq Sessions
  BY DataParts DEF Merging, Bubble, Bubbles
<1>2. ASSUME answered # {}
      PROVE  Bubble(p).from \in Sessions \cup {""} /\ Bubble(p).fromActor \in Labels
  <2>1. p \in answered
    BY <1>2
  <2>2. p \in DOMAIN ds.bubbles
    BY <2>1, ParentsShown
  <2>3. Bubble(p) \in Bubbles
    BY <2>2, DataParts DEF Merging, Bubble
  <2>4. \A c \in Bubbles : c.from \in Sessions \cup {""} /\ c.fromActor \in Labels
    BY DEF Bubbles, Labels
  <2> HIDE DEF p
  <2> QED
    BY <2>3, <2>4
<1>3. ASSUME Cardinality(b.wokenBy) = 1
      PROVE  s \in Sessions /\ LabelOf[s] \in Labels
  <2>1. b.wokenBy # {}
    BY <1>3, FS_EmptySet
  <2>2. s \in Sessions
    BY <1>1, <2>1
  <2> HIDE DEF s
  <2> QED
    BY <2>2 DEF Sessions, Labels, Range
<1>4. Inferred(i) = IF b.to # "" /\ b.toActor \notin {"", "?"} THEN b
                    ELSE IF answered # {} THEN
                      [b EXCEPT !.to = Bubble(p).from, !.toActor = Bubble(p).fromActor,
                                !.inferred = TRUE]
                    ELSE IF Cardinality(b.wokenBy) = 1 THEN
                      [b EXCEPT !.to = s, !.toActor = LabelOf[s], !.inferred = TRUE]
                    ELSE b
  BY DEF Inferred
<1> HIDE DEF b, answered, p, s
<1>5. CASE Inferred(i) = b
  BY <1>1, <1>5 DEF b, SameMessage
<1>6. CASE /\ answered # {}
           /\ Inferred(i) = [b EXCEPT !.to = Bubble(p).from, !.toActor = Bubble(p).fromActor,
                                       !.inferred = TRUE]
  <2> DEFINE from == Bubble(p).from
             label == Bubble(p).fromActor
  <2>1. from \in Sessions \cup {""} /\ label \in Labels
    BY <1>2, <1>6
  <2> HIDE DEF from, label
  <2>2. /\ [b EXCEPT !.to = from, !.toActor = label, !.inferred = TRUE] \in Bubbles
        /\ SameMessage([b EXCEPT !.to = from, !.toActor = label, !.inferred = TRUE], b)
    BY <1>1, <2>1 DEF Bubbles, SameMessage
  <2> QED
    BY <1>6, <2>2 DEF b, from, label, SameMessage
<1>7. CASE /\ Cardinality(b.wokenBy) = 1
           /\ Inferred(i) = [b EXCEPT !.to = s, !.toActor = LabelOf[s], !.inferred = TRUE]
  <2> DEFINE label == LabelOf[s]
  <2>1. s \in Sessions /\ label \in Labels
    BY <1>3, <1>7
  <2> HIDE DEF label
  <2>2. /\ [b EXCEPT !.to = s, !.toActor = label, !.inferred = TRUE] \in Bubbles
        /\ SameMessage([b EXCEPT !.to = s, !.toActor = label, !.inferred = TRUE], b)
    BY <1>1, <2>1 DEF Bubbles, SameMessage
  <2> QED
    BY <1>7, <2>2 DEF b, label, SameMessage
<1> QED
  BY <1>4, <1>5, <1>6, <1>7

LEMMA PeerIsSession ==
  ASSUME Made, NEW w \in Heard, NEW m
  PROVE  Peers(w, m) \subseteq Sessions
<1>1. ASSUME NEW n \in ToSet(said.wakes[w].of)
      PROVE  Resolve(NameOf[Send(n).from], m.at, m.from) \in Sessions \cup {""}
  <2>1. w \in DOMAIN said.wakes
    BY DEF Heard
  <2>2. n \in Sends
    BY <2>1, SaidWakes DEF ToSet
  <2>3. NameOf[Send(n).from] \in DOMAIN Answering
    BY <2>2, SaidSends, MergeAssumption
  <2> QED
    BY <2>3, ResolveSession
<1> QED
  BY <1>1 DEF Peers

LEMMA AttributedType ==
  ASSUME Made, NEW m \in Bubbles
  PROVE  Attributed(m) \in Bubbles /\ Attributed(m).evidence = m.evidence
<1> DEFINE last == {w \in Prompts(m) : \A v \in Prompts(m) : said.wakes[v].at <= said.wakes[w].at}
           peers == IF last = {} THEN {} ELSE Peers(Min(last), m)
           s == CHOOSE s \in peers : TRUE
           label == LabelOf[s]
<1>1. last \subseteq Heard /\ last \subseteq DOMAIN said.wakes
  BY DEF Prompts, Heard
<1>2. last \in SUBSET Nat
  BY <1>1, SaidWakes
<1>3. last # {} => Min(last) \in Heard
  BY <1>1, <1>2, MinIsLeast
<1>4. peers \subseteq Sessions
  BY <1>3, PeerIsSession
<1>5. Cardinality(peers) = 1 => s \in Sessions /\ label \in Labels
  <2> HIDE DEF peers
  <2>1. Cardinality(peers) = 1 => peers # {}
    BY FS_EmptySet
  <2>2. peers # {} => s \in peers
    OBVIOUS
  <2> HIDE DEF s
  <2>3. s \in Sessions => LabelOf[s] \in Labels
    BY DEF Sessions, Labels, Range
  <2> QED
    BY <1>4, <2>1, <2>2, <2>3
<1>6. Attributed(m) =
        IF m.to = "" /\ m.kind \in {"reply", "steer"} /\ Cardinality(peers) = 1
        THEN [m EXCEPT !.to = s, !.toActor = label, !.inferred = TRUE] ELSE m
  BY DEF Attributed
<1> HIDE DEF peers, s, label
<1>7. s \in Sessions /\ label \in Labels =>
        /\ [m EXCEPT !.to = s, !.toActor = label, !.inferred = TRUE] \in Bubbles
        /\ [m EXCEPT !.to = s, !.toActor = label, !.inferred = TRUE].evidence = m.evidence
  BY DEF Bubbles
<1> QED
  BY <1>5, <1>6, <1>7

(* The page is built of what is merged; it links and names while it builds. *)
PageOK ==
  /\ stage \in {"merge", "linking", "threads", "targets", "refused", "joining", "shown"}
  /\ stage # "merge" => Merged
  /\ forest \in [DOMAIN forest -> DOMAIN forest]
  /\ links \subseteq (DOMAIN forest) \X (DOMAIN forest)
  /\ stage \notin {"linking", "joining"} => links = {}
  /\ stage \notin {"merge", "linking"} => thread \in [Shown -> Shown]

TypeInv == Merging /\ PageOK

LEMMA StayMerged ==
  ASSUME UNCHANGED <<calls, wakes, updates>>
  PROVE  Merged' <=> Merged
BY DEF Merged

LEMMA JoinOK ==
  ASSUME TypeInv, Join
  PROVE  TypeInv' /\ UNCHANGED <<said, calls, wakes, updates, ds, stage, thread, chats>>
<1>1. UNCHANGED <<said, calls, wakes, updates, ds, stage, thread, chats>>
  BY DEF Join
<1>2. PICK link \in links : forest' = Joined(link[1], link[2]) /\ links' = links \ {link}
  BY DEF Join
<1>3. /\ link[1] \in DOMAIN forest /\ link[2] \in DOMAIN forest
      /\ forest \in [DOMAIN forest -> DOMAIN forest]
      /\ links \subseteq (DOMAIN forest) \X (DOMAIN forest)
  BY DEF TypeInv, PageOK
<1>4. forest' \in [DOMAIN forest -> DOMAIN forest]
  BY <1>2, <1>3 DEF Joined
<1>5. DOMAIN forest' = DOMAIN forest
  BY <1>4
<1>6. Merging'
  BY <1>1, MergingKept DEF TypeInv, Merging
<1>7. PageOK'
  BY <1>1, <1>2, <1>3, <1>4, <1>5, StayMerged DEF TypeInv, PageOK, Shown
<1> QED
  BY <1>1, <1>6, <1>7 DEF TypeInv

LEMMA LinkThreadsOK ==
  ASSUME TypeInv, LinkThreads
  PROVE  TypeInv'
<1>1. UNCHANGED <<said, calls, wakes, updates, ds, thread>> /\ stage' = "linking" /\ Merged
  BY DEF LinkThreads
<1>2. forest' \in [DOMAIN forest' -> DOMAIN forest']
  BY DEF LinkThreads, Apart
<1>3. links' \subseteq (DOMAIN forest') \X (DOMAIN forest')
  BY DEF LinkThreads
<1>4. Merging'
  BY <1>1, MergingKept DEF TypeInv, Merging
<1> QED
  BY <1>1, <1>2, <1>3, <1>4, StayMerged DEF TypeInv, PageOK

LEMMA NameThreadsOK ==
  ASSUME TypeInv, NameThreads
  PROVE  TypeInv'
<1>1. UNCHANGED <<said, calls, wakes, updates, ds, forest, links>> /\ stage' = "threads"
      /\ stage = "linking" /\ links = {}
  BY DEF NameThreads
<1>2. ASSUME NEW i \in Shown
      PROVE  First({j \in Shown : forest[Bubble(j).id] = forest[Bubble(i).id]}) \in Shown
  <2> DEFINE same == {j \in Shown : forest[Bubble(j).id] = forest[Bubble(i).id]}
  <2>1. same \in SUBSET DOMAIN ds.bubbles /\ same # {} /\ same \subseteq Shown
    BY ParentsShown DEF TypeInv
  <2>2. First(same) \in same
    BY <2>1, FirstIsFirst DEF TypeInv
  <2> QED
    BY <2>1, <2>2
<1>3. thread' \in [Shown -> Shown]
  BY <1>2 DEF NameThreads
<1>4. Merging'
  BY <1>1, MergingKept DEF TypeInv, Merging
<1>5. Shown' = Shown
  BY <1>1 DEF Shown
<1> QED
  BY <1>1, <1>3, <1>4, <1>5, StayMerged DEF TypeInv, PageOK

LEMMA IsAList ==
  ASSUME NEW S, NEW n \in Nat, NEW f \in [1..n -> S]
  PROVE  f \in Seq(S)
BY SeqDef

LEMMA InferTargetsEffect ==
  ASSUME Merging, InferTargets
  PROVE  /\ Merging' /\ Shown' = Shown
         /\ ds'.keys = ds.keys /\ ds'.rejected = ds.rejected /\ ds'.feed = ds.feed
         /\ DOMAIN ds'.bubbles = DOMAIN ds.bubbles
         /\ \A i \in DOMAIN ds.bubbles : SameMessage(ds'.bubbles[i], ds.bubbles[i])
<1> DEFINE bubbles == [i \in DOMAIN ds.bubbles |-> IF i \in Shown THEN Inferred(i) ELSE ds.bubbles[i]]
<1>1. UNCHANGED <<said, calls, wakes, updates>> /\ ds' = [ds EXCEPT !.bubbles = bubbles]
  BY DEF InferTargets
<1>2. /\ DOMAIN ds.bubbles = 1..Len(ds.bubbles) /\ Len(ds.bubbles) \in Nat
      /\ \A i \in DOMAIN ds.bubbles : ds.bubbles[i] \in Bubbles
  BY DataParts DEF Merging
<1>3. \A i \in DOMAIN ds.bubbles : bubbles[i] \in Bubbles
  BY <1>2, InferredType
<1>4. \A i \in DOMAIN ds.bubbles : SameMessage(bubbles[i], ds.bubbles[i])
  BY InferredType DEF SameMessage, Bubble
<1>5. bubbles \in Seq(Bubbles) /\ DOMAIN bubbles = DOMAIN ds.bubbles
  <2>1. bubbles \in [DOMAIN ds.bubbles -> Bubbles]
    BY <1>3
  <2> HIDE DEF bubbles
  <2> QED
    BY <1>2, <2>1, IsAList
<1> HIDE DEF bubbles
<1>6. /\ ds'.keys = ds.keys /\ ds'.rejected = ds.rejected /\ ds'.feed = ds.feed
      /\ ds'.bubbles = bubbles
  BY <1>1 DEF Merging, DataOK, DataSets
<1>7. [ds EXCEPT !.bubbles = bubbles] \in DataSets
  BY <1>5 DEF Merging, DataOK, DataSets
<1>8. DataOK(ds')
  BY <1>1, <1>5, <1>6, <1>7 DEF Merging, DataOK
<1>9. Merging'
  BY <1>1, <1>8, MergingKept DEF Merging
<1> QED
  BY <1>4, <1>5, <1>6, <1>9 DEF Shown

LEMMA InferRefusedEffect ==
  ASSUME Merging, InferRefused
  PROVE  /\ Merging' /\ Shown' = Shown
         /\ ds'.keys = ds.keys /\ ds'.bubbles = ds.bubbles /\ ds'.feed = ds.feed
         /\ \A e : (\E i \in DOMAIN ds.rejected : e \in ds.rejected[i].evidence)
                   => \E i \in DOMAIN ds'.rejected : e \in ds'.rejected[i].evidence
<1>1. PICK order \in SetToSeqs(DOMAIN ds.rejected) :
        ds' = [ds EXCEPT !.rejected = [x \in DOMAIN @ |-> Attributed(@[order[x]])]]
  BY DEF InferRefused
<1> DEFINE rejected == [x \in DOMAIN ds.rejected |-> Attributed(ds.rejected[order[x]])]
<1>2. UNCHANGED <<said, calls, wakes, updates>> /\ ds' = [ds EXCEPT !.rejected = rejected]
  BY <1>1 DEF InferRefused
<1>3. /\ ds.rejected \in Seq(Bubbles) /\ IsFiniteSet(DOMAIN ds.rejected)
      /\ DOMAIN ds.rejected = 1..Len(ds.rejected) /\ Len(ds.rejected) \in Nat
      /\ \A x \in DOMAIN ds.rejected : ds.rejected[x] \in Bubbles
  BY DataParts, Lists DEF Merging
<1>4. Cardinality(DOMAIN ds.rejected) = Len(ds.rejected)
  BY <1>3, FS_Interval
<1>5. /\ DOMAIN order = DOMAIN ds.rejected /\ Range(order) = DOMAIN ds.rejected
      /\ \A x \in DOMAIN order : order[x] \in DOMAIN ds.rejected
  <2>1. DOMAIN order = DOMAIN ds.rejected /\ Range(order) = DOMAIN ds.rejected
    BY <1>3, <1>4, ListsAll
  <2> QED
    BY <2>1 DEF Range
<1>6. ASSUME NEW x \in DOMAIN ds.rejected
      PROVE  /\ rejected[x] \in Bubbles
             /\ rejected[x].evidence = ds.rejected[order[x]].evidence
  <2>1. order[x] \in DOMAIN ds.rejected /\ ds.rejected[order[x]] \in Bubbles
    BY <1>3, <1>5
  <2> QED
    BY <2>1, AttributedType DEF Merging
<1>7. rejected \in Seq(Bubbles) /\ DOMAIN rejected = DOMAIN ds.rejected
  <2>1. rejected \in [DOMAIN ds.rejected -> Bubbles]
    BY <1>6
  <2> HIDE DEF rejected
  <2> QED
    BY <1>3, <2>1, IsAList
<1>8. ASSUME NEW e, NEW i \in DOMAIN ds.rejected, e \in ds.rejected[i].evidence
      PROVE  \E x \in DOMAIN rejected : e \in rejected[x].evidence
  <2>1. PICK x \in DOMAIN order : order[x] = i
    BY <1>5 DEF Range
  <2> QED
    BY <1>5, <1>6, <1>7, <1>8, <2>1
<1> HIDE DEF rejected
<1>9. /\ ds'.keys = ds.keys /\ ds'.bubbles = ds.bubbles /\ ds'.feed = ds.feed
      /\ ds'.rejected = rejected
  BY <1>2 DEF Merging, DataOK, DataSets
<1>10. [ds EXCEPT !.rejected = rejected] \in DataSets
  BY <1>7 DEF Merging, DataOK, DataSets
<1>11. DataOK(ds')
  BY <1>2, <1>9, <1>10 DEF Merging, DataOK
<1>12. Merging'
  BY <1>2, <1>11, MergingKept DEF Merging
<1> QED
  BY <1>8, <1>9, <1>12 DEF Shown

LEMMA InferOK ==
  ASSUME TypeInv, InferTargets \/ InferRefused
  PROVE  TypeInv'
<1>1. /\ UNCHANGED <<calls, wakes, updates, forest, links, thread>>
      /\ stage \in {"threads", "targets"} /\ stage' \in {"targets", "refused"}
  BY DEF InferTargets, InferRefused
<1>2. Merging' /\ Shown' = Shown
  BY InferTargetsEffect, InferRefusedEffect DEF TypeInv
<1> QED
  BY <1>1, <1>2, StayMerged DEF TypeInv, PageOK

LEMMA GroupChatsOK ==
  ASSUME TypeInv, NEW mode, NEW split, GroupChats(mode, split)
  PROVE  TypeInv'
<1> DEFINE buckets == Buckets(Combined, mode)
<1>1. /\ UNCHANGED <<said, calls, wakes, updates, ds, thread>>
      /\ stage = "refused" /\ stage' = "joining"
  BY DEF GroupChats
<1>2. /\ forest' = Apart({b.lead : b \in buckets})
      /\ links' = {<<p[1].lead, p[2].lead>> : p \in {q \in buckets \X buckets :
                     q[1].lead < q[2].lead /\ Overlap(q[1], q[2]) /\ SameParty(q[1], q[2])}}
  BY DEF GroupChats
<1> HIDE DEF buckets
<1>3. /\ forest' \in [DOMAIN forest' -> DOMAIN forest']
      /\ DOMAIN forest' = {b.lead : b \in buckets}
  BY <1>2 DEF Apart
<1>4. ASSUME NEW link \in links'
      PROVE  link \in (DOMAIN forest') \X (DOMAIN forest')
  <2>1. PICK p \in buckets \X buckets : link = <<p[1].lead, p[2].lead>>
    BY <1>2
  <2>2. p[1] \in buckets /\ p[2] \in buckets
    OBVIOUS
  <2> QED
    BY <1>3, <2>1, <2>2
<1>5. Merging'
  BY <1>1, MergingKept DEF TypeInv, Merging
<1>6. Shown' = Shown
  BY <1>1 DEF Shown
<1> QED
  BY <1>1, <1>3, <1>4, <1>5, <1>6, StayMerged DEF TypeInv, PageOK

LEMMA BuildChatsOK ==
  ASSUME TypeInv, BuildChats
  PROVE  TypeInv'
<1>1. UNCHANGED <<said, calls, wakes, updates, ds, forest, links, thread>>
      /\ stage = "joining" /\ stage' = "shown" /\ links = {}
  BY DEF BuildChats
<1>2. Merging' /\ Shown' = Shown
  BY <1>1, MergingKept DEF TypeInv, Merging, Shown
<1> QED
  BY <1>1, <1>2, StayMerged DEF TypeInv, PageOK

LEMMA NextMergeOK ==
  ASSUME TypeInv, NextMerge, UNCHANGED <<forest, links, thread, chats>>
  PROVE  TypeInv' /\ stage = "merge" /\ stage' = "merge"
<1>1. Merging' /\ ~Merged /\ stage' = stage
  BY NextMerging DEF TypeInv
<1> QED
  BY <1>1 DEF TypeInv, PageOK

LEMMA TypeInvInit == Init => TypeInv
<1> SUFFICES ASSUME Init PROVE TypeInv
  OBVIOUS
<1>1. Merging
  BY InitMerging DEF Init
<1>2. PageOK
  BY DEF Init, InitMerge, PageOK
<1> QED
  BY <1>1, <1>2 DEF TypeInv

LEMMA TypeInvStep == TypeInv /\ [Next]_vars => TypeInv'
<1> SUFFICES ASSUME TypeInv, [Next]_vars PROVE TypeInv'
  OBVIOUS
<1>1. CASE NextMerge /\ UNCHANGED <<forest, links, thread, chats>>
  BY <1>1, NextMergeOK
<1>2. CASE Join
  BY <1>2, JoinOK
<1>3. CASE LinkThreads
  BY <1>3, LinkThreadsOK
<1>4. CASE NameThreads
  BY <1>4, NameThreadsOK
<1>5. CASE InferTargets \/ InferRefused
  BY <1>5, InferOK
<1>6. CASE \E mode \in {"participants", "sessions"}, split \in BOOLEAN : GroupChats(mode, split)
  BY <1>6, GroupChatsOK
<1>7. CASE BuildChats
  BY <1>7, BuildChatsOK
<1>8. CASE UNCHANGED vars
  <2>1. UNCHANGED <<said, calls, wakes, updates, ds, stage, forest, links, thread>>
    BY <1>8 DEF vars
  <2>2. Merging' /\ Shown' = Shown
    BY <2>1, MergingKept DEF TypeInv, Merging, Shown
  <2> QED
    BY <2>1, <2>2, StayMerged DEF TypeInv, PageOK
<1> QED
  BY <1>1, <1>2, <1>3, <1>4, <1>5, <1>6, <1>7, <1>8 DEF Next

LEMMA TypeInvHolds == Spec => []TypeInv
BY TypeInvInit, TypeInvStep, PTL DEF Spec

LEMMA BubbleOK ==
  ASSUME NEW b \in Bubbles
  PROVE  MessageOK(b)
BY DEF Bubbles, MessageOK, Labels

LEMMA TypeInvTypes == TypeInv => TypeOK
<1> SUFFICES ASSUME TypeInv PROVE TypeOK
  OBVIOUS
<1>1. /\ \A i \in DOMAIN ds.bubbles : ds.bubbles[i] \in Bubbles
      /\ ds.rejected \in Seq(Bubbles)
      /\ DOMAIN ds.keys \subseteq Ids /\ Shown \subseteq DOMAIN ds.bubbles
  BY DataParts DEF TypeInv, Merging, Shown
<1>2. \A i \in DOMAIN ds.rejected : ds.rejected[i] \in Bubbles
  BY <1>1, Lists
<1>3. \A m \in Range(ds.bubbles) \cup Range(ds.rejected) : MessageOK(m)
  BY <1>1, <1>2, BubbleOK DEF Range
<1>4. ToSet(calls) \subseteq Sends
  BY Lists DEF TypeInv, Merging, Queued
<1> QED
  BY <1>1, <1>3, <1>4 DEF TypeInv, PageOK, TypeOK

(* Whatever the history and whatever is left of it: every key leads to a    *)
(* bubble, a session field holds a session or nothing, and every message    *)
(* shown is in a thread named by a message shown (build.go and              *)
(* unit_test.go:469-471).                                                   *)
THEOREM TypeCorrect == Spec => []TypeOK
BY TypeInvHolds, TypeInvTypes, PTL

-----------------------------------------------------------------------------
(* No evidence is lost.                                                     *)

(* What is borne by the bubbles of d when cs, ws and us are still to come.  *)
MarksOf(d, i) == d.bubbles[i].evidence

(* A mark is on one bubble, and only once its call or wake is taken.        *)
MarksApart(d) ==
  \A i, j \in DOMAIN d.bubbles : \A e \in MarksOf(d, i) : e \in MarksOf(d, j) => i = j
MarksTaken(d, cs, ws) ==
  \A i \in DOMAIN d.bubbles :
    /\ \A n \in ToSet(cs) : <<"call", n>> \notin MarksOf(d, i)
    /\ \A s \in ToSet(ws) : <<"wake", s[1], s[2]>> \notin MarksOf(d, i)

(* The records never lose their key, and calls and wakes only take theirs.  *)
RecordsFound(d) ==
  \A n \in KeptSends : /\ FullKey(n) \in DOMAIN d.keys
                       /\ <<"room", n>> \in MarksOf(d, d.keys[FullKey(n)])
RecordsOnly(d) ==
  \A i \in DOMAIN d.bubbles : \A n \in Sends :
    <<"room", n>> \in MarksOf(d, i) => n \in KeptSends /\ i = d.keys[FullKey(n)]
OneRecord(d) ==
  \A i \in DOMAIN d.bubbles : \A m, n \in Sends :
    <<"room", m>> \in MarksOf(d, i) /\ <<"room", n>> \in MarksOf(d, i) => m = n
CallKeysTrue(d) ==
  \A key \in DOMAIN d.keys :
    key[1] = "call" => \E m \in Sends : key = CallKey(m) /\ <<"call", m>> \in MarksOf(d, d.keys[key])
WakeKeysFree(d, ws) == \A s \in ToSet(ws) : WakeKey(s[1], s[2]) \notin DOMAIN d.keys

(* What was taken is shown, but for a call whose key another call took.     *)
WakesShown(d, ws) ==
  \A s \in Slots \ ToSet(ws) : \E i \in Range(d.keys) : <<"wake", s[1], s[2]>> \in MarksOf(d, i)
CallsShown(d, cs) ==
  \A n \in Sends : Indexed(n) /\ n \notin ToSet(cs) /\ ~Send(n).refused /\ IsDirect(n) =>
    \/ \E i \in Range(d.keys) : <<"call", n>> \in MarksOf(d, i)
    \/ CallKey(n) \in DOMAIN d.keys /\ <<"call", n>> \notin MarksOf(d, d.keys[CallKey(n)])
CallsFirst(cs, ws) == cs # <<>> => ToSet(ws) = Slots

(* A bubble has at most one call, and counts its wakes.                     *)
OneCall(d) ==
  \A i \in DOMAIN d.bubbles : \A m, n \in Sends :
    <<"call", m>> \in MarksOf(d, i) => /\ d.bubbles[i].entry # 0
                                       /\ <<"call", n>> \in MarksOf(d, i) => m = n
WakeMarks(marks) == {e \in marks : e[1] = "wake"}
WakesCounted(d) ==
  \A i \in DOMAIN d.bubbles : /\ IsFiniteSet(WakeMarks(MarksOf(d, i)))
                              /\ d.bubbles[i].wakeCount = Cardinality(WakeMarks(MarksOf(d, i)))

(* What is no bubble is with the refused or on the feed.                    *)
RefusedListed(d, cs) ==
  \A n \in Sends : Indexed(n) /\ n \notin ToSet(cs) /\ Send(n).refused =>
    \E i \in DOMAIN d.rejected : <<"call", n>> \in d.rejected[i].evidence
SharedListed(d, cs, us) ==
  /\ \A n \in Sends :
       Indexed(n) /\ n \notin ToSet(cs) /\ ~Send(n).refused /\ ~IsDirect(n) /\ Send(n).text # "" =>
         \E i \in DOMAIN d.feed : <<"call", n>> \in d.feed[i].evidence
  /\ \A n \in KeptUpdates \ ToSet(us) : MatchedBroadcast(d.feed, n)

Kept(d, cs, ws, us) ==
  /\ MarksApart(d) /\ MarksTaken(d, cs, ws)
  /\ RecordsFound(d) /\ RecordsOnly(d) /\ OneRecord(d)
  /\ CallKeysTrue(d) /\ WakeKeysFree(d, ws)
  /\ WakesShown(d, ws) /\ CallsShown(d, cs) /\ CallsFirst(cs, ws)
  /\ OneCall(d) /\ WakesCounted(d)
  /\ RefusedListed(d, cs) /\ SharedListed(d, cs, us)

(* A record keeps what it says; a wake that names its message and a call    *)
(* that quotes it are on it; and what took its place was a call that says   *)
(* the same and that nothing ties to a record.                              *)
Loose(m) == m \notin said.quoted \cap said.kept
RecordsTrue(d) ==
  \A n \in KeptSends :
    LET b == d.bubbles[d.keys[FullKey(n)]]
    IN /\ b.kind = Send(n).kind /\ b.from = Send(n).from
       /\ b.fromActor = LabelOf[Send(n).from] /\ b.texts = {Send(n).text}
       /\ b.entry # 0 => \/ <<"call", n>> \in b.evidence
                         \/ \E m \in Sends : Loose(m) /\ Alike(m, n)
WakesHome(d) ==
  \A n \in KeptSends : \A s \in Slots :
    s[1] \in said.named /\ said.wakes[s[1]].of[s[2]] = n =>
      \A i \in DOMAIN d.bubbles :
        <<"wake", s[1], s[2]>> \in MarksOf(d, i) => i = d.keys[FullKey(n)]
CallsHome(d) ==
  \A n \in KeptSends : n \in said.quoted /\ ~Misled(n) =>
    \A i \in DOMAIN d.bubbles : <<"call", n>> \in MarksOf(d, i) => i = d.keys[FullKey(n)]

Home(d) == RecordsTrue(d) /\ WakesHome(d) /\ CallsHome(d)

EvidenceInv == Kept(ds, calls, wakes, updates)
HomeInv == Home(ds)

LEMMA KeptPrimed ==
  ASSUME said' = said, Kept(ds', calls', wakes', updates')
  PROVE  EvidenceInv'
<1>1. /\ Sends' = Sends /\ Slots' = Slots /\ KeptUpdates' = KeptUpdates /\ KeptSends' = KeptSends
  BY SameHistory DEF KeptSends, IsDirect, Send
<1>2. /\ \A n : Send(n)' = Send(n) /\ IsDirect(n)' = IsDirect(n) /\ Indexed(n)' = Indexed(n)
                /\ FullKey(n)' = FullKey(n) /\ CallKey(n)' = CallKey(n)
      /\ \A w, k : WakeKey(w, k)' = WakeKey(w, k)
  BY DEF Send, IsDirect, Indexed, FullKey, CallKey, WakeKey
<1>3. (MarksApart(ds) /\ MarksTaken(ds, calls, wakes))'
  BY DEF Kept, MarksApart, MarksTaken, MarksOf
<1>4. (RecordsFound(ds) /\ RecordsOnly(ds) /\ OneRecord(ds))'
  BY <1>1, <1>2 DEF Kept, RecordsFound, RecordsOnly, OneRecord, MarksOf
<1>5. (CallKeysTrue(ds) /\ WakeKeysFree(ds, wakes))'
  BY <1>1, <1>2 DEF Kept, CallKeysTrue, WakeKeysFree, MarksOf
<1>6. (WakesShown(ds, wakes) /\ CallsShown(ds, calls) /\ CallsFirst(calls, wakes))'
  BY <1>1, <1>2 DEF Kept, WakesShown, CallsShown, CallsFirst, MarksOf
<1>7. (OneCall(ds) /\ WakesCounted(ds))'
  BY <1>1 DEF Kept, OneCall, WakesCounted, WakeMarks, MarksOf
<1>8. RefusedListed(ds, calls)'
  BY <1>1, <1>2 DEF Kept, RefusedListed
<1>9. SharedListed(ds, calls, updates)'
  BY <1>1, <1>2 DEF Kept, SharedListed, MatchedBroadcast, Within
<1> QED
  BY <1>3, <1>4, <1>5, <1>6, <1>7, <1>8, <1>9 DEF EvidenceInv, Kept

LEMMA InitKept ==
  ASSUME InitMerge
  PROVE  EvidenceInv
<1>1. Made
  BY DEF InitMerge, Made
<1>2. /\ ToSet(calls) = {n \in Sends : Indexed(n)} /\ ToSet(wakes) = Slots
      /\ ToSet(updates) = KeptUpdates
  <2>1. /\ IsFiniteSet({n \in Sends : Indexed(n)}) /\ IsFiniteSet(KeptUpdates)
        /\ IsFiniteSet(Slots)
    <3>1. KeptUpdates \subseteq Sends /\ {n \in Sends : Indexed(n)} \subseteq Sends
      BY <1>1, SaidSends DEF KeptUpdates
    <3> QED
      BY <1>1, <3>1, SaidSends, SlotsFinite, FS_Subset
  <2> QED
    BY <2>1, ListsAll DEF InitMerge
<1>3. PICK order \in SetToSeqs(KeptSends) : ds = FromRecords(order)
  BY DEF InitMerge
<1>4. /\ ds.rejected = <<>> /\ ds.feed = <<>>
      /\ ds.bubbles = [i \in DOMAIN order |-> FromRoom(order[i])]
      /\ \A i \in DOMAIN order : order[i] \in KeptSends
      /\ \A i, j \in DOMAIN order : order[i] = order[j] => i = j
      /\ \A n \in KeptSends : /\ FullKey(n) \in DOMAIN ds.keys
                             /\ ds.keys[FullKey(n)] \in DOMAIN order
                             /\ order[ds.keys[FullKey(n)]] = n
      /\ \A key \in DOMAIN ds.keys : \E n \in KeptSends : key \in {FullKey(n), ShortKey(n)}
  BY <1>1, <1>3, RecordsEffect
<1>5. /\ DOMAIN ds.bubbles = DOMAIN order
      /\ \A i \in DOMAIN order : /\ MarksOf(ds, i) = {<<"room", order[i]>>}
                               /\ ds.bubbles[i].wakeCount = 0
  BY <1>4 DEF FromRoom, MarksOf
<1>6. MarksApart(ds) /\ MarksTaken(ds, calls, wakes)
  BY <1>4, <1>5 DEF MarksApart, MarksTaken
<1>7. RecordsFound(ds) /\ RecordsOnly(ds) /\ OneRecord(ds)
  BY <1>4, <1>5 DEF RecordsFound, RecordsOnly, OneRecord
<1>8. ASSUME NEW key \in DOMAIN ds.keys
      PROVE  key[1] \in {"room", "short"}
  <2>1. PICK n \in KeptSends : key = FullKey(n) \/ key = ShortKey(n)
    BY <1>4
  <2>2. FullKey(n)[1] = "room" /\ ShortKey(n)[1] = "short"
    BY DEF FullKey, ShortKey
  <2> QED
    BY <2>1, <2>2
<1>9. CallKeysTrue(ds) /\ WakeKeysFree(ds, wakes)
  BY <1>8 DEF CallKeysTrue, WakeKeysFree, WakeKey
<1>10. WakesShown(ds, wakes) /\ CallsShown(ds, calls) /\ CallsFirst(calls, wakes)
  BY <1>2 DEF WakesShown, CallsShown, CallsFirst
<1>11. OneCall(ds)
  BY <1>5 DEF OneCall
<1>12. WakesCounted(ds)
  <2>1. \A i \in DOMAIN ds.bubbles : WakeMarks(MarksOf(ds, i)) = {}
    BY <1>5 DEF WakeMarks
  <2> QED
    BY <1>5, <2>1, FS_EmptySet DEF WakesCounted
<1>13. RefusedListed(ds, calls) /\ SharedListed(ds, calls, updates)
  BY <1>2 DEF RefusedListed, SharedListed
<1> QED
  BY <1>6, <1>7, <1>9, <1>10, <1>11, <1>12, <1>13 DEF EvidenceInv, Kept

(* A mark that one bubble shown bears, and no other, is on exactly one.     *)
LEMMA OnOne ==
  ASSUME Merging, MarksApart(ds), NEW e, NEW i \in Shown, e \in MarksOf(ds, i)
  PROVE  Cardinality(On(e)) = 1
<1>1. Shown \subseteq DOMAIN ds.bubbles
  BY DEF Merging, DataOK, Shown
<1>2. On(e) = {i}
  BY <1>1 DEF On, MarksApart, MarksOf, Evidence, Bubble
<1> QED
  BY <1>2, FS_Singleton

LEMMA KeptIsKept == Merging /\ EvidenceInv => EvidenceKept
<1> SUFFICES ASSUME Merging, EvidenceInv PROVE EvidenceKept
  OBVIOUS
<1>1. Made /\ Shown \subseteq DOMAIN ds.bubbles /\ Shown = Range(ds.keys)
      /\ \A i \in DOMAIN ds.bubbles : ds.bubbles[i] \in Bubbles
  BY DataParts DEF Merging, Shown
<1>0. \A key \in DOMAIN ds.keys : ds.keys[key] \in Shown
  BY DEF Shown, Range
<1>2. ASSUME NEW n \in KeptSends
      PROVE  Cardinality(On(<<"room", n>>)) = 1
  <2>1. FullKey(n) \in DOMAIN ds.keys /\ <<"room", n>> \in MarksOf(ds, ds.keys[FullKey(n)])
    BY DEF EvidenceInv, Kept, RecordsFound
  <2>2. ds.keys[FullKey(n)] \in Shown
    BY <1>0, <2>1
  <2> QED
    BY <2>1, <2>2, OnOne DEF EvidenceInv, Kept
<1>3. ASSUME NEW n \in Sends, Taken(n), Send(n).refused
      PROVE  \E i \in DOMAIN ds.rejected : <<"call", n>> \in ds.rejected[i].evidence
  BY <1>3 DEF EvidenceInv, Kept, RefusedListed, Taken
<1>4. ASSUME NEW n \in Sends, Taken(n), ~Send(n).refused, ~IsDirect(n), Send(n).text # ""
      PROVE  \E i \in DOMAIN ds.feed : <<"call", n>> \in ds.feed[i].evidence
  BY <1>4 DEF EvidenceInv, Kept, SharedListed, Taken
<1>5. ASSUME NEW n \in Sends, Taken(n), ~Send(n).refused, IsDirect(n)
      PROVE  Cardinality(On(<<"call", n>>)) = 1 \/ Overwritten(n)
  <2>1. \/ \E i \in Range(ds.keys) : <<"call", n>> \in MarksOf(ds, i)
        \/ CallKey(n) \in DOMAIN ds.keys /\ <<"call", n>> \notin MarksOf(ds, ds.keys[CallKey(n)])
    BY <1>5 DEF EvidenceInv, Kept, CallsShown, Taken
  <2>2. CASE \E i \in Range(ds.keys) : <<"call", n>> \in MarksOf(ds, i)
    BY <1>1, <2>2, OnOne DEF EvidenceInv, Kept
  <2>3. CASE CallKey(n) \in DOMAIN ds.keys /\ <<"call", n>> \notin MarksOf(ds, ds.keys[CallKey(n)])
    <3>1. CallKey(n)[1] = "call"
      BY DEF CallKey
    <3>2. PICK m \in Sends : /\ CallKey(n) = CallKey(m)
                            /\ <<"call", m>> \in MarksOf(ds, ds.keys[CallKey(n)])
      BY <2>3, <3>1 DEF EvidenceInv, Kept, CallKeysTrue
    <3>3. m # n /\ ds.keys[CallKey(n)] \in On(<<"call", m>>)
      BY <1>0, <2>3, <3>2 DEF On, MarksOf, Evidence, Bubble
    <3> QED
      BY <3>2, <3>3 DEF Overwritten
  <2> QED
    BY <2>1, <2>2, <2>3
<1>6. ASSUME NEW w \in Heard, NEW k \in DOMAIN said.wakes[w].of, <<w, k>> \notin ToSet(wakes)
      PROVE  Cardinality(On(<<"wake", w, k>>)) = 1
  <2>1. <<w, k>> \in Slots \ ToSet(wakes)
    BY <1>1, <1>6, SlotsFinite
  <2>2. \E i \in Range(ds.keys) : <<"wake", w, k>> \in MarksOf(ds, i)
    BY <2>1 DEF EvidenceInv, Kept, WakesShown
  <2> QED
    BY <1>1, <2>2, OnOne DEF EvidenceInv, Kept
<1>7. ASSUME NEW i \in Shown
      PROVE  /\ Cardinality({e \in Evidence(i) : e[1] = "call"}) <= 1
             /\ Bubble(i).wakeCount = Cardinality({e \in Evidence(i) : e[1] = "wake"})
  <2> DEFINE C == {e \in Evidence(i) : e[1] = "call"}
  <2>1. i \in DOMAIN ds.bubbles /\ Evidence(i) \subseteq Marks /\ Evidence(i) = MarksOf(ds, i)
    BY <1>1 DEF Evidence, Bubble, MarksOf, Bubbles
  <2>2. \A e \in C : \E n \in Sends : e = <<"call", n>>
    BY <2>1 DEF Marks
  <2>3. \A e, f \in C : e = f
    BY <2>1, <2>2 DEF EvidenceInv, Kept, OneCall
  <2> HIDE DEF C
  <2>4. Cardinality({}) = 0 /\ \A e : Cardinality({e}) = 1
    BY FS_EmptySet, FS_Singleton
  <2>5. Cardinality(C) <= 1
    <3>1. CASE C = {}
      BY <2>4, <3>1
    <3>2. ASSUME NEW e \in C PROVE Cardinality(C) <= 1
      <4>1. C = {e}
        BY <2>3
      <4>2. Cardinality({e}) = 1
        BY FS_Singleton
      <4> QED
        BY <4>1, <4>2
    <3> QED
      BY <3>1, <3>2
  <2>6. Bubble(i).wakeCount = Cardinality({e \in Evidence(i) : e[1] = "wake"})
    BY <2>1 DEF EvidenceInv, Kept, WakesCounted, WakeMarks, Bubble
  <2> QED
    BY <2>5, <2>6 DEF C
<1>8. \A n \in KeptUpdates \ ToSet(updates) : MatchedBroadcast(ds.feed, n)
  BY DEF EvidenceInv, Kept, SharedListed
<1> QED
  BY <1>2, <1>3, <1>4, <1>5, <1>6, <1>7, <1>8 DEF EvidenceKept

SaysTheSame(b, c) ==
  b.kind = c.kind /\ b.from = c.from /\ b.fromActor = c.fromActor /\ b.texts = c.texts

(* One step adds one mark, of the call or the wake it takes, to one bubble. *)
Marked(d, i, e) ==
  /\ e[1] \in {"call", "wake"} /\ \A j \in DOMAIN ds.bubbles : e \notin MarksOf(ds, j)
  /\ i \in DOMAIN d.bubbles /\ DOMAIN d.bubbles = DOMAIN ds.bubbles \cup {i}
  /\ \A j \in DOMAIN d.bubbles : \A f :
       f \in MarksOf(d, j) <=> \/ j \in DOMAIN ds.bubbles /\ f \in MarksOf(ds, j)
                               \/ j = i /\ f = e
  /\ \A n \in KeptSends : /\ FullKey(n) \in DOMAIN d.keys
                          /\ d.keys[FullKey(n)] = ds.keys[FullKey(n)]
  /\ \A j \in DOMAIN ds.bubbles : SaysTheSame(d.bubbles[j], ds.bubbles[j])
  /\ \A j \in DOMAIN ds.bubbles :
       d.bubbles[j].entry = ds.bubbles[j].entry \/ (j = i /\ e[1] = "call")

Off(e, cs, ws) ==
  /\ ToSet(cs) \subseteq ToSet(calls) /\ ToSet(ws) \subseteq ToSet(wakes)
  /\ \A n \in ToSet(cs) : e # <<"call", n>>
  /\ \A s \in ToSet(ws) : e # <<"wake", s[1], s[2]>>

LEMMA MarkedKept ==
  ASSUME Merging, EvidenceInv, NEW d, NEW i, NEW e, Marked(d, i, e),
         NEW cs, NEW ws, Off(e, cs, ws)
  PROVE  /\ MarksApart(d) /\ MarksTaken(d, cs, ws)
         /\ RecordsFound(d) /\ RecordsOnly(d) /\ OneRecord(d)
<1>1. /\ MarksApart(ds) /\ MarksTaken(ds, calls, wakes)
      /\ RecordsFound(ds) /\ RecordsOnly(ds) /\ OneRecord(ds)
  BY DEF EvidenceInv, Kept
<1>2. \A n : e # <<"room", n>>
  BY DEF Marked
<1>3. MarksApart(d)
  BY <1>1 DEF MarksApart, Marked
<1>4. MarksTaken(d, cs, ws)
  BY <1>1 DEF MarksTaken, Marked, Off
<1>5. ASSUME NEW n \in KeptSends
      PROVE  FullKey(n) \in DOMAIN d.keys /\ <<"room", n>> \in MarksOf(d, d.keys[FullKey(n)])
  <2>1. FullKey(n) \in DOMAIN ds.keys /\ <<"room", n>> \in MarksOf(ds, ds.keys[FullKey(n)])
    BY <1>1 DEF RecordsFound
  <2>2. ds.keys[FullKey(n)] \in DOMAIN ds.bubbles
    BY <2>1, DataParts DEF Merging
  <2> QED
    BY <2>1, <2>2 DEF Marked
<1>6. RecordsOnly(d)
  BY <1>1, <1>2 DEF RecordsOnly, Marked
<1>7. OneRecord(d)
  BY <1>1, <1>2 DEF OneRecord, Marked
<1> QED
  BY <1>3, <1>4, <1>5, <1>6, <1>7 DEF RecordsFound

(* What no step but a call or a wake touches.                               *)
LEMMA BubblesKept ==
  ASSUME Merging, EvidenceInv, NEW d, d.keys = ds.keys, d.bubbles = ds.bubbles,
         NEW cs, ToSet(cs) \subseteq ToSet(calls), cs # <<>> => calls # <<>>,
         \A n \in ToSet(calls) \ ToSet(cs) : Send(n).refused \/ ~IsDirect(n)
  PROVE  /\ MarksApart(d) /\ MarksTaken(d, cs, wakes)
         /\ RecordsFound(d) /\ RecordsOnly(d) /\ OneRecord(d)
         /\ CallKeysTrue(d) /\ WakeKeysFree(d, wakes)
         /\ WakesShown(d, wakes) /\ CallsShown(d, cs) /\ CallsFirst(cs, wakes)
         /\ OneCall(d) /\ WakesCounted(d)
<1>1. \A i : MarksOf(d, i) = MarksOf(ds, i)
  BY DEF MarksOf
<1>2. MarksApart(d) /\ MarksTaken(d, cs, wakes)
  BY <1>1 DEF EvidenceInv, Kept, MarksApart, MarksTaken
<1>3. RecordsFound(d) /\ RecordsOnly(d) /\ OneRecord(d)
  BY <1>1 DEF EvidenceInv, Kept, RecordsFound, RecordsOnly, OneRecord
<1>4. CallKeysTrue(d) /\ WakeKeysFree(d, wakes)
  BY <1>1 DEF EvidenceInv, Kept, CallKeysTrue, WakeKeysFree
<1>5. WakesShown(d, wakes) /\ CallsFirst(cs, wakes)
  BY <1>1 DEF EvidenceInv, Kept, WakesShown, CallsFirst
<1>6. CallsShown(d, cs)
  BY <1>1 DEF EvidenceInv, Kept, CallsShown
<1>7. OneCall(d) /\ WakesCounted(d)
  BY <1>1 DEF EvidenceInv, Kept, OneCall, WakesCounted
<1> QED
  BY <1>2, <1>3, <1>4, <1>5, <1>6, <1>7

LEMMA Appended ==
  ASSUME NEW S, NEW list \in Seq(S), NEW x \in S
  PROVE  /\ DOMAIN list \subseteq DOMAIN Append(list, x)
         /\ \A i \in DOMAIN list : Append(list, x)[i] = list[i]
         /\ Len(list) + 1 \in DOMAIN Append(list, x) /\ Append(list, x)[Len(list) + 1] = x
         /\ Len(list) + 1 \notin DOMAIN list
         /\ DOMAIN Append(list, x) = DOMAIN list \cup {Len(list) + 1}
OBVIOUS

LEMMA BroadcastStill ==
  ASSUME Merging, NEW item \in FeedItems, NEW n, MatchedBroadcast(ds.feed, n)
  PROVE  MatchedBroadcast(Append(ds.feed, item), n)
<1>1. ds.feed \in Seq(FeedItems)
  BY DataParts DEF Merging
<1>2. /\ DOMAIN ds.feed \subseteq DOMAIN Append(ds.feed, item)
      /\ \A i \in DOMAIN ds.feed : Append(ds.feed, item)[i] = ds.feed[i]
  BY <1>1, Appended
<1> QED
  BY <1>2 DEF MatchedBroadcast

LEMMA RejectCallKept ==
  ASSUME Merging, EvidenceInv, NEW n, RejectCall(n)
  PROVE  EvidenceInv'
<1>1. /\ n \in Sends /\ ToSet(calls') = ToSet(calls) \ {n} /\ calls # <<>>
      /\ UNCHANGED <<said, wakes, updates>> /\ Send(n).refused
  BY TakingOff DEF RejectCall
<1>2. ds' = [ds EXCEPT !.rejected = Append(@, RejectedCall(n))]
  BY DEF RejectCall, RejectedCall
<1>3. /\ ds'.bubbles = ds.bubbles /\ ds'.keys = ds.keys /\ ds'.feed = ds.feed
      /\ ds'.rejected = Append(ds.rejected, RejectedCall(n))
  BY <1>2 DEF Merging, DataOK, DataSets
<1>4. RejectedCall(n) \in Bubbles /\ RejectedCall(n).evidence = {<<"call", n>>}
  BY <1>1, RejectedType DEF Merging
<1>5. ds.rejected \in Seq(Bubbles)
  BY DataParts DEF Merging
<1>6. /\ DOMAIN ds.rejected \subseteq DOMAIN ds'.rejected
      /\ \A i \in DOMAIN ds.rejected : ds'.rejected[i] = ds.rejected[i]
      /\ Len(ds.rejected) + 1 \in DOMAIN ds'.rejected
      /\ ds'.rejected[Len(ds.rejected) + 1] = RejectedCall(n)
  BY <1>3, <1>4, <1>5, Appended
<1>7. RefusedListed(ds', calls')
  BY <1>1, <1>4, <1>6 DEF EvidenceInv, Kept, RefusedListed
<1>8. SharedListed(ds', calls', updates')
  BY <1>1, <1>3 DEF EvidenceInv, Kept, SharedListed
<1>9. Kept(ds', calls', wakes', updates')
  BY <1>1, <1>3, <1>7, <1>8, BubblesKept DEF Kept
<1> QED
  BY <1>1, <1>9, KeptPrimed

LEMMA ShareCallKept ==
  ASSUME Merging, EvidenceInv, NEW n, ShareCall(n)
  PROVE  EvidenceInv'
<1>1. /\ n \in Sends /\ ToSet(calls') = ToSet(calls) \ {n} /\ calls # <<>>
      /\ UNCHANGED <<said, wakes, updates>> /\ ~Send(n).refused /\ ~IsDirect(n)
  BY TakingOff DEF ShareCall
<1>2. CASE Send(n).text = ""
  <2>1. ds' = ds
    BY <1>2 DEF ShareCall
  <2>2. RefusedListed(ds', calls') /\ SharedListed(ds', calls', updates')
    BY <1>1, <1>2, <2>1 DEF EvidenceInv, Kept, RefusedListed, SharedListed
  <2>3. Kept(ds', calls', wakes', updates')
    BY <1>1, <2>1, <2>2, BubblesKept DEF Kept
  <2> QED
    BY <1>1, <2>3, KeptPrimed
<1> SUFFICES ASSUME Send(n).text # "" PROVE EvidenceInv'
  BY <1>2
<1>3. /\ ds'.bubbles = ds.bubbles /\ ds'.keys = ds.keys /\ ds'.rejected = ds.rejected
      /\ ds'.feed = Append(ds.feed, FeedItem(n, "call"))
  BY DEF ShareCall, Merging, DataOK, DataSets
<1>4. FeedItem(n, "call") \in FeedItems /\ FeedItem(n, "call").evidence = {<<"call", n>>}
  BY <1>1, FeedItemType DEF Merging
<1>5. ds.feed \in Seq(FeedItems)
  BY DataParts DEF Merging
<1>6. /\ DOMAIN ds.feed \subseteq DOMAIN ds'.feed
      /\ \A i \in DOMAIN ds.feed : ds'.feed[i] = ds.feed[i]
      /\ Len(ds.feed) + 1 \in DOMAIN ds'.feed
      /\ ds'.feed[Len(ds.feed) + 1] = FeedItem(n, "call")
  <2> DEFINE item == FeedItem(n, "call")
  <2>1. item \in FeedItems /\ ds'.feed = Append(ds.feed, item)
    BY <1>3, <1>4
  <2> HIDE DEF item
  <2>2. /\ DOMAIN ds.feed \subseteq DOMAIN Append(ds.feed, item)
        /\ \A i \in DOMAIN ds.feed : Append(ds.feed, item)[i] = ds.feed[i]
        /\ Len(ds.feed) + 1 \in DOMAIN Append(ds.feed, item)
        /\ Append(ds.feed, item)[Len(ds.feed) + 1] = item
    BY <1>5, <2>1, Appended
  <2> QED
    BY <2>1, <2>2 DEF item
<1>7. RefusedListed(ds', calls')
  BY <1>1, <1>3 DEF EvidenceInv, Kept, RefusedListed
<1>8. SharedListed(ds', calls', updates')
  <2>1. ASSUME NEW m \in Sends, Indexed(m), m \notin ToSet(calls'), ~Send(m).refused, ~IsDirect(m),
               Send(m).text # ""
        PROVE  \E i \in DOMAIN ds'.feed : <<"call", m>> \in ds'.feed[i].evidence
    <3>1. CASE m = n
      BY <1>4, <1>6, <3>1
    <3>2. CASE m # n
      BY <1>1, <1>6, <2>1, <3>2 DEF EvidenceInv, Kept, SharedListed
    <3> QED
      BY <3>1, <3>2
  <2>2. ASSUME NEW m \in KeptUpdates \ ToSet(updates')
        PROVE  MatchedBroadcast(ds'.feed, m)
    BY <1>1, <1>3, <1>4, BroadcastStill DEF EvidenceInv, Kept, SharedListed
  <2> QED
    BY <2>1, <2>2 DEF SharedListed
<1>9. Kept(ds', calls', wakes', updates')
  BY <1>1, <1>3, <1>7, <1>8, BubblesKept DEF Kept
<1> QED
  BY <1>1, <1>9, KeptPrimed

LEMMA AddUpdateKept ==
  ASSUME Merging, EvidenceInv, NEW n, AddUpdate(n)
  PROVE  EvidenceInv'
<1>1. /\ n \in KeptUpdates /\ n \in Sends /\ ToSet(updates') = ToSet(updates) \ {n}
      /\ UNCHANGED <<said, calls, wakes>>
  BY AddUpdateMerging, SaidSends DEF AddUpdate, Merging, KeptUpdates
<1> DEFINE item == FeedItem(n, "room")
<1>2. item \in FeedItems
  BY <1>1, FeedItemType DEF Merging
<1>3. /\ ds'.bubbles = ds.bubbles /\ ds'.keys = ds.keys /\ ds'.rejected = ds.rejected
      /\ \/ ds'.feed = ds.feed /\ MatchedBroadcast(ds.feed, n)
         \/ ds'.feed = Append(ds.feed, item)
  BY DEF AddUpdate, Merging, DataOK, DataSets
<1>4. ds.feed \in Seq(FeedItems)
  BY DataParts DEF Merging
<1>5. MatchedBroadcast(Append(ds.feed, item), n)
  <2>1. /\ Len(ds.feed) + 1 \in DOMAIN Append(ds.feed, item)
        /\ Append(ds.feed, item)[Len(ds.feed) + 1] = item
    BY <1>2, <1>4, Appended
  <2>2. item.from = Send(n).from /\ item.text = Send(n).text /\ item.at = Send(n).made
    BY DEF FeedItem
  <2>3. Within(item.at, Send(n).made, FeedWindow)
    <3>1. Send(n).made \in Nat /\ FeedWindow \in Nat
      BY <1>1, SaidSends, MergeAssumption DEF Merging
    <3> HIDE DEF item
    <3> QED
      BY <2>2, <3>1 DEF Within
  <2> HIDE DEF item
  <2> QED
    BY <2>1, <2>2, <2>3 DEF MatchedBroadcast
<1> HIDE DEF item
<1>6. \A m : MatchedBroadcast(ds.feed, m) => MatchedBroadcast(ds'.feed, m)
  BY <1>2, <1>3, BroadcastStill
<1>7. /\ DOMAIN ds.feed \subseteq DOMAIN ds'.feed
      /\ \A i \in DOMAIN ds.feed : ds'.feed[i] = ds.feed[i]
  BY <1>2, <1>3, <1>4, Appended
<1>8. RefusedListed(ds', calls')
  BY <1>1, <1>3 DEF EvidenceInv, Kept, RefusedListed
<1>9. SharedListed(ds', calls', updates')
  BY <1>1, <1>3, <1>5, <1>6, <1>7 DEF EvidenceInv, Kept, SharedListed
<1>10. Kept(ds', calls', wakes', updates')
  BY <1>1, <1>3, <1>8, <1>9, BubblesKept DEF Kept
<1> QED
  BY <1>1, <1>10, KeptPrimed

(* A call goes to a bubble shown that has none.                             *)
LEMMA MatchedBubble ==
  ASSUME Merging, RecordsFound(ds), NEW n, NEW i \in MatchCall(n)
  PROVE  i \in Shown /\ i \in DOMAIN ds.bubbles /\ ds.bubbles[i].entry = 0
<1> DEFINE known == {j \in DOMAIN ds.bubbles : n \in said.quoted \cap said.kept
                                                /\ j = ds.keys[FullKey(n)] /\ Bubble(j).entry = 0}
           alike == {j \in Shown : LooksLike(j, n)}
<1>1. i \in known \/ i \in alike
  BY DEF MatchCall
<1>2. CASE i \in known
  <2>1. n \in KeptSends
    BY <1>2, SaidSends DEF Merging, KeptSends
  <2>2. ds.keys[FullKey(n)] \in Shown
    BY <2>1 DEF RecordsFound, Shown, Range
  <2> QED
    BY <1>2, <2>2 DEF Bubble
<1>3. CASE i \in alike
  BY <1>3, WakeMatches DEF LooksLike, Bubble
<1> QED
  BY <1>1, <1>2, <1>3

LEMMA AttachKept ==
  ASSUME Merging, EvidenceInv, NEW n, Taking(n), ~Send(n).refused, IsDirect(n),
         UNCHANGED <<said, wakes, updates, stage>>,
         NEW i \in MatchCall(n), ds' = [ds EXCEPT !.bubbles[i] = AttachCall(@, n)]
  PROVE  EvidenceInv' /\ Marked(ds', i, <<"call", n>>) /\ i \in DOMAIN ds.bubbles
<1> DEFINE e == <<"call", n>>
           b == AttachCall(ds.bubbles[i], n)
<1>1. /\ n \in Sends /\ n \in ToSet(calls) /\ ToSet(calls') = ToSet(calls) \ {n} /\ calls # <<>>
  BY TakingOff
<1>2. i \in Shown /\ i \in DOMAIN ds.bubbles /\ ds.bubbles[i].entry = 0
  BY MatchedBubble DEF EvidenceInv, Kept
<1>3. ds.bubbles[i] \in Bubbles
  BY <1>2, DataParts DEF Merging
<1>4. /\ b \in Bubbles /\ b.entry = Send(n).entry /\ b.evidence = ds.bubbles[i].evidence \cup {e}
      /\ b.wakeCount = ds.bubbles[i].wakeCount /\ Send(n).entry # 0
      /\ SaysTheSame(b, ds.bubbles[i])
  BY <1>1, <1>3, AttachCallType, SaidSends DEF Merging, SaysTheSame
<1>5. /\ ds'.bubbles = [ds.bubbles EXCEPT ![i] = b] /\ ds'.keys = ds.keys
      /\ ds'.rejected = ds.rejected /\ ds'.feed = ds.feed
  <2>1. ds' = [ds EXCEPT !.bubbles[i] = b]
    OBVIOUS
  <2>2. b \in Bubbles /\ i \in DOMAIN ds.bubbles /\ DataOK(ds)
    BY <1>2, <1>4 DEF Merging
  <2> HIDE DEF b
  <2>3. /\ [ds EXCEPT !.bubbles[i] = b].bubbles = [ds.bubbles EXCEPT ![i] = b]
        /\ [ds EXCEPT !.bubbles[i] = b].keys = ds.keys
        /\ [ds EXCEPT !.bubbles[i] = b].rejected = ds.rejected
        /\ [ds EXCEPT !.bubbles[i] = b].feed = ds.feed
    BY <2>2, AlteredEffect
  <2> QED
    BY <2>1, <2>3
<1> HIDE DEF b
<1>6. /\ DOMAIN ds'.bubbles = DOMAIN ds.bubbles /\ ds'.bubbles[i] = b
      /\ \A j \in DOMAIN ds.bubbles \ {i} : ds'.bubbles[j] = ds.bubbles[j]
  BY <1>2, <1>5
<1>8. \A j \in DOMAIN ds.bubbles : e \notin MarksOf(ds, j)
  BY <1>1 DEF EvidenceInv, Kept, MarksTaken
<1>7. Marked(ds', i, e)
  <2>1. \A m \in KeptSends : /\ FullKey(m) \in DOMAIN ds'.keys
                             /\ ds'.keys[FullKey(m)] = ds.keys[FullKey(m)]
    BY <1>5 DEF EvidenceInv, Kept, RecordsFound
  <2> QED
    BY <1>2, <1>4, <1>6, <1>8, <2>1 DEF Marked, MarksOf, SaysTheSame
<1>9. /\ MarksApart(ds') /\ MarksTaken(ds', calls', wakes')
      /\ RecordsFound(ds') /\ RecordsOnly(ds') /\ OneRecord(ds')
  <2>1. Off(e, calls', wakes')
    BY <1>1 DEF Off
  <2> QED
    BY <1>7, <2>1, MarkedKept
<1>10. \A j \in DOMAIN ds.bubbles : MarksOf(ds, j) \subseteq MarksOf(ds', j)
  BY <1>7 DEF Marked
<1>11. /\ \A key \in DOMAIN ds.keys : ds.keys[key] \in DOMAIN ds.bubbles
       /\ Range(ds.keys) \subseteq DOMAIN ds.bubbles
  BY DataParts DEF Merging
<1>12. CallKeysTrue(ds') /\ WakeKeysFree(ds', wakes')
  BY <1>5, <1>10, <1>11 DEF EvidenceInv, Kept, CallKeysTrue, WakeKeysFree
<1>13. WakesShown(ds', wakes') /\ CallsFirst(calls', wakes')
  BY <1>1, <1>5, <1>10, <1>11 DEF EvidenceInv, Kept, WakesShown, CallsFirst
<1>14. ASSUME NEW m \in Sends, Indexed(m), m \notin ToSet(calls'), ~Send(m).refused, IsDirect(m)
       PROVE  \/ \E j \in Range(ds'.keys) : <<"call", m>> \in MarksOf(ds', j)
              \/ CallKey(m) \in DOMAIN ds'.keys /\ <<"call", m>> \notin MarksOf(ds', ds'.keys[CallKey(m)])
  <2>1. CASE m = n
    BY <1>2, <1>5, <1>7, <2>1 DEF Marked, Shown
  <2>2. CASE m # n
    <3>1. \/ \E j \in Range(ds.keys) : <<"call", m>> \in MarksOf(ds, j)
          \/ CallKey(m) \in DOMAIN ds.keys /\ <<"call", m>> \notin MarksOf(ds, ds.keys[CallKey(m)])
      BY <1>1, <1>14, <2>2 DEF EvidenceInv, Kept, CallsShown
    <3>2. CASE \E j \in Range(ds.keys) : <<"call", m>> \in MarksOf(ds, j)
      BY <1>5, <1>10, <1>11, <3>2
    <3>3. CASE CallKey(m) \in DOMAIN ds.keys /\ <<"call", m>> \notin MarksOf(ds, ds.keys[CallKey(m)])
      <4>1. ds.keys[CallKey(m)] \in DOMAIN ds'.bubbles
        BY <1>6, <1>11, <3>3
      <4>2. <<"call", m>> # e
        BY <2>2
      <4> QED
        BY <1>5, <1>7, <3>3, <4>1, <4>2 DEF Marked
    <3> QED
      BY <3>1, <3>2, <3>3
  <2> QED
    BY <2>1, <2>2
<1>15. ASSUME NEW j \in DOMAIN ds'.bubbles, NEW m \in Sends, NEW o \in Sends,
              <<"call", m>> \in MarksOf(ds', j)
       PROVE  ds'.bubbles[j].entry # 0 /\ (<<"call", o>> \in MarksOf(ds', j) => m = o)
  <2>1. CASE j = i
    <3>1. \A p \in Sends : <<"call", p>> \notin MarksOf(ds, i)
      BY <1>2 DEF EvidenceInv, Kept, OneCall
    <3>2. \A p \in Sends : <<"call", p>> \in MarksOf(ds', i) => p = n
      BY <1>2, <1>7, <3>1 DEF Marked
    <3> QED
      BY <1>4, <1>6, <1>15, <2>1, <3>2
  <2>2. CASE j # i
    <3>1. ds'.bubbles[j] = ds.bubbles[j] /\ j \in DOMAIN ds.bubbles
      BY <1>6, <2>2
    <3>2. MarksOf(ds', j) = MarksOf(ds, j)
      BY <3>1 DEF MarksOf
    <3> QED
      BY <1>15, <3>1, <3>2 DEF EvidenceInv, Kept, OneCall
  <2> QED
    BY <2>1, <2>2
<1>16. ASSUME NEW j \in DOMAIN ds'.bubbles
       PROVE  /\ IsFiniteSet(WakeMarks(MarksOf(ds', j)))
              /\ ds'.bubbles[j].wakeCount = Cardinality(WakeMarks(MarksOf(ds', j)))
  <2>1. j \in DOMAIN ds.bubbles /\ ds'.bubbles[j].wakeCount = ds.bubbles[j].wakeCount
    BY <1>4, <1>6
  <2>2. WakeMarks(MarksOf(ds', j)) = WakeMarks(MarksOf(ds, j))
    <3>1. \A f : f \in MarksOf(ds', j) <=> f \in MarksOf(ds, j) \/ (j = i /\ f = e)
      BY <1>7, <2>1 DEF Marked
    <3>2. e[1] # "wake"
      OBVIOUS
    <3> HIDE DEF e
    <3> QED
      BY <3>1, <3>2 DEF WakeMarks
  <2> QED
    BY <2>1, <2>2 DEF EvidenceInv, Kept, WakesCounted
<1>17. RefusedListed(ds', calls') /\ SharedListed(ds', calls', updates')
  <2>1. RefusedListed(ds', calls')
    BY <1>1, <1>5 DEF EvidenceInv, Kept, RefusedListed
  <2>2. SharedListed(ds', calls', updates')
    BY <1>1, <1>5 DEF EvidenceInv, Kept, SharedListed
  <2> QED
    BY <2>1, <2>2
<1>18. CallsShown(ds', calls') /\ OneCall(ds') /\ WakesCounted(ds')
  BY <1>14, <1>15, <1>16 DEF CallsShown, OneCall, WakesCounted
<1>19. Kept(ds', calls', wakes', updates')
  BY <1>9, <1>12, <1>13, <1>17, <1>18 DEF Kept
<1> QED
  BY <1>2, <1>7, <1>19, KeptPrimed

LEMMA KeysApart ==
  \A n, m, w, k :
    /\ FullKey(n)[1] = "room" /\ ShortKey(n)[1] = "short"
    /\ CallKey(n)[1] = "call" /\ WakeKey(w, k)[1] = "wake"
    /\ FullKey(n) # CallKey(m) /\ FullKey(n) # WakeKey(w, k)
    /\ ShortKey(n) # FullKey(m)
    /\ CallKey(n) # WakeKey(w, k)
BY DEF FullKey, ShortKey, CallKey, WakeKey

LEMMA PutCallKept ==
  ASSUME Merging, EvidenceInv, NEW n, Taking(n), ~Send(n).refused, IsDirect(n),
         UNCHANGED <<said, wakes, updates, stage>>, ds' = Put(ds, CallBubble(n))
  PROVE  EvidenceInv' /\ \E i : Marked(ds', i, <<"call", n>>) /\ i \notin DOMAIN ds.bubbles
<1> DEFINE e == <<"call", n>>
           b == CallBubble(n)
           i == Len(ds.bubbles) + 1
<1>1. /\ n \in Sends /\ n \in ToSet(calls) /\ ToSet(calls') = ToSet(calls) \ {n} /\ calls # <<>>
  BY TakingOff
<1>2. /\ b \in Bubbles /\ b.id = CallKey(n) /\ b.evidence = {e} /\ b.entry # 0 /\ b.wakeCount = 0
  BY <1>1, CallBubbleType DEF Merging
<1> HIDE DEF b
<1>3. /\ ds'.bubbles = Append(ds.bubbles, b)
      /\ ds'.rejected = ds.rejected /\ ds'.feed = ds.feed
      /\ CallKey(n) \in DOMAIN ds'.keys /\ ds'.keys[CallKey(n)] = i
      /\ \A key \in DOMAIN ds.keys \ {CallKey(n)} :
           key \in DOMAIN ds'.keys /\ ds'.keys[key] = ds.keys[key]
      /\ \A key \in DOMAIN ds'.keys :
           \/ /\ ds'.keys[key] = i
              /\ key = CallKey(n) \/ key = ShortKey(b.short)
           \/ key \in DOMAIN ds.keys \ {CallKey(n)} /\ ds'.keys[key] = ds.keys[key]
  <2>1. DataOK(ds) /\ Made /\ ds' = Put(ds, b)
    BY DEF Merging, b
  <2>2. /\ Put(ds, b).bubbles = Append(ds.bubbles, b)
        /\ Put(ds, b).rejected = ds.rejected /\ Put(ds, b).feed = ds.feed
        /\ b.id \in DOMAIN Put(ds, b).keys /\ Put(ds, b).keys[b.id] = i
        /\ \A key \in DOMAIN ds.keys \ {b.id} :
             key \in DOMAIN Put(ds, b).keys /\ Put(ds, b).keys[key] = ds.keys[key]
        /\ \A key \in DOMAIN Put(ds, b).keys :
             \/ /\ Put(ds, b).keys[key] = i
                /\ key = b.id \/ (b.short # 0 /\ key = ShortKey(b.short))
             \/ key \in DOMAIN ds.keys \ {b.id} /\ Put(ds, b).keys[key] = ds.keys[key]
    BY <1>2, <2>1, PutEffect
  <2> QED
    BY <1>2, <2>1, <2>2
<1>4. /\ DOMAIN ds'.bubbles = DOMAIN ds.bubbles \cup {i} /\ i \notin DOMAIN ds.bubbles
      /\ ds'.bubbles[i] = b /\ \A j \in DOMAIN ds.bubbles : ds'.bubbles[j] = ds.bubbles[j]
  BY <1>2, <1>3, DataParts, Appended DEF Merging
<1>5. /\ \A key \in DOMAIN ds.keys : ds.keys[key] \in DOMAIN ds.bubbles
      /\ Range(ds.keys) \subseteq DOMAIN ds.bubbles
  BY DataParts DEF Merging
<1> HIDE DEF i
<1>6. Marked(ds', i, e)
  <2>1. \A m \in KeptSends : /\ FullKey(m) \in DOMAIN ds'.keys
                             /\ ds'.keys[FullKey(m)] = ds.keys[FullKey(m)]
    <3>1. \A m \in KeptSends : FullKey(m) \in DOMAIN ds.keys
      BY DEF EvidenceInv, Kept, RecordsFound
    <3>2. \A m : FullKey(m) # CallKey(n)
      BY KeysApart
    <3> QED
      BY <1>3, <3>1, <3>2
  <2>2. \A j \in DOMAIN ds.bubbles : e \notin MarksOf(ds, j)
    BY <1>1 DEF EvidenceInv, Kept, MarksTaken
  <2> QED
    BY <1>2, <1>4, <2>1, <2>2 DEF Marked, MarksOf, SaysTheSame
<1>7. /\ MarksApart(ds') /\ MarksTaken(ds', calls', wakes')
      /\ RecordsFound(ds') /\ RecordsOnly(ds') /\ OneRecord(ds')
  <2>1. Off(e, calls', wakes')
    BY <1>1 DEF Off
  <2> QED
    BY <1>6, <2>1, MarkedKept
<1>8. /\ \A j \in DOMAIN ds.bubbles : MarksOf(ds', j) = MarksOf(ds, j)
      /\ MarksOf(ds', i) = {e}
  BY <1>2, <1>4 DEF MarksOf
<1>9. ASSUME NEW key \in DOMAIN ds'.keys, key[1] = "call"
      PROVE  \E m \in Sends : key = CallKey(m) /\ <<"call", m>> \in MarksOf(ds', ds'.keys[key])
  <2>1. CASE key = CallKey(n)
    BY <1>1, <1>3, <1>8, <2>1
  <2>2. CASE key # CallKey(n)
    <3>1. key \in DOMAIN ds.keys /\ ds'.keys[key] = ds.keys[key]
      BY <1>3, <1>9, <2>2, KeysApart
    <3> QED
      BY <1>5, <1>8, <1>9, <3>1 DEF EvidenceInv, Kept, CallKeysTrue
  <2> QED
    BY <2>1, <2>2
<1>10. WakeKeysFree(ds', wakes')
  BY <1>3, KeysApart DEF EvidenceInv, Kept, WakeKeysFree
<1>11. WakesShown(ds', wakes') /\ CallsFirst(calls', wakes')
  <2>1. ToSet(wakes) = Slots
    BY <1>1 DEF EvidenceInv, Kept, CallsFirst
  <2> QED
    BY <2>1 DEF WakesShown, CallsFirst
<1>12. ASSUME NEW m \in Sends, Indexed(m), m \notin ToSet(calls'), ~Send(m).refused, IsDirect(m)
       PROVE  \/ \E j \in Range(ds'.keys) : <<"call", m>> \in MarksOf(ds', j)
              \/ CallKey(m) \in DOMAIN ds'.keys /\ <<"call", m>> \notin MarksOf(ds', ds'.keys[CallKey(m)])
  <2>0. \A key \in DOMAIN ds'.keys : ds'.keys[key] \in Range(ds'.keys)
    BY DEF Range
  <2>1. CASE m = n
    BY <1>3, <1>8, <2>0, <2>1
  <2>2. CASE m # n /\ CallKey(m) = CallKey(n)
    <3>1. <<"call", m>> # e
      BY <2>2
    <3> QED
      BY <1>3, <1>8, <2>2, <3>1
  <2>3. CASE m # n /\ CallKey(m) # CallKey(n)
    <3>1. \/ \E j \in Range(ds.keys) : <<"call", m>> \in MarksOf(ds, j)
          \/ CallKey(m) \in DOMAIN ds.keys /\ <<"call", m>> \notin MarksOf(ds, ds.keys[CallKey(m)])
      BY <1>1, <1>12, <2>3 DEF EvidenceInv, Kept, CallsShown
    <3>2. CASE \E j \in Range(ds.keys) : <<"call", m>> \in MarksOf(ds, j)
      <4>1. PICK key \in DOMAIN ds.keys : <<"call", m>> \in MarksOf(ds, ds.keys[key])
        BY <3>2 DEF Range
      <4>2. ds.keys[key] \in DOMAIN ds.bubbles
        BY <1>5
      <4>3. key # CallKey(n)
        <5> SUFFICES ASSUME key = CallKey(n) PROVE FALSE
          OBVIOUS
        <5>1. key[1] = "call"
          BY KeysApart
        <5>2. PICK o \in Sends : key = CallKey(o) /\ <<"call", o>> \in MarksOf(ds, ds.keys[key])
          BY <5>1 DEF EvidenceInv, Kept, CallKeysTrue
        <5>3. o = m
          BY <4>1, <4>2, <5>2 DEF EvidenceInv, Kept, OneCall
        <5> QED
          BY <2>3, <5>2, <5>3
      <4> QED
        BY <1>3, <1>8, <2>0, <4>1, <4>2, <4>3
    <3>3. CASE CallKey(m) \in DOMAIN ds.keys /\ <<"call", m>> \notin MarksOf(ds, ds.keys[CallKey(m)])
      BY <1>3, <1>5, <1>8, <2>3, <3>3
    <3> QED
      BY <3>1, <3>2, <3>3
  <2> QED
    BY <2>1, <2>2, <2>3
<1>13. ASSUME NEW j \in DOMAIN ds'.bubbles, NEW m \in Sends, NEW o \in Sends,
              <<"call", m>> \in MarksOf(ds', j)
       PROVE  ds'.bubbles[j].entry # 0 /\ (<<"call", o>> \in MarksOf(ds', j) => m = o)
  <2>1. CASE j = i
    <3>1. \A p : <<"call", p>> \in MarksOf(ds', i) => p = n
      BY <1>8
    <3> QED
      BY <1>2, <1>4, <1>13, <2>1, <3>1
  <2>2. CASE j # i
    <3>1. j \in DOMAIN ds.bubbles /\ ds'.bubbles[j] = ds.bubbles[j]
      BY <1>4, <2>2
    <3> QED
      BY <1>8, <1>13, <3>1 DEF EvidenceInv, Kept, OneCall
  <2> QED
    BY <2>1, <2>2
<1>14. WakesCounted(ds')
  <2>1. WakeMarks(MarksOf(ds', i)) = {}
    BY <1>8 DEF WakeMarks
  <2> QED
    BY <1>2, <1>4, <1>8, <2>1, FS_EmptySet DEF EvidenceInv, Kept, WakesCounted
<1>15. RefusedListed(ds', calls')
  BY <1>1, <1>3 DEF EvidenceInv, Kept, RefusedListed
<1>16. SharedListed(ds', calls', updates')
  BY <1>1, <1>3 DEF EvidenceInv, Kept, SharedListed
<1>17. CallKeysTrue(ds') /\ CallsShown(ds', calls') /\ OneCall(ds')
  BY <1>9, <1>12, <1>13 DEF CallKeysTrue, CallsShown, OneCall
<1>18. Kept(ds', calls', wakes', updates')
  BY <1>7, <1>10, <1>11, <1>14, <1>15, <1>16, <1>17 DEF Kept
<1> QED
  BY <1>4, <1>6, <1>18, KeptPrimed

LEMMA TakeCallKept ==
  ASSUME Merging, EvidenceInv, NEW n, TakeCall(n)
  PROVE  EvidenceInv'
<1>1. /\ Taking(n) /\ ~Send(n).refused /\ IsDirect(n)
      /\ UNCHANGED <<said, wakes, updates, stage>>
      /\ \/ \E i \in MatchCall(n) : ds' = [ds EXCEPT !.bubbles[i] = AttachCall(@, n)]
         \/ ds' = Put(ds, CallBubble(n))
  BY DEF TakeCall, CallBubble
<1> QED
  BY <1>1, AttachKept, PutCallKept

(* A wake, whose mark is on nothing yet, comes when the calls are merged.   *)
LEMMA WakeIsNew ==
  ASSUME Merging, EvidenceInv, NEW w, NEW k, TakeWake(w, k) \/ TakeNamelessWake(w, k)
  PROVE  /\ w \in Heard /\ k \in DOMAIN said.wakes[w].of /\ <<w, k>> \in Slots
         /\ said.wakes[w].of[k] \in Sends
         /\ <<w, k>> \in ToSet(wakes) /\ ToSet(wakes') = ToSet(wakes) \ {<<w, k>>}
         /\ \A j \in DOMAIN ds.bubbles : <<"wake", w, k>> \notin MarksOf(ds, j)
         /\ WakeKey(w, k) \notin DOMAIN ds.keys
         /\ calls = <<>> /\ UNCHANGED <<said, calls, updates, stage>>
         /\ \A s \in ToSet(wakes') : s \in Slots /\ WakeKey(s[1], s[2]) # WakeKey(w, k)
         /\ Off(<<"wake", w, k>>, calls', wakes')
<1>1. /\ wakes # <<>> /\ <<w, k>> = Head(wakes) /\ wakes' = Tail(wakes)
      /\ calls = <<>> /\ UNCHANGED <<said, calls, updates, stage>>
  BY DEF TakeWake, TakeNamelessWake
<1>2. /\ w \in Heard /\ k \in DOMAIN said.wakes[w].of /\ <<w, k>> \in Slots
      /\ said.wakes[w].of[k] \in Sends
      /\ <<w, k>> \in ToSet(wakes) /\ ToSet(wakes') = ToSet(wakes) \ {<<w, k>>}
  BY <1>1, WakeOff
<1>3. \A j \in DOMAIN ds.bubbles : <<"wake", w, k>> \notin MarksOf(ds, j)
  BY <1>2 DEF EvidenceInv, Kept, MarksTaken
<1>4. WakeKey(w, k) \notin DOMAIN ds.keys
  BY <1>2 DEF EvidenceInv, Kept, WakeKeysFree
<1>5. ToSet(wakes) \subseteq Slots /\ \A s \in Slots : s = <<s[1], s[2]>>
  BY Lists, SlotsFinite DEF Merging, Queued
<1>6. \A s \in ToSet(wakes') : s \in Slots /\ s = <<s[1], s[2]>> /\ <<s[1], s[2]>> # <<w, k>>
  BY <1>2, <1>5
<1>7. \A s \in ToSet(wakes') : /\ WakeKey(s[1], s[2]) # WakeKey(w, k)
                              /\ <<"wake", w, k>> # <<"wake", s[1], s[2]>>
  BY <1>6 DEF WakeKey
<1>8. Off(<<"wake", w, k>>, calls', wakes')
  <2>1. \A m : <<"wake", w, k>> # <<"call", m>>
    OBVIOUS
  <2> QED
    BY <1>1, <1>2, <1>7, <2>1 DEF Off
<1> QED
  BY <1>1, <1>2, <1>3, <1>4, <1>6, <1>7, <1>8

LEMMA RecordedKept ==
  ASSUME Merging, EvidenceInv, NEW w, NEW k, TakeWake(w, k),
         NEW i \in Shown, NEW n, n = said.wakes[w].of[k],
         ds' = Register(WakeRecorded(w, k, i), n, i)
  PROVE  EvidenceInv' /\ Marked(ds', i, <<"wake", w, k>>)
<1> DEFINE e == <<"wake", w, k>>
           b == RecordWake(ds.bubbles[i], w, k)
           d == WakeRecorded(w, k, i)
<1>1. /\ w \in Heard /\ k \in DOMAIN said.wakes[w].of /\ n \in Sends
      /\ ToSet(wakes') = ToSet(wakes) \ {<<w, k>>} /\ calls = <<>>
      /\ UNCHANGED <<said, calls, updates, stage>>
      /\ \A j \in DOMAIN ds.bubbles : e \notin MarksOf(ds, j)
      /\ \A s \in ToSet(wakes') : s \in Slots /\ WakeKey(s[1], s[2]) # WakeKey(w, k)
      /\ Off(e, calls', wakes')
  BY WakeIsNew
<1>2. i \in DOMAIN ds.bubbles /\ ds.bubbles[i] \in Bubbles
  BY WakeMatches, DataParts DEF Merging
<1>3. /\ b \in Bubbles /\ b.evidence = ds.bubbles[i].evidence \cup {e}
      /\ b.wakeCount = ds.bubbles[i].wakeCount + 1 /\ b.entry = ds.bubbles[i].entry
      /\ SaysTheSame(b, ds.bubbles[i])
  BY <1>1, <1>2, RecordWakeType DEF Merging, SaysTheSame
<1>4. /\ DataOK(d) /\ DOMAIN d.bubbles = DOMAIN ds.bubbles
      /\ d.bubbles = [ds.bubbles EXCEPT ![i] = b] /\ d.keys = ds.keys
      /\ d.rejected = ds.rejected /\ d.feed = ds.feed
  BY <1>1, <1>2, RecordedEffect DEF Merging
<1> HIDE DEF b, d
<1>5. /\ ds'.bubbles = [ds.bubbles EXCEPT ![i] = b]
      /\ ds'.rejected = ds.rejected /\ ds'.feed = ds.feed
      /\ \A key \in DOMAIN ds.keys : key \in DOMAIN ds'.keys /\ ds'.keys[key] = ds.keys[key]
      /\ \A key \in DOMAIN ds'.keys :
           \/ key \in DOMAIN ds.keys /\ ds'.keys[key] = ds.keys[key]
           \/ key \in {FullKey(n), ShortKey(n)} /\ ds'.keys[key] = i
  <2>1. ds' = Register(d, n, i)
    BY DEF d
  <2>2. i \in DOMAIN d.bubbles
    BY <1>2, <1>4
  <2> QED
    BY <1>1, <1>4, <2>1, <2>2, RegisterEffect, SMTT(30)
<1>6. /\ DOMAIN ds'.bubbles = DOMAIN ds.bubbles /\ ds'.bubbles[i] = b
      /\ \A j \in DOMAIN ds.bubbles \ {i} : ds'.bubbles[j] = ds.bubbles[j]
  BY <1>2, <1>5
<1>7. Marked(ds', i, e)
  <2>1. \A m \in KeptSends : /\ FullKey(m) \in DOMAIN ds'.keys
                             /\ ds'.keys[FullKey(m)] = ds.keys[FullKey(m)]
    BY <1>5 DEF EvidenceInv, Kept, RecordsFound
  <2> QED
    BY <1>1, <1>2, <1>3, <1>6, <2>1 DEF Marked, MarksOf, SaysTheSame
<1>8. /\ MarksApart(ds') /\ MarksTaken(ds', calls', wakes')
      /\ RecordsFound(ds') /\ RecordsOnly(ds') /\ OneRecord(ds')
  BY <1>1, <1>7, MarkedKept
<1>9. \A j \in DOMAIN ds.bubbles : MarksOf(ds, j) \subseteq MarksOf(ds', j)
  BY <1>7 DEF Marked
<1>10. /\ \A key \in DOMAIN ds.keys : ds.keys[key] \in DOMAIN ds.bubbles
       /\ Range(ds.keys) \subseteq DOMAIN ds.bubbles
  BY DataParts DEF Merging
<1>11. Range(ds.keys) \subseteq Range(ds'.keys)
  <2>1. \A key \in DOMAIN ds.keys : key \in DOMAIN ds'.keys /\ ds'.keys[key] = ds.keys[key]
    BY <1>5
  <2> QED
    BY <2>1 DEF Range
<1>12. CallKeysTrue(ds')
  <2>1. \A key \in DOMAIN ds'.keys : key[1] = "call" =>
          key \in DOMAIN ds.keys /\ ds'.keys[key] = ds.keys[key]
    BY <1>5, KeysApart, SMTT(30)
  <2> QED
    BY <1>9, <1>10, <2>1 DEF EvidenceInv, Kept, CallKeysTrue
<1>13. WakeKeysFree(ds', wakes')
  <2>1. \A key \in DOMAIN ds'.keys : key[1] = "wake" => key \in DOMAIN ds.keys
    BY <1>5, KeysApart
  <2>2. \A v, l : WakeKey(v, l)[1] = "wake"
    BY DEF WakeKey
  <2> QED
    BY <1>1, <2>1, <2>2 DEF EvidenceInv, Kept, WakeKeysFree
<1>14. ASSUME NEW s \in Slots, s \notin ToSet(wakes')
       PROVE  \E j \in Range(ds'.keys) : <<"wake", s[1], s[2]>> \in MarksOf(ds', j)
  <2>1. CASE s = <<w, k>>
    <3>1. i \in Range(ds'.keys)
      BY <1>11 DEF Shown
    <3>2. e \in MarksOf(ds', i)
      BY <1>7 DEF Marked
    <3> QED
      BY <2>1, <3>1, <3>2
  <2>2. CASE s # <<w, k>>
    <3>1. PICK j \in Range(ds.keys) : <<"wake", s[1], s[2]>> \in MarksOf(ds, j)
      BY <1>1, <1>14, <2>2 DEF EvidenceInv, Kept, WakesShown
    <3> QED
      BY <1>9, <1>10, <1>11, <3>1
  <2> QED
    BY <2>1, <2>2
<1>15. ASSUME NEW m \in Sends, Indexed(m), m \notin ToSet(calls'), ~Send(m).refused, IsDirect(m)
       PROVE  \/ \E j \in Range(ds'.keys) : <<"call", m>> \in MarksOf(ds', j)
              \/ CallKey(m) \in DOMAIN ds'.keys /\ <<"call", m>> \notin MarksOf(ds', ds'.keys[CallKey(m)])
  <2>1. \/ \E j \in Range(ds.keys) : <<"call", m>> \in MarksOf(ds, j)
        \/ CallKey(m) \in DOMAIN ds.keys /\ <<"call", m>> \notin MarksOf(ds, ds.keys[CallKey(m)])
    BY <1>1, <1>15 DEF EvidenceInv, Kept, CallsShown
  <2>2. CASE \E j \in Range(ds.keys) : <<"call", m>> \in MarksOf(ds, j)
    BY <1>9, <1>10, <1>11, <2>2
  <2>3. CASE CallKey(m) \in DOMAIN ds.keys /\ <<"call", m>> \notin MarksOf(ds, ds.keys[CallKey(m)])
    <3>1. ds.keys[CallKey(m)] \in DOMAIN ds'.bubbles
      BY <1>6, <1>10, <2>3
    <3>2. <<"call", m>> # e
      OBVIOUS
    <3> QED
      BY <1>5, <1>7, <2>3, <3>1, <3>2 DEF Marked
  <2> QED
    BY <2>1, <2>2, <2>3
<1>16. OneCall(ds')
  <2>1. \A j \in DOMAIN ds.bubbles : ds'.bubbles[j].entry = ds.bubbles[j].entry
    BY <1>3, <1>6
  <2>2. \A m : <<"call", m>> # e
    OBVIOUS
  <2>3. \A j \in DOMAIN ds.bubbles : \A m :
          <<"call", m>> \in MarksOf(ds', j) => <<"call", m>> \in MarksOf(ds, j)
    BY <1>6, <1>7, <2>2 DEF Marked
  <2> QED
    BY <1>6, <2>1, <2>3 DEF EvidenceInv, Kept, OneCall
<1>17. ASSUME NEW j \in DOMAIN ds'.bubbles
       PROVE  /\ IsFiniteSet(WakeMarks(MarksOf(ds', j)))
              /\ ds'.bubbles[j].wakeCount = Cardinality(WakeMarks(MarksOf(ds', j)))
  <2>0. /\ IsFiniteSet(WakeMarks(MarksOf(ds, j)))
        /\ ds.bubbles[j].wakeCount = Cardinality(WakeMarks(MarksOf(ds, j)))
    BY <1>6 DEF EvidenceInv, Kept, WakesCounted
  <2>1. CASE j = i
    <3>1. WakeMarks(MarksOf(ds', i)) = WakeMarks(MarksOf(ds, i)) \cup {e}
      <4>1. e[1] = "wake" /\ MarksOf(ds', i) = MarksOf(ds, i) \cup {e}
        BY <1>3, <1>6 DEF MarksOf
      <4> HIDE DEF e
      <4> QED
        BY <4>1 DEF WakeMarks
    <3>2. e \notin WakeMarks(MarksOf(ds, i))
      BY <1>1, <1>2 DEF WakeMarks
    <3>3. /\ IsFiniteSet(WakeMarks(MarksOf(ds, i)) \cup {e})
          /\ Cardinality(WakeMarks(MarksOf(ds, i)) \cup {e})
             = Cardinality(WakeMarks(MarksOf(ds, i))) + 1
      BY <2>0, <2>1, <3>2, FS_AddElement
    <3> QED
      BY <1>3, <1>6, <2>0, <2>1, <3>1, <3>3
  <2>2. CASE j # i
    BY <1>6, <2>0, <2>2 DEF MarksOf
  <2> QED
    BY <2>1, <2>2
<1>18. RefusedListed(ds', calls') /\ SharedListed(ds', calls', updates')
  <2>1. RefusedListed(ds', calls')
    BY <1>1, <1>5 DEF EvidenceInv, Kept, RefusedListed
  <2>2. SharedListed(ds', calls', updates')
    BY <1>1, <1>5 DEF EvidenceInv, Kept, SharedListed
  <2> QED
    BY <2>1, <2>2
<1>19. CallsFirst(calls', wakes')
  BY <1>1 DEF CallsFirst
<1>20. WakesShown(ds', wakes') /\ CallsShown(ds', calls') /\ WakesCounted(ds')
  BY <1>14, <1>15, <1>17 DEF WakesShown, CallsShown, WakesCounted
<1>21. Kept(ds', calls', wakes', updates')
  BY <1>8, <1>12, <1>13, <1>16, <1>18, <1>19, <1>20 DEF Kept
<1> QED
  BY <1>1, <1>7, <1>21, KeptPrimed

LEMMA PutWakeKept ==
  ASSUME Merging, EvidenceInv, NEW w, NEW k, TakeWake(w, k) \/ TakeNamelessWake(w, k),
         ds' = Put(ds, WakeBubble(w, k))
  PROVE  EvidenceInv' /\ \E i : Marked(ds', i, <<"wake", w, k>>) /\ i \notin DOMAIN ds.bubbles
<1> DEFINE e == <<"wake", w, k>>
           b == WakeBubble(w, k)
           i == Len(ds.bubbles) + 1
<1>1. /\ w \in Heard /\ k \in DOMAIN said.wakes[w].of
      /\ ToSet(wakes') = ToSet(wakes) \ {<<w, k>>} /\ calls = <<>>
      /\ UNCHANGED <<said, calls, updates, stage>>
      /\ \A j \in DOMAIN ds.bubbles : e \notin MarksOf(ds, j)
      /\ WakeKey(w, k) \notin DOMAIN ds.keys
      /\ \A s \in ToSet(wakes') : s \in Slots /\ WakeKey(s[1], s[2]) # WakeKey(w, k)
      /\ Off(e, calls', wakes')
  BY WakeIsNew
<1>2. /\ b \in Bubbles /\ b.id = WakeKey(w, k) /\ b.short = 0 /\ b.evidence = {e}
      /\ b.entry = 0 /\ b.wakeCount = 1
  BY <1>1, WakeBubbleType DEF Merging
<1> HIDE DEF b
<1>3. /\ ds'.bubbles = Append(ds.bubbles, b)
      /\ ds'.rejected = ds.rejected /\ ds'.feed = ds.feed
      /\ WakeKey(w, k) \in DOMAIN ds'.keys /\ ds'.keys[WakeKey(w, k)] = i
      /\ \A key \in DOMAIN ds.keys : key \in DOMAIN ds'.keys /\ ds'.keys[key] = ds.keys[key]
      /\ \A key \in DOMAIN ds'.keys :
           \/ key = WakeKey(w, k)
           \/ key \in DOMAIN ds.keys /\ ds'.keys[key] = ds.keys[key]
  <2>1. DataOK(ds) /\ Made /\ ds' = Put(ds, b)
    BY DEF Merging, b
  <2>2. /\ Put(ds, b).bubbles = Append(ds.bubbles, b)
        /\ Put(ds, b).rejected = ds.rejected /\ Put(ds, b).feed = ds.feed
        /\ b.id \in DOMAIN Put(ds, b).keys /\ Put(ds, b).keys[b.id] = i
        /\ \A key \in DOMAIN ds.keys \ {b.id} :
             key \in DOMAIN Put(ds, b).keys /\ Put(ds, b).keys[key] = ds.keys[key]
        /\ \A key \in DOMAIN Put(ds, b).keys :
             \/ /\ Put(ds, b).keys[key] = i
                /\ key = b.id \/ (b.short # 0 /\ key = ShortKey(b.short))
             \/ key \in DOMAIN ds.keys \ {b.id} /\ Put(ds, b).keys[key] = ds.keys[key]
    BY <1>2, <2>1, PutEffect
  <2> HIDE DEF i
  <2> QED
    BY <1>1, <1>2, <2>1, <2>2
<1>4. /\ DOMAIN ds'.bubbles = DOMAIN ds.bubbles \cup {i} /\ i \notin DOMAIN ds.bubbles
      /\ ds'.bubbles[i] = b /\ \A j \in DOMAIN ds.bubbles : ds'.bubbles[j] = ds.bubbles[j]
  BY <1>2, <1>3, DataParts, Appended DEF Merging
<1>5. /\ \A key \in DOMAIN ds.keys : ds.keys[key] \in DOMAIN ds.bubbles
      /\ Range(ds.keys) \subseteq DOMAIN ds.bubbles
  BY DataParts DEF Merging
<1> HIDE DEF i
<1>6. Marked(ds', i, e)
  <2>1. \A m \in KeptSends : /\ FullKey(m) \in DOMAIN ds'.keys
                             /\ ds'.keys[FullKey(m)] = ds.keys[FullKey(m)]
    BY <1>3 DEF EvidenceInv, Kept, RecordsFound
  <2> QED
    BY <1>1, <1>2, <1>4, <2>1 DEF Marked, MarksOf, SaysTheSame
<1>7. /\ MarksApart(ds') /\ MarksTaken(ds', calls', wakes')
      /\ RecordsFound(ds') /\ RecordsOnly(ds') /\ OneRecord(ds')
  BY <1>1, <1>6, MarkedKept
<1>8. /\ \A j \in DOMAIN ds.bubbles : MarksOf(ds', j) = MarksOf(ds, j)
      /\ MarksOf(ds', i) = {e}
  BY <1>2, <1>4 DEF MarksOf
<1>9. Range(ds.keys) \subseteq Range(ds'.keys) /\ i \in Range(ds'.keys)
  <2>1. \A key \in DOMAIN ds.keys : key \in DOMAIN ds'.keys /\ ds'.keys[key] = ds.keys[key]
    BY <1>3
  <2>2. WakeKey(w, k) \in DOMAIN ds'.keys /\ ds'.keys[WakeKey(w, k)] = i
    BY <1>3
  <2> QED
    BY <2>1, <2>2 DEF Range
<1>10. CallKeysTrue(ds')
  <2>1. \A key \in DOMAIN ds'.keys : key[1] = "call" =>
          key \in DOMAIN ds.keys /\ ds'.keys[key] = ds.keys[key]
    BY <1>3, KeysApart
  <2> QED
    BY <1>5, <1>8, <2>1 DEF EvidenceInv, Kept, CallKeysTrue
<1>11. WakeKeysFree(ds', wakes')
  BY <1>1, <1>3 DEF EvidenceInv, Kept, WakeKeysFree
<1>12. ASSUME NEW s \in Slots, s \notin ToSet(wakes')
       PROVE  \E j \in Range(ds'.keys) : <<"wake", s[1], s[2]>> \in MarksOf(ds', j)
  <2>1. CASE s = <<w, k>>
    BY <1>8, <1>9, <2>1
  <2>2. CASE s # <<w, k>>
    <3>1. PICK j \in Range(ds.keys) : <<"wake", s[1], s[2]>> \in MarksOf(ds, j)
      BY <1>1, <1>12, <2>2 DEF EvidenceInv, Kept, WakesShown
    <3> QED
      BY <1>5, <1>8, <1>9, <3>1
  <2> QED
    BY <2>1, <2>2
<1>13. ASSUME NEW m \in Sends, Indexed(m), m \notin ToSet(calls'), ~Send(m).refused, IsDirect(m)
       PROVE  \/ \E j \in Range(ds'.keys) : <<"call", m>> \in MarksOf(ds', j)
              \/ CallKey(m) \in DOMAIN ds'.keys /\ <<"call", m>> \notin MarksOf(ds', ds'.keys[CallKey(m)])
  <2>1. \/ \E j \in Range(ds.keys) : <<"call", m>> \in MarksOf(ds, j)
        \/ CallKey(m) \in DOMAIN ds.keys /\ <<"call", m>> \notin MarksOf(ds, ds.keys[CallKey(m)])
    BY <1>1, <1>13 DEF EvidenceInv, Kept, CallsShown
  <2> QED
    BY <1>3, <1>5, <1>8, <1>9, <2>1
<1>14. OneCall(ds')
  <2>1. \A m : <<"call", m>> # e
    OBVIOUS
  <2>2. \A j \in DOMAIN ds'.bubbles : \A m : <<"call", m>> \in MarksOf(ds', j) =>
          /\ j \in DOMAIN ds.bubbles /\ ds'.bubbles[j] = ds.bubbles[j]
          /\ MarksOf(ds', j) = MarksOf(ds, j)
    BY <1>4, <1>8, <2>1
  <2> QED
    BY <2>2 DEF EvidenceInv, Kept, OneCall
<1>15. WakesCounted(ds')
  <2>1. WakeMarks(MarksOf(ds', i)) = {e}
    BY <1>8 DEF WakeMarks
  <2>2. IsFiniteSet({e}) /\ Cardinality({e}) = 1
    BY FS_Singleton
  <2> HIDE DEF e
  <2> QED
    BY <1>2, <1>4, <1>8, <2>1, <2>2 DEF EvidenceInv, Kept, WakesCounted
<1>16. RefusedListed(ds', calls')
  BY <1>1, <1>3 DEF EvidenceInv, Kept, RefusedListed
<1>17. SharedListed(ds', calls', updates')
  BY <1>1, <1>3 DEF EvidenceInv, Kept, SharedListed
<1>18. WakesShown(ds', wakes') /\ CallsShown(ds', calls') /\ CallsFirst(calls', wakes')
  BY <1>1, <1>12, <1>13 DEF WakesShown, CallsShown, CallsFirst
<1>19. Kept(ds', calls', wakes', updates')
  BY <1>7, <1>10, <1>11, <1>14, <1>15, <1>16, <1>17, <1>18 DEF Kept
<1> QED
  BY <1>1, <1>4, <1>6, <1>19, KeptPrimed

LEMMA TakeWakeKept ==
  ASSUME Merging, EvidenceInv, NEW w, NEW k, TakeWake(w, k) \/ TakeNamelessWake(w, k)
  PROVE  EvidenceInv'
<1> DEFINE n == said.wakes[w].of[k]
           candidates == IF Found(n) # {} THEN Found(n) ELSE MatchWake(w, k)
<1>1. \/ TakeWake(w, k) /\ \E i \in candidates : ds' = Register(WakeRecorded(w, k, i), n, i)
      \/ ds' = Put(ds, WakeBubble(w, k))
  BY DEF TakeWake, TakeNamelessWake, WakeRecorded, WakeBubble
<1>2. candidates \subseteq Shown
  BY WakeMatches
<1> QED
  BY <1>1, <1>2, RecordedKept, PutWakeKept

LEMMA NextMergeKept ==
  ASSUME Merging, EvidenceInv, NextMerge
  PROVE  EvidenceInv'
BY RejectCallKept, TakeCallKept, ShareCallKept, TakeWakeKept, AddUpdateKept DEF NextMerge

(* What the page makes of the bubbles leaves what they bear as it is.       *)
LEMMA InferTargetsKept ==
  ASSUME Merging, EvidenceInv, InferTargets
  PROVE  EvidenceInv'
<1>1. /\ UNCHANGED <<said, calls, wakes, updates>>
      /\ ds'.keys = ds.keys /\ ds'.rejected = ds.rejected /\ ds'.feed = ds.feed
      /\ DOMAIN ds'.bubbles = DOMAIN ds.bubbles
      /\ \A i \in DOMAIN ds.bubbles : /\ MarksOf(ds', i) = MarksOf(ds, i)
                                     /\ ds'.bubbles[i].entry = ds.bubbles[i].entry
                                     /\ ds'.bubbles[i].wakeCount = ds.bubbles[i].wakeCount
  BY InferTargetsEffect DEF SameMessage, MarksOf, InferTargets
<1>2. /\ \A key \in DOMAIN ds.keys : ds.keys[key] \in DOMAIN ds.bubbles
      /\ Range(ds.keys) \subseteq DOMAIN ds.bubbles
  BY DataParts DEF Merging
<1>3. MarksApart(ds') /\ MarksTaken(ds', calls', wakes')
  BY <1>1 DEF EvidenceInv, Kept, MarksApart, MarksTaken
<1>4. RecordsFound(ds') /\ RecordsOnly(ds') /\ OneRecord(ds')
  BY <1>1, <1>2 DEF EvidenceInv, Kept, RecordsFound, RecordsOnly, OneRecord
<1>5. CallKeysTrue(ds') /\ WakeKeysFree(ds', wakes')
  BY <1>1, <1>2 DEF EvidenceInv, Kept, CallKeysTrue, WakeKeysFree
<1>6. WakesShown(ds', wakes') /\ CallsShown(ds', calls') /\ CallsFirst(calls', wakes')
  BY <1>1, <1>2 DEF EvidenceInv, Kept, WakesShown, CallsShown, CallsFirst
<1>7. OneCall(ds') /\ WakesCounted(ds')
  BY <1>1 DEF EvidenceInv, Kept, OneCall, WakesCounted
<1>8. RefusedListed(ds', calls') /\ SharedListed(ds', calls', updates')
  BY <1>1 DEF EvidenceInv, Kept, RefusedListed, SharedListed
<1>9. Kept(ds', calls', wakes', updates')
  BY <1>3, <1>4, <1>5, <1>6, <1>7, <1>8 DEF Kept
<1> QED
  BY <1>1, <1>9, KeptPrimed

LEMMA InferRefusedKept ==
  ASSUME Merging, EvidenceInv, InferRefused
  PROVE  EvidenceInv'
<1>1. /\ UNCHANGED <<said, calls, wakes, updates>>
      /\ ds'.keys = ds.keys /\ ds'.bubbles = ds.bubbles /\ ds'.feed = ds.feed
      /\ \A e : (\E i \in DOMAIN ds.rejected : e \in ds.rejected[i].evidence)
                => \E i \in DOMAIN ds'.rejected : e \in ds'.rejected[i].evidence
  BY InferRefusedEffect DEF InferRefused
<1>2. RefusedListed(ds', calls')
  BY <1>1 DEF EvidenceInv, Kept, RefusedListed
<1>3. SharedListed(ds', calls', updates')
  BY <1>1 DEF EvidenceInv, Kept, SharedListed
<1>4. Kept(ds', calls', wakes', updates')
  BY <1>1, <1>2, <1>3, BubblesKept DEF Kept
<1> QED
  BY <1>1, <1>4, KeptPrimed

LEMMA EvidenceStep ==
  ASSUME TypeInv, EvidenceInv, [Next]_vars
  PROVE  EvidenceInv'
<1>1. CASE NextMerge
  BY <1>1, NextMergeKept DEF TypeInv
<1>2. CASE InferTargets \/ InferRefused
  BY <1>2, InferTargetsKept, InferRefusedKept DEF TypeInv
<1>3. CASE UNCHANGED <<said, calls, wakes, updates, ds>>
  <2>1. Kept(ds', calls', wakes', updates')
    BY <1>3 DEF EvidenceInv
  <2> QED
    BY <1>3, <2>1, KeptPrimed
<1>4. \/ NextMerge \/ InferTargets \/ InferRefused
      \/ UNCHANGED <<said, calls, wakes, updates, ds>>
  BY DEF Next, vars, Join, LinkThreads, NameThreads, GroupChats, BuildChats
<1> QED
  BY <1>1, <1>2, <1>3, <1>4

(* Whatever is left of the messages and in whatever order it is merged:     *)
(* every record, call and wake taken is on exactly one bubble that is       *)
(* shown, which bears no other call and counts its wakes, or is listed with *)
(* the refused or on the feed (build.go, build).                            *)
THEOREM EvidenceKeptHolds == Spec => []EvidenceKept
<1>1. Init => TypeInv /\ EvidenceInv
  BY TypeInvInit, InitKept DEF Init
<1>2. TypeInv /\ EvidenceInv /\ [Next]_vars => TypeInv' /\ EvidenceInv'
  BY TypeInvStep, EvidenceStep
<1>3. TypeInv /\ EvidenceInv => EvidenceKept
  BY KeptIsKept DEF TypeInv
<1> QED
  BY <1>1, <1>2, <1>3, PTL DEF Spec

-----------------------------------------------------------------------------
(* The room's record decides.                                               *)

LEMMA HomePrimed ==
  ASSUME said' = said, Home(ds')
  PROVE  HomeInv'
<1>1. Sends' = Sends /\ Slots' = Slots /\ KeptSends' = KeptSends
  BY SameHistory DEF KeptSends, IsDirect, Send
<1>2. \A n : /\ Send(n)' = Send(n) /\ Loose(n)' = Loose(n) /\ FullKey(n)' = FullKey(n)
             /\ Misled(n)' = Misled(n) /\ \A m : Alike(m, n)' = Alike(m, n)
  BY DEF Send, Loose, FullKey, Misled, Alike, Sends
<1>3. RecordsTrue(ds)'
  BY <1>1, <1>2 DEF Home, RecordsTrue
<1>4. WakesHome(ds)'
  BY <1>1, <1>2 DEF Home, WakesHome, MarksOf
<1>5. CallsHome(ds)'
  BY <1>1, <1>2 DEF Home, CallsHome, MarksOf
<1> QED
  BY <1>3, <1>4, <1>5 DEF HomeInv, Home

(* The bubble of a record, and what is on another record's is not on it.    *)
LEMMA RecordBubble ==
  ASSUME Merging, EvidenceInv, NEW n \in KeptSends
  PROVE  /\ n \in Sends /\ FullKey(n) \in DOMAIN ds.keys
         /\ ds.keys[FullKey(n)] \in DOMAIN ds.bubbles
         /\ ds.keys[FullKey(n)] \in Shown
         /\ <<"room", n>> \in MarksOf(ds, ds.keys[FullKey(n)])
         /\ \A m \in KeptSends : ds.keys[FullKey(m)] = ds.keys[FullKey(n)] => m = n
<1>1. KeptSends \subseteq Sends
  BY SaidSends DEF Merging, KeptSends
<1>2. \A m \in KeptSends : /\ FullKey(m) \in DOMAIN ds.keys
                           /\ <<"room", m>> \in MarksOf(ds, ds.keys[FullKey(m)])
  BY DEF EvidenceInv, Kept, RecordsFound
<1>3. \A key \in DOMAIN ds.keys : ds.keys[key] \in DOMAIN ds.bubbles /\ ds.keys[key] \in Shown
  BY DataParts DEF Merging, Shown, Range
<1> QED
  BY <1>1, <1>2, <1>3 DEF EvidenceInv, Kept, OneRecord

LEMMA AlikeChains ==
  ASSUME NEW l, NEW m, NEW n, Alike(l, m), Alike(m, n)
  PROVE  Alike(l, n)
BY DEF Alike

(* A record that a call still to come quotes is free, unless another call   *)
(* that says the same and is tied to no record has taken its place.         *)
LEMMA QuotedIsFree ==
  ASSUME Merging, EvidenceInv, HomeInv, NEW n \in KeptSends, n \in said.quoted, n \in ToSet(calls)
  PROVE  \/ MatchCall(n) = {ds.keys[FullKey(n)]}
         \/ \E m \in Sends : Loose(m) /\ Alike(m, n)
<1> DEFINE r == ds.keys[FullKey(n)]
<1>1. r \in DOMAIN ds.bubbles
  BY RecordBubble
<1>2. <<"call", n>> \notin MarksOf(ds, r)
  BY <1>1 DEF EvidenceInv, Kept, MarksTaken
<1>3. CASE ds.bubbles[r].entry = 0
  <2>1. n \in said.quoted \cap said.kept
    BY DEF KeptSends
  <2>2. {i \in DOMAIN ds.bubbles : n \in said.quoted \cap said.kept
                                    /\ i = ds.keys[FullKey(n)] /\ Bubble(i).entry = 0} = {r}
    BY <1>1, <1>3, <2>1 DEF Bubble
  <2> QED
    BY <2>2 DEF MatchCall
<1>4. CASE ds.bubbles[r].entry # 0
  BY <1>2, <1>4 DEF HomeInv, Home, RecordsTrue, MarksOf
<1> QED
  BY <1>3, <1>4

LEMMA HomeCall ==
  ASSUME Merging, EvidenceInv, HomeInv, NEW n \in Sends, n \in ToSet(calls),
         NEW d, NEW i, Marked(d, i, <<"call", n>>),
         \/ i \in MatchCall(n)
         \/ i \notin DOMAIN ds.bubbles /\ MatchCall(n) = {}
  PROVE  Home(d)
<1> DEFINE e == <<"call", n>>
<1>1. ASSUME NEW m \in KeptSends
      PROVE  d.keys[FullKey(m)] = ds.keys[FullKey(m)]
  BY DEF Marked
<1>2. ASSUME NEW m \in KeptSends, ds.keys[FullKey(m)] = i, m # n
      PROVE  \E l \in Sends : Loose(l) /\ Alike(l, m)
  <2>1. m \in Sends /\ i \in DOMAIN ds.bubbles /\ i \in MatchCall(n)
    BY <1>2, RecordBubble
  <2>2. CASE n \in said.quoted \cap said.kept
    <3>1. n \in KeptSends
      BY <2>2, SaidSends DEF Merging, KeptSends
    <3>2. ds.keys[FullKey(n)] # i
      BY <1>2, <3>1, RecordBubble
    <3>3. PICK l \in Sends : Loose(l) /\ Alike(l, n)
      BY <2>1, <2>2, <3>1, <3>2, QuotedIsFree
    <3>4. Alike(n, m)
      <4>1. i \notin {j \in DOMAIN ds.bubbles : n \in said.quoted \cap said.kept
                        /\ j = ds.keys[FullKey(n)] /\ Bubble(j).entry = 0}
        BY <3>2
      <4>2. LooksLike(i, n)
        BY <2>1, <4>1 DEF MatchCall
      <4> QED
        BY <1>2, <4>2 DEF LooksLike, Alike, HomeInv, Home, RecordsTrue, Bubble
    <3> QED
      BY <3>3, <3>4, AlikeChains
  <2>3. CASE n \notin said.quoted \cap said.kept
    <3>1. LooksLike(i, n)
      BY <2>1, <2>3 DEF MatchCall
    <3>2. Alike(n, m)
      BY <1>2, <3>1 DEF LooksLike, Alike, HomeInv, Home, RecordsTrue, Bubble
    <3> QED
      BY <2>3, <3>2 DEF Loose
  <2> QED
    BY <2>2, <2>3
<1>3. ASSUME NEW m \in KeptSends
      PROVE  LET b == d.bubbles[d.keys[FullKey(m)]]
             IN /\ b.kind = Send(m).kind /\ b.from = Send(m).from
                /\ b.fromActor = LabelOf[Send(m).from] /\ b.texts = {Send(m).text}
                /\ b.entry # 0 => \/ <<"call", m>> \in b.evidence
                                  \/ \E l \in Sends : Loose(l) /\ Alike(l, m)
  <2> DEFINE r == ds.keys[FullKey(m)]
             b == d.bubbles[r]
             c == ds.bubbles[r]
  <2>1. r \in DOMAIN ds.bubbles /\ d.keys[FullKey(m)] = r
    BY <1>1, RecordBubble
  <2>2. SaysTheSame(b, c) /\ (b.entry = c.entry \/ r = i)
    BY <2>1 DEF Marked
  <2>3. /\ c.kind = Send(m).kind /\ c.from = Send(m).from
        /\ c.fromActor = LabelOf[Send(m).from] /\ c.texts = {Send(m).text}
        /\ c.entry # 0 => \/ <<"call", m>> \in c.evidence
                          \/ \E l \in Sends : Loose(l) /\ Alike(l, m)
    BY DEF HomeInv, Home, RecordsTrue
  <2>4. \A f : f \in c.evidence => f \in b.evidence
    BY <2>1 DEF Marked, MarksOf
  <2>5. r = i => e \in b.evidence
    BY DEF Marked, MarksOf
  <2>6. b.entry # 0 => \/ <<"call", m>> \in b.evidence
                       \/ \E l \in Sends : Loose(l) /\ Alike(l, m)
    <3>1. CASE r # i
      BY <2>2, <2>3, <2>4, <3>1
    <3>2. CASE r = i /\ m = n
      BY <2>5, <3>2
    <3>3. CASE r = i /\ m # n
      BY <1>2, <3>3
    <3> QED
      BY <3>1, <3>2, <3>3
  <2> QED
    BY <2>1, <2>2, <2>3, <2>6 DEF SaysTheSame
<1>4. ASSUME NEW m \in KeptSends, NEW s \in Slots,
             s[1] \in said.named, said.wakes[s[1]].of[s[2]] = m,
             NEW j \in DOMAIN d.bubbles, <<"wake", s[1], s[2]>> \in MarksOf(d, j)
      PROVE  j = d.keys[FullKey(m)]
  <2>1. j \in DOMAIN ds.bubbles /\ <<"wake", s[1], s[2]>> \in MarksOf(ds, j)
    BY <1>4 DEF Marked
  <2> QED
    BY <1>1, <1>4, <2>1 DEF HomeInv, Home, WakesHome
<1>5. ASSUME NEW m \in KeptSends, m \in said.quoted, ~Misled(m),
             NEW j \in DOMAIN d.bubbles, <<"call", m>> \in MarksOf(d, j)
      PROVE  j = d.keys[FullKey(m)]
  <2>1. CASE j \in DOMAIN ds.bubbles /\ <<"call", m>> \in MarksOf(ds, j)
    BY <1>1, <1>5, <2>1 DEF HomeInv, Home, CallsHome
  <2>2. CASE j = i /\ m = n
    <3>1. ~ \E l \in Sends : Loose(l) /\ Alike(l, n)
      BY <1>5, <2>2 DEF Misled, Loose, KeptSends
    <3>2. MatchCall(n) = {ds.keys[FullKey(n)]}
      BY <1>5, <2>2, <3>1, QuotedIsFree
    <3> QED
      BY <1>1, <2>2, <3>2
  <2> QED
    BY <1>5, <2>1, <2>2 DEF Marked
<1>6. RecordsTrue(d)
  BY <1>3 DEF RecordsTrue
<1>7. WakesHome(d)
  BY <1>4 DEF WakesHome
<1>8. CallsHome(d)
  BY <1>5 DEF CallsHome
<1> QED
  BY <1>6, <1>7, <1>8 DEF Home

LEMMA HomeWake ==
  ASSUME Merging, EvidenceInv, HomeInv, NEW w, NEW k,
         NEW d, NEW i, Marked(d, i, <<"wake", w, k>>),
         w \in said.named /\ said.wakes[w].of[k] \in KeptSends
           => i = ds.keys[FullKey(said.wakes[w].of[k])]
  PROVE  Home(d)
<1>1. ASSUME NEW m \in KeptSends
      PROVE  d.keys[FullKey(m)] = ds.keys[FullKey(m)]
  BY DEF Marked
<1>2. ASSUME NEW m \in KeptSends
      PROVE  LET b == d.bubbles[d.keys[FullKey(m)]]
             IN /\ b.kind = Send(m).kind /\ b.from = Send(m).from
                /\ b.fromActor = LabelOf[Send(m).from] /\ b.texts = {Send(m).text}
                /\ b.entry # 0 => \/ <<"call", m>> \in b.evidence
                                  \/ \E l \in Sends : Loose(l) /\ Alike(l, m)
  <2> DEFINE r == ds.keys[FullKey(m)]
             b == d.bubbles[r]
             c == ds.bubbles[r]
  <2>1. r \in DOMAIN ds.bubbles /\ d.keys[FullKey(m)] = r
    BY <1>1, RecordBubble
  <2>2. SaysTheSame(b, c) /\ b.entry = c.entry
    BY <2>1 DEF Marked
  <2>3. /\ c.kind = Send(m).kind /\ c.from = Send(m).from
        /\ c.fromActor = LabelOf[Send(m).from] /\ c.texts = {Send(m).text}
        /\ c.entry # 0 => \/ <<"call", m>> \in c.evidence
                          \/ \E l \in Sends : Loose(l) /\ Alike(l, m)
    BY DEF HomeInv, Home, RecordsTrue
  <2>4. \A f : f \in c.evidence => f \in b.evidence
    BY <2>1 DEF Marked, MarksOf
  <2> QED
    BY <2>1, <2>2, <2>3, <2>4 DEF SaysTheSame
<1>3. ASSUME NEW m \in KeptSends, NEW s \in Slots,
             s[1] \in said.named, said.wakes[s[1]].of[s[2]] = m,
             NEW j \in DOMAIN d.bubbles, <<"wake", s[1], s[2]>> \in MarksOf(d, j)
      PROVE  j = d.keys[FullKey(m)]
  <2>1. CASE j \in DOMAIN ds.bubbles /\ <<"wake", s[1], s[2]>> \in MarksOf(ds, j)
    BY <1>1, <1>3, <2>1 DEF HomeInv, Home, WakesHome
  <2>2. CASE j = i /\ <<"wake", s[1], s[2]>> = <<"wake", w, k>>
    BY <1>1, <1>3, <2>2
  <2> QED
    BY <1>3, <2>1, <2>2 DEF Marked
<1>4. ASSUME NEW m \in KeptSends, m \in said.quoted, ~Misled(m),
             NEW j \in DOMAIN d.bubbles, <<"call", m>> \in MarksOf(d, j)
      PROVE  j = d.keys[FullKey(m)]
  <2>1. j \in DOMAIN ds.bubbles /\ <<"call", m>> \in MarksOf(ds, j)
    BY <1>4 DEF Marked
  <2> QED
    BY <1>1, <1>4, <2>1 DEF HomeInv, Home, CallsHome
<1>5. RecordsTrue(d)
  BY <1>2 DEF RecordsTrue
<1>6. WakesHome(d)
  BY <1>3 DEF WakesHome
<1>7. CallsHome(d)
  BY <1>4 DEF CallsHome
<1> QED
  BY <1>5, <1>6, <1>7 DEF Home

LEMMA TakeCallHome ==
  ASSUME Merging, EvidenceInv, HomeInv, NEW n, TakeCall(n)
  PROVE  HomeInv'
<1>1. /\ Taking(n) /\ ~Send(n).refused /\ IsDirect(n)
      /\ UNCHANGED <<said, wakes, updates, stage>>
      /\ \/ \E i \in MatchCall(n) : ds' = [ds EXCEPT !.bubbles[i] = AttachCall(@, n)]
         \/ MatchCall(n) = {} /\ ds' = Put(ds, CallBubble(n))
  BY DEF TakeCall, CallBubble
<1>2. n \in Sends /\ n \in ToSet(calls)
  BY <1>1, TakingOff
<1>3. CASE \E i \in MatchCall(n) : ds' = [ds EXCEPT !.bubbles[i] = AttachCall(@, n)]
  <2>1. PICK i \in MatchCall(n) : ds' = [ds EXCEPT !.bubbles[i] = AttachCall(@, n)]
    BY <1>3
  <2>2. Marked(ds', i, <<"call", n>>)
    BY <1>1, <2>1, AttachKept
  <2>3. Home(ds')
    BY <1>2, <2>2, HomeCall
  <2> QED
    BY <1>1, <2>3, HomePrimed
<1>4. CASE MatchCall(n) = {} /\ ds' = Put(ds, CallBubble(n))
  <2>1. PICK i : Marked(ds', i, <<"call", n>>) /\ i \notin DOMAIN ds.bubbles
    BY <1>1, <1>4, PutCallKept
  <2>2. Home(ds')
    BY <1>2, <1>4, <2>1, HomeCall
  <2> QED
    BY <1>1, <2>2, HomePrimed
<1> QED
  BY <1>1, <1>3, <1>4

LEMMA TakeWakeHome ==
  ASSUME Merging, EvidenceInv, HomeInv, NEW w, NEW k, TakeWake(w, k) \/ TakeNamelessWake(w, k)
  PROVE  HomeInv'
<1> DEFINE n == said.wakes[w].of[k]
           candidates == IF Found(n) # {} THEN Found(n) ELSE MatchWake(w, k)
<1>0. said' = said
  BY DEF TakeWake, TakeNamelessWake
<1>1. \/ TakeWake(w, k) /\ \E i \in candidates : ds' = Register(WakeRecorded(w, k, i), n, i)
      \/ TakeWake(w, k) /\ candidates = {} /\ ds' = Put(ds, WakeBubble(w, k))
      \/ w \notin said.named /\ ds' = Put(ds, WakeBubble(w, k))
  BY DEF TakeWake, TakeNamelessWake, WakeRecorded, WakeBubble
<1>2. candidates \subseteq Shown
  BY WakeMatches
<1>3. n \in KeptSends => candidates = {ds.keys[FullKey(n)]}
  <2>1. n \in KeptSends => FullKey(n) \in DOMAIN ds.keys
    BY RecordBubble
  <2>2. n \in KeptSends => Found(n) = {ds.keys[FullKey(n)]}
    BY <2>1 DEF Found
  <2> QED
    BY <2>2
<1> HIDE DEF candidates
<1>4. CASE TakeWake(w, k) /\ \E i \in candidates : ds' = Register(WakeRecorded(w, k, i), n, i)
  <2>1. PICK i \in candidates : ds' = Register(WakeRecorded(w, k, i), n, i)
    BY <1>4
  <2>2. Marked(ds', i, <<"wake", w, k>>)
    BY <1>2, <1>4, <2>1, RecordedKept
  <2>3. Home(ds')
    BY <1>3, <2>2, HomeWake
  <2> QED
    BY <1>0, <2>3, HomePrimed
<1>5. CASE /\ ds' = Put(ds, WakeBubble(w, k))
           /\ w \notin said.named \/ candidates = {}
  <2>1. PICK i : Marked(ds', i, <<"wake", w, k>>)
    BY <1>5, PutWakeKept
  <2>2. ~(w \in said.named /\ n \in KeptSends)
    BY <1>3, <1>5
  <2>3. Home(ds')
    BY <2>1, <2>2, HomeWake
  <2> QED
    BY <1>0, <2>3, HomePrimed
<1> QED
  BY <1>1, <1>4, <1>5

(* Where neither a call nor a wake is taken, every bubble bears and says    *)
(* what it did.                                                             *)
LEMMA HomeStays ==
  ASSUME Merging, EvidenceInv, HomeInv, said' = said, ds'.keys = ds.keys,
         DOMAIN ds'.bubbles = DOMAIN ds.bubbles,
         \A i \in DOMAIN ds.bubbles :
           /\ SaysTheSame(ds'.bubbles[i], ds.bubbles[i])
           /\ ds'.bubbles[i].entry = ds.bubbles[i].entry
           /\ ds'.bubbles[i].evidence = ds.bubbles[i].evidence
  PROVE  HomeInv'
<1>1. \A n \in KeptSends : ds.keys[FullKey(n)] \in DOMAIN ds.bubbles
  BY RecordBubble
<1>2. RecordsTrue(ds')
  <2> SUFFICES ASSUME NEW n \in KeptSends
               PROVE  LET b == ds'.bubbles[ds'.keys[FullKey(n)]]
                      IN /\ b.kind = Send(n).kind /\ b.from = Send(n).from
                         /\ b.fromActor = LabelOf[Send(n).from] /\ b.texts = {Send(n).text}
                         /\ b.entry # 0 => \/ <<"call", n>> \in b.evidence
                                           \/ \E m \in Sends : Loose(m) /\ Alike(m, n)
    BY DEF RecordsTrue
  <2> DEFINE r == ds.keys[FullKey(n)]
             b == ds'.bubbles[r]
             c == ds.bubbles[r]
  <2>1. r \in DOMAIN ds.bubbles /\ ds'.keys[FullKey(n)] = r
    BY <1>1
  <2>2. SaysTheSame(b, c) /\ b.entry = c.entry /\ b.evidence = c.evidence
    BY <2>1
  <2>3. /\ c.kind = Send(n).kind /\ c.from = Send(n).from
        /\ c.fromActor = LabelOf[Send(n).from] /\ c.texts = {Send(n).text}
        /\ c.entry # 0 => \/ <<"call", n>> \in c.evidence
                          \/ \E m \in Sends : Loose(m) /\ Alike(m, n)
    BY DEF HomeInv, Home, RecordsTrue
  <2> QED
    BY <2>1, <2>2, <2>3 DEF SaysTheSame
<1>3. WakesHome(ds') /\ CallsHome(ds')
  BY DEF HomeInv, Home, WakesHome, CallsHome, MarksOf
<1> QED
  BY <1>2, <1>3, HomePrimed DEF Home

LEMMA HomeStep ==
  ASSUME TypeInv, EvidenceInv, HomeInv, [Next]_vars
  PROVE  HomeInv'
<1>1. CASE \E n \in Sends : TakeCall(n)
  BY <1>1, TakeCallHome DEF TypeInv
<1>2. CASE \E w \in DOMAIN said.wakes : \E k \in DOMAIN said.wakes[w].of :
             TakeWake(w, k) \/ TakeNamelessWake(w, k)
  BY <1>2, TakeWakeHome DEF TypeInv
<1>3. CASE \/ \E n \in Sends : RejectCall(n) \/ ShareCall(n) \/ AddUpdate(n)
           \/ InferRefused \/ UNCHANGED <<said, ds>>
  <2>1. said' = said /\ ds'.keys = ds.keys /\ ds'.bubbles = ds.bubbles
    <3>1. CASE \E n \in Sends : RejectCall(n)
      BY <3>1 DEF RejectCall, TypeInv, Merging, DataOK, DataSets
    <3>2. CASE \E n \in Sends : ShareCall(n) \/ AddUpdate(n)
      BY <3>2 DEF ShareCall, AddUpdate, TypeInv, Merging, DataOK, DataSets
    <3>3. CASE InferRefused
      BY <3>3, InferRefusedEffect DEF InferRefused, TypeInv
    <3> QED
      BY <1>3, <3>1, <3>2, <3>3
  <2> QED
    BY <2>1, HomeStays DEF TypeInv, SaysTheSame
<1>4. CASE InferTargets
  <2>1. /\ said' = said /\ ds'.keys = ds.keys /\ DOMAIN ds'.bubbles = DOMAIN ds.bubbles
        /\ \A i \in DOMAIN ds.bubbles : SameMessage(ds'.bubbles[i], ds.bubbles[i])
    BY <1>4, InferTargetsEffect DEF InferTargets, TypeInv
  <2> QED
    BY <2>1, HomeStays DEF TypeInv, SameMessage, SaysTheSame
<1>5. \/ NextMerge \/ InferTargets \/ InferRefused \/ UNCHANGED <<said, ds>>
  BY DEF Next, vars, Join, LinkThreads, NameThreads, GroupChats, BuildChats
<1> QED
  BY <1>1, <1>2, <1>3, <1>4, <1>5 DEF NextMerge

LEMMA HomeInit ==
  ASSUME InitMerge
  PROVE  HomeInv
<1>1. Made
  BY DEF InitMerge, Made
<1>2. PICK order \in SetToSeqs(KeptSends) : ds = FromRecords(order)
  BY DEF InitMerge
<1>3. /\ ds.bubbles = [i \in DOMAIN order |-> FromRoom(order[i])]
      /\ \A n \in KeptSends : /\ ds.keys[FullKey(n)] \in DOMAIN order
                             /\ order[ds.keys[FullKey(n)]] = n
  BY <1>1, <1>2, RecordsEffect
<1>4. \A n \in KeptSends : ds.bubbles[ds.keys[FullKey(n)]] = FromRoom(n)
  BY <1>3
<1>5. \A n : /\ FromRoom(n).kind = Send(n).kind /\ FromRoom(n).from = Send(n).from
             /\ FromRoom(n).fromActor = LabelOf[Send(n).from]
             /\ FromRoom(n).texts = {Send(n).text} /\ FromRoom(n).entry = 0
             /\ FromRoom(n).evidence = {<<"room", n>>}
  BY DEF FromRoom
<1>6. RecordsTrue(ds)
  <2> SUFFICES ASSUME NEW n \in KeptSends
               PROVE  LET b == ds.bubbles[ds.keys[FullKey(n)]]
                      IN /\ b.kind = Send(n).kind /\ b.from = Send(n).from
                         /\ b.fromActor = LabelOf[Send(n).from] /\ b.texts = {Send(n).text}
                         /\ b.entry # 0 => \/ <<"call", n>> \in b.evidence
                                           \/ \E m \in Sends : Loose(m) /\ Alike(m, n)
    BY DEF RecordsTrue
  <2>1. ds.bubbles[ds.keys[FullKey(n)]] = FromRoom(n)
    BY <1>4
  <2> QED
    BY <1>5, <2>1
<1>7. ASSUME NEW i \in DOMAIN ds.bubbles PROVE MarksOf(ds, i) = {<<"room", order[i]>>}
  <2>1. ds.bubbles[i] = FromRoom(order[i])
    BY <1>3
  <2> QED
    BY <1>5, <2>1 DEF MarksOf
<1>8. WakesHome(ds) /\ CallsHome(ds)
  BY <1>7 DEF WakesHome, CallsHome
<1> QED
  BY <1>6, <1>8 DEF HomeInv, Home

LEMMA HomeWins == TypeInv /\ EvidenceInv /\ HomeInv => RoomRecordWins
<1> SUFFICES ASSUME TypeInv, EvidenceInv, HomeInv, NEW n \in KeptSends, ~Misled(n)
             PROVE  /\ n \in said.quoted => On(<<"call", n>>) \subseteq On(<<"room", n>>)
                    /\ \A w \in said.named : \A k \in DOMAIN said.wakes[w].of :
                         said.wakes[w].of[k] = n => On(<<"wake", w, k>>) \subseteq On(<<"room", n>>)
  BY DEF RoomRecordWins
<1>1. ds.keys[FullKey(n)] \in On(<<"room", n>>)
  BY RecordBubble DEF TypeInv, On, Evidence, Bubble, MarksOf
<1>2. /\ Shown \subseteq DOMAIN ds.bubbles
      /\ \A i \in DOMAIN ds.bubbles : MarksOf(ds, i) \subseteq Marks
  BY WakeMatches, DataParts DEF TypeInv, Merging, Bubbles, MarksOf
<1>3. \A e : \A i \in On(e) : i \in DOMAIN ds.bubbles /\ e \in MarksOf(ds, i)
  BY <1>2 DEF On, Evidence, Bubble, MarksOf
<1>4. ASSUME n \in said.quoted, NEW i \in On(<<"call", n>>)
      PROVE  i \in On(<<"room", n>>)
  BY <1>1, <1>3, <1>4 DEF HomeInv, Home, CallsHome
<1>5. ASSUME NEW w \in said.named, NEW k \in DOMAIN said.wakes[w].of, said.wakes[w].of[k] = n,
             NEW i \in On(<<"wake", w, k>>)
      PROVE  i \in On(<<"room", n>>)
  <2>1. i \in DOMAIN ds.bubbles /\ <<"wake", w, k>> \in MarksOf(ds, i) /\ <<"wake", w, k>> \in Marks
    BY <1>2, <1>3
  <2>2. <<w, k>> \in Slots
    <3>1. PICK s \in Slots : <<"wake", w, k>> = <<"wake", s[1], s[2]>>
      BY <2>1 DEF Marks
    <3>2. s = <<w, k>>
      BY <3>1, SlotsFinite DEF TypeInv, Merging
    <3> QED
      BY <3>2
  <2>3. i = ds.keys[FullKey(n)]
    <3> DEFINE s == <<w, k>>
    <3>1. s \in Slots /\ s[1] = w /\ s[2] = k
      BY <2>2
    <3> HIDE DEF s
    <3> QED
      BY <1>5, <2>1, <3>1 DEF HomeInv, Home, WakesHome
  <2> QED
    BY <1>1, <2>3
<1> QED
  BY <1>4, <1>5

(* Whatever else was sent and in whatever order it is merged: a call that   *)
(* quotes the id of a message the room has, and a wake that names it, are   *)
(* on the bubble of its record, unless a call that says the same and that   *)
(* no id ties to a record can be taken for it (build.go:292-293,            *)
(* matchCall).                                                              *)
THEOREM RoomRecordWinsHolds == Spec => []RoomRecordWins
<1>1. Init => TypeInv /\ EvidenceInv /\ HomeInv
  BY TypeInvInit, InitKept, HomeInit DEF Init
<1>2. TypeInv /\ EvidenceInv /\ HomeInv /\ [Next]_vars => TypeInv' /\ EvidenceInv' /\ HomeInv'
  BY TypeInvStep, EvidenceStep, HomeStep
<1>3. TypeInv /\ EvidenceInv /\ HomeInv => RoomRecordWins
  BY HomeWins
<1> QED
  BY <1>1, <1>2, <1>3, PTL DEF Spec

-----------------------------------------------------------------------------
(* Disjoint sets: what they hold together is what a chain of links leads    *)
(* to, whatever is linked and in whatever order it is joined.               *)

LEMMA ChainIsEquivalence ==
  ASSUME NEW nodes, NEW linked \in SUBSET (nodes \X nodes)
  PROVE  /\ \A x \in nodes : x \in Chain(x, nodes, linked)
         /\ \A x, y \in nodes : y \in Chain(x, nodes, linked) => x \in Chain(y, nodes, linked)
         /\ \A x, y, z \in nodes :
              y \in Chain(x, nodes, linked) /\ z \in Chain(y, nodes, linked)
              => z \in Chain(x, nodes, linked)
<1>1. ASSUME NEW x \in nodes, NEW y \in nodes, y \in Chain(x, nodes, linked)
      PROVE  x \in Chain(y, nodes, linked)
  <2> SUFFICES ASSUME NEW S \in SUBSET nodes, y \in S, x \notin S,
                      \A l \in linked : l[1] \in S <=> l[2] \in S
               PROVE  FALSE
    BY DEF Chain
  <2>1. \A l \in linked : l[1] \in nodes /\ l[2] \in nodes
    OBVIOUS
  <2>2. \A l \in linked : l[1] \in nodes \ S <=> l[2] \in nodes \ S
    BY <2>1
  <2>3. y \in nodes \ S
    BY <1>1, <2>2 DEF Chain
  <2> QED
    BY <2>3
<1> QED
  BY <1>1 DEF Chain

(* What f joined is held together by links, and a link not followed yet is  *)
(* still to come.                                                           *)
Linking(nodes, linked, f, ls) ==
  /\ DOMAIN f = nodes /\ ls \subseteq linked /\ linked \subseteq nodes \X nodes
  /\ \A x, y \in nodes : f[x] = f[y] => y \in Chain(x, nodes, linked)
  /\ \A p \in linked \ ls : f[p[1]] = f[p[2]]

LEMMA ApartLinks ==
  ASSUME NEW nodes, NEW linked \in SUBSET (nodes \X nodes)
  PROVE  Linking(nodes, linked, Apart(nodes), linked)
BY ChainIsEquivalence DEF Linking, Apart

LEMMA JoinLinks ==
  ASSUME NEW nodes, NEW linked, Linking(nodes, linked, forest, links), Join
  PROVE  Linking(nodes, linked, forest', links')
<1>1. PICK link \in links : forest' = Joined(link[1], link[2]) /\ links' = links \ {link}
  BY DEF Join
<1> DEFINE a == link[1]
           b == link[2]
           Tied(x, y) == y \in Chain(x, nodes, linked)
<1>2. /\ a \in nodes /\ b \in nodes /\ link \in linked /\ DOMAIN forest = nodes
      /\ links \subseteq linked /\ linked \in SUBSET (nodes \X nodes)
      /\ \A x, y \in nodes : forest[x] = forest[y] => Tied(x, y)
      /\ \A p \in linked \ links : forest[p[1]] = forest[p[2]]
  BY DEF Linking
<1>3. Tied(a, b)
  BY <1>2 DEF Chain
<1>4. /\ \A x, y \in nodes : Tied(x, y) => Tied(y, x)
      /\ \A x, y, z \in nodes : Tied(x, y) /\ Tied(y, z) => Tied(x, z)
  BY <1>2, ChainIsEquivalence
<1>5. /\ DOMAIN forest' = nodes
      /\ \A z \in nodes : forest'[z] = IF forest[z] = forest[b] THEN forest[a] ELSE forest[z]
  BY <1>1, <1>2 DEF Joined
<1>6. ASSUME NEW p \in linked \ links'
      PROVE  forest'[p[1]] = forest'[p[2]]
  <2>1. p[1] \in nodes /\ p[2] \in nodes
    BY <1>2
  <2>2. CASE p = link
    BY <1>2, <1>5, <2>2
  <2>3. CASE p \notin links
    BY <1>2, <1>5, <2>1, <2>3
  <2> QED
    BY <1>1, <2>2, <2>3
<1> HIDE DEF a, b, Tied
<1>7. ASSUME NEW x \in nodes, NEW y \in nodes, forest'[x] = forest'[y]
      PROVE  Tied(x, y)
  <2>1. CASE forest[x] = forest[y]
    BY <1>2, <2>1
  <2>2. CASE forest[x] = forest[b] /\ forest[y] = forest[a]
    <3>1. Tied(x, b) /\ Tied(b, a) /\ Tied(a, y)
      BY <1>2, <1>3, <1>4, <2>2
    <3> QED
      BY <1>2, <1>4, <3>1
  <2>3. CASE forest[y] = forest[b] /\ forest[x] = forest[a]
    <3>1. Tied(x, a) /\ Tied(a, b) /\ Tied(b, y)
      BY <1>2, <1>3, <2>3
    <3> QED
      BY <1>2, <1>4, <3>1
  <2> QED
    BY <1>5, <1>7, <2>1, <2>2, <2>3
<1> QED
  BY <1>1, <1>2, <1>5, <1>6, <1>7 DEF Linking, Tied

(* Things that are tied have names that are linked, and a link names such.  *)
Named(things, tied, name, linked, f) ==
  /\ tied \subseteq things \X things /\ DOMAIN name = things
  /\ \A k, m \in things : name[k] = name[m] => m \in Chain(k, things, tied)
  /\ \A l \in tied : f[name[l[1]]] = f[name[l[2]]]
  /\ \A p \in linked : \E l \in things \X things :
       p = <<name[l[1]], name[l[2]]>> /\ l[2] \in Chain(l[1], things, tied)

LEMMA SetsAreChains ==
  ASSUME NEW nodes, NEW linked, NEW f, Linking(nodes, linked, f, {}),
         NEW things, NEW tied, NEW name, Named(things, tied, name, linked, f),
         \A k \in things : name[k] \in nodes, NEW x \in things
  PROVE  {y \in things : f[name[y]] = f[name[x]]} = Chain(x, things, tied)
<1> DEFINE same == {y \in things : f[name[y]] = f[name[x]]}
<1>4. /\ tied \in SUBSET (things \X things)
      /\ \A k, m \in things : name[k] = name[m] => m \in Chain(k, things, tied)
      /\ \A l \in tied : f[name[l[1]]] = f[name[l[2]]]
      /\ \A p \in linked : \E l \in things \X things :
           p = <<name[l[1]], name[l[2]]>> /\ l[2] \in Chain(l[1], things, tied)
  BY DEF Named
<1>1. ASSUME NEW y \in Chain(x, things, tied)
      PROVE  y \in same
  <2>1. same \in SUBSET things /\ x \in same
    OBVIOUS
  <2>2. \A l \in tied : l[1] \in same <=> l[2] \in same
    BY <1>4
  <2> HIDE DEF same
  <2> QED
    BY <2>1, <2>2 DEF Chain
<1>2. ASSUME NEW y \in same, NEW S \in SUBSET things, x \in S,
             \A l \in tied : l[1] \in S <=> l[2] \in S
      PROVE  y \in S
  <2> DEFINE T == {name[k] : k \in S}
  <2>1. T \in SUBSET nodes /\ name[x] \in T
    BY <1>2
  <2>2. \A k, m \in things : m \in Chain(k, things, tied) /\ k \in S => m \in S
    BY <1>2 DEF Chain
  <2>3. \A k \in things : name[k] \in T => k \in S
    BY <1>4, <2>2
  <2>4. ASSUME NEW p \in linked PROVE p[1] \in T <=> p[2] \in T
    <3>1. PICK l \in things \X things :
            p = <<name[l[1]], name[l[2]]>> /\ l[2] \in Chain(l[1], things, tied)
      BY <1>4
    <3>2. l[1] \in things /\ l[2] \in things
      OBVIOUS
    <3>3. l[1] \in Chain(l[2], things, tied)
      BY <1>4, <3>1, <3>2, ChainIsEquivalence
    <3>4. l[1] \in S <=> l[2] \in S
      BY <2>2, <3>1, <3>2, <3>3
    <3>5. /\ name[l[1]] \in T <=> l[1] \in S
          /\ name[l[2]] \in T <=> l[2] \in S
      BY <2>3, <3>2
    <3> HIDE DEF T
    <3> QED
      BY <3>1, <3>4, <3>5
  <2>5. name[y] \in nodes /\ name[x] \in nodes /\ f[name[x]] = f[name[y]] /\ y \in things
    OBVIOUS
  <2> HIDE DEF T
  <2>6. name[y] \in Chain(name[x], nodes, linked)
    BY <2>5 DEF Linking
  <2>7. name[y] \in T
    BY <2>1, <2>4, <2>6 DEF Chain
  <2> QED
    BY <2>3, <2>5, <2>7
<1>3. \A y \in same : y \in Chain(x, things, tied)
  BY <1>2 DEF Chain
<1> QED
  BY <1>1, <1>3

-----------------------------------------------------------------------------
(* Threads are what a chain of links holds together.                        *)

(* What is to be linked, by id.                                             *)
Nodes == {Bubble(i).id : i \in Shown}
IdLinks ==
  {p \in Nodes \X Nodes :
     \E l \in ReplyLinks \cup BatchLinks : p[1] # p[2] /\ p = <<Bubble(l[1]).id, Bubble(l[2]).id>>}

LinkInv == stage = "linking" => Linking(Nodes, IdLinks, forest, links)

LEMMA DataSame ==
  ASSUME ds' = ds
  PROVE  /\ Shown' = Shown /\ Exchanging' = Exchanging
         /\ Nodes' = Nodes /\ IdLinks' = IdLinks
<1>1. Shown' = Shown /\ (\A i : Bubble(i)' = Bubble(i)) /\ (\A n : Found(n)' = Found(n))
  BY DEF Shown, Bubble, Found, FullKey, ShortKey
<1>2. \A i : Parents(i)' = Parents(i)
  BY <1>1 DEF Parents
<1>3. Exchanging' = Exchanging
  BY <1>1, <1>2 DEF Exchanging
<1>4. ReplyLinks' = ReplyLinks
  BY <1>1, <1>2 DEF ReplyLinks
<1>5. BatchLinks' = BatchLinks
  <2>1. \A w, s : Woken(w, s)' = Woken(w, s)
    BY <1>1 DEF Woken
  <2>2. \A S : First(S)' = First(S)
    BY <1>1 DEF First, Before
  <2> QED
    BY <1>1, <2>1, <2>2 DEF BatchLinks
<1>6. Nodes' = Nodes
  BY <1>1 DEF Nodes
<1>7. IdLinks' = IdLinks
  BY <1>1, <1>4, <1>5, <1>6 DEF IdLinks
<1> QED
  BY <1>1, <1>3, <1>6, <1>7

LEMMA LinkPrimed ==
  ASSUME ds' = ds, Linking(Nodes, IdLinks, forest', links')
  PROVE  LinkInv'
BY DataSame DEF LinkInv

LEMMA LinkThreadsLinks ==
  ASSUME LinkThreads
  PROVE  Linking(Nodes, IdLinks, forest', links')
<1>1. forest' = Apart(Nodes)
  BY DEF LinkThreads, Nodes
<1>2. links' = IdLinks
  BY <1>1 DEF LinkThreads, IdLinks, Apart
<1>3. IdLinks \in SUBSET (Nodes \X Nodes)
  BY DEF IdLinks
<1> QED
  BY <1>1, <1>2, <1>3, ApartLinks

LEMMA LinkStep ==
  ASSUME TypeInv, LinkInv, [Next]_vars
  PROVE  LinkInv'
<1>1. CASE Join /\ stage = "linking"
  BY <1>1, JoinLinks, LinkPrimed DEF Join, LinkInv
<1>2. CASE LinkThreads
  BY <1>2, LinkThreadsLinks, LinkPrimed DEF LinkThreads
<1>3. CASE stage' # "linking"
  BY <1>3 DEF LinkInv
<1>4. CASE UNCHANGED vars
  <2>1. UNCHANGED <<ds, stage, forest, links>>
    BY <1>4 DEF vars
  <2>2. stage' # "linking" \/ Linking(Nodes, IdLinks, forest', links')
    BY <2>1 DEF LinkInv
  <2> QED
    BY <1>3, <2>1, <2>2, LinkPrimed
<1>5. NextMerge /\ UNCHANGED <<forest, links, thread, chats>> => stage' # "linking"
  BY NextMergeOK
<1>6. \/ NextMerge /\ UNCHANGED <<forest, links, thread, chats>>
      \/ Join \/ LinkThreads \/ UNCHANGED vars \/ stage' # "linking"
  BY DEF Next, NameThreads, InferTargets, InferRefused, GroupChats, BuildChats
<1>7. Join => stage' = stage
  BY DEF Join
<1> QED
  BY <1>1, <1>2, <1>3, <1>4, <1>5, <1>6, <1>7

(* When no link is left, the sets of the forest are the chains of messages  *)
(* that answer each other or were first delivered together.                 *)
SameSet(i) == {j \in Shown : forest[Bubble(j).id] = forest[Bubble(i).id]}

LEMMA BatchFirst ==
  ASSUME Merging, NEW i \in Shown, NEW s \in Bubble(i).wokenBy
  PROVE  /\ First(Woken(Bubble(i).wakeEntry, s)) \in Woken(Bubble(i).wakeEntry, s)
         /\ <<First(Woken(Bubble(i).wakeEntry, s)), i>> \in BatchLinks
<1> DEFINE S == Woken(Bubble(i).wakeEntry, s)
<1>1. i \in S /\ S \subseteq Shown /\ S \in SUBSET DOMAIN ds.bubbles
  BY WakeMatches DEF Woken
<1>2. First(S) \in S
  BY <1>1, FirstIsFirst
<1> QED
  BY <1>1, <1>2 DEF BatchLinks

LEMMA LinksExchange ==
  ASSUME Merging, NEW l \in ReplyLinks \cup BatchLinks
  PROVE  l \in Exchanging
<1>1. CASE l \in ReplyLinks
  BY <1>1 DEF ReplyLinks, Exchanging
<1>2. CASE l \in BatchLinks
  <2>1. /\ l \in Shown \X Shown /\ l[2] \in Shown
        /\ \E s \in Bubble(l[2]).wokenBy : l[1] = First(Woken(Bubble(l[2]).wakeEntry, s))
    BY <1>2 DEF BatchLinks
  <2>2. PICK s \in Bubble(l[2]).wokenBy : l[1] = First(Woken(Bubble(l[2]).wakeEntry, s))
    BY <2>1
  <2>3. l[1] \in Woken(Bubble(l[2]).wakeEntry, s)
    BY <2>1, <2>2, BatchFirst
  <2>4. Bubble(l[1]).wakeEntry = Bubble(l[2]).wakeEntry /\ s \in Bubble(l[1]).wokenBy
    BY <2>3 DEF Woken
  <2> QED
    BY <2>1, <2>2, <2>4 DEF Exchanging
<1> QED
  BY <1>1, <1>2

LEMMA ThreadSets ==
  ASSUME TypeInv, LinkInv, stage = "linking", links = {}, NEW i \in Shown
  PROVE  SameSet(i) = Chain(i, Shown, Exchanging)
<1> DEFINE name == [j \in Shown |-> Bubble(j).id]
<1>0. /\ Linking(Nodes, IdLinks, forest, {})
      /\ \A p \in IdLinks : forest[p[1]] = forest[p[2]]
      /\ \A j \in Shown : Bubble(j).id \in Nodes
  BY DEF LinkInv, Linking, Nodes
<1>1. ASSUME NEW l \in ReplyLinks \cup BatchLinks
      PROVE  /\ l[1] \in Shown /\ l[2] \in Shown
             /\ forest[Bubble(l[1]).id] = forest[Bubble(l[2]).id]
  <2>1. l[1] \in Shown /\ l[2] \in Shown
    BY DEF ReplyLinks, BatchLinks
  <2>2. CASE Bubble(l[1]).id = Bubble(l[2]).id
    BY <2>1, <2>2
  <2>3. CASE Bubble(l[1]).id # Bubble(l[2]).id
    <3> DEFINE p == <<Bubble(l[1]).id, Bubble(l[2]).id>>
    <3>1. p \in Nodes \X Nodes /\ p[1] # p[2]
      BY <1>0, <2>1, <2>3
    <3>2. p \in IdLinks
      BY <3>1 DEF IdLinks
    <3> QED
      BY <1>0, <2>1, <3>2
  <2> QED
    BY <2>1, <2>2, <2>3
<1>2. ASSUME NEW l \in Exchanging
      PROVE  forest[Bubble(l[1]).id] = forest[Bubble(l[2]).id]
  <2>1. l = <<l[1], l[2]>> /\ l[1] \in Shown /\ l[2] \in Shown /\ l \in Shown \X Shown
    BY DEF Exchanging
  <2>2. CASE l[2] \in Parents(l[1])
    BY <1>1, <2>1, <2>2 DEF ReplyLinks
  <2>3. CASE Bubble(l[1]).id = Bubble(l[2]).id
    BY <2>3
  <2>4. CASE /\ Bubble(l[1]).wakeEntry = Bubble(l[2]).wakeEntry
             /\ Bubble(l[1]).wokenBy \cap Bubble(l[2]).wokenBy # {}
    <3>1. PICK s : s \in Bubble(l[1]).wokenBy /\ s \in Bubble(l[2]).wokenBy
      BY <2>4
    <3> DEFINE f == First(Woken(Bubble(l[1]).wakeEntry, s))
    <3>2. f = First(Woken(Bubble(l[2]).wakeEntry, s))
      BY <2>4
    <3>3. <<f, l[1]>> \in BatchLinks /\ <<f, l[2]>> \in BatchLinks
      BY <2>1, <3>1, <3>2, BatchFirst DEF TypeInv
    <3> HIDE DEF f
    <3>4. forest[Bubble(f).id] = forest[Bubble(l[1]).id]
      BY <1>1, <3>3
    <3>5. forest[Bubble(f).id] = forest[Bubble(l[2]).id]
      BY <1>1, <3>3
    <3> QED
      BY <3>4, <3>5
  <2> QED
    BY <2>2, <2>3, <2>4 DEF Exchanging
<1>3. \A l \in Exchanging : l[1] \in Shown /\ l[2] \in Shown
  BY DEF Exchanging
<1>4. \A l \in Exchanging : l[2] \in Chain(l[1], Shown, Exchanging)
  BY <1>3 DEF Chain
<1>5. ASSUME NEW k \in Shown, NEW m \in Shown, Bubble(k).id = Bubble(m).id
      PROVE  m \in Chain(k, Shown, Exchanging)
  <2>1. <<k, m>> \in Exchanging
    BY <1>5 DEF Exchanging
  <2> QED
    BY <1>4, <2>1
<1>6. ASSUME NEW p \in IdLinks
      PROVE  \E l \in Shown \X Shown :
               p = <<Bubble(l[1]).id, Bubble(l[2]).id>> /\ l[2] \in Chain(l[1], Shown, Exchanging)
  <2>1. PICK l \in ReplyLinks \cup BatchLinks : p = <<Bubble(l[1]).id, Bubble(l[2]).id>>
    BY DEF IdLinks
  <2>2. l \in Exchanging
    BY LinksExchange DEF TypeInv
  <2> QED
    BY <1>4, <2>1, <2>2 DEF Exchanging
<1>7. DOMAIN name = Shown /\ \A j \in Shown : name[j] = Bubble(j).id
  OBVIOUS
<1> HIDE DEF name
<1>8. \A l \in Exchanging : forest[name[l[1]]] = forest[name[l[2]]]
  BY <1>2, <1>3, <1>7
<1>9. \A p \in IdLinks : \E l \in Shown \X Shown :
        p = <<name[l[1]], name[l[2]]>> /\ l[2] \in Chain(l[1], Shown, Exchanging)
  <2> SUFFICES ASSUME NEW p \in IdLinks
               PROVE  \E l \in Shown \X Shown : /\ p = <<name[l[1]], name[l[2]]>>
                                                /\ l[2] \in Chain(l[1], Shown, Exchanging)
    OBVIOUS
  <2>1. PICK l \in Shown \X Shown : /\ p = <<Bubble(l[1]).id, Bubble(l[2]).id>>
                                    /\ l[2] \in Chain(l[1], Shown, Exchanging)
    BY <1>6
  <2>2. name[l[1]] = Bubble(l[1]).id /\ name[l[2]] = Bubble(l[2]).id
    BY <1>7
  <2> QED
    BY <2>1, <2>2
<1>10. Exchanging \subseteq Shown \X Shown
  BY DEF Exchanging
<1>11. Named(Shown, Exchanging, name, IdLinks, forest)
  BY <1>5, <1>7, <1>8, <1>9, <1>10 DEF Named
<1>12. \A j \in Shown : name[j] \in Nodes
  BY <1>0, <1>7
<1>13. {j \in Shown : forest[name[j]] = forest[name[i]]} = Chain(i, Shown, Exchanging)
  BY <1>0, <1>11, <1>12, SetsAreChains
<1> QED
  BY <1>7, <1>13 DEF SameSet

LEMMA NameThreadsNames ==
  ASSUME TypeInv, LinkInv, NameThreads
  PROVE  ThreadsAreExchanges'
<1>1. stage = "linking" /\ links = {} /\ ds' = ds
      /\ thread' = [i \in Shown |-> First(SameSet(i))]
  BY DEF NameThreads, SameSet
<1>2. /\ Shown' = Shown /\ Exchanging' = Exchanging /\ \A i : Bubble(i)' = Bubble(i)
      /\ \A i : Chain(i, Shown, Exchanging)' = Chain(i, Shown, Exchanging)
  BY <1>1, DataSame DEF Bubble, Chain
<1>3. ASSUME NEW i \in Shown
      PROVE  /\ SameSet(i) = Chain(i, Shown, Exchanging) /\ First(SameSet(i)) \in SameSet(i)
             /\ \A j \in SameSet(i) : Bubble(First(SameSet(i))).at <= Bubble(j).at
  <2>1. SameSet(i) \in SUBSET DOMAIN ds.bubbles /\ SameSet(i) # {}
    BY WakeMatches DEF SameSet, TypeInv
  <2>2. /\ First(SameSet(i)) \in SameSet(i)
        /\ \A j \in SameSet(i) \ {First(SameSet(i))} : Before(First(SameSet(i)), j)
    BY <2>1, FirstIsFirst DEF TypeInv
  <2>3. \A j \in SameSet(i) : Bubble(j).at \in Nat
    BY <2>1, DataParts DEF TypeInv, Merging, Bubbles, Bubble
  <2>4. \A j \in SameSet(i) : Bubble(First(SameSet(i))).at <= Bubble(j).at
    BY <2>2, <2>3 DEF Before
  <2> QED
    BY <1>1, <2>2, <2>4, ThreadSets
<1>4. ASSUME NEW i \in Shown
      PROVE  SameSet(i) = {j \in Shown : thread'[j] = thread'[i]}
  <2>1. ASSUME NEW j \in SameSet(i) PROVE j \in Shown /\ thread'[j] = thread'[i]
    <3>1. j \in Shown /\ SameSet(j) = SameSet(i)
      BY DEF SameSet
    <3> QED
      BY <1>1, <3>1
  <2>2. ASSUME NEW j \in Shown, thread'[j] = thread'[i] PROVE j \in SameSet(i)
    <3>1. First(SameSet(j)) = First(SameSet(i))
      BY <1>1, <2>2
    <3>2. First(SameSet(i)) \in SameSet(j) /\ First(SameSet(i)) \in SameSet(i)
      BY <1>3, <3>1
    <3> QED
      BY <3>2 DEF SameSet
  <2> QED
    BY <2>1, <2>2
<1>5. \A i \in Shown : thread'[i] = First(SameSet(i))
  BY <1>1
<1>6. ASSUME NEW i \in Shown
      PROVE  /\ Chain(i, Shown, Exchanging) = {j \in Shown : thread'[j] = thread'[i]}
             /\ thread'[i] \in Chain(i, Shown, Exchanging)
             /\ \A j \in Chain(i, Shown, Exchanging) : Bubble(thread'[i]).at <= Bubble(j).at
  BY <1>3, <1>4, <1>5
<1> QED
  BY <1>2, <1>6 DEF ThreadsAreExchanges

LEMMA ThreadsStep ==
  ASSUME TypeInv, LinkInv, ThreadsAreExchanges, [Next]_vars
  PROVE  ThreadsAreExchanges'
<1>1. CASE NameThreads
  BY <1>1, NameThreadsNames
<1>2. CASE stage' # "threads"
  BY <1>2 DEF ThreadsAreExchanges
<1>3. CASE UNCHANGED <<ds, stage, thread>>
  <2>1. /\ Shown' = Shown /\ \A i : Bubble(i)' = Bubble(i)
        /\ \A i : Chain(i, Shown, Exchanging)' = Chain(i, Shown, Exchanging)
    BY <1>3, DataSame DEF Bubble, Chain
  <2> QED
    BY <1>3, <2>1 DEF ThreadsAreExchanges
<1>4. NextMerge /\ UNCHANGED <<forest, links, thread, chats>> => stage' # "threads"
  BY NextMergeOK
<1>5. \/ NextMerge /\ UNCHANGED <<forest, links, thread, chats>>
      \/ NameThreads \/ stage' # "threads" \/ UNCHANGED <<ds, stage, thread>>
  BY DEF Next, vars, Join, LinkThreads, InferTargets, InferRefused, GroupChats, BuildChats
<1> QED
  BY <1>1, <1>2, <1>3, <1>4, <1>5

(* Whatever is shown and in whatever order it is linked: two messages are   *)
(* in one thread just if a chain of replies and of common first deliveries  *)
(* leads from one to the other, and its first message names the thread      *)
(* (linkThreads as the code has it, not as its comment says: see            *)
(* BatchesAreExchanges).                                                    *)
THEOREM ThreadsAreExchangesHolds == Spec => []ThreadsAreExchanges
<1>1. Init => TypeInv /\ LinkInv /\ ThreadsAreExchanges
  BY TypeInvInit DEF Init, InitMerge, LinkInv, ThreadsAreExchanges
<1>2. TypeInv /\ LinkInv /\ ThreadsAreExchanges /\ [Next]_vars
      => TypeInv' /\ LinkInv' /\ ThreadsAreExchanges'
  BY TypeInvStep, LinkStep, ThreadsStep
<1> QED
  BY <1>1, <1>2, PTL DEF Spec

-----------------------------------------------------------------------------
(* Episodes: the count of the silences before a message is the same for two *)
(* messages just if a chain of messages, none far from the next, leads from *)
(* one to the other.                                                        *)

(* When those who spoke at these times did so again after a silence.        *)
Resumed(times) ==
  {t \in times : \E s \in times : s < t /\ t - Max({u \in times : u < t}) > EpisodeGap}
(* For messages at these times: which two are near each other, and what     *)
(* resumptions there were up to one of them.                                *)
Near(at) == {l \in (DOMAIN at) \X (DOMAIN at) : Within(at[l[1]], at[l[2]], EpisodeGap)}
Resumptions(at, x) == {t \in Resumed(Range(at)) : t <= at[x]}

LEMMA NearIsOneEpisode ==
  ASSUME NEW places, IsFiniteSet(places), NEW at \in [places -> Nat],
         NEW x \in places, NEW y \in places, at[x] <= at[y], at[y] - at[x] <= EpisodeGap
  PROVE  Resumptions(at, x) = Resumptions(at, y)
<1>1. Range(at) \in SUBSET Nat /\ IsFiniteSet(Range(at)) /\ at[x] \in Range(at)
  BY ImageIsFinite DEF Range
<1>2. at[x] \in Nat /\ at[y] \in Nat /\ EpisodeGap \in Nat
  BY ChatsAssumption
<1>3. ASSUME NEW t \in Resumptions(at, y), t > at[x]
      PROVE  FALSE
  <2> DEFINE before == {u \in Range(at) : u < t}
  <2>1. at[x] \in before /\ before \in SUBSET Nat /\ t \in Nat /\ t <= at[y]
    BY <1>1, <1>2, <1>3 DEF Resumptions, Resumed
  <2>2. IsFiniteSet(before)
    BY <1>1, FS_Subset
  <2>3. Max(before) \in Nat /\ at[x] <= Max(before)
    BY <2>1, <2>2, MaxIsGreatest
  <2>4. t - Max(before) > EpisodeGap
    BY DEF Resumptions, Resumed
  <2> HIDE DEF before
  <2> QED
    BY <1>2, <2>1, <2>3, <2>4
<1>4. \A t \in Resumed(Range(at)) : t \in Nat
  BY <1>1 DEF Resumed
<1>5. \A t \in Resumed(Range(at)) : t <= at[y] => t <= at[x]
  BY <1>2, <1>3, <1>4 DEF Resumptions
<1>6. \A t \in Resumed(Range(at)) : t <= at[x] => t <= at[y]
  BY <1>2, <1>4
<1> QED
  BY <1>5, <1>6 DEF Resumptions

(* If nothing near leads out of S, the first message after x on the other   *)
(* side of S came after a silence.                                          *)
LEMMA EpisodeIsNear ==
  ASSUME NEW places, IsFiniteSet(places), NEW at \in [places -> Nat],
         NEW x \in places, NEW y \in places, at[x] <= at[y],
         Resumptions(at, x) = Resumptions(at, y),
         NEW S \in SUBSET places, \A l \in Near(at) : l[1] \in S <=> l[2] \in S,
         ~(x \in S <=> y \in S)
  PROVE  FALSE
<1> DEFINE times == Range(at)
           late == {t \in times : \E z \in places :
                      at[z] = t /\ at[x] < t /\ t <= at[y] /\ ~(z \in S <=> x \in S)}
<1>1. times \in SUBSET Nat /\ IsFiniteSet(times) /\ \A z \in places : at[z] \in times
  BY ImageIsFinite DEF Range
<1>2. at[x] \in Nat /\ at[y] \in Nat /\ EpisodeGap \in Nat
  BY ChatsAssumption
<1>3. \A w, z \in places : at[w] <= at[z] /\ at[z] - at[w] <= EpisodeGap
                           => (w \in S <=> z \in S)
  <2> SUFFICES ASSUME NEW w \in places, NEW z \in places, at[w] <= at[z],
                      at[z] - at[w] <= EpisodeGap
               PROVE  w \in S <=> z \in S
    OBVIOUS
  <2>1. at[w] \in Nat /\ at[z] \in Nat
    OBVIOUS
  <2>2. Within(at[w], at[z], EpisodeGap)
    BY <1>2, <2>1 DEF Within
  <2>3. <<w, z>> \in Near(at)
    BY <2>2 DEF Near
  <2> QED
    BY <2>3
<1>4. at[x] < at[y]
  BY <1>2, <1>3
<1>5. late \in SUBSET Nat /\ at[y] \in late
  BY <1>1, <1>2, <1>4
<1>6. Min(late) \in late /\ \A t \in late : Min(late) <= t
  BY <1>5, MinIsLeast
<1>7. PICK z \in places : /\ at[z] = Min(late) /\ at[x] < at[z] /\ at[z] <= at[y]
                          /\ ~(z \in S <=> x \in S)
  BY <1>6
<1> DEFINE before == {u \in times : u < at[z]}
<1>8. before \in SUBSET Nat /\ IsFiniteSet(before) /\ at[x] \in before
  BY <1>1, <1>7, FS_Subset
<1>9. Max(before) \in before /\ at[x] <= Max(before)
  BY <1>8, MaxIsGreatest
<1>10. PICK w \in places : at[w] = Max(before)
  BY <1>9 DEF Range
<1>11. at[w] \in Nat /\ at[z] \in Nat /\ at[w] < at[z] /\ at[x] <= at[w] /\ at[w] \in times
  BY <1>1, <1>9, <1>10
<1>12. w \in S <=> x \in S
  <2>1. CASE at[w] = at[x]
    <3>1. at[x] <= at[w] /\ at[w] - at[x] <= EpisodeGap
      BY <1>2, <2>1
    <3> QED
      BY <1>3, <3>1
  <2>2. CASE at[x] < at[w]
    <3>1. at[w] \in late => Min(late) <= at[w]
      BY <1>6
    <3>2. at[w] <= at[y]
      BY <1>2, <1>7, <1>11
    <3>3. at[w] \notin late
      BY <1>7, <1>11, <3>1
    <3> QED
      BY <1>11, <2>2, <3>2, <3>3
  <2> QED
    BY <1>2, <1>11, <2>1, <2>2
<1>13. at[z] - at[w] > EpisodeGap
  BY <1>2, <1>3, <1>7, <1>11, <1>12
<1>14. at[z] \in Resumptions(at, y)
  <2>1. at[z] \in times /\ at[x] \in times
    BY <1>1
  <2>2. at[z] - Max({u \in Range(at) : u < at[z]}) > EpisodeGap
    BY <1>10, <1>13
  <2> QED
    BY <1>7, <2>1, <2>2 DEF Resumptions, Resumed
<1> QED
  BY <1>2, <1>7, <1>11, <1>14 DEF Resumptions

LEMMA ResumptionsFinite ==
  ASSUME NEW places, IsFiniteSet(places), NEW at \in [places -> Nat], NEW x
  PROVE  IsFiniteSet(Resumptions(at, x))
<1>1. Resumptions(at, x) \subseteq Range(at)
  BY DEF Resumptions, Resumed
<1>2. IsFiniteSet(Range(at))
  BY ImageIsFinite DEF Range
<1> QED
  BY <1>1, <1>2, FS_Subset

LEMMA EpisodesAreChains ==
  ASSUME NEW all, NEW places, IsFiniteSet(places), \A y \in places : all[y].at \in Nat,
         NEW x \in places
  PROVE  {y \in places : Episode(all, places, y) = Episode(all, places, x)}
         = Episodes(all, places, x)
<1> DEFINE at == [y \in places |-> all[y].at]
           same == {y \in places : Resumptions(at, y) = Resumptions(at, x)}
<1>1. at \in [places -> Nat] /\ DOMAIN at = places /\ Range(at) = {all[y].at : y \in places}
  BY DEF Range
<1>2. \A y \in places : /\ IsFiniteSet(Resumptions(at, y))
                        /\ Episode(all, places, y) = 1 + Cardinality(Resumptions(at, y))
  <2> SUFFICES ASSUME NEW y \in places
               PROVE  /\ IsFiniteSet(Resumptions(at, y))
                      /\ Episode(all, places, y) = 1 + Cardinality(Resumptions(at, y))
    OBVIOUS
  <2>3. IsFiniteSet(Resumptions(at, y))
    BY <1>1, ResumptionsFinite
  <2> DEFINE times == {all[z].at : z \in places}
             upto == {t \in times : /\ t <= all[y].at
                                    /\ \E s \in times : s < t /\ t - Max({u \in times : u < t}) > EpisodeGap}
  <2>4. upto = Resumptions(at, y)
    BY <1>1 DEF Resumptions, Resumed
  <2>5. Episode(all, places, y) = 1 + Cardinality(upto)
    BY DEF Episode
  <2> QED
    BY <2>3, <2>4, <2>5
<1>3. Episodes(all, places, x) = Chain(x, places, Near(at))
  BY <1>1 DEF Episodes, Near
<1> HIDE DEF at
<1>4. \A y, z \in places : Episode(all, places, y) = Episode(all, places, z)
                           <=> Resumptions(at, y) = Resumptions(at, z)
  <2> SUFFICES ASSUME NEW y \in places, NEW z \in places
               PROVE  Episode(all, places, y) = Episode(all, places, z)
                      => Resumptions(at, y) = Resumptions(at, z)
    BY <1>2
  <2>1. \A w \in places : Cardinality(Resumptions(at, w)) \in Nat
    BY <1>2, FS_CardinalityType
  <2>2. at[y] \in Nat /\ at[z] \in Nat /\ \A t \in Resumed(Range(at)) : t \in Nat
    BY <1>1 DEF Resumed, Range
  <2>3. Resumptions(at, y) \subseteq Resumptions(at, z) \/ Resumptions(at, z) \subseteq Resumptions(at, y)
    BY <2>2 DEF Resumptions
  <2>4. Cardinality(Resumptions(at, y)) = Cardinality(Resumptions(at, z))
        => Resumptions(at, y) = Resumptions(at, z)
    BY <1>2, <2>3, FS_Subset
  <2> QED
    BY <1>2, <2>1, <2>4
<1>5. ASSUME NEW y \in Chain(x, places, Near(at))
      PROVE  y \in same
  <2>1. same \in SUBSET places /\ x \in same
    OBVIOUS
  <2>2. ASSUME NEW l \in Near(at) PROVE l[1] \in same <=> l[2] \in same
    <3>1. /\ l[1] \in places /\ l[2] \in places /\ at[l[1]] \in Nat /\ at[l[2]] \in Nat
          /\ Within(at[l[1]], at[l[2]], EpisodeGap)
      BY <1>1 DEF Near
    <3>2. Resumptions(at, l[1]) = Resumptions(at, l[2])
      <4>1. CASE at[l[1]] <= at[l[2]]
        BY <1>1, <3>1, <4>1, NearIsOneEpisode DEF Within
      <4>2. CASE at[l[2]] <= at[l[1]]
        BY <1>1, <3>1, <4>2, NearIsOneEpisode DEF Within
      <4> QED
        BY <3>1, <4>1, <4>2
    <3> QED
      BY <3>1, <3>2
  <2> HIDE DEF same
  <2> QED
    BY <2>1, <2>2 DEF Chain
<1>6. ASSUME NEW y \in same, NEW S \in SUBSET places, x \in S,
             \A l \in Near(at) : l[1] \in S <=> l[2] \in S
      PROVE  y \in S
  <2>1. y \in places /\ Resumptions(at, y) = Resumptions(at, x) /\ at[x] \in Nat /\ at[y] \in Nat
    BY <1>1
  <2>2. CASE at[x] <= at[y]
    BY <1>1, <1>6, <2>1, <2>2, EpisodeIsNear
  <2>3. CASE at[y] <= at[x]
    BY <1>1, <1>6, <2>1, <2>3, EpisodeIsNear
  <2> QED
    BY <2>1, <2>2, <2>3
<1>7. \A y \in same : y \in Chain(x, places, Near(at))
  BY <1>6 DEF Chain
<1> QED
  BY <1>3, <1>4, <1>5, <1>7

-----------------------------------------------------------------------------
(* Buckets: each message is in one, which its lead names.                   *)

LEMMA CombinedParts ==
  ASSUME TypeInv
  PROVE  /\ DOMAIN Combined \in SUBSET Nat /\ IsFiniteSet(DOMAIN Combined)
         /\ Shown \subseteq DOMAIN Combined /\ Shown \subseteq DOMAIN ds.bubbles
         /\ \A x \in DOMAIN Combined \ Shown : \A y \in Shown : y < x
         /\ \A x \in Shown : Combined[x] = Bubble(x)
         /\ \A x \in DOMAIN Combined : Combined[x].at \in Nat
<1> DEFINE after == Len(ds.bubbles)
           refused == {y \in DOMAIN ds.rejected : ds.rejected[y].to # ""}
<1>1. /\ ds.bubbles \in Seq(Bubbles) /\ ds.rejected \in Seq(Bubbles)
      /\ Shown \subseteq DOMAIN ds.bubbles
  BY DataParts DEF TypeInv, Merging, Shown
<1>2. /\ DOMAIN ds.bubbles = 1..after /\ after \in Nat
      /\ \A i \in DOMAIN ds.bubbles : ds.bubbles[i] \in Bubbles
  BY <1>1, Lists
<1>3. /\ DOMAIN ds.rejected = 1..Len(ds.rejected) /\ Len(ds.rejected) \in Nat
      /\ \A i \in DOMAIN ds.rejected : ds.rejected[i] \in Bubbles
  BY <1>1, Lists
<1>4. \A b \in Bubbles : b.at \in Nat
  BY DEF Bubbles
<1>5. /\ DOMAIN Combined = Shown \cup {after + y : y \in refused}
      /\ \A x \in DOMAIN Combined :
           Combined[x] = IF x \in Shown THEN Bubble(x) ELSE ds.rejected[x - after]
  BY DEF Combined
<1>11. \A y \in refused : y \in Nat \ {0} /\ y <= Len(ds.rejected) /\ y \in DOMAIN ds.rejected
  <2>1. refused \subseteq DOMAIN ds.rejected
    OBVIOUS
  <2>2. \A y \in DOMAIN ds.rejected : y \in Nat \ {0} /\ y <= Len(ds.rejected)
    BY <1>3
  <2> HIDE DEF refused
  <2> QED
    BY <2>1, <2>2
<1> HIDE DEF after, refused
<1>6. \A x \in DOMAIN Combined \ Shown :
        x - after \in DOMAIN ds.rejected /\ x \in Nat /\ x > after /\ x <= after + Len(ds.rejected)
  <2> SUFFICES ASSUME NEW x \in DOMAIN Combined \ Shown
               PROVE  /\ x - after \in DOMAIN ds.rejected /\ x \in Nat
                      /\ x > after /\ x <= after + Len(ds.rejected)
    OBVIOUS
  <2>1. PICK y \in refused : x = after + y
    BY <1>5
  <2>2. y \in Nat \ {0} /\ y <= Len(ds.rejected) /\ y \in DOMAIN ds.rejected
    BY <1>11
  <2>3. x - after = y
    BY <1>2, <2>1, <2>2
  <2>4. x \in Nat /\ x > after /\ x <= after + Len(ds.rejected)
    BY <1>2, <1>3, <2>1, <2>2
  <2> QED
    BY <2>2, <2>3, <2>4
<1>7. DOMAIN Combined \in SUBSET Nat /\ \A x \in DOMAIN Combined : x <= after + Len(ds.rejected)
  <2>1. \A x \in Shown : x \in Nat /\ x <= after + Len(ds.rejected)
    BY <1>1, <1>2, <1>3
  <2>2. \A x \in DOMAIN Combined : x \in Nat /\ x <= after + Len(ds.rejected)
    BY <1>6, <2>1
  <2> QED
    BY <2>2
<1>8. IsFiniteSet(DOMAIN Combined)
  <2>1. after + Len(ds.rejected) \in Nat
    BY <1>2, <1>3
  <2> QED
    BY <1>7, <2>1, FS_BoundedSetOfNaturals
<1>9. ASSUME NEW x \in DOMAIN Combined
      PROVE  Combined[x].at \in Nat
  <2>1. CASE x \in Shown
    BY <1>1, <1>2, <1>4, <1>5, <2>1 DEF Bubble
  <2>2. CASE x \notin Shown
    BY <1>3, <1>4, <1>5, <1>6, <2>2
  <2> QED
    BY <2>1, <2>2
<1>10. \A x \in DOMAIN Combined \ Shown : \A y \in Shown : y < x
  BY <1>1, <1>2, <1>6
<1> QED
  BY <1>1, <1>5, <1>7, <1>8, <1>9, <1>10

LEMMA LeadIsOne ==
  ASSUME TypeInv, NEW places \in SUBSET DOMAIN Combined, places # {}
  PROVE  Lead(places) \in places
<1>1. /\ DOMAIN Combined \in SUBSET Nat
      /\ Shown \subseteq DOMAIN ds.bubbles
      /\ \A x \in DOMAIN Combined \ Shown : \A y \in Shown : y < x
  BY CombinedParts
<1>2. \E x \in places : \A y \in places \ {x} : Ahead(x, y)
  <2>1. CASE places \cap Shown # {}
    <3> DEFINE x == First(places \cap Shown)
    <3>1. /\ x \in places \cap Shown
          /\ \A y \in (places \cap Shown) \ {x} : Before(x, y)
      BY <1>1, <2>1, FirstIsFirst DEF TypeInv
    <3> HIDE DEF x
    <3>2. \A y \in places \ Shown : x < y
      BY <1>1, <3>1
    <3> QED
      BY <3>1, <3>2 DEF Ahead
  <2>2. CASE places \cap Shown = {}
    <3>1. Min(places) \in places /\ \A y \in places : Min(places) <= y
      BY <1>1, MinIsLeast
    <3>2. \A y \in places \ {Min(places)} : Min(places) < y
      BY <1>1, <3>1
    <3> QED
      BY <2>2, <3>1, <3>2 DEF Ahead
  <2> QED
    BY <2>1, <2>2
<1> QED
  BY <1>2, Zenon DEF Lead

SameKey(all, mode, x) == {y \in DOMAIN all : KeyIn(mode, all[y]) = KeyIn(mode, all[x])}
BucketOf(all, places) ==
  [places |-> places, lead |-> Lead(places),
   first |-> Min({all[x].at : x \in places}), last |-> Max({all[x].at : x \in places}),
   actors |-> UNION {Actors(all[x]) : x \in places}]

InBucket(mode, x) == SameKey(Combined, mode, x)
BucketAt(mode, x) == BucketOf(Combined, InBucket(mode, x))

LEMMA TimesSpan ==
  ASSUME TypeInv, NEW places \in SUBSET DOMAIN Combined, places # {}
  PROVE  /\ IsFiniteSet(places)
         /\ Min({Combined[y].at : y \in places}) \in Nat
         /\ Max({Combined[y].at : y \in places}) \in Nat
<1> DEFINE at == [y \in places |-> Combined[y].at]
           times == {at[y] : y \in places}
<1>1. IsFiniteSet(places) /\ \A y \in places : Combined[y].at \in Nat
  BY CombinedParts, FS_Subset
<1>2. times \in SUBSET Nat /\ times # {} /\ times = {Combined[y].at : y \in places}
  BY <1>1
<1>3. DOMAIN at = places
  OBVIOUS
<1> HIDE DEF at
<1>4. IsFiniteSet(times)
  BY <1>1, <1>3, ImageIsFinite
<1> HIDE DEF times
<1> QED
  BY <1>1, <1>2, <1>4, MinIsLeast, MaxIsGreatest

LEMMA BucketsApart ==
  ASSUME TypeInv, NEW mode
  PROVE  LET buckets == Buckets(Combined, mode)
         IN /\ IsFiniteSet(buckets)
            /\ \A b \in buckets : /\ b.places \subseteq DOMAIN Combined /\ b.lead \in b.places
                                  /\ b.first \in Nat /\ b.last \in Nat
            /\ \A a, b \in buckets : \A x \in a.places : x \in b.places => a = b
            /\ \A x \in DOMAIN Combined : \E b \in buckets : x \in b.places
<1> DEFINE buckets == Buckets(Combined, mode)
<1>1. buckets = {BucketAt(mode, x) : x \in DOMAIN Combined}
  BY DEF Buckets, BucketAt, BucketOf, InBucket, SameKey
<1>2. IsFiniteSet(buckets)
  <2> DEFINE f == [x \in DOMAIN Combined |-> BucketAt(mode, x)]
  <2>1. DOMAIN f = DOMAIN Combined /\ IsFiniteSet(DOMAIN Combined)
    BY CombinedParts
  <2>2. {f[x] : x \in DOMAIN Combined} = buckets
    BY <1>1
  <2> HIDE DEF f, buckets
  <2> QED
    BY <2>1, <2>2, ImageIsFinite
<1> HIDE DEF buckets
<1>3. ASSUME NEW x \in DOMAIN Combined
      PROVE  /\ BucketAt(mode, x).places = InBucket(mode, x)
             /\ InBucket(mode, x) \subseteq DOMAIN Combined /\ x \in InBucket(mode, x)
             /\ BucketAt(mode, x).lead \in InBucket(mode, x)
             /\ BucketAt(mode, x).first \in Nat /\ BucketAt(mode, x).last \in Nat
  <2>1. InBucket(mode, x) \in SUBSET DOMAIN Combined /\ x \in InBucket(mode, x)
    BY DEF InBucket, SameKey
  <2> QED
    BY <2>1, LeadIsOne, TimesSpan DEF BucketAt, BucketOf
<1>4. ASSUME NEW x \in DOMAIN Combined, NEW y \in InBucket(mode, x)
      PROVE  BucketAt(mode, y) = BucketAt(mode, x)
  <2>1. InBucket(mode, y) = InBucket(mode, x)
    BY DEF InBucket, SameKey
  <2> QED
    BY <2>1 DEF BucketAt
<1>5. ASSUME NEW a \in buckets, NEW b \in buckets, NEW x \in a.places, x \in b.places
      PROVE  a = b
  <2>1. PICK y \in DOMAIN Combined : a = BucketAt(mode, y)
    BY <1>1
  <2>2. PICK z \in DOMAIN Combined : b = BucketAt(mode, z)
    BY <1>1
  <2>3. x \in InBucket(mode, y) /\ x \in InBucket(mode, z)
    BY <1>3, <1>5, <2>1, <2>2
  <2> QED
    BY <1>4, <2>1, <2>2, <2>3
<1>6. \A b \in buckets : /\ b.places \subseteq DOMAIN Combined /\ b.lead \in b.places
                         /\ b.first \in Nat /\ b.last \in Nat
  BY <1>1, <1>3
<1>7. \A x \in DOMAIN Combined : \E b \in buckets : x \in b.places
  BY <1>1, <1>3
<1> QED
  BY <1>2, <1>5, <1>6, <1>7 DEF buckets

(* What is to be joined, by the leads of the buckets.                       *)
Leads(mode) == {b.lead : b \in Buckets(Combined, mode)}
LeadLinks(mode) ==
  {<<p[1].lead, p[2].lead>> : p \in {q \in Buckets(Combined, mode) \X Buckets(Combined, mode) :
     q[1].lead < q[2].lead /\ Overlap(q[1], q[2]) /\ SameParty(q[1], q[2])}}

(* While chats are joined there are none yet, and what is joined is held    *)
(* together by the meetings of buckets.                                     *)
JoinInv ==
  stage = "joining" =>
    /\ chats = [mode |-> chats.mode, split |-> chats.split, list |-> {}]
    /\ Linking(Leads(chats.mode), LeadLinks(chats.mode), forest, links)

LEMMA MeetsOrLinked ==
  ASSUME NEW a, NEW b, a.first \in Nat, a.last \in Nat, b.first \in Nat, b.last \in Nat
  PROVE  /\ Overlap(a, b) <=> a.first - b.last <= EpisodeGap /\ b.first - a.last <= EpisodeGap
         /\ Overlap(a, b) <=> Overlap(b, a)
         /\ SameParty(a, b) <=> SameParty(b, a)
<1>1. Overlap(a, b) <=> a.first - b.last <= EpisodeGap /\ b.first - a.last <= EpisodeGap
  BY ChatsAssumption DEF Overlap
<1>2. Overlap(a, b) <=> Overlap(b, a)
  BY DEF Overlap
<1>3. a.actors \cap b.actors = b.actors \cap a.actors /\ a.actors \cup b.actors = b.actors \cup a.actors
  OBVIOUS
<1> QED
  BY <1>1, <1>2, <1>3 DEF SameParty

LEMMA PartiesAreChains ==
  ASSUME TypeInv, JoinInv, stage = "joining", links = {},
         NEW home \in Buckets(Combined, chats.mode)
  PROVE  {b \in Buckets(Combined, chats.mode) : forest[b.lead] = forest[home.lead]}
         = Chain(home, Buckets(Combined, chats.mode), Meeting(Buckets(Combined, chats.mode)))
<1> DEFINE buckets == Buckets(Combined, chats.mode)
           name == [b \in buckets |-> b.lead]
           nodes == Leads(chats.mode)
           linked == LeadLinks(chats.mode)
           tied == Meeting(buckets)
<1>1. Linking(nodes, linked, forest, {})
  BY DEF JoinInv
<1>2. /\ \A b \in buckets : /\ b.lead \in b.places /\ b.lead \in Nat
                            /\ b.first \in Nat /\ b.last \in Nat
      /\ \A a, b \in buckets : \A x \in a.places : x \in b.places => a = b
  BY BucketsApart, CombinedParts
<1>3. /\ nodes = {b.lead : b \in buckets}
      /\ linked = {<<p[1].lead, p[2].lead>> : p \in {q \in buckets \X buckets :
           q[1].lead < q[2].lead /\ Overlap(q[1], q[2]) /\ SameParty(q[1], q[2])}}
      /\ tied = {l \in buckets \X buckets : /\ SameParty(l[1], l[2])
                              /\ l[1].first - l[2].last <= EpisodeGap
                              /\ l[2].first - l[1].last <= EpisodeGap}
  BY DEF Leads, LeadLinks, Meeting
<1> HIDE DEF buckets, nodes, linked, tied
<1>4. name \in [buckets -> nodes] /\ \A b \in buckets : name[b] = b.lead
  BY <1>3
<1>5. tied \in SUBSET (buckets \X buckets)
  BY <1>3
<1>6. \A k, m \in buckets : name[k] = name[m] => m \in Chain(k, buckets, tied)
  BY <1>2, <1>4 DEF Chain
<1>12. \A a, b \in buckets : a.lead < b.lead /\ Overlap(a, b) /\ SameParty(a, b)
                            => forest[a.lead] = forest[b.lead]
  <2> SUFFICES ASSUME NEW a \in buckets, NEW b \in buckets,
                      a.lead < b.lead, Overlap(a, b), SameParty(a, b)
               PROVE  forest[a.lead] = forest[b.lead]
    OBVIOUS
  <2> DEFINE q == <<a, b>>
  <2>1. q \in buckets \X buckets /\ q[1] = a /\ q[2] = b
    OBVIOUS
  <2> HIDE DEF q
  <2>2. <<q[1].lead, q[2].lead>> \in linked
    BY <1>3, <2>1
  <2> QED
    BY <1>1, <2>1, <2>2 DEF Linking
<1>7. ASSUME NEW l \in tied
      PROVE  forest[name[l[1]]] = forest[name[l[2]]]
  <2>1. l[1] \in buckets /\ l[2] \in buckets
    BY <1>3
  <2>2. Overlap(l[1], l[2]) /\ SameParty(l[1], l[2]) /\ Overlap(l[2], l[1]) /\ SameParty(l[2], l[1])
    BY <1>2, <1>3, <2>1, MeetsOrLinked
  <2>3. CASE l[1].lead = l[2].lead
    BY <1>4, <2>1, <2>3
  <2>4. CASE l[1].lead < l[2].lead
    BY <1>4, <1>12, <2>1, <2>2, <2>4
  <2>5. CASE l[2].lead < l[1].lead
    BY <1>4, <1>12, <2>1, <2>2, <2>5
  <2> QED
    BY <1>2, <2>1, <2>3, <2>4, <2>5
<1>8. ASSUME NEW p \in linked
      PROVE  \E l \in buckets \X buckets :
               p = <<name[l[1]], name[l[2]]>> /\ l[2] \in Chain(l[1], buckets, tied)
  <2>1. PICK l \in buckets \X buckets : /\ p = <<l[1].lead, l[2].lead>>
                                        /\ Overlap(l[1], l[2]) /\ SameParty(l[1], l[2])
    BY <1>3
  <2>2. l[1] \in buckets /\ l[2] \in buckets
    OBVIOUS
  <2>3. l \in tied
    BY <1>2, <1>3, <2>1, <2>2, MeetsOrLinked
  <2>4. l[2] \in Chain(l[1], buckets, tied)
    BY <2>2, <2>3 DEF Chain
  <2> QED
    BY <1>4, <2>1, <2>2, <2>4
<1>9. home \in buckets
  BY DEF buckets
<1> HIDE DEF name
<1>13. Named(buckets, tied, name, linked, forest)
  BY <1>4, <1>5, <1>6, <1>7, <1>8 DEF Named
<1>10. {b \in buckets : forest[name[b]] = forest[name[home]]} = Chain(home, buckets, tied)
  BY <1>1, <1>4, <1>9, <1>13, SetsAreChains
<1>11. {b \in buckets : forest[b.lead] = forest[home.lead]} = Chain(home, buckets, tied)
  BY <1>4, <1>9, <1>10
<1> QED
  BY <1>11 DEF buckets, tied

-----------------------------------------------------------------------------
(* Chats: as they are made, of a party or of each of its episodes, and as   *)
(* they are told apart.                                                     *)
RawChat(c) ==
  /\ c = [id |-> c.id, nth |-> 0, places |-> c.places, last |-> c.last]
  /\ c.places \in SUBSET Nat /\ c.places # {} /\ c.last \in Nat
OnePlace(list) == \A c, d \in list : \A x \in c.places : x \in d.places => c = d

SoonerChat(c, d) == c.last > d.last \/ (c.last = d.last /\ Min(c.places) < Min(d.places))
AheadOf(list, c) == {d \in list : d.id = c.id /\ SoonerChat(d, c)}
Told(list, c) == [c EXCEPT !.nth = Cardinality(AheadOf(list, c))]

LEMMA ToldApart ==
  ASSUME NEW list, IsFiniteSet(list), \A c \in list : RawChat(c), OnePlace(list),
         NEW c \in list, NEW d \in list, c.id = d.id,
         Cardinality(AheadOf(list, c)) = Cardinality(AheadOf(list, d))
  PROVE  c = d
<1>1. ASSUME NEW a \in list, NEW b \in list, a.id = b.id, SoonerChat(a, b),
             Cardinality(AheadOf(list, a)) = Cardinality(AheadOf(list, b))
      PROVE  FALSE
  <2>1. \A e \in list : e.last \in Nat /\ Min(e.places) \in Nat
    BY MinIsLeast DEF RawChat
  <2>2. AheadOf(list, a) \subseteq AheadOf(list, b)
    BY <1>1, <2>1 DEF AheadOf, SoonerChat
  <2>3. a \in AheadOf(list, b) /\ a \notin AheadOf(list, a)
    BY <1>1, <2>1 DEF AheadOf, SoonerChat
  <2>4. IsFiniteSet(AheadOf(list, b))
    BY FS_Subset DEF AheadOf
  <2> QED
    BY <1>1, <2>2, <2>3, <2>4, FS_Subset
<1>2. SUFFICES ASSUME c # d PROVE FALSE
  OBVIOUS
<1>3. Min(c.places) \in c.places /\ Min(d.places) \in d.places
  BY MinIsLeast DEF RawChat
<1>4. Min(c.places) # Min(d.places)
  BY <1>2, <1>3 DEF OnePlace
<1>5. c.last \in Nat /\ d.last \in Nat /\ Min(c.places) \in Nat /\ Min(d.places) \in Nat
  BY <1>3 DEF RawChat
<1>6. SoonerChat(c, d) \/ SoonerChat(d, c)
  BY <1>4, <1>5 DEF SoonerChat
<1> QED
  BY <1>1, <1>6

LEMMA ToldParts ==
  ASSUME NEW list, NEW c, RawChat(c)
  PROVE  /\ Told(list, c).id = c.id /\ Told(list, c).places = c.places
         /\ Told(list, c).nth = Cardinality(AheadOf(list, c))
BY DEF RawChat, Told

LEMMA UniqueIsTold ==
  ASSUME NEW list
  PROVE  UniqueIDs(list) = {Told(list, c) : c \in list}
BY DEF UniqueIDs, Told, AheadOf, SoonerChat

(* The chats of a party: one, or one of each of its episodes.               *)
PlacesOf(group) == UNION {b.places : b \in group}
OneChat(all, group, places, episode) ==
  [id |-> <<UNION {b.actors : b \in group}, all[Opening(all, group, places)].id, episode>>,
   nth |-> 0, places |-> places, last |-> Max({all[x].at : x \in places})]

LEMMA ChatsOfParty ==
  ASSUME TypeInv, NEW group, NEW split,
         PlacesOf(group) \in SUBSET DOMAIN Combined, PlacesOf(group) # {}
  PROVE  LET list == ChatsOf(Combined, group, split)
             party == PlacesOf(group)
         IN /\ IsFiniteSet(list)
            /\ \A c \in list : RawChat(c) /\ c.places \subseteq party
            /\ \A x \in party : \E c \in list :
                 /\ {d \in list : x \in d.places} = {c}
                 /\ c.places = IF split THEN Episodes(Combined, party, x) ELSE party
<1> DEFINE list == ChatsOf(Combined, group, split)
           party == PlacesOf(group)
           Of(e) == {x \in party : Episode(Combined, party, x) = e}
           numbers == {Episode(Combined, party, x) : x \in party}
<1>1. /\ ~split => list = {OneChat(Combined, group, party, -1)}
      /\ split => list = {OneChat(Combined, group, Of(e), e) : e \in numbers}
  BY DEF ChatsOf, OneChat, PlacesOf
<1>2. /\ party \in SUBSET DOMAIN Combined /\ party # {} /\ party \in SUBSET Nat
      /\ IsFiniteSet(party) /\ \A x \in party : Combined[x].at \in Nat
  BY CombinedParts, TimesSpan
<1>3. ASSUME NEW places \in SUBSET party, places # {}, NEW e
      PROVE  /\ RawChat(OneChat(Combined, group, places, e))
             /\ OneChat(Combined, group, places, e).places = places
  <2>1. places \in SUBSET DOMAIN Combined /\ places \in SUBSET Nat
    BY <1>2
  <2>2. Max({Combined[x].at : x \in places}) \in Nat
    BY <1>3, <2>1, TimesSpan
  <2> QED
    BY <1>3, <2>1, <2>2 DEF RawChat, OneChat
<1> HIDE DEF list, party
<1>4. CASE ~split
  <2>1. list = {OneChat(Combined, group, party, -1)}
    BY <1>1, <1>4
  <2>2. /\ RawChat(OneChat(Combined, group, party, -1))
        /\ OneChat(Combined, group, party, -1).places = party
    BY <1>2, <1>3
  <2>3. IsFiniteSet(list)
    BY <2>1, FS_Singleton
  <2> QED
    BY <1>4, <2>1, <2>2, <2>3 DEF list, party
<1>5. CASE split
  <2> HIDE DEF numbers
  <2>1. list = {OneChat(Combined, group, Of(e), e) : e \in numbers}
    BY <1>1, <1>5
  <2>2. IsFiniteSet(numbers)
    <3> DEFINE f == [x \in party |-> Episode(Combined, party, x)]
    <3>1. DOMAIN f = party /\ numbers = {f[x] : x \in party}
      BY DEF numbers
    <3> HIDE DEF f
    <3> QED
      BY <1>2, <3>1, ImageIsFinite
  <2>3. IsFiniteSet(list)
    <3> DEFINE f == [e \in numbers |-> OneChat(Combined, group, Of(e), e)]
    <3>1. DOMAIN f = numbers /\ list = {f[e] : e \in numbers}
      BY <2>1
    <3> HIDE DEF f
    <3> QED
      BY <2>2, <3>1, ImageIsFinite
  <2>4. ASSUME NEW e \in numbers
        PROVE  /\ RawChat(OneChat(Combined, group, Of(e), e))
               /\ OneChat(Combined, group, Of(e), e).places = Of(e)
    <3>1. Of(e) \in SUBSET party /\ Of(e) # {}
      BY DEF numbers
    <3> HIDE DEF Of
    <3> QED
      BY <1>3, <3>1
  <2>5. ASSUME NEW x \in party
        PROVE  \E c \in list : /\ {d \in list : x \in d.places} = {c}
                               /\ c.places = Episodes(Combined, party, x)
    <3> DEFINE e == Episode(Combined, party, x)
               c == OneChat(Combined, group, Of(e), e)
    <3>1. e \in numbers /\ x \in Of(e)
      BY DEF numbers
    <3>2. Of(e) = Episodes(Combined, party, x)
      BY <1>2, EpisodesAreChains
    <3>3. \A n \in numbers : x \in Of(n) => n = e
      OBVIOUS
    <3> HIDE DEF e, Of
    <3>4. c \in list /\ c.places = Of(e)
      BY <2>1, <2>4, <3>1
    <3> HIDE DEF c
    <3>5. \A d \in list : x \in d.places => d = c
      <4> SUFFICES ASSUME NEW d \in list, x \in d.places PROVE d = c
        OBVIOUS
      <4>1. PICK n \in numbers : d = OneChat(Combined, group, Of(n), n)
        BY <2>1
      <4>2. x \in Of(n)
        BY <2>4, <4>1
      <4> QED
        BY <3>3, <4>1, <4>2 DEF c
    <3>6. {d \in list : x \in d.places} = {c}
      BY <3>1, <3>4, <3>5
    <3> QED
      BY <3>2, <3>4, <3>6
  <2>6. \A c \in list : RawChat(c) /\ c.places \subseteq party
    <3> SUFFICES ASSUME NEW c \in list PROVE RawChat(c) /\ c.places \subseteq party
      OBVIOUS
    <3>1. PICK n \in numbers : c = OneChat(Combined, group, Of(n), n)
      BY <2>1
    <3> QED
      BY <2>4, <3>1
  <2> HIDE DEF Of
  <2> QED
    BY <1>5, <2>3, <2>5, <2>6 DEF list, party
<1> QED
  BY <1>4, <1>5

-----------------------------------------------------------------------------
(* Together: what ChatsAreComponents says of a list of chats.               *)
Components(list, mode, split) ==
  LET all == Combined
      buckets == Buckets(all, mode)
  IN /\ \A x \in DOMAIN all :
          \E c \in list :
            LET party == Party(all, buckets, x)
            IN /\ {d \in list : x \in d.places} = {c}
               /\ c.places = IF split THEN Episodes(all, party, x) ELSE party
     /\ \A c, d \in list : c.id = d.id /\ c.nth = d.nth => c = d

Group(buckets, b) == {a \in buckets : forest[a.lead] = forest[b.lead]}

LEMMA PartyIsGroup ==
  ASSUME TypeInv, JoinInv, stage = "joining", links = {}, NEW x \in DOMAIN Combined
  PROVE  LET buckets == Buckets(Combined, chats.mode)
             party == Party(Combined, buckets, x)
         IN /\ \E g \in Parties(buckets) : x \in PlacesOf(g)
            /\ \A g \in Parties(buckets) : x \in PlacesOf(g) =>
                 PlacesOf(g) = party /\ \A h \in Parties(buckets) : x \in PlacesOf(h) => h = g
<1> DEFINE buckets == Buckets(Combined, chats.mode)
           home == CHOOSE b \in buckets : x \in b.places
<1>1. /\ \A a, b \in buckets : \A y \in a.places : y \in b.places => a = b
      /\ home \in buckets /\ x \in home.places
  BY BucketsApart
<1>2. Parties(buckets) = {Group(buckets, b) : b \in buckets}
  BY DEF Parties, Group
<1>3. Group(buckets, home) = Chain(home, buckets, Meeting(buckets))
  BY <1>1, PartiesAreChains DEF Group
<1>4. Party(Combined, buckets, x) = PlacesOf(Group(buckets, home))
  BY <1>3 DEF Party, PlacesOf
<1> HIDE DEF buckets, home
<1>5. Group(buckets, home) \in Parties(buckets) /\ x \in PlacesOf(Group(buckets, home))
  BY <1>1, <1>2 DEF Group, PlacesOf
<1>6. ASSUME NEW g \in Parties(buckets), x \in PlacesOf(g)
      PROVE  g = Group(buckets, home)
  <2>1. PICK a \in buckets : g = Group(buckets, a)
    BY <1>2
  <2>2. PICK b \in g : x \in b.places
    BY <1>6 DEF PlacesOf
  <2>3. b \in buckets /\ forest[b.lead] = forest[a.lead]
    BY <2>1 DEF Group
  <2>4. b = home
    BY <1>1, <2>2, <2>3
  <2> QED
    BY <2>1, <2>3, <2>4 DEF Group
<1> QED
  BY <1>4, <1>5, <1>6 DEF buckets

LEMMA ChatsMade ==
  ASSUME TypeInv, JoinInv, stage = "joining", links = {}
  PROVE  LET raw == UNION {ChatsOf(Combined, group, chats.split) :
                             group \in Parties(Buckets(Combined, chats.mode))}
         IN Components(UniqueIDs(raw), chats.mode, chats.split)
<1> DEFINE buckets == Buckets(Combined, chats.mode)
           In(g) == ChatsOf(Combined, g, chats.split)
           raw == UNION {In(g) : g \in Parties(buckets)}
           told == UniqueIDs(raw)
           Right(c, x) == c.places = IF chats.split
                                     THEN Episodes(Combined, Party(Combined, buckets, x), x)
                                     ELSE Party(Combined, buckets, x)
<1>1. /\ IsFiniteSet(buckets)
      /\ \A b \in buckets : b.places \subseteq DOMAIN Combined /\ b.lead \in b.places
  BY BucketsApart
<1>2. Parties(buckets) = {Group(buckets, b) : b \in buckets}
  BY DEF Parties, Group
<1>3. ASSUME NEW x \in DOMAIN Combined
      PROVE  /\ \E g \in Parties(buckets) : x \in PlacesOf(g)
             /\ \A g \in Parties(buckets) : x \in PlacesOf(g) =>
                  /\ PlacesOf(g) = Party(Combined, buckets, x)
                  /\ \A h \in Parties(buckets) : x \in PlacesOf(h) => h = g
  BY PartyIsGroup
<1> HIDE DEF buckets
<1>4. ASSUME NEW g \in Parties(buckets)
      PROVE  PlacesOf(g) \in SUBSET DOMAIN Combined /\ PlacesOf(g) # {}
  <2>1. PICK a \in buckets : g = Group(buckets, a)
    BY <1>2
  <2>2. a \in g /\ g \subseteq buckets
    BY <2>1 DEF Group
  <2> QED
    BY <1>1, <2>2 DEF PlacesOf
<1>5. ASSUME NEW g \in Parties(buckets)
      PROVE  /\ IsFiniteSet(In(g))
             /\ \A c \in In(g) : RawChat(c) /\ c.places \subseteq PlacesOf(g)
             /\ \A x \in PlacesOf(g) : \E c \in In(g) :
                  /\ {d \in In(g) : x \in d.places} = {c}
                  /\ c.places = IF chats.split THEN Episodes(Combined, PlacesOf(g), x)
                                ELSE PlacesOf(g)
  BY <1>4, ChatsOfParty
<1> HIDE DEF In
<1>6. IsFiniteSet(raw)
  <2> DEFINE f == [b \in buckets |-> Group(buckets, b)]
             chatsOf == [g \in Parties(buckets) |-> In(g)]
  <2>1. DOMAIN f = buckets /\ Parties(buckets) = {f[b] : b \in buckets}
    BY <1>2
  <2>2. /\ DOMAIN chatsOf = Parties(buckets)
        /\ {In(g) : g \in Parties(buckets)} = {chatsOf[g] : g \in Parties(buckets)}
    OBVIOUS
  <2> HIDE DEF f, chatsOf
  <2>3. IsFiniteSet(Parties(buckets))
    BY <1>1, <2>1, ImageIsFinite
  <2>4. IsFiniteSet({In(g) : g \in Parties(buckets)})
    BY <2>2, <2>3, ImageIsFinite
  <2> QED
    BY <1>5, <2>4, FS_UNION
<1>7. \A c \in raw : RawChat(c) /\ c.places \subseteq DOMAIN Combined
  BY <1>4, <1>5
<1>8. ASSUME NEW x \in DOMAIN Combined
      PROVE  \E c \in raw : {d \in raw : x \in d.places} = {c} /\ Right(c, x)
  <2>1. PICK g \in Parties(buckets) : x \in PlacesOf(g)
    BY <1>3
  <2>2. PICK c \in In(g) : /\ {d \in In(g) : x \in d.places} = {c}
                           /\ c.places = IF chats.split THEN Episodes(Combined, PlacesOf(g), x)
                                         ELSE PlacesOf(g)
    BY <1>5, <2>1
  <2>3. Right(c, x)
    BY <1>3, <2>1, <2>2
  <2>4. \A d \in raw : x \in d.places => d \in In(g)
    <3> SUFFICES ASSUME NEW h \in Parties(buckets), NEW d \in In(h), x \in d.places
                 PROVE  d \in In(g)
      OBVIOUS
    <3>1. x \in PlacesOf(h)
      BY <1>5
    <3> QED
      BY <1>3, <2>1, <3>1
  <2>5. In(g) \subseteq raw
    OBVIOUS
  <2> HIDE DEF raw, Right
  <2>6. {d \in raw : x \in d.places} = {c}
    BY <2>2, <2>4, <2>5
  <2> QED
    BY <2>3, <2>5, <2>6
<1> HIDE DEF raw
<1>9. OnePlace(raw)
  BY <1>7, <1>8 DEF OnePlace
<1>10. told = {Told(raw, c) : c \in raw}
  BY UniqueIsTold
<1> HIDE DEF told
<1>11. ASSUME NEW x \in DOMAIN Combined
       PROVE  \E c \in told : {d \in told : x \in d.places} = {c} /\ Right(c, x)
  <2>1. PICK c \in raw : {d \in raw : x \in d.places} = {c} /\ Right(c, x)
    BY <1>8
  <2>2. Told(raw, c) \in told /\ Told(raw, c).places = c.places
    BY <1>7, <1>10, ToldParts
  <2>3. \A d \in told : x \in d.places => d = Told(raw, c)
    <3> SUFFICES ASSUME NEW e \in raw, x \in Told(raw, e).places
                 PROVE  Told(raw, e) = Told(raw, c)
      BY <1>10
    <3>1. x \in e.places
      BY <1>7, ToldParts
    <3> QED
      BY <2>1, <3>1
  <2>4. x \in c.places
    BY <2>1
  <2>5. {d \in told : x \in d.places} = {Told(raw, c)}
    BY <2>2, <2>3, <2>4
  <2>6. Right(Told(raw, c), x)
    BY <2>1, <2>2
  <2> HIDE DEF Right
  <2> QED
    BY <2>2, <2>5, <2>6
<1>12. ASSUME NEW c \in told, NEW d \in told, c.id = d.id, c.nth = d.nth
       PROVE  c = d
  <2>1. PICK a \in raw : c = Told(raw, a)
    BY <1>10
  <2>2. PICK b \in raw : d = Told(raw, b)
    BY <1>10
  <2>3. a.id = b.id /\ Cardinality(AheadOf(raw, a)) = Cardinality(AheadOf(raw, b))
    BY <1>7, <1>12, <2>1, <2>2, ToldParts
  <2>4. a = b
    BY <1>6, <1>7, <1>9, <2>3, ToldApart
  <2> QED
    BY <2>1, <2>2, <2>4
<1>13. Components(told, chats.mode, chats.split)
  BY <1>11, <1>12 DEF Components, buckets
<1> QED
  BY <1>13 DEF told, raw, In, buckets

(* The data says all of it, whatever the mode.                              *)
LEMMA ChatsSame ==
  ASSUME ds' = ds
  PROVE  /\ Combined' = Combined
         /\ \A all, mode : Buckets(all, mode)' = Buckets(all, mode)
         /\ \A mode : Leads(mode)' = Leads(mode) /\ LeadLinks(mode)' = LeadLinks(mode)
<1>1. Shown' = Shown /\ \A i : Bubble(i)' = Bubble(i)
  BY DEF Shown, Bubble
<1>2. Combined' = Combined
  BY <1>1 DEF Combined
<1>3. \A places : Lead(places)' = Lead(places)
  BY <1>1 DEF Lead, Ahead, Before
<1>4. \A all, mode : Buckets(all, mode)' = Buckets(all, mode)
  <2> SUFFICES ASSUME NEW all, NEW mode PROVE Buckets(all, mode)' = Buckets(all, mode)
    OBVIOUS
  <2>1. Buckets(all, mode) = {BucketOf(all, SameKey(all, mode, x)) : x \in DOMAIN all}
    BY DEF Buckets, BucketOf, SameKey
  <2>2. Buckets(all, mode)' = {BucketOf(all, SameKey(all, mode, x))' : x \in DOMAIN all}
    BY DEF Buckets, BucketOf, SameKey
  <2>3. \A places : BucketOf(all, places)' = BucketOf(all, places)
    BY <1>3 DEF BucketOf
  <2>4. \A x : BucketOf(all, SameKey(all, mode, x))' = BucketOf(all, SameKey(all, mode, x))
    BY <2>3 DEF SameKey
  <2> QED
    BY <2>1, <2>2, <2>4
<1>5. \A mode : Buckets(Combined, mode)' = Buckets(Combined, mode)
  BY <1>2, <1>4
<1> QED
  BY <1>2, <1>4, <1>5 DEF Leads, LeadLinks

LEMMA JoinInvPrimed ==
  ASSUME ds' = ds, NEW mode, NEW split, chats' = [mode |-> mode, split |-> split, list |-> {}],
         Linking(Leads(mode), LeadLinks(mode), forest', links')
  PROVE  JoinInv'
<1>1. Leads(mode)' = Leads(mode) /\ LeadLinks(mode)' = LeadLinks(mode)
  BY ChatsSame
<1>2. chats'.mode = mode /\ chats'.split = split
  OBVIOUS
<1> QED
  BY <1>1, <1>2 DEF JoinInv

LEMMA GroupChatsJoins ==
  ASSUME NEW mode, NEW split, GroupChats(mode, split)
  PROVE  JoinInv'
<1>1. /\ ds' = ds /\ chats' = [mode |-> mode, split |-> split, list |-> {}]
      /\ forest' = Apart(Leads(mode)) /\ links' = LeadLinks(mode)
  BY DEF GroupChats, Leads, LeadLinks
<1>2. LeadLinks(mode) \in SUBSET (Leads(mode) \X Leads(mode))
  BY DEF LeadLinks, Leads
<1>3. Linking(Leads(mode), LeadLinks(mode), forest', links')
  BY <1>1, <1>2, ApartLinks
<1> QED
  BY <1>1, <1>3, JoinInvPrimed

LEMMA JoinStep ==
  ASSUME TypeInv, JoinInv, [Next]_vars
  PROVE  JoinInv'
<1>1. CASE stage' # "joining"
  BY <1>1 DEF JoinInv
<1>2. CASE Join /\ stage = "joining"
  <2>1. UNCHANGED <<ds, chats>>
    BY <1>2 DEF Join
  <2>2. Linking(Leads(chats.mode), LeadLinks(chats.mode), forest', links')
    BY <1>2, JoinLinks DEF JoinInv
  <2>3. chats' = [mode |-> chats.mode, split |-> chats.split, list |-> {}]
    BY <1>2, <2>1 DEF JoinInv
  <2> QED
    BY <2>1, <2>2, <2>3, JoinInvPrimed
<1>3. CASE \E mode \in {"participants", "sessions"}, split \in BOOLEAN : GroupChats(mode, split)
  BY <1>3, GroupChatsJoins
<1>4. CASE UNCHANGED vars /\ stage = "joining"
  <2>1. UNCHANGED <<ds, forest, links, chats>>
    BY <1>4 DEF vars
  <2>2. /\ Linking(Leads(chats.mode), LeadLinks(chats.mode), forest', links')
        /\ chats' = [mode |-> chats.mode, split |-> chats.split, list |-> {}]
    BY <1>4, <2>1 DEF JoinInv
  <2> QED
    BY <2>1, <2>2, JoinInvPrimed
<1>5. NextMerge /\ UNCHANGED <<forest, links, thread, chats>> => stage' # "joining"
  BY NextMergeOK
<1>6. \/ NextMerge /\ UNCHANGED <<forest, links, thread, chats>>
      \/ Join /\ stage' = stage
      \/ UNCHANGED vars /\ stage' = stage
      \/ stage' # "joining"
      \/ \E mode \in {"participants", "sessions"}, split \in BOOLEAN : GroupChats(mode, split)
  BY DEF Next, vars, Join, LinkThreads, NameThreads, InferTargets, InferRefused, BuildChats
<1> QED
  BY <1>1, <1>2, <1>3, <1>4, <1>5, <1>6

LEMMA ComponentsPrimed ==
  ASSUME ds' = ds, NEW list, NEW mode, NEW split,
         chats'.list = list, chats'.mode = mode, chats'.split = split,
         Components(list, mode, split)
  PROVE  ChatsAreComponents'
<1>1. Combined' = Combined /\ Buckets(Combined, mode)' = Buckets(Combined, mode)
  BY ChatsSame
<1>2. \A x : /\ Party(Combined, Buckets(Combined, mode), x)' = Party(Combined, Buckets(Combined, mode), x)
             /\ \A party : Episodes(Combined, party, x)' = Episodes(Combined, party, x)
  BY <1>1 DEF Party, Episodes, Chain, Meeting, SameParty
<1>3. Components(list, mode, split)'
  BY <1>1, <1>2 DEF Components
<1> QED
  BY <1>3 DEF Components, ChatsAreComponents

LEMMA BuildChatsMakes ==
  ASSUME TypeInv, JoinInv, BuildChats
  PROVE  ChatsAreComponents'
<1> DEFINE raw == UNION {ChatsOf(Combined, group, chats.split) :
                           group \in Parties(Buckets(Combined, chats.mode))}
<1>1. /\ ds' = ds /\ stage = "joining" /\ links = {}
      /\ chats' = [chats EXCEPT !.list = UniqueIDs(raw)]
  BY DEF BuildChats
<1>2. Components(UniqueIDs(raw), chats.mode, chats.split)
  BY <1>1, ChatsMade
<1> HIDE DEF raw
<1>3. /\ chats'.list = UniqueIDs(raw)
      /\ chats'.mode = chats.mode /\ chats'.split = chats.split
  BY <1>1 DEF JoinInv
<1> QED
  BY <1>1, <1>2, <1>3, ComponentsPrimed

LEMMA ComponentsStep ==
  ASSUME TypeInv, JoinInv, ChatsAreComponents, [Next]_vars
  PROVE  ChatsAreComponents'
<1>1. CASE BuildChats
  BY <1>1, BuildChatsMakes
<1>2. CASE stage' # "shown"
  BY <1>2 DEF ChatsAreComponents
<1>3. CASE UNCHANGED <<ds, stage, chats>> /\ stage = "shown"
  <2>1. Components(chats.list, chats.mode, chats.split)
    BY <1>3 DEF ChatsAreComponents, Components
  <2> QED
    BY <1>3, <2>1, ComponentsPrimed
<1>4. NextMerge /\ UNCHANGED <<forest, links, thread, chats>> => stage' # "shown"
  BY NextMergeOK
<1>5. \/ NextMerge /\ UNCHANGED <<forest, links, thread, chats>>
      \/ BuildChats \/ stage' # "shown" \/ UNCHANGED <<ds, stage, chats>>
  BY DEF Next, vars, Join, LinkThreads, NameThreads, InferTargets, InferRefused, GroupChats
<1> QED
  BY <1>1, <1>2, <1>3, <1>4, <1>5

(* Whatever is shown, in either mode, split or not, and in whatever order   *)
(* the parties are joined: every message is in exactly one chat, two are in *)
(* one just if overlapping parties that share actors, and no long silence,  *)
(* lead from one to the other, and no two chats have one id (group.go,      *)
(* buildChats, overlap, jaccard and uniqueChatIDs).                         *)
THEOREM ChatsAreComponentsHolds == Spec => []ChatsAreComponents
<1>1. Init => TypeInv /\ JoinInv /\ ChatsAreComponents
  BY TypeInvInit DEF Init, InitMerge, JoinInv, ChatsAreComponents
<1>2. TypeInv /\ JoinInv /\ ChatsAreComponents /\ [Next]_vars
      => TypeInv' /\ JoinInv' /\ ChatsAreComponents'
  BY TypeInvStep, JoinStep, ComponentsStep
<1> QED
  BY <1>1, <1>2, PTL DEF Spec

=============================================================================
