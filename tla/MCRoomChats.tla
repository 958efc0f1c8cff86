---------------------------- MODULE MCRoomChats ----------------------------
(***************************************************************************)
(* Small histories for RoomChats: see room_view.cfg.  Times are in units of *)
(* ten seconds.  Session a2 is a later session of a's project, so that it   *)
(* goes by the same name and label; Z is the name of nobody.                *)
(***************************************************************************)
EXTENDS RoomChats

MCLabelOf == [a |-> "A", a2 |-> "A", b |-> "B", c |-> "C"]
MCNameOf == MCLabelOf
MCActorNamed == [A |-> "A", B |-> "B", C |-> "C", Z |-> "Z"]
MCAnswering == [A |-> <<"a", "a2">>, B |-> <<"b">>, C |-> <<"c">>, Z |-> <<>>]
MCLife == [a |-> [started |-> 1, last |-> 100], a2 |-> [started |-> 350, last |-> 900],
           b |-> [started |-> 1, last |-> 900], c |-> [started |-> 1, last |-> 900]]
MCLongTexts == {"report"}

Say(from, name, to, kind, text, parent, at) ==
  [from |-> from, name |-> name, to |-> to, kind |-> kind, text |-> text, parent |-> parent,
   at |-> at, made |-> at, entry |-> at, refused |-> FALSE]
Late(send) == [send EXCEPT !.made = @ + 1]
Refused(send) == [send EXCEPT !.refused = TRUE]

Opener == Say("a", "B", "b", "ask", "report", 0, 10)
SlowOpener == Late(Late(Opener))

(* What may follow it.                                                      *)
Second ==
  {Say("a", "B", "b", "ask", "report", 0, 11),
   Late(Say("a", "C", "c", "ask", "report", 0, 12)),
   [Say("a", "C", "c", "ask", "report", 0, 11) EXCEPT !.entry = 10],
   Say("b", "", "a", "reply", "ok", 1, 30),
   Refused(Say("b", "", "a", "reply", "ok", 0, 30)),
   Say("c", "B", "b", "delegate", "report", 0, 20)}

Third ==
  {Say("b", "", "a", "reply", "ok", 1, 40),
   Say("b", "", "a", "reply", "ok", 2, 40),
   Refused(Say("b", "", "a", "reply", "ok", 0, 40)),
   Say("b", "A", "a2", "ask", "report", 0, 400),
   Say("b", "A", "a2", "ask", "report", 0, 700),
   Refused(Say("a", "Z", "a", "ask", "report", 0, 13))}

Shared ==
  {<<Say("a", "", "", "update", "done", 0, 10), Late(Say("a", "", "", "update", "done", 0, 12)),
     Say("c", "", "", "update", "done", 0, 12), Say("c", "", "", "checkpoint", "", 0, 13)>>}

(* The wakes of some sends: each by itself, those to one session at once,   *)
(* or the first of them a second time, later on or with those at once.      *)
Arrive(s, n, at) == [session |-> s, of |-> <<n>>, at |-> at]
Directed(sends) == SelectSeq([n \in DOMAIN sends |-> n],
                     LAMBDA n : sends[n].kind \in Direct /\ ~sends[n].refused)
Alone(sends) ==
  LET ns == Directed(sends)
  IN [i \in DOMAIN ns |-> Arrive(sends[ns[i]].to, ns[i], sends[ns[i]].made + 2)]
Again(sends) == Append(Alone(sends), Arrive(sends[1].to, 1, sends[1].made + 8))
AtOnce(sends) ==
  LET ns == Directed(sends)
      To(s) == SelectSeq(ns, LAMBDA n : sends[n].to = s)
      tos == {sends[ns[i]].to : i \in DOMAIN ns}
      Batch(s) == [session |-> s, of |-> To(s), at |-> Max({sends[n].made : n \in ToSet(To(s))}) + 2]
  IN [i \in 1..Cardinality(tos) |-> Batch(SetToSeq(tos)[i])]
Retried(sends) == <<Arrive(sends[1].to, 1, sends[1].made + 1)>> \o AtOnce(sends)

(* What is left of them: of two sends whatever may be, of three no case in  *)
(* which a whole transcript is gone or a wake names nobody.                 *)
Left(sends, woken) ==
  LET sent == {n \in DOMAIN sends : ~sends[n].refused /\ sends[n].text # ""}
      quotable == {n \in sent : sends[n].kind \in Direct}
      all == DOMAIN MCLabelOf
      few == Len(sends) = 2
  IN {h \in [sends : {sends}, wakes : {woken}, kept : SUBSET sent,
              quoted : {quotable, quotable \ {1}} \cup IF few THEN {{}, quotable \cap {1}} ELSE {},
              indexed : IF few THEN {all, all \ {"a"}, all \ {"b"}} ELSE {all},
              named : {DOMAIN woken} \cup IF few THEN {{}} ELSE {}] :
        \A n \in h.quoted : sends[n].from \in h.indexed}

MCRetries ==
  UNION {Left(sends, Retried(sends)) : sends \in {<<Opener, s>> : s \in Second}}

MCHistories ==
  UNION {Left(sends, <<>>) : sends \in Shared}
  \cup UNION {Left(sends, Alone(sends)) \cup Left(sends, Again(sends)) \cup Left(sends, AtOnce(sends)) :
              sends \in {<<o, s>> : o \in {Opener, SlowOpener}, s \in Second}
                        \cup {<<Opener, s, t>> : s \in Second, t \in Third}}
  \cup MCRetries
=============================================================================
