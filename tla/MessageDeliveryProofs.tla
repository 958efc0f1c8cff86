------------------------ MODULE MessageDeliveryProofs ------------------------
(***************************************************************************)
(* Proofs that MessageDelivery keeps its types, two of its invariants and  *)
(* its action property, for any messages, any caps and any number of       *)
(* crashes: a process never wakes its session twice for a message that     *)
(* locallySent still holds, a delivered stamp is laid only on what was     *)
(* shown, and two wake turns are a gap apart unless a stamp failed.  Last, *)
(* of ReadCache: an answer is as fresh as the call it answers.             *)
(***************************************************************************)
EXTENDS MessageDelivery, ReadCache, FiniteSetTheorems, TLAPS

(* A batch is part of what the poll read: the slice adds nothing.           *)
LEMMA QueuedPending == Queued \subseteq pending
  BY DEF Queued, Oldest

(* locallySent keeps positions when a batch is added and when it is trimmed. *)
LEMMA PositionsAreNat ==
  ASSUME TypeOK, NEW batch \in SUBSET Messages
  PROVE  Trimmed(Added(batch)) \in [Messages -> Nat]
<1>1. IsFiniteSet(LocallySent)
  BY MessageDeliveryAssumption, FS_Subset DEF LocallySent
<1>2. Cardinality(LocallySent) \in Nat
  BY <1>1, FS_CardinalityType
<1>3. \A m \in Messages : Cardinality({x \in batch : x <= m}) \in Nat
  <2> TAKE m \in Messages
  <2>1. IsFiniteSet({x \in batch : x <= m})
    BY MessageDeliveryAssumption, FS_Subset, {x \in batch : x <= m} \subseteq Messages
  <2> QED  BY <2>1, FS_CardinalityType
<1>4. Added(batch) \in [Messages -> Nat]
  BY <1>2, <1>3 DEF Added, TypeOK
<1> QED
  BY <1>4, MessageDeliveryAssumption DEF Trimmed

-----------------------------------------------------------------------------

(* Every variable keeps its type.                                           *)
LEMMA TypeInit == Init => TypeOK
<1> SUFFICES ASSUME Init PROVE TypeOK
  OBVIOUS
<1>1. sentPos \in [Messages -> Nat] /\ crashes \in 0..MaxCrashes
  BY MessageDeliveryAssumption DEF Init
<1> QED
  BY <1>1 DEF Init, TypeOK

(* An answer of readState holds messages, whether it is the file's or not.  *)
LEMMA AnswersAreViews == TypeOK => Answers \subseteq Views
  BY DEF TypeOK, Answers, View, Views

(* A save leaves the cache empty, or torn with a room there was before it.  *)
LEMMA TornByASave == SaveTears => tornRoom' \subseteq Answers
  BY DEF SaveTears, Answers

LEMMA TypeStep == TypeOK /\ [Next]_vars => TypeOK'
<1> SUFFICES ASSUME TypeOK, [Next]_vars
             PROVE  TypeOK'
  OBVIOUS
<1>q. Queued \subseteq Messages
  BY QueuedPending DEF TypeOK
<1>v. \A v \in Answers : v.room \subseteq Messages /\ v.undelivered \subseteq Messages
                         /\ v.unread \subseteq Messages
  BY AnswersAreViews DEF Views
<1>t. SaveTears => tornRoom' \subseteq Views
  BY AnswersAreViews, TornByASave
<1>1. ASSUME NEW m \in Messages, Arrive(m) PROVE TypeOK'
  BY <1>1, <1>t DEF TypeOK, Arrive, pollVars, inboxVars, lifeVars, wakeVars
<1>2. CASE Drop
  BY <1>2, <1>t DEF TypeOK, Drop, pollVars, inboxVars, lifeVars, wakeVars
<1>3. CASE PollStart
  BY <1>3 DEF TypeOK, PollStart, roomVars, inboxVars, lifeVars, wakeVars, seenVars
<1>4. CASE PollRead
  BY <1>4, <1>v DEF TypeOK, PollRead, EndPoll, Undelivered, roomVars, inboxVars, lifeVars,
                    wakeVars, seenVars
<1>5. CASE PollMarkDone
  BY <1>5, <1>t DEF TypeOK, PollMarkDone, EndPoll, inboxVars, lifeVars, wakeVars, seenVars
<1>6. CASE PollSend
  <2>1. sentPos' \in [Messages -> Nat]
    BY <1>6, <1>q, PositionsAreNat DEF PollSend
  <2>2. forgotten' \subseteq Messages
    BY <1>6, <1>q DEF PollSend, TypeOK, LocallySent
  <2> QED
    BY <1>6, <1>q, <2>1, <2>2 DEF TypeOK, PollSend, roomVars, inboxVars, lifeVars
<1>7. CASE PollSendThrows
  BY <1>7 DEF TypeOK, PollSendThrows, EndPoll, roomVars, inboxVars, lifeVars, wakeVars, seenVars
<1>8. CASE PollStamp
  BY <1>8, <1>q, <1>t DEF TypeOK, PollStamp, EndPoll, inboxVars, lifeVars, seenVars
<1>9. CASE PollStampRaises
  BY <1>9, <1>q DEF TypeOK, PollStampRaises, EndPoll, roomVars, inboxVars, lifeVars, seenVars
<1>10. CASE WakeAges \/ GapEnds
  BY <1>10 DEF TypeOK, WakeAges, GapEnds, roomVars, pollVars, inboxVars, lifeVars, seenVars
<1>11. CASE InboxRead
  BY <1>11, <1>v DEF TypeOK, InboxRead, roomVars, pollVars, lifeVars, wakeVars
<1>12. CASE InboxMark
  BY <1>12, <1>t DEF TypeOK, InboxMark, pollVars, lifeVars, wakeVars, seenVars
<1>13. CASE InboxShow
  BY <1>13 DEF TypeOK, InboxShow, roomVars, pollVars, lifeVars, wakeVars
<1>14. CASE InboxMarkRaises
  BY <1>14 DEF TypeOK, InboxMarkRaises, roomVars, pollVars, lifeVars, wakeVars
<1>15. CASE TurnStart
  BY <1>15, <1>v DEF TypeOK, TurnStart, Pulse, Oldest, roomVars, pollVars, inboxVars, lifeVars,
                     wakeVars
<1>16. CASE Crash
  <2>1. crashes' \in 0..MaxCrashes
    BY <1>16, MessageDeliveryAssumption DEF TypeOK, Crash
  <2>2. sentPos' \in [Messages -> Nat]
    BY <1>16 DEF Crash
  <2> QED
    BY <1>16, <2>1, <2>2 DEF TypeOK, Crash, EndPoll, roomVars
<1>17. CASE Resume
  BY <1>17 DEF TypeOK, Resume, roomVars, pollVars, inboxVars, wakeVars, seenVars
<1>18. CASE Heartbeat
  BY <1>18 DEF TypeOK, Heartbeat, roomVars, pollVars, inboxVars, lifeVars, wakeVars, seenVars
<1>19. CASE UNCHANGED vars
  BY <1>19 DEF TypeOK, vars, roomVars, pollVars, inboxVars, lifeVars, wakeVars, seenVars
<1> QED
  BY <1>1, <1>2, <1>3, <1>4, <1>5, <1>6, <1>7, <1>8, <1>9, <1>10, <1>11, <1>12, <1>13,
     <1>14, <1>15, <1>16, <1>17, <1>18, <1>19 DEF Next, Poll, Inbox

(* deliverPendingMessages, the inbox and the turns keep every variable's    *)
(* type, for any set of messages and any size of locallySent.               *)
THEOREM TypeCorrect == Spec => []TypeOK
  BY TypeInit, TypeStep, PTL DEF Spec

-----------------------------------------------------------------------------

(***************************************************************************)
(* Why no message wakes a process's session twice: what was pushed is in   *)
(* locallySent or was evicted from it, and what a poll holds on its way to *)
(* its send was not in locallySent when it was read, nor since.            *)
(***************************************************************************)
WakeInv ==
  /\ pushed \subseteq LocallySent \cup forgotten
  /\ pollPc \in {"markDone", "send"} => pending \cap LocallySent = {}
  /\ again \subseteq forgotten

LEMMA WakeInit == Init => WakeInv
  BY DEF Init, WakeInv

LEMMA WakeStep == TypeOK /\ WakeInv /\ [Next]_vars => WakeInv'
<1> SUFFICES ASSUME TypeOK, WakeInv, [Next]_vars
             PROVE  WakeInv'
  OBVIOUS
<1>q. Queued \subseteq pending /\ Queued \subseteq Messages
  BY QueuedPending DEF TypeOK
<1>s. ASSUME UNCHANGED sentPos PROVE LocallySent' = LocallySent
  BY <1>s DEF LocallySent
<1>1. CASE PollSend
  <2> DEFINE pos == Trimmed(Added(Queued))
  <2>1. pos \in [Messages -> Nat]
    BY <1>q, PositionsAreNat
  <2>2. LocallySent' = {m \in Messages : pos[m] > 0}
    BY <1>1 DEF PollSend, LocallySent
  <2>3. forgotten' = forgotten \cup {m \in LocallySent \cup Queued : pos[m] = 0}
    BY <1>1 DEF PollSend
  <2>4. pushed' = pushed \cup Queued /\ again' = again \cup (Queued \cap pushed)
    BY <1>1 DEF PollSend
  <2>5. pollPc = "send" /\ pollPc' = "stamp"
    BY <1>1 DEF PollSend
  <2> HIDE DEF pos
  <2>6. LocallySent \cup Queued \subseteq LocallySent' \cup forgotten'
    BY <2>1, <2>2, <2>3, <1>q DEF LocallySent
  <2>7. Queued \cap pushed \subseteq forgotten
    BY <2>5, <1>q DEF WakeInv
  <2> QED
    BY <2>3, <2>4, <2>5, <2>6, <2>7 DEF WakeInv
<1>2. CASE Crash
  BY <1>2 DEF Crash, EndPoll, WakeInv
<1>3. CASE PollRead
  BY <1>3, <1>s DEF PollRead, EndPoll, Undelivered, WakeInv, wakeVars
<1>4. CASE PollMarkDone
  BY <1>4, <1>s DEF PollMarkDone, EndPoll, WakeInv, wakeVars
<1>5. CASE PollStart \/ PollSendThrows \/ PollStamp \/ PollStampRaises
  BY <1>5, <1>s DEF PollStart, PollSendThrows, PollStamp, PollStampRaises, EndPoll,
                    WakeInv, wakeVars
<1>6. CASE (\E m \in Messages : Arrive(m)) \/ Drop \/ Heartbeat \/ TurnStart \/ Inbox \/ Resume
  BY <1>6, <1>s DEF Arrive, Drop, Heartbeat, TurnStart, Inbox, InboxRead, InboxMark, InboxShow,
                    InboxMarkRaises, Resume, WakeInv, wakeVars, pollVars
<1>7. CASE WakeAges \/ GapEnds \/ UNCHANGED vars
  BY <1>7, <1>s DEF WakeAges, GapEnds, WakeInv, vars, wakeVars, pollVars
<1> QED
  BY <1>1, <1>2, <1>3, <1>4, <1>5, <1>6, <1>7 DEF Next, Poll

(* One process of a session never pushes a message a second time, however   *)
(* its polls, failed stamps and inbox actions interleave and however old    *)
(* its cached reads are, unless the cap of locallySent evicted it.          *)
THEOREM WokenOnceHolds == Spec => []WokenOnce
<1>1. Init => TypeOK /\ WakeInv
  BY TypeInit, WakeInit
<1>2. (TypeOK /\ WakeInv) /\ [Next]_vars => (TypeOK /\ WakeInv)'
  BY TypeStep, WakeStep
<1>3. TypeOK /\ WakeInv => WokenOnce
  BY DEF WakeInv, WokenOnce
<1> QED
  BY <1>1, <1>2, <1>3, PTL DEF Spec

-----------------------------------------------------------------------------

(***************************************************************************)
(* What a torn answer may hold: only messages that have been in the room,  *)
(* and none as read that the room still holds unread.  What has left the   *)
(* room does not come back, so this stays true as the answer ages.         *)
(***************************************************************************)
Aged(v) ==
  /\ v.room \subseteq arrived /\ v.unread \subseteq arrived
  /\ (v.room \ v.unread) \cap room \subseteq read

AnswersInv == room \subseteq arrived /\ \A v \in Answers : Aged(v)

LEMMA AnswersInit == Init => AnswersInv
  BY DEF Init, AnswersInv, Answers, View, Aged

(* Enough for every step: no torn answer is newer than the room, and what   *)
(* joins the room or loses its read stamp is new or gone.                   *)
LEMMA AnswersAge ==
  ASSUME AnswersInv, tornRoom' \subseteq Answers,
         arrived \subseteq arrived', room' \subseteq arrived',
         room' \cap arrived \subseteq room, read \cap room' \subseteq read'
  PROVE  AnswersInv'
<1>1. ASSUME NEW v \in tornRoom' PROVE Aged(v)'
  <2>1. Aged(v)
    BY <1>1 DEF AnswersInv
  <2> QED
    BY <2>1 DEF Aged
<1>2. Aged(View)'
  BY DEF Aged, View
<1> QED
  BY <1>1, <1>2 DEF AnswersInv, Answers

LEMMA AnswersStep == AnswersInv /\ [Next]_vars => AnswersInv'
<1> SUFFICES ASSUME AnswersInv, [Next]_vars
             PROVE  AnswersInv'
  OBVIOUS
<1>r. room \subseteq arrived
  BY DEF AnswersInv
<1>t. SaveTears \/ tornRoom' \in {tornRoom, {}} => tornRoom' \subseteq Answers
  BY TornByASave DEF Answers
<1>1. ASSUME NEW m \in Messages, Arrive(m) PROVE AnswersInv'
  BY <1>1, <1>r, <1>t, AnswersAge DEF Arrive
<1>2. CASE Drop
  BY <1>2, <1>r, <1>t, AnswersAge DEF Drop
<1>3. CASE PollMarkDone \/ PollStamp
  BY <1>3, <1>r, <1>t, AnswersAge DEF PollMarkDone, PollStamp
<1>4. CASE InboxMark
  BY <1>4, <1>r, <1>t, AnswersAge DEF InboxMark
<1>5. ASSUME UNCHANGED <<roomVars>>, tornRoom' \in {tornRoom, {}} PROVE AnswersInv'
  BY <1>5, <1>r, <1>t, AnswersAge DEF roomVars
<1>6. CASE PollStart \/ PollRead \/ PollSend \/ PollSendThrows \/ PollStampRaises
  BY <1>5, <1>6 DEF PollStart, PollRead, PollSend, PollSendThrows, PollStampRaises
<1>7. CASE InboxRead \/ InboxShow \/ InboxMarkRaises
  BY <1>5, <1>7 DEF InboxRead, InboxShow, InboxMarkRaises
<1>8. CASE Heartbeat \/ TurnStart \/ WakeAges \/ GapEnds
  BY <1>5, <1>8 DEF Heartbeat, TurnStart, WakeAges, GapEnds
<1>9. CASE Crash \/ Resume \/ UNCHANGED vars
  BY <1>5, <1>9 DEF Crash, Resume, vars
<1> QED
  BY <1>1, <1>2, <1>3, <1>4, <1>6, <1>7, <1>8, <1>9 DEF Next, Poll, Inbox

-----------------------------------------------------------------------------

(***************************************************************************)
(* Why stamps follow what was shown: a batch is shown before its stamps,   *)
(* and while an inbox action is between its read and its stamps, the room  *)
(* holds only what it listed, what was read before, and what slipped in.   *)
(* What is read is delivered too, so the mark that slipped is put on keeps *)
(* what a raised or cut off action leaves behind stamped.                  *)
(***************************************************************************)
Accounted == shown \cup slipped \cup Answering \cup lost

StampInv ==
  /\ delivered \subseteq Accounted \cup DoneSignals
  /\ read \subseteq Accounted /\ read \subseteq delivered
  /\ inboxPc = "mark" => room \subseteq listed \cup read \cup slipped
  /\ pollPc = "stamp" => Queued \subseteq shown

LEMMA StampInit == Init => StampInv
  BY DEF Init, StampInv

LEMMA StampStep == AnswersInv /\ StampInv /\ [Next]_vars => StampInv'
<1> SUFFICES ASSUME AnswersInv, StampInv, [Next]_vars
             PROVE  StampInv'
  OBVIOUS
<1> USE DEF StampInv, Accounted, Answering
<1>q. ASSUME UNCHANGED pending PROVE Queued' = Queued
  BY <1>q DEF Queued, Oldest
<1>1. ASSUME NEW m \in Messages, Arrive(m) PROVE StampInv'
  BY <1>1, <1>q DEF Arrive, pollVars, inboxVars
<1>2. CASE Drop
  BY <1>2, <1>q DEF Drop, Oldest, pollVars, inboxVars
<1>3. CASE PollStart \/ PollRead \/ PollSendThrows \/ PollStampRaises
  BY <1>3 DEF PollStart, PollRead, PollSendThrows, PollStampRaises, EndPoll, roomVars,
              inboxVars, seenVars
<1>4. CASE PollMarkDone
  BY <1>4 DEF PollMarkDone, EndPoll, inboxVars, seenVars
<1>5. CASE PollSend
  BY <1>5, <1>q DEF PollSend, roomVars, inboxVars
<1>6. CASE PollStamp
  BY <1>6 DEF PollStamp, EndPoll, inboxVars, seenVars
<1>7. CASE InboxRead
  <2>1. PICK v \in Answers : listed' = v.unread /\ slipped' = slipped \cup (room \ v.room)
    BY <1>7 DEF InboxRead
  <2>2. (v.room \ v.unread) \cap room \subseteq read
    BY DEF AnswersInv, Aged
  <2> QED
    BY <1>7, <1>q, <2>1, <2>2 DEF InboxRead, roomVars, pollVars
<1>8. CASE InboxMark
  BY <1>8, <1>q DEF InboxMark, pollVars, seenVars
<1>9. CASE InboxShow
  BY <1>9, <1>q DEF InboxShow, roomVars, pollVars
<1>10. CASE InboxMarkRaises
  BY <1>10, <1>q DEF InboxMarkRaises, roomVars, pollVars
<1>11. CASE TurnStart
  BY <1>11, <1>q DEF TurnStart, roomVars, pollVars, inboxVars
<1>12. CASE Crash
  BY <1>12 DEF Crash, EndPoll, roomVars
<1>13. CASE Resume \/ Heartbeat
  BY <1>13, <1>q DEF Resume, Heartbeat, roomVars, pollVars, inboxVars, seenVars
<1>14. CASE WakeAges \/ GapEnds
  BY <1>14, <1>q DEF WakeAges, GapEnds, roomVars, pollVars, inboxVars, seenVars
<1>15. CASE UNCHANGED vars
  BY <1>15, <1>q DEF vars, roomVars, pollVars, inboxVars, seenVars
<1> QED
  BY <1>1, <1>2, <1>3, <1>4, <1>5, <1>6, <1>7, <1>8, <1>9, <1>10, <1>11, <1>12, <1>13,
     <1>14, <1>15 DEF Next, Poll, Inbox

(* A message is stamped delivered only after a wake, a pulse or an inbox    *)
(* showed it, or as a done signal; or by an inbox action, if it came after  *)
(* the room that a torn cache or the file answered it with, or if it is in  *)
(* the list that the action is about to show or its process did not live    *)
(* to.  For any number of torn answers, overlaps, raised stamps and crashes. *)
THEOREM StampedWasShownHolds == Spec => []StampedWasShown
<1>1. Init => AnswersInv /\ StampInv
  BY AnswersInit, StampInit
<1>2. (AnswersInv /\ StampInv) /\ [Next]_vars => (AnswersInv /\ StampInv)'
  BY AnswersStep, StampStep
<1>3. AnswersInv /\ StampInv => StampedWasShown
  BY DEF StampInv, Accounted, StampedWasShown
<1> QED
  BY <1>1, <1>2, <1>3, PTL DEF Spec

-----------------------------------------------------------------------------

(***************************************************************************)
(* Why what an inbox action shows is stamped: its stamps cover the whole   *)
(* room, its list is part of what the room once held, and what has left    *)
(* the room does not come back.                                            *)
(***************************************************************************)
InspectInv == listed \subseteq arrived /\ InspectedIsDelivered

LEMMA InspectInit == Init => InspectInv
  BY DEF Init, InspectInv, InspectedIsDelivered, Answering

LEMMA InspectStep == AnswersInv /\ InspectInv /\ [Next]_vars => InspectInv'
<1> SUFFICES ASSUME AnswersInv, InspectInv, [Next]_vars
             PROVE  InspectInv'
  OBVIOUS
<1> USE DEF InspectInv, InspectedIsDelivered, Answering
<1>1. ASSUME NEW m \in Messages, Arrive(m) PROVE InspectInv'
  BY <1>1 DEF Arrive, inboxVars
<1>2. CASE Drop
  BY <1>2 DEF Drop, inboxVars
<1>3. CASE Poll
  BY <1>3 DEF Poll, PollStart, PollRead, PollMarkDone, PollSend, PollSendThrows, PollStamp,
              PollStampRaises, roomVars, inboxVars
<1>4. CASE InboxRead
  BY <1>4 DEF InboxRead, AnswersInv, Aged, roomVars
<1>5. CASE InboxMark \/ InboxShow \/ InboxMarkRaises
  BY <1>5 DEF InboxMark, InboxShow, InboxMarkRaises, roomVars
<1>6. CASE TurnStart \/ WakeAges \/ GapEnds \/ Heartbeat
  BY <1>6 DEF TurnStart, WakeAges, GapEnds, Heartbeat, roomVars, inboxVars
<1>7. CASE Crash \/ Resume
  BY <1>7 DEF Crash, Resume, roomVars, inboxVars
<1>8. CASE UNCHANGED vars
  BY <1>8 DEF vars, roomVars, inboxVars
<1> QED
  BY <1>1, <1>2, <1>3, <1>4, <1>5, <1>6, <1>7, <1>8 DEF Next, Inbox

(* When an inbox action shows its list, the room holds each message of it   *)
(* stamped delivered for as long as it holds it, whatever else runs and     *)
(* however old the answer that the list was made of.                        *)
THEOREM InspectedIsDeliveredHolds == Spec => []InspectedIsDelivered
<1>1. Init => AnswersInv /\ InspectInv
  BY AnswersInit, InspectInit
<1>2. (AnswersInv /\ InspectInv) /\ [Next]_vars => (AnswersInv /\ InspectInv)'
  BY AnswersStep, InspectStep
<1>3. AnswersInv /\ InspectInv => InspectedIsDelivered
  BY DEF InspectInv
<1> QED
  BY <1>1, <1>2, <1>3, PTL DEF Spec

-----------------------------------------------------------------------------

(***************************************************************************)
(* Why wakes are spaced: the gap is entered by the stamp that follows each *)
(* wake, and the poll that comes next was let through after its end.  Only *)
(* a stamp that raises leaves a recent wake without its gap, and that is   *)
(* on record until the next wake.                                          *)
(***************************************************************************)
SpacedInv ==
  /\ recentWake => inGap \/ pollPc = "stamp" \/ unstamped
  /\ recentWake /\ pollPc \in {"read", "markDone", "send"} => unstamped

LEMMA SpacedInit == Init => SpacedInv
  BY DEF Init, SpacedInv

LEMMA SpacedStep == TypeOK /\ SpacedInv /\ [Next]_vars => SpacedInv'
<1> SUFFICES ASSUME TypeOK, SpacedInv, [Next]_vars
             PROVE  SpacedInv'
  OBVIOUS
<1> USE DEF SpacedInv
<1>1. CASE PollStart
  BY <1>1 DEF PollStart, wakeVars
<1>2. CASE PollRead
  BY <1>2 DEF PollRead, EndPoll, wakeVars
<1>3. CASE PollMarkDone
  BY <1>3 DEF PollMarkDone, EndPoll, wakeVars
<1>4. CASE PollSend
  BY <1>4 DEF PollSend
<1>5. CASE PollSendThrows
  BY <1>5 DEF PollSendThrows, EndPoll, wakeVars
<1>6. CASE PollStamp
  BY <1>6 DEF PollStamp, EndPoll
<1>7. CASE PollStampRaises
  BY <1>7 DEF PollStampRaises, EndPoll
<1>8. CASE WakeAges \/ GapEnds
  BY <1>8 DEF WakeAges, GapEnds, pollVars
<1>9. CASE Crash
  BY <1>9 DEF Crash, EndPoll
<1>10. CASE (\E m \in Messages : Arrive(m)) \/ Drop \/ Heartbeat \/ Inbox \/ TurnStart \/ Resume
  BY <1>10 DEF Arrive, Drop, Heartbeat, Inbox, InboxRead, InboxMark, InboxShow, InboxMarkRaises,
               TurnStart, Resume, pollVars, wakeVars
<1>11. CASE UNCHANGED vars
  BY <1>11 DEF vars, pollVars, wakeVars
<1> QED
  BY <1>1, <1>2, <1>3, <1>4, <1>5, <1>6, <1>7, <1>8, <1>9, <1>10, <1>11 DEF Next, Poll

(* A poll wakes the session only WAKE_MIN_GAP_MS after the last wake,       *)
(* unless that wake's stamp raised, which kept lastAutoWakeAt from being    *)
(* set, whatever its awaits let in between.                                 *)
THEOREM WakesSpacedHolds == Spec => WakesSpaced
<1>1. Init => TypeOK /\ SpacedInv
  BY TypeInit, SpacedInit
<1>2. (TypeOK /\ SpacedInv) /\ [Next]_vars => (TypeOK /\ SpacedInv)'
  BY TypeStep, SpacedStep
<1>3. TypeOK /\ SpacedInv /\ [Next]_vars
        => [pollPc = "send" /\ pollPc' = "stamp" => ~recentWake \/ unstamped]_vars
  BY DEF SpacedInv, TypeOK
<1> QED
  BY <1>1, <1>2, <1>3, PTL DEF Spec, WakesSpaced
-----------------------------------------------------------------------------

(***************************************************************************)
(* The cached reads the same process makes of the room (ReadCache): what   *)
(* readState guarantees for any number of overlapping calls and any number *)
(* of saves.                                                               *)
(***************************************************************************)

(* The strengthening: what a call holds is not older than its beginning nor *)
(* newer than the file, and a cache whose content and identity differ has   *)
(* been recorded as torn.                                                   *)
CallsInOrder ==
  \A c \in Calls : /\ since[c] <= file
                   /\ loaded[c] <= file
                   /\ pc[c] = "restat" => since[c] <= loaded[c]

TornRecorded == cached # identity => identity \in torn

CacheInv == CacheTypeOK /\ CallsInOrder /\ TornRecorded /\ CachedNotAhead /\ AnswersAreFresh

LEMMA CacheInvInit == CacheInit => CacheInv
<1> SUFFICES ASSUME CacheInit PROVE CacheInv
  OBVIOUS
<1>1. CacheTypeOK
  BY ReadCacheAssumption DEF CacheInit, CacheTypeOK
<1>2. CallsInOrder /\ TornRecorded
  BY DEF CacheInit, CallsInOrder, TornRecorded
<1>3. CachedNotAhead /\ AnswersAreFresh
  BY DEF CacheInit, CachedNotAhead, AnswersAreFresh
<1> QED
  BY <1>1, <1>2, <1>3 DEF CacheInv

LEMMA CacheInvStep == CacheInv /\ [CacheNext]_cacheVars => CacheInv'
<1> SUFFICES ASSUME CacheInv, [CacheNext]_cacheVars
             PROVE  CacheInv'
  OBVIOUS
<1> USE DEF CacheInv
<1>1. CASE Save
  <2>1. CacheTypeOK'
    BY <1>1, ReadCacheAssumption DEF Save, CacheTypeOK
  <2>2. CallsInOrder'
    BY <1>1 DEF Save, CacheTypeOK, CallsInOrder
  <2>3. TornRecorded' /\ CachedNotAhead' /\ AnswersAreFresh'
    BY <1>1 DEF Save, CacheTypeOK, TornRecorded, CachedNotAhead, AnswersAreFresh
  <2> QED
    BY <2>1, <2>2, <2>3
<1>2. ASSUME NEW c \in Calls, Stat(c) PROVE CacheInv'
  <2>1. /\ since' = [since EXCEPT ![c] = file]
        /\ file' = file /\ cached' = cached /\ identity' = identity
        /\ loaded' = loaded /\ torn' = torn
    BY <1>2 DEF Stat
  <2>2. TornRecorded' /\ CachedNotAhead'
    BY <2>1 DEF TornRecorded, CachedNotAhead
  <2>3. CASE Hit
    <3>1. pc' = pc /\ answer' = [since |-> file, hit |-> TRUE, room |-> cached]
      BY <1>2, <2>3 DEF Stat
    <3>2. CacheTypeOK'
      BY <2>1, <3>1 DEF CacheTypeOK
    <3>3. CallsInOrder'
      BY <1>2, <2>1, <3>1 DEF Stat, CacheTypeOK, CallsInOrder
    <3>4. AnswersAreFresh'
      BY <2>1, <2>3, <3>1 DEF CacheTypeOK, Hit, TornRecorded, AnswersAreFresh
    <3> QED
      BY <2>2, <3>2, <3>3, <3>4
  <2>4. CASE ~Hit
    <3>1. pc' = [pc EXCEPT ![c] = "load"] /\ answer' = answer
      BY <1>2, <2>4 DEF Stat
    <3>2. CacheTypeOK'
      BY <2>1, <3>1 DEF CacheTypeOK
    <3>3. CallsInOrder'
      BY <2>1, <3>1 DEF CacheTypeOK, CallsInOrder
    <3>4. AnswersAreFresh'
      BY <2>1, <3>1 DEF AnswersAreFresh
    <3> QED
      BY <2>2, <3>2, <3>3, <3>4
  <2> QED
    BY <2>3, <2>4
<1>3. ASSUME NEW c \in Calls, Load(c) PROVE CacheInv'
  <2>1. CacheTypeOK'
    BY <1>3 DEF Load, CacheTypeOK
  <2>2. CallsInOrder'
    BY <1>3 DEF Load, CacheTypeOK, CallsInOrder
  <2>3. TornRecorded' /\ CachedNotAhead' /\ AnswersAreFresh'
    BY <1>3 DEF Load, TornRecorded, CachedNotAhead, AnswersAreFresh
  <2> QED
    BY <2>1, <2>2, <2>3
<1>4. ASSUME NEW c \in Calls, Restat(c) PROVE CacheInv'
  <2>1. CacheTypeOK'
    BY <1>4, ReadCacheAssumption DEF Restat, Fill, CacheTypeOK
  <2>2. CallsInOrder'
    BY <1>4 DEF Restat, CacheTypeOK, CallsInOrder
  <2>3. CachedNotAhead'
    BY <1>4 DEF Restat, Fill, CacheTypeOK, CallsInOrder, CachedNotAhead
  <2>4. TornRecorded'
    BY <1>4 DEF Restat, Fill, CacheTypeOK, CallsInOrder, TornRecorded
  <2>5. AnswersAreFresh'
    BY <1>4 DEF Restat, CacheTypeOK, CallsInOrder, AnswersAreFresh
  <2> QED
    BY <2>1, <2>2, <2>3, <2>4, <2>5
<1>5. CASE UNCHANGED cacheVars
  BY <1>5 DEF cacheVars, CacheTypeOK, CallsInOrder, TornRecorded, CachedNotAhead, AnswersAreFresh
<1> QED
  BY <1>1, <1>2, <1>3, <1>4, <1>5 DEF CacheNext, Read

(* However calls and saves overlap, the cache and every call hold a version *)
(* of the room that exists, and the cache an identity of one.               *)
THEOREM CacheTypeCorrect == CacheSpec => []CacheTypeOK
<1>1. CacheInv => CacheTypeOK
  BY DEF CacheInv
<1> QED
  BY <1>1, CacheInvInit, CacheInvStep, PTL DEF CacheSpec

(* A readState call that begins after a save answers with that save, unless *)
(* the save fell into the window between some call's load and second stat.  *)
THEOREM AnswersAreFreshHolds == CacheSpec => []AnswersAreFresh
<1>1. CacheInv => AnswersAreFresh
  BY DEF CacheInv
<1> QED
  BY <1>1, CacheInvInit, CacheInvStep, PTL DEF CacheSpec

(* The cache never holds content under an identity older than the content,  *)
(* however the calls that fill it overlap.                                  *)
THEOREM CachedNotAheadHolds == CacheSpec => []CachedNotAhead
<1>1. CacheInv => CachedNotAhead
  BY DEF CacheInv
<1> QED
  BY <1>1, CacheInvInit, CacheInvStep, PTL DEF CacheSpec
=============================================================================
