--------------------------- MODULE MessageDelivery ---------------------------
(***************************************************************************)
(* How one open Pi session gets the direct messages addressed to it        *)
(* (extension.ts): the poll that wakes it, the inbox it may read itself,   *)
(* the pulse at the start of each turn, and the delivered and read stamps  *)
(* they leave in the room.                                                 *)
(*                                                                         *)
(* Messages are numbered by createdAt.  They reach the room in any order   *)
(* (a peer's clock, or a network sync, may be late).  A room transaction   *)
(* is one step that may raise instead, which is what StateFile says of it; *)
(* everything between two awaits of the poll or the inbox is one step.     *)
(* What readState answers is the file or, as ReadCache says, what a torn       *)
(* cache holds: an older room, until the file changes again.               *)
(***************************************************************************)
EXTENDS Integers, FiniteSets

CONSTANTS
  Messages,     (* the direct messages to this session, by createdAt       *)
  DoneSignals,  (* those whose whole text is the terminal signal           *)
  MaxBatch,     (* MAX_WAKE_BATCH: 5                                       *)
  SentCap,      (* locallySent is trimmed above this size: 400             *)
  SentDrop,     (* and then loses this many of its oldest ids: 200         *)
  PulseLines,   (* unread messages a pulse shows: 4                        *)
  MaxCrashes    (* bound: times the session's process ends and is resumed  *)

ASSUME MessageDeliveryAssumption ==
  /\ Messages \subseteq Nat \ {0}
  /\ IsFiniteSet(Messages)
  /\ DoneSignals \subseteq Messages
  /\ MaxBatch \in Nat \ {0}
  /\ SentCap \in Nat
  /\ SentDrop \in Nat \ {0}
  /\ PulseLines \in Nat
  /\ MaxCrashes \in Nat

VARIABLES
  room,       (* messages in the room                                       *)
  delivered,  (* those with a deliveredAt stamp                             *)
  read,       (* those with a readAt stamp                                  *)
  open,       (* the session's process runs                                 *)
  pollPc,     (* where deliverPendingMessages is                            *)
  pending,    (* what the poll read from the room                           *)
  sentPos,    (* locallySent: position by insertion, 0 for an id not in it  *)
  inGap,      (* less than WAKE_MIN_GAP_MS since lastAutoWakeAt             *)
  inboxPc,    (* where an inbox action is                                   *)
  listed,     (* the unread messages the inbox action has read              *)
  tornRoom,   (* the older room that a torn readCache answers with, if any  *)
  crashes     (* history: processes of this session that have ended         *)

(* History variables for the properties only.                               *)
VARIABLES
  arrived,    (* every message ever put in the room                         *)
  shown,      (* put before the agent or user: a wake, a pulse, an inbox    *)
  pushed,     (* sent as a wake by the running process                      *)
  again,      (* sent as a wake twice or more by the running process        *)
  forgotten,  (* evicted from locallySent of the running process            *)
  slipped,    (* stamped by an inbox action, or about to be, though it came *)
              (* after the room that the action was answered with           *)
  lost,       (* listed and stamped by an inbox action that was cut off     *)
  recentWake, (* less than WAKE_MIN_GAP_MS since the last wake turn         *)
  unstamped   (* the stamps of that wake failed                              *)

roomVars == <<room, delivered, read, arrived>>
pollVars == <<pollPc, pending>>
inboxVars == <<inboxPc, listed>>
lifeVars == <<open, crashes>>
wakeVars == <<sentPos, inGap, recentWake, pushed, again, forgotten, unstamped>>
seenVars == <<shown, slipped, lost>>
vars == <<roomVars, pollVars, inboxVars, lifeVars, wakeVars, seenVars, tornRoom>>

Init ==
  /\ room = {} /\ delivered = {} /\ read = {} /\ arrived = {}
  /\ open = TRUE /\ crashes = 0
  /\ pollPc = "idle" /\ pending = {}
  /\ inboxPc = "idle" /\ listed = {}
  /\ sentPos = [m \in Messages |-> 0] /\ inGap = FALSE
  /\ tornRoom = {}
  /\ shown = {} /\ slipped = {} /\ lost = {}
  /\ pushed = {} /\ again = {} /\ forgotten = {}
  /\ recentWake = FALSE /\ unstamped = FALSE

(* The first n of a set of messages, oldest first.                          *)
Oldest(S, n) == {m \in S : Cardinality({x \in S : x < m}) < n}

(***************************************************************************)
(* readState: what it answers, and how a save may tear its cache.          *)
(***************************************************************************)

Views == [room : SUBSET Messages, undelivered : SUBSET Messages, unread : SUBSET Messages]
View == [room |-> room, undelivered |-> room \ delivered, unread |-> room \ read]

(* The file, or the cache if it holds an older room under its identity.     *)
Answers == {View} \cup tornRoom

(* Part of every save: the old identity is of no more use, and a read whose *)
(* load came before the save and whose second stat comes after it caches    *)
(* what it loaded, the room before this save or before an earlier one.      *)
SaveTears == tornRoom' \in IF open THEN {{}, {View}, tornRoom} \ {{View'}} ELSE {{}}

(* A save of the room that is none of the messages' business, such as the   *)
(* presence record's every HEARTBEAT_MS.                                    *)
Heartbeat ==
  /\ tornRoom # {}
  /\ tornRoom' = {}
  /\ UNCHANGED <<roomVars, pollVars, inboxVars, lifeVars, wakeVars, seenVars>>

(***************************************************************************)
(* The room: senders, the network and retention.                           *)
(***************************************************************************)

(* sendPeerMessage or replyToMessage of a peer, or a sync that brings it.   *)
Arrive(m) ==
  /\ m \notin arrived
  /\ room' = room \cup {m}
  /\ arrived' = arrived \cup {m}
  /\ slipped' = IF inboxPc = "mark" THEN slipped \cup {m} ELSE slipped
  /\ UNCHANGED <<delivered, read, pollVars, inboxVars, lifeVars, wakeVars, shown, lost>>
  /\ SaveTears

(* Retention drops the oldest message of the room, with its stamps.         *)
Drop ==
  /\ room # {}
  /\ room' = room \ Oldest(room, 1)
  /\ delivered' = delivered \cap room' /\ read' = read \cap room'
  /\ slipped' = slipped \cap room' /\ lost' = lost \cap room'
  /\ UNCHANGED <<arrived, pollVars, inboxVars, lifeVars, wakeVars, shown>>
  /\ SaveTears

(***************************************************************************)
(* deliverPendingMessages, one action per stretch between two awaits.      *)
(***************************************************************************)

(* Mutant of PollStart: no minimum gap.                                     *)
PollStartUngapped ==
  /\ open
  /\ pollPc = "idle"
  /\ pollPc' = "read"
  /\ UNCHANGED <<pending, roomVars, inboxVars, lifeVars, wakeVars, seenVars, tornRoom>>

(* The deliveryInFlight guard and the gap.                                  *)
PollStart ==
  /\ open
  /\ pollPc = "idle"
  /\ ~inGap
  /\ pollPc' = "read"
  /\ UNCHANGED <<pending, roomVars, inboxVars, lifeVars, wakeVars, seenVars, tornRoom>>

LocallySent == {m \in Messages : sentPos[m] > 0}

(* Mutant of Undelivered: locallySent is not consulted.                     *)
UndeliveredInRoom(v) == v.undelivered

Undelivered(v) == v.undelivered \ LocallySent

(* The poll returns or throws, and its locals are gone.                     *)
EndPoll == pollPc' = "idle" /\ pending' = {}

(* What readState answers may be old when it does, by its cache, and older  *)
(* still when the poll goes on with it, for it awaits a stat after its load. *)
PollRead ==
  /\ pollPc = "read"
  /\ \E v \in Answers :
       IF Undelivered(v) = {}
       THEN EndPoll
       ELSE /\ pending' = Undelivered(v)
            /\ pollPc' = IF Undelivered(v) \cap DoneSignals = {} THEN "send" ELSE "markDone"
  /\ UNCHANGED <<roomVars, inboxVars, lifeVars, wakeVars, seenVars, tornRoom>>

(* The done signals are stamped delivered without a wake; a raise ends the  *)
(* poll.                                                                    *)
PollMarkDone ==
  /\ pollPc = "markDone"
  /\ UNCHANGED <<room, read, arrived, inboxVars, lifeVars, wakeVars, seenVars>>
  /\ \/ /\ delivered' = delivered \cup (pending \cap DoneSignals \cap room)
        /\ IF pending \subseteq DoneSignals
           THEN EndPoll
           ELSE pollPc' = "send" /\ UNCHANGED pending
        /\ SaveTears
     \/ /\ EndPoll
        /\ UNCHANGED <<delivered, tornRoom>>

Queued == Oldest(pending \ DoneSignals, MaxBatch)

(* locallySent with a batch added, and without its oldest ids if that makes *)
(* it too large.                                                            *)
Added(batch) ==
  [m \in Messages |->
     IF m \in batch
     THEN Cardinality(LocallySent) + Cardinality({x \in batch : x <= m})
     ELSE sentPos[m]]

(* Mutant of Trimmed: the slice is one too long, and an evicted id keeps a  *)
(* position.                                                                *)
TrimmedBelow(pos) ==
  IF Cardinality({m \in Messages : pos[m] > 0}) > SentCap
  THEN [m \in Messages |-> pos[m] - SentDrop - 1]
  ELSE pos

Trimmed(pos) ==
  IF Cardinality({m \in Messages : pos[m] > 0}) > SentCap
  THEN [m \in Messages |-> IF pos[m] > SentDrop THEN pos[m] - SentDrop ELSE 0]
  ELSE pos

(* pi.sendMessage, which steers the turn under way, starts one or queues     *)
(* the wake: in which of these ways the agent sees it does not matter here.  *)
PollSend ==
  LET pos == Trimmed(Added(Queued)) IN
  /\ pollPc = "send"
  /\ sentPos' = pos
  /\ forgotten' = forgotten \cup {m \in LocallySent \cup Queued : pos[m] = 0}
  /\ again' = again \cup (Queued \cap pushed)
  /\ pushed' = pushed \cup Queued
  /\ shown' = shown \cup Queued
  /\ recentWake' = TRUE
  /\ unstamped' = FALSE
  /\ pollPc' = "stamp"
  /\ UNCHANGED <<pending, roomVars, inboxVars, lifeVars, inGap, slipped, lost, tornRoom>>

(* Mutant of PollSendThrows: the ids are in locallySent although the send   *)
(* failed.                                                                  *)
PollSendThrowsAdded ==
  /\ pollPc = "send"
  /\ EndPoll
  /\ sentPos' = Trimmed(Added(Queued))
  /\ UNCHANGED <<roomVars, inboxVars, lifeVars, inGap, recentWake, pushed,
                 again, forgotten, unstamped, seenVars, tornRoom>>

(* pi.sendMessage throws: the messages stay undelivered for the next poll.  *)
PollSendThrows ==
  /\ pollPc = "send"
  /\ EndPoll
  /\ UNCHANGED <<roomVars, inboxVars, lifeVars, wakeVars,
                 seenVars, tornRoom>>

(* Mutant of PollStamp: what was read is stamped, not what was sent.        *)
PollStampPending ==
  /\ pollPc = "stamp"
  /\ delivered' = delivered \cup (pending \cap room)
  /\ inGap' = TRUE
  /\ EndPoll
  /\ UNCHANGED <<room, read, arrived, inboxVars, lifeVars, sentPos,
                 recentWake, pushed, again, forgotten, unstamped, seenVars>>
  /\ SaveTears

(* The delivered stamps, then lastAutoWakeAt.                               *)
PollStamp ==
  /\ pollPc = "stamp"
  /\ delivered' = delivered \cup (Queued \cap room)
  /\ inGap' = TRUE
  /\ EndPoll
  /\ UNCHANGED <<room, read, arrived, inboxVars, lifeVars, sentPos,
                 recentWake, pushed, again, forgotten, unstamped, seenVars>>
  /\ SaveTears

(* The stamp's transaction raises, and the poll ends with it.               *)
PollStampRaises ==
  /\ pollPc = "stamp"
  /\ EndPoll
  /\ unstamped' = TRUE
  /\ UNCHANGED <<roomVars, inboxVars, lifeVars, sentPos, inGap,
                 recentWake, pushed, again, forgotten, seenVars, tornRoom>>

(* WAKE_MIN_GAP_MS after the wake; the gap is counted from the later stamp. *)
WakeAges ==
  /\ recentWake
  /\ recentWake' = FALSE /\ unstamped' = FALSE
  /\ UNCHANGED <<roomVars, pollVars, inboxVars, lifeVars, sentPos, inGap, pushed, again,
                 forgotten, seenVars, tornRoom>>

GapEnds ==
  /\ inGap
  /\ ~recentWake
  /\ inGap' = FALSE
  /\ UNCHANGED <<roomVars, pollVars, inboxVars, lifeVars, sentPos, recentWake, pushed, again,
                 forgotten, unstamped, seenVars, tornRoom>>

(***************************************************************************)
(* The inbox action and the /team inbox command, and pulses.               *)
(***************************************************************************)

(* The list is made of what readState answers; what arrived since then is   *)
(* not in it, and will be stamped if the action gets that far.              *)
InboxRead ==
  /\ open
  /\ inboxPc = "idle"
  /\ inboxPc' = "mark"
  /\ \E v \in Answers : /\ listed' = v.unread
                        /\ slipped' = slipped \cup (room \ v.room)
  /\ UNCHANGED <<roomVars, pollVars, lifeVars, wakeVars, shown, lost, tornRoom>>

(* markRead stamps every message to this session, in the file as it is.     *)
InboxMark ==
  /\ inboxPc = "mark"
  /\ inboxPc' = "show"
  /\ read' = read \cup room
  /\ delivered' = delivered \cup room
  /\ UNCHANGED <<room, arrived, listed, pollVars, lifeVars, wakeVars, seenVars>>
  /\ SaveTears

(* Only then is the list returned, or shown.                                *)
InboxShow ==
  /\ inboxPc = "show"
  /\ inboxPc' = "idle" /\ listed' = {}
  /\ shown' = shown \cup listed
  /\ UNCHANGED <<roomVars, pollVars, lifeVars, wakeVars, slipped, lost, tornRoom>>

(* markRead raises: the caller gets the error in place of the list.         *)
InboxMarkRaises ==
  /\ inboxPc = "mark"
  /\ inboxPc' = "idle" /\ listed' = {}
  /\ slipped' = slipped \cap delivered
  /\ UNCHANGED <<roomVars, pollVars, lifeVars, wakeVars, shown, lost, tornRoom>>

(* The unread messages that before_agent_start puts in a turn's pulse.      *)
Pulse(v) == Oldest(v.unread, PulseLines)

(* before_agent_start shows the oldest unread messages in the pulse.        *)
TurnStart ==
  /\ open
  /\ \E v \in Answers : shown' = shown \cup Pulse(v)
  /\ UNCHANGED <<roomVars, pollVars, inboxVars, lifeVars, wakeVars, slipped, lost, tornRoom>>

(***************************************************************************)
(* The process ends between any two steps, and the session is resumed.     *)
(***************************************************************************)

Crash ==
  /\ open
  /\ crashes < MaxCrashes
  /\ open' = FALSE /\ crashes' = crashes + 1
  /\ EndPoll
  /\ inboxPc' = "idle" /\ listed' = {}
  /\ sentPos' = [m \in Messages |-> 0] /\ inGap' = FALSE
  /\ pushed' = {} /\ again' = {} /\ forgotten' = {}
  /\ recentWake' = FALSE /\ unstamped' = FALSE /\ tornRoom' = {}
  /\ lost' = IF inboxPc = "show" THEN lost \cup listed ELSE lost
  /\ slipped' = slipped \cap delivered
  /\ UNCHANGED <<roomVars, shown>>

Resume ==
  /\ ~open
  /\ open' = TRUE
  /\ UNCHANGED <<roomVars, pollVars, inboxVars, crashes, wakeVars, seenVars, tornRoom>>

Poll ==
  \/ PollStart \/ PollRead \/ PollMarkDone \/ PollSend \/ PollSendThrows
  \/ PollStamp \/ PollStampRaises

Inbox == InboxRead \/ InboxMark \/ InboxShow \/ InboxMarkRaises

Next ==
  \/ \E m \in Messages : Arrive(m)
  \/ Drop
  \/ Heartbeat
  \/ Poll
  \/ WakeAges \/ GapEnds
  \/ Inbox
  \/ TurnStart
  \/ Crash \/ Resume

Spec == Init /\ [][Next]_vars

(* The inbox timer and time run on, a poll that has started goes on, the    *)
(* presence clock saves, a closed session is resumed, and neither the room  *)
(* nor Pi fails for ever.                                                   *)
Fairness ==
  /\ WF_vars(Poll)
  /\ WF_vars(Heartbeat)
  /\ WF_vars(WakeAges \/ GapEnds)
  /\ WF_vars(Resume)
  /\ SF_vars(PollSend)
  /\ SF_vars(PollMarkDone /\ delivered' # delivered)

FairSpec == Spec /\ Fairness

-----------------------------------------------------------------------------

TypeOK ==
  /\ room \subseteq Messages /\ delivered \subseteq Messages
  /\ read \subseteq Messages /\ arrived \subseteq Messages
  /\ open \in BOOLEAN /\ crashes \in 0..MaxCrashes
  /\ pollPc \in {"idle", "read", "markDone", "send", "stamp"}
  /\ pending \subseteq Messages
  /\ inboxPc \in {"idle", "mark", "show"} /\ listed \subseteq Messages
  /\ sentPos \in [Messages -> Nat] /\ inGap \in BOOLEAN
  /\ tornRoom \subseteq Views
  /\ shown \subseteq Messages /\ slipped \subseteq Messages /\ lost \subseteq Messages
  /\ pushed \subseteq Messages /\ again \subseteq Messages /\ forgotten \subseteq Messages
  /\ recentWake \in BOOLEAN /\ unstamped \in BOOLEAN

(* One process never wakes its session twice for a message, however often   *)
(* the stamp fails, unless locallySent has outgrown its cap and lost it.    *)
WokenOnce == again \subseteq forgotten

(* A message stamped delivered has been put before the session or is a done *)
(* signal, but for three kinds an inbox action stamps: those that arrived   *)
(* after what it was answered with, which a torn cache makes old; those it  *)
(* is about to show; and those its process ended without showing.           *)
Answering == IF inboxPc = "show" THEN listed ELSE {}
StampedWasShown == delivered \subseteq shown \cup DoneSignals \cup slipped \cup Answering \cup lost

(* When an inbox action shows its list, the file has every message of it    *)
(* that it still holds stamped, however old the answer was that the list    *)
(* was made of: a poll that sees the file from then on does not wake for    *)
(* it.  One already on its way, or answered by a torn cache, still may.     *)
InspectedIsDelivered == Answering \cap room \subseteq delivered

(* Two wake turns are WAKE_MIN_GAP_MS apart unless a stamp has failed.      *)
WakesSpaced ==
  [][pollPc = "send" /\ pollPc' = "stamp" => ~recentWake \/ unstamped]_vars

(* Every message that stays in the room is put before the session or has    *)
(* been stamped, across failures of Pi and of the room and across restarts. *)
EventuallyDelivered ==
  \A m \in Messages : m \in room ~> (m \in shown \cup delivered \/ m \notin room)

-----------------------------------------------------------------------------
(* What the documents say and the code does not do.                         *)

(* extension.ts: the stamps of markRead are for a "manually inspected       *)
(* message"; a message that is stamped delivered was seen in some way.      *)
DeliveredMeansShown == delivered \subseteq shown \cup DoneSignals
=============================================================================
