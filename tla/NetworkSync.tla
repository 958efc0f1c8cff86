----------------------------- MODULE NetworkSync -----------------------------
(***************************************************************************)
(* The rooms of several machines and the exchanges of their network nodes  *)
(* (network-service.mjs), with the retention rules every writer applies    *)
(* (state-rules.mjs).                                                      *)
(*                                                                         *)
(* A sync of one peer is three requests with an await after each: fetch    *)
(* the peer's room, merge it into the node's own, post the result back.  A *)
(* request that times out may still be served later, or never.  A room     *)
(* transaction is one step, which is what StateFile says of it.            *)
(*                                                                         *)
(* Messages are numbered by createdAt, a tick of one clock; a room has the *)
(* progress of each, and for each machine's session the record's updatedAt *)
(* and whether it names a branch.  The clocks of the machines agree.       *)
(***************************************************************************)
EXTENDS Integers, FiniteSets

CONSTANTS
  Nodes,        (* machines                                                 *)
  Pairs,        (* <<a, b>>: b is among the peers a's node syncs            *)
  To,           (* the machine of each message's recipient                  *)
  Retention,    (* messageRetentionMs                                       *)
  MaxMessages,  (* maxMessages: 5000                                        *)
  Fits,         (* whether the texts of a set of messages fit               *)
                (* maxMessageChars                                          *)
  MaxClock,     (* bound: the clock stops here                              *)
  MaxBeats,     (* bound: writes of each machine's session record           *)
  MaxLate       (* bound: posts a node gave up on that are still under way  *)

Ids == 1..MaxClock

ASSUME NetworkSyncAssumption ==
  /\ Pairs \subseteq {p \in Nodes \X Nodes : p[1] # p[2]}
  /\ MaxClock \in Nat
  /\ To \in [Ids -> Nodes]
  /\ Retention \in Nat
  /\ MaxMessages \in Nat
  /\ Fits \in [SUBSET Ids -> BOOLEAN]
  /\ \A some, more \in SUBSET Ids :
       some \subseteq more /\ Fits[more] => Fits[some]
  /\ MaxBeats \in [Nodes -> Nat]
  /\ MaxLate \in Nat

VARIABLES
  clock,  (* Date.now()                                                     *)
  room,   (* the room of each machine                                       *)
  pc,     (* where each node's sync of each peer is                         *)
  held,   (* the room each sync holds                                       *)
  late    (* posts under way that nobody awaits: to whom, and what          *)

vars == <<clock, room, pc, held, late>>

(* What a room knows of a message: that it is not there, was sent, or has   *)
(* been stamped.                                                            *)
Absent == -1
Sent == 0
Stamped == 1

Sessions == [Nodes -> [at : Nat, branch : BOOLEAN]]

Rooms == [progress : [Ids -> {Absent, Sent, Stamped}], session : Sessions]

Empty ==
  [progress |-> [m \in Ids |-> Absent],
   session |-> [n \in Nodes |-> [at |-> 0, branch |-> FALSE]]]

-----------------------------------------------------------------------------
(* The rules.                                                               *)

Fresh(ids) == {m \in ids : clock' - m <= Retention}

(* By number, then by characters, the oldest first: the messages kept of a   *)
(* set of messages.                                                         *)
Newest(ids) == {m \in ids : Cardinality({x \in ids : x > m}) < MaxMessages}

WithinBudget(ids) == {m \in ids : Fits[{x \in ids : x >= m}]}

Kept == [ids \in SUBSET Ids |-> WithinBudget(Newest(ids))]

Present(r) == {m \in Ids : r.progress[m] # Absent}

(* pruneState.                                                              *)
Prune(r) ==
  LET kept == Kept[Fresh(Present(r))]
  IN  [r EXCEPT !.progress = [m \in Ids |-> IF m \in kept THEN @[m] ELSE Absent]]

(* Mutants of MergeProgress: the copy merged into wins, the one that comes  *)
(* in wins, the stamps of both are counted.                                 *)
MergeProgressLeft(left, right) ==
  [m \in Ids |-> IF left[m] = Absent THEN right[m] ELSE left[m]]

MergeProgressRight(left, right) ==
  [m \in Ids |-> IF right[m] = Absent THEN left[m] ELSE right[m]]

MergeProgressCounted(left, right) ==
  [m \in Ids |-> IF left[m] = Absent \/ right[m] = Absent
                 THEN MergeProgressLeft(left, right)[m] ELSE left[m] + right[m]]

(* mergeRecords of messages: the stamps of both.                            *)
MergeProgress(left, right) ==
  [m \in Ids |-> IF left[m] >= right[m] THEN left[m] ELSE right[m]]

(* Mutant of MergeSession: a record that changes in the merge is an update. *)
MergeSessionTouched(left, right) ==
  [at |-> IF right.at > left.at THEN right.at + 1 ELSE left.at,
   branch |-> left.branch \/ right.branch]

(* mergeRecords of a session: the newer one, with the fields it lacks taken *)
(* from the older.                                                          *)
MergeSession(left, right) ==
  [at |-> IF right.at > left.at THEN right.at ELSE left.at,
   branch |-> left.branch \/ right.branch]

(* mergeStates.                                                             *)
Merge(left, right) ==
  Prune([progress |-> MergeProgress(left.progress, right.progress),
         session |-> [n \in Nodes |-> MergeSession(left.session[n], right.session[n])]])

-----------------------------------------------------------------------------

Init ==
  /\ clock = 0
  /\ room = [n \in Nodes |-> Empty]
  /\ pc = [p \in Pairs |-> "idle"]
  /\ held = [p \in Pairs |-> Empty]
  /\ late = {}

(* A session on machine n sends a message.                                  *)
Send(n) ==
  /\ clock < MaxClock
  /\ clock' = clock + 1
  /\ room' = [room EXCEPT ![n] = Prune([@ EXCEPT !.progress[clock'] = Sent])]
  /\ UNCHANGED <<pc, held, late>>

Tick ==
  /\ clock < MaxClock
  /\ clock' = clock + 1
  /\ UNCHANGED <<room, pc, held, late>>

(* The recipient is shown a message.                                        *)
Stamp(m) ==
  /\ room[To[m]].progress[m] = Sent
  /\ UNCHANGED clock
  /\ room' = [room EXCEPT ![To[m]] = Prune([@ EXCEPT !.progress[m] = Stamped])]
  /\ UNCHANGED <<pc, held, late>>

(* The session of machine n writes its record.                              *)
Beat(n) ==
  /\ room[n].session[n].at < MaxBeats[n]
  /\ UNCHANGED clock
  /\ \E branch \in BOOLEAN :
       room' = [room EXCEPT ![n] = Prune([@ EXCEPT !.session[n] =
                  [at |-> room[n].session[n].at + 1, branch |-> branch]])]
  /\ UNCHANGED <<pc, held, late>>

(* syncPeer: the peer's room is fetched, cleaned on both sides.             *)
Fetch(p) ==
  /\ pc[p] = "idle"
  /\ UNCHANGED clock
  /\ held' = [held EXCEPT ![p] = Prune(room[p[2]])]
  /\ pc' = [pc EXCEPT ![p] = "fetched"]
  /\ UNCHANGED <<room, late>>

(* Then it is merged into the node's own, and the result posted.            *)
MergeIn(p) ==
  /\ pc[p] = "fetched"
  /\ UNCHANGED clock
  /\ held' = [held EXCEPT ![p] = Merge(Prune(room[p[1]]), held[p])]
  /\ room' = [room EXCEPT ![p[1]] = held'[p]]
  /\ pc' = [pc EXCEPT ![p] = "posted"]
  /\ UNCHANGED late

(* The peer serves the post.                                                *)
Serve(to, body) == room' = [room EXCEPT ![to] = Merge(Prune(@), Prune(body))]

Post(p) ==
  /\ pc[p] = "posted"
  /\ UNCHANGED clock
  /\ Serve(p[2], held[p])
  /\ pc' = [pc EXCEPT ![p] = "idle"]
  /\ held' = [held EXCEPT ![p] = Empty]
  /\ UNCHANGED late

(* A request fails, or its answer is not awaited any longer; a post that    *)
(* was under way may be served later.                                       *)
GiveUp(p) ==
  /\ pc[p] # "idle"
  /\ pc' = [pc EXCEPT ![p] = "idle"]
  /\ held' = [held EXCEPT ![p] = Empty]
  /\ \/ UNCHANGED late
     \/ /\ pc[p] = "posted" /\ Cardinality(late) < MaxLate
        /\ late' = late \cup {[to |-> p[2], body |-> held[p]]}
  /\ UNCHANGED <<clock, room>>

ServeLate(post) ==
  /\ UNCHANGED clock
  /\ Serve(post.to, post.body)
  /\ late' = late \ {post}
  /\ UNCHANGED <<pc, held>>

Sync(p) == Fetch(p) \/ MergeIn(p) \/ Post(p) \/ GiveUp(p)

Next ==
  \/ Tick
  \/ \E n \in Nodes : Send(n) \/ Beat(n)
  \/ \E m \in Ids : Stamp(m)
  \/ \E p \in Pairs : Sync(p)
  \/ \E post \in late : ServeLate(post)

Spec == Init /\ [][Next]_vars

(* Every node syncs each peer again and again, and is not cut off for ever. *)
Fairness ==
  \A p \in Pairs : WF_vars(Fetch(p)) /\ SF_vars(MergeIn(p)) /\ SF_vars(Post(p))

FairSpec == Spec /\ Fairness

-----------------------------------------------------------------------------
(* Properties.                                                              *)

(* Every variable keeps its type.                                           *)
TypeOK ==
  /\ clock \in 0..MaxClock
  /\ room \in [Nodes -> Rooms]
  /\ pc \in [Pairs -> {"idle", "fetched", "posted"}]
  /\ held \in [Pairs -> Rooms]
  /\ late \subseteq [to : Nodes, body : Rooms]

(* No room, and no snapshot on its way, is ahead of a session's own machine *)
(* in that session's record.                                                *)
NobodyAhead ==
  \A n \in Nodes :
    LET own == room[n].session[n].at
    IN  /\ \A o \in Nodes : room[o].session[n].at <= own
        /\ \A p \in Pairs : held[p].session[n].at <= own
        /\ \A post \in late : post.body.session[n].at <= own

(* A stale snapshot, whenever it is served, takes no stamp from a message   *)
(* and puts no older session record in place of a newer one.                *)
StampsKept ==
  [][\A n \in Nodes :
       /\ \A m \in Ids : room[n].progress[m] = Stamped => room'[n].progress[m] # Sent
       /\ \A o \in Nodes : room'[n].session[o].at >= room[n].session[o].at]_room

(* The rooms come to agree, on what the rules keep, once nobody writes.     *)
Converge ==
  <>[](\A n, o \in Nodes : room[n] = room[o])
=============================================================================
