------------------------------ MODULE AtomicRoom ------------------------------
(***************************************************************************)
(* What the room file promises its users: a set of records, one per writer,*)
(* each replaced by a newer version in one indivisible step that leaves    *)
(* every other record alone.  No lock, no reads, no crashes.               *)
(***************************************************************************)
EXTENDS Integers

CONSTANTS Writers, MaxUpdates

VARIABLES
  room,   (* the version of each writer's record                            *)
  saved   (* the newest version each writer was told is saved               *)

roomVars == <<room, saved>>

RoomInit ==
  /\ room = [w \in Writers |-> 0]
  /\ saved = [w \in Writers |-> 0]

(* A newer version of w's record enters the room, and w is told so.         *)
Put(w) ==
  /\ \E v \in room[w]+1 .. MaxUpdates :
       /\ room' = [room EXCEPT ![w] = v]
       /\ saved' = [saved EXCEPT ![w] = v]

RoomNext == \E w \in Writers : Put(w)

RoomSpec == RoomInit /\ [][RoomNext]_roomVars
=============================================================================
