--------------------------- MODULE MCSessionRecord ---------------------------
(***************************************************************************)
(* Small instances of SessionRecord: a second call under way while the     *)
(* first one waits.                                                        *)
(***************************************************************************)
EXTENDS SessionRecord, TLC

CallSymmetry == Permutations(Calls)
=============================================================================
