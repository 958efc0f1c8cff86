---------------------------- MODULE MCReadCache ----------------------------
(***************************************************************************)
(* Small instances of ReadCache.  The calls are interchangeable: nothing   *)
(* is ordered or chosen by a call.                                         *)
(***************************************************************************)
EXTENDS ReadCache, TLC

CallSymmetry == Permutations(Calls)
=============================================================================
