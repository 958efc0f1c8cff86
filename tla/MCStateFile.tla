---------------------------- MODULE MCStateFile ----------------------------
(***************************************************************************)
(* Small instances of StateFile: see the .cfg of each run.                 *)
(***************************************************************************)
EXTENDS StateFile
=============================================================================
