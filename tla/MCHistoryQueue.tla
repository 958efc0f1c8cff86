--------------------------- MODULE MCHistoryQueue ---------------------------
(***************************************************************************)
(* Small instances of HistoryQueue: see the .cfg of each run.              *)
(***************************************************************************)
EXTENDS HistoryQueue
=============================================================================
