---------------------------- MODULE MCNetworkSync ----------------------------
(***************************************************************************)
(* A small instance of NetworkSync: every message is for the second        *)
(* machine; the newer of two messages takes most of the budget.            *)
(***************************************************************************)
EXTENDS NetworkSync, FiniteSetsExt

CONSTANTS n1, n2

ToSecond == [m \in Ids |-> n2]

Size == [m \in Ids |-> IF m = 2 THEN 3 ELSE 1]

MaxChars == 3

FitBudget ==
  [ids \in SUBSET Ids |-> MapThenSumSet(LAMBDA m : Size[m], ids) <= MaxChars]

Beats == [n \in Nodes |-> IF n = n1 THEN 1 ELSE 0]

OneWay == {<<n1, n2>>}
=============================================================================
