--------------------------- MODULE MCDecisionDesk ---------------------------
(* DecisionDesk on a small instance: the requests are interchangeable.     *)
EXTENDS DecisionDesk, TLC

RequestSymmetry == Permutations(Requests)
=============================================================================
