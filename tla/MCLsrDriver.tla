---------------------------- MODULE MCLsrDriver ----------------------------
(* LsrDriver on a small instance: the trade outcomes are interchangeable.  *)
EXTENDS LsrDriver, TLC

OutcomeSymmetry == Permutations(Outcomes)
=============================================================================
