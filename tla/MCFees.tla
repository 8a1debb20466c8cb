------------------------------- MODULE MCFees -------------------------------
(* Small instances of Fees: the pairs are interchangeable. *)
EXTENDS Fees, TLC

Pairs == Permutations(Pair)
=============================================================================
