------------------------------- MODULE MCTxn -------------------------------
(* Instances of Txn for TLC.                                               *)
EXTENDS Txn, TLC

Symmetry == Permutations(Request) \cup Permutations(Reader)
=============================================================================
