-------------------------- MODULE MCSubscriptions --------------------------
(* Small instances of Subscriptions for TLC.                               *)
EXTENDS Subscriptions, TLC

Symmetry == Permutations(Worker) \cup Permutations(Row)
=============================================================================
