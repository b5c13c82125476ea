---------------------------- MODULE MCCompletions ----------------------------
(* Completions on a small instance: one user with two keys.                *)
EXTENDS Completions, TLC

CONSTANTS u1, k1, k2

MCOwner == [k \in {k1, k2} |-> u1]

Symmetry == Permutations(Keys) \cup Permutations(Requests)
=============================================================================
