----------------------------- MODULE MCSessions -----------------------------
(* Sessions on a small instance.  Users, token identifiers and request     *)
(* slots are interchangeable, and no property is a liveness property.      *)
EXTENDS Sessions, TLC

Symmetry == Permutations(Users) \cup Permutations(Jtis) \cup Permutations(Requests)
=============================================================================
