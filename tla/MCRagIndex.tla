----------------------------- MODULE MCRagIndex -----------------------------
(* RagIndex on a small instance: a text is empty or several chunks long,   *)
(* the overlap is below the chunk size or equal to it.  No property is a   *)
(* liveness property.                                                      *)
EXTENDS RagIndex, TLC

Symmetry == Permutations(Docs) \cup Permutations(Deletes)

MCExtents == {0, 5}
MCChunkings == {[size |-> 2, overlap |-> o] : o \in {1, 2}}
=============================================================================
