------------------------------- MODULE MCBridge -------------------------------
(* Bridge on a small instance: two variants of one chat model, whose bare   *)
(* name stands for the larger, and an embedding model.                      *)
EXTENDS Bridge, TLC

CONSTANTS small, latest, embed, llama, nomic

MCRank == (latest :> 3) @@ (small :> 2) @@ (embed :> 1)
MCBase == (latest :> llama) @@ (small :> llama) @@ (embed :> nomic)
MCLatest == (llama :> latest) @@ (nomic :> embed)

Symmetry == Permutations(Requests)
=============================================================================
