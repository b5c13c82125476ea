---------------------------- MODULE MCModelAdmin ----------------------------
(* ModelAdmin on a small instance: the default chat model; another tag of  *)
(* the same model, which it can stand in for; the embedding model, named   *)
(* in the settings without a tag.                                          *)
EXTENDS ModelAdmin, TLC

CONSTANTS latest, other, embed, bareEmbed

Tags == [n \in Names |-> IF n = bareEmbed THEN embed ELSE n]

TagsOfOne ==
    [n \in Names |->
        CASE n = other -> {latest}
          [] n = bareEmbed -> {embed}
          [] OTHER -> {}]

Symmetry == Permutations(Requests)
=============================================================================
