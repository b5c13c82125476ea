--------------------------- MODULE MCRateLimiter ----------------------------
(* RateLimiter on a small instance: one key with a limit of its own and    *)
(* one that falls back on the platform's default.                          *)
EXTENDS RateLimiter, TLC

CONSTANTS own, fallback

MCKeyLimit == own :> 1 @@ fallback :> 0
Symmetry == Permutations(Calls)
=============================================================================
