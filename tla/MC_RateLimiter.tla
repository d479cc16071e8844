---------------------------- MODULE MC_RateLimiter ----------------------------
(* Two clients, a limit of 2 requests per window of 2 ticks, 5 ticks. *)
EXTENDS RateLimiter

CONSTANTS c1, c2

MCClients == {c1, c2}

MCSymmetry == Permutations(MCClients)
=============================================================================
