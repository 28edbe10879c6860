---------------------------- MODULE MCRateLimiter ----------------------------
(* Model-checking instance of RateLimiter: see the MCRateLimiter*.cfg files. *)
EXTENDS RateLimiter, TLC

ClientSymmetry == Permutations(Clients) \cup Permutations(Callers)
=============================================================================
