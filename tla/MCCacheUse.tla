------------------------------ MODULE MCCacheUse ------------------------------
(* Model-checking instance of CacheUse: see MCCacheUse.cfg. *)
EXTENDS CacheUse, TLC

KeySymmetry == Permutations(Keys) \cup Permutations(Payloads)
=============================================================================
