----------------------------- MODULE MCCredentials -----------------------------
(* Model-checking instance of Credentials: see MCCredentials*.cfg. *)
EXTENDS Credentials, TLC

CallSymmetry == Permutations(Calls)
=============================================================================
