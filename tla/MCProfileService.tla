--------------------------- MODULE MCProfileService ---------------------------
(* Model-checking instance of ProfileService: see MCProfileService*.cfg. *)
EXTENDS ProfileService, TLC

CONSTANTS r1, r2, r3, ada, Ada, bob

\* Two spellings of one member, and another member.
MCFold == [id \in Ids |-> IF id = Ada THEN ada ELSE id]
MCKeys == [id : Ids, contact : BOOLEAN]
MCPayloads == [id : Ids, contact : BOOLEAN, at : 0..Horizon]

RequestSymmetry == Permutations(Requests)
=============================================================================
