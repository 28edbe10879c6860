----------------------------- MODULE MCDeployment -----------------------------
(* Model-checking instance of Deployment: see MCDeployment.cfg. *)
EXTENDS Deployment

CONSTANTS r1, r2, ada, bob

MCFold == [id \in Ids |-> id]
MCKeys == [id : Ids, contact : BOOLEAN]
MCPayloads == [id : Ids, contact : BOOLEAN, at : 0..Horizon]
MCConfigurations == {<<"absent", TRUE>>, <<"absent", FALSE>>}
=============================================================================
