--------------------------- MODULE MCLinkedInClient ---------------------------
(* Model-checking instance of LinkedInClient: see MCLinkedInClient*.cfg. *)
EXTENDS LinkedInClient

ThreeSections == <<"skills", "courses", "honors">>
=============================================================================
