------------------------------- MODULE MCHttpApi -------------------------------
(* Model-checking instance of HttpApi: see MCHttpApi*.cfg.  The URLs are the  *)
(* canonical one with at most one thing changed beside its path.              *)
EXTENDS HttpApi

MCIdentifiers == {"ada", "in"}

MCMember == {"in", "In", "iN", "IN"}

MCPaths ==
  {<<>>, <<"", "">>, <<"", "in">>, <<"", "in", "ada">>, <<"", "IN", "ada", "">>, <<"", "iN", "ada">>,
   <<"", "", "in", "", "in">>, <<"", "in", "no id">>, <<"", "in", "", "ada", "", "">>,
   <<"", "ada", "in">>, <<"", "pub", "ada">>, <<"", "in", "ada", "details">>}

Variants(u) ==
  {u, [u EXCEPT !.text = "empty"], [u EXCEPT !.text = "blank"], [u EXCEPT !.long = TRUE],
   [u EXCEPT !.control = TRUE], [u EXCEPT !.scheme = "none"], [u EXCEPT !.scheme = "http"],
   [u EXCEPT !.nested = TRUE], [u EXCEPT !.scheme = "none", !.nested = TRUE],
   [u EXCEPT !.wellFormed = FALSE], [u EXCEPT !.host = "foreign"], [u EXCEPT !.port = TRUE],
   [u EXCEPT !.user = TRUE], [u EXCEPT !.demonstration = TRUE],
   [u EXCEPT !.demonstration = TRUE, !.long = TRUE]}

MCUrls ==
  Variants(CanonicalURL("ada")) \cup
  {[CanonicalURL("ada") EXCEPT !.path = path, !.scheme = scheme] :
     path \in MCPaths, scheme \in {"https", "none"}}
=============================================================================
