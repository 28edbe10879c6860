----------------------------- MODULE Subsequences -----------------------------
(***************************************************************************)
(* The loops that go over a list and append what they keep to another one: *)
(* fetchSections over its results (linkedin/linkedin.go), and              *)
(* ParseLinkedInProfileURL over the parts of a path (utils/url_utils.go).  *)
(* The element that ends up at place k is the one at the k-th position     *)
(* kept, which says it without a loop, and so without an induction.        *)
(***************************************************************************)
EXTENDS Naturals, Sequences, FiniteSets

\* How many of the positions kept are at most i.
Rank(kept, i) == Cardinality({j \in kept : j <= i})

Subsequence(list, kept) ==
  [k \in 1..Cardinality(kept) |-> list[CHOOSE i \in kept : Rank(kept, i) = k]]

\* The elements of the list that pass the test of the loop.
Filtered(list, Test(_)) == Subsequence(list, {i \in DOMAIN list : Test(list[i])})
=============================================================================
