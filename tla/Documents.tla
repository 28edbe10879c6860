------------------------------- MODULE Documents -------------------------------
(***************************************************************************)
(* What a document of LinkedIn says about whose profile it is:             *)
(* identity/identity.go, and matchesPrimaryIdentity of                     *)
(* linkedin/linkedin.go, by which the client decides whether a document is *)
(* the primary one.                                                        *)
(*                                                                         *)
(* A document is JSON of any shape; what the code looks at is              *)
(*   legacy    the object at "profile", which the legacy view has,         *)
(*   included  the entities of a normalized document, in order,            *)
(*   roots     the URNs at data.*elements, which name the entities the     *)
(*             document is about, or Nothing.                              *)
(* A key that is missing, null, empty or of a type the code passes over is *)
(* Nothing.  A URN is what the code takes from it: the member it ends in   *)
(* ("profile" if it is an fsd_profile), or the owner in its parentheses    *)
(* ("scoped").                                                             *)
(***************************************************************************)
EXTENDS Integers, Sequences

CONSTANTS
  Ids,       \* public identifiers, as URLs and documents spell them
  Fold,      \* strings.ToLower on them
  Members,   \* member ids
  Nothing,   \* no value
  Malformed  \* an identifier that is not a string

ASSUME DocumentsAssumption ==
  /\ Ids \subseteq DOMAIN Fold
  /\ Nothing \notin Ids \cup Members /\ Malformed \notin Ids /\ Nothing # Malformed

Urn == [form : {"profile", "other", "scoped"}, member : Members]

\* The first two are what a legacy profile or a Profile entity has at
\* publicIdentifier and at miniProfile.publicIdentifier.
IsProfile(p) ==
  /\ {p.id, p.mini} \subseteq Ids \cup {Nothing, Malformed}
  /\ {p.urn, p.miniUrn} \subseteq Urn \cup {Nothing}

SameId(a, b) == a \in Ids /\ b \in Ids /\ Fold[a] = Fold[b]

ProfilePublicIdentifiers(p) == {p.id, p.mini} \cap Ids

HasMalformedPublicIdentifier(p) == Malformed \in {p.id, p.mini}

\* The keys at which p carries the id of a member; equal ids count twice.
ProfileMemberIds(p) ==
  {key \in {"urn", "miniUrn"} : p[key] # Nothing /\ p[key].form # "scoped"}

-----------------------------------------------------------------------------
HasLegacy(doc) == doc.legacy # Nothing

LegacyIdentifiers(doc) ==
  IF HasLegacy(doc) THEN ProfilePublicIdentifiers(doc.legacy) ELSE {}

\* The Profile entities the document is about, as positions in included.
PrimaryCandidates(doc) ==
  {i \in DOMAIN doc.included :
     /\ doc.included[i].kind = "profile"
     /\ doc.roots # Nothing => doc.included[i].urn \in doc.roots}

\* The loop over the candidates meets a match before a malformed identifier.
SomeCandidateMatches(doc, wanted) ==
  \E i \in PrimaryCandidates(doc) :
    /\ \E x \in ProfilePublicIdentifiers(doc.included[i]) : SameId(x, wanted)
    /\ \A j \in PrimaryCandidates(doc) :
         j <= i => ~ HasMalformedPublicIdentifier(doc.included[j])

AcceptsUnlabelled(doc, wanted) ==
  \A x \in LegacyIdentifiers(doc) : SameId(x, wanted)
MatchesPrimaryIdentity(doc, wanted) ==
  /\ HasLegacy(doc) => ~ HasMalformedPublicIdentifier(doc.legacy)
  /\ IF LegacyIdentifiers(doc) # {}
     THEN \E x \in LegacyIdentifiers(doc) : SameId(x, wanted)
     ELSE SomeCandidateMatches(doc, wanted)
=============================================================================
