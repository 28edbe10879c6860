--------------------------------- MODULE Parser ---------------------------------
(***************************************************************************)
(* parser/parser.go on what linkedin.go hands to it: the documents of one  *)
(* call arrive as FetchProfile collects them, NewVoyagerParser takes them, *)
(* and Parse serves a profile or refuses.                                  *)
(*                                                                         *)
(* An entity is told from another by its position <<d, i>>: the i-th of    *)
(* the d-th document.  A list of a profile is the set of the positions of  *)
(* the entities it is made from, whose order is the list's order; a list   *)
(* that is not among those made is nil in the code, null in the response.  *)
(***************************************************************************)
EXTENDS Documents, FiniteSets

CONSTANTS
  PublicIdentifier,  \* the identifier the call is about
  SectionNames,      \* what entitySectionName can answer
  NeedName,          \* the sections that leave out entities without a name
  Primaries,         \* bound: documents LinkedIn gives for a primary path
  Others,            \* bound: documents LinkedIn gives for another path
  MaxFetched,        \* bound: documents of the call, 10 in the code
  MaxDocuments,      \* most documents the parser takes: 16
  MaxEntities        \* most entities it takes: 2000

ASSUME ParserAssumption ==
  /\ PublicIdentifier \in Ids
  /\ NeedName \subseteq SectionNames
  /\ MaxFetched \in Nat /\ MaxFetched <= MaxDocuments
  /\ MaxDocuments \in Nat /\ MaxEntities \in Nat
  /\ Nothing \notin {"no profile", "conflicting identities"}
  /\ \A doc \in Primaries \cup Others :
       /\ HasLegacy(doc) => IsProfile(doc.legacy)
       /\ \A i \in DOMAIN doc.included : IsProfile(doc.included[i])

VARIABLES
  stage,      \* where the call is
  documents,  \* FetchResult.Documents, which become the parser's
  profile,    \* the profile Parse returned
  refusal     \* the error NewVoyagerParser or Parse returned

vars == <<stage, documents, profile, refusal>>

Init ==
  /\ stage = "fetch"
  /\ documents = <<>>
  /\ profile = Nothing
  /\ refusal = Nothing

-----------------------------------------------------------------------------
\* FetchProfile labels each document with where it came from and with the
\* identifier it was fetched for.
Arrives(doc, source) ==
  /\ stage = "fetch"
  /\ documents' = Append(documents,
       [legacy |-> doc.legacy, included |-> doc.included, roots |-> doc.roots,
        source |-> source, fetchedFor |-> PublicIdentifier])
  /\ UNCHANGED <<stage, profile, refusal>>

Has(source) == \E d \in DOMAIN documents : documents[d].source = source

FetchPrimary(doc) ==
  /\ documents = <<>>
  /\ MatchesPrimaryIdentity(doc, PublicIdentifier)
  /\ Arrives(doc, "primary")

FetchSection(doc) ==
  /\ Has("primary") /\ ~ Has("contact") /\ Len(documents) < MaxFetched
  /\ Arrives(doc, "section")

FetchContact(doc) ==
  /\ Has("primary") /\ ~ Has("contact") /\ Len(documents) < MaxFetched
  /\ Arrives(doc, "contact")

-----------------------------------------------------------------------------
\* loadEntities, on the documents at the positions ds.
Entities(ds) == UNION {{<<d, i>> : i \in DOMAIN documents[d].included} : d \in ds}
EntityAt(p) == documents[p[1]].included[p[2]]

NewVoyagerParser ==
  /\ stage = "fetch" /\ Has("primary")
  /\ IF Len(documents) > MaxDocuments \/ Cardinality(Entities(DOMAIN documents)) > MaxEntities
     THEN stage' = "done" /\ refusal' = "too many"
     ELSE stage' = "parse" /\ UNCHANGED refusal
  /\ UNCHANGED <<documents, profile>>

\* Parse keeps the first document and the sections of the profile.
EveryDocument == DOMAIN documents
ProfileDocuments ==
  {1} \cup {d \in DOMAIN documents :
              documents[d].source = "section" /\ SameId(documents[d].fetchedFor, PublicIdentifier)}

Parsed == Entities(ProfileDocuments)

Primary == documents[1]

\* legacyProfileView: there is one if the legacy object has identifiers, and
\* all of them must be the one asked for.
LegacyView == LegacyIdentifiers(Primary) # {}
LegacyConflict ==
  /\ HasLegacy(Primary)
  /\ \/ HasMalformedPublicIdentifier(Primary.legacy)
     \/ \E x \in LegacyIdentifiers(Primary) : ~ SameId(x, PublicIdentifier)

\* profileEntity: every candidate must carry the identifier itself; the first
\* of the largest ones is taken.
DashView == PrimaryCandidates(Primary) # {}
FirstConflicts ==
  \E i \in PrimaryCandidates(Primary) :
    /\ ~ SameId(Primary.included[i].id, PublicIdentifier)
    /\ \A j \in PrimaryCandidates(Primary) : i <= j
DashConflict ==
  \E i \in PrimaryCandidates(Primary) : ~ SameId(Primary.included[i].id, PublicIdentifier)

Chosen ==
  CHOOSE i \in PrimaryCandidates(Primary) :
    \A j \in PrimaryCandidates(Primary) :
      LET si == Primary.included[i].size
          sj == Primary.included[j].size
      IN  sj < si \/ (sj = si /\ i <= j)

\* profileMemberID and legacyMemberID: the members the document is of, as far
\* as they can be told.  A legacy profile with two member ids has none.
DashMember ==
  LET urn == Primary.included[Chosen].urn
  IN  IF DashView /\ urn # Nothing /\ urn.form = "profile" THEN {urn.member} ELSE {}

LegacyMember ==
  IF LegacyView /\ Cardinality(ProfileMemberIds(Primary.legacy)) = 1
  THEN {Primary.legacy[key].member : key \in ProfileMemberIds(Primary.legacy)} ELSE {}

MemberIds == DashMember \cup LegacyMember

\* memberScopedOwner and validateMemberEntityOwnership
HasOwner(e) == e.urn # Nothing /\ e.urn.form = "scoped"
InSection(e) == e.kind \in SectionNames

ForeignInPrimary ==
  \E p \in Entities({1}), m \in MemberIds :
    InSection(EntityAt(p)) /\ HasOwner(EntityAt(p)) /\ EntityAt(p).urn.member # m
Foreign ==
  \E p \in Parsed, m \in MemberIds :
    InSection(EntityAt(p)) /\ HasOwner(EntityAt(p)) /\ EntityAt(p).urn.member # m

\* The first error of Parse.
Objection ==
  CASE LegacyConflict \/ DashConflict -> "conflicting identities"
    [] ~ LegacyView /\ ~ DashView -> "no profile"
    [] Cardinality(MemberIds) > 1 -> "conflicting identities"
    [] Foreign -> "another member"
    [] OTHER -> "none"

Refuse ==
  /\ stage = "parse" /\ Objection # "none"
  /\ refusal' = Objection
  /\ stage' = "done"
  /\ UNCHANGED <<documents, profile>>

\* mergeEntitySections: the entities that a section's list is made from.
Merged(section) ==
  {p \in Parsed : /\ EntityAt(p).kind = section
                  /\ section \in NeedName => EntityAt(p).named}

\* parseDash makes every list of the profile; parseLegacy makes none, so a
\* list comes about with its first item.
Serve(view, made) ==
  /\ profile' = [view |-> view, made |-> made, lists |-> [s \in SectionNames |-> Merged(s)]]
  /\ stage' = "done"
  /\ UNCHANGED <<documents, refusal>>

ServeDash ==
  /\ stage = "parse" /\ Objection = "none" /\ DashView
  /\ Serve("dash", SectionNames)

ServeLegacy ==
  /\ stage = "parse" /\ Objection = "none" /\ ~ DashView
  /\ Serve("legacy", {s \in SectionNames : Merged(s) # {}})

Done == stage = "done" /\ UNCHANGED vars

Next ==
  \/ \E doc \in Primaries : FetchPrimary(doc)
  \/ \E doc \in Others : FetchSection(doc) \/ FetchContact(doc)
  \/ NewVoyagerParser \/ Refuse \/ ServeDash \/ ServeLegacy
  \/ Done

Spec == Init /\ [][Next]_vars

-----------------------------------------------------------------------------
Served == profile # Nothing

\* What is in the profile's lists.
Items == UNION {profile.lists[s] : s \in profile.made}

\* A profile is served only if its document calls itself the one asked for
\* wherever it says so, whichever of its profiles is used in the end: by the
\* publicIdentifier of every root of a normalized document, and by both
\* identifiers of a legacy view.  Neither the client's check, to which one
\* match is enough, nor one of the parser's two ensures this alone.  What a
\* root says in its miniProfile is compared by none of them: another member's
\* identifier there does not keep the profile from being served.
ServedIsRequested ==
  Served =>
    /\ \A x \in LegacyIdentifiers(Primary) : SameId(x, PublicIdentifier)
    /\ \A i \in PrimaryCandidates(Primary) : SameId(Primary.included[i].id, PublicIdentifier)
    /\ LegacyView \/ DashView

\* No item of a served profile belongs to another member, from whichever
\* document it comes, if the profile that is served tells its member: a Profile
\* entity by a member's URN, a legacy view by one URN and not by two
\* (validateMemberEntityOwnership; legacyMemberID gives up on two).
SectionsOwned ==
  Served =>
    \A p \in Items :
      LET owner == EntityAt(p).urn.member
          urn   == Primary.included[Chosen].urn
      IN  HasOwner(EntityAt(p)) =>
            /\ DashView /\ urn # Nothing /\ urn.form = "profile" => owner = urn.member
            /\ LegacyView /\ Primary.legacy.miniUrn = Nothing
                 /\ Primary.legacy.urn # Nothing /\ Primary.legacy.urn.form = "profile"
               => owner = Primary.legacy.urn.member

\* Nothing is lost and nothing slips in: a served profile lists every entity
\* of a section that the primary document or a section's document holds and
\* that has the name it needs, and nothing of the contact document, although
\* the parser was made from all of them (loadEntities runs twice).
ProfileComplete ==
  Served =>
    /\ \A p \in Items : documents[p[1]].source # "contact"
    /\ \A d \in DOMAIN documents : \A i \in DOMAIN documents[d].included :
         LET e == documents[d].included[i]
         IN  /\ documents[d].source # "contact" /\ e.kind \in SectionNames
             /\ e.kind \in NeedName => e.named
             => e.kind \in profile.made /\ <<d, i>> \in profile.lists[e.kind]

\* Why the parser refuses a document that the client accepted: it always finds
\* a profile, and if it objects to an identity, then some identifier is not
\* the one asked for, or a root tells none (the client takes the one in the
\* root's miniProfile instead), or the document is of two members.
RefusalsExplained ==
  /\ refusal # "no profile"
  /\ refusal = "conflicting identities" =>
       \/ \E x \in LegacyIdentifiers(Primary) : ~ SameId(x, PublicIdentifier)
       \/ \E i \in PrimaryCandidates(Primary) : ~ SameId(Primary.included[i].id, PublicIdentifier)
       \/ \E m, n \in MemberIds : m # n
=============================================================================
