------------------------------ MODULE ParserProofs ------------------------------
(***************************************************************************)
(* What the parser guarantees of every call, whatever documents LinkedIn   *)
(* answers with and however many.                                          *)
(*                                                                         *)
(* The argument.  The client lets the first document through only if it    *)
(* matches, and nothing touches the documents once the parser has them: a  *)
(* profile that was served is still the one Parse made of documents it had *)
(* no objection to, and a refusal is still its first objection.            *)
(***************************************************************************)
EXTENDS Parser, FiniteSetTheorems, TLAPS

Sources == {"primary", "section", "contact"}

\* The documents as FetchProfile labels them.
Labelled ==
  {[legacy |-> doc.legacy, included |-> doc.included, roots |-> doc.roots,
    source |-> source, fetchedFor |-> PublicIdentifier] :
     doc \in Primaries \cup Others, source \in Sources}

DocumentsOk ==
  /\ documents \in Seq(Labelled)
  /\ stage # "fetch" => documents # <<>>
  /\ documents # <<>> =>
       MatchesPrimaryIdentity(Primary, PublicIdentifier) /\ Primary.source = "primary"
  /\ \A d \in DOMAIN documents : documents[d].source = "primary" => d = 1

ProfileMade ==
  Served =>
    /\ stage = "done" /\ Objection = "none"
    /\ profile.made \subseteq SectionNames
    /\ \A s \in SectionNames : profile.lists[s] = Merged(s)
    /\ \A s \in SectionNames : Merged(s) # {} => s \in profile.made

RefusalIsObjection ==
  refusal \in {"no profile", "conflicting identities"} =>
    stage = "done" /\ refusal = Objection

IInv == DocumentsOk /\ ProfileMade /\ RefusalIsObjection

\* A document that matches has a legacy view or a Profile entity to serve.
LEMMA MatchHasProfile ==
  ASSUME NEW doc, NEW wanted, MatchesPrimaryIdentity(doc, wanted)
  PROVE  LegacyIdentifiers(doc) # {} \/ PrimaryCandidates(doc) # {}
  BY DEF MatchesPrimaryIdentity, SomeCandidateMatches

\* A legacy profile with one member id, its own, is of that member.
LEMMA OneMemberId ==
  ASSUME NEW p, p.miniUrn = Nothing, p.urn # Nothing, p.urn.form # "scoped"
  PROVE  Cardinality(ProfileMemberIds(p)) = 1 /\ "urn" \in ProfileMemberIds(p)
<1>1. ProfileMemberIds(p) = {"urn"}
  BY DEF ProfileMemberIds
<1>. QED
  BY <1>1, FS_Singleton

LEMMA MoreThanOne ==
  ASSUME NEW S, Cardinality(S) > 1
  PROVE  \E m, n \in S : m # n
<1>. SUFFICES ASSUME \A m, n \in S : m = n PROVE FALSE
  OBVIOUS
<1>1. Cardinality(S) \in {0, 1}
  <2>1. CASE S = {}
    BY <2>1, FS_EmptySet
  <2>2. CASE S # {}
    <3>1. PICK m \in S : S = {m}
      BY <2>2
    <3>. QED
      BY <3>1, FS_Singleton
  <2>. QED
    BY <2>1, <2>2
<1>. QED
  BY <1>1

-----------------------------------------------------------------------------
\* A document arrives: it is labelled, and only the first is the primary one.
LEMMA ArrivalKeepsDocuments ==
  ASSUME DocumentsOk, NEW doc \in Primaries \cup Others, NEW source \in Sources,
         Arrives(doc, source),
         documents = <<>> => source = "primary" /\ MatchesPrimaryIdentity(doc, PublicIdentifier),
         documents # <<>> => source # "primary"
  PROVE  DocumentsOk'
<1>. DEFINE new == [legacy |-> doc.legacy, included |-> doc.included, roots |-> doc.roots,
                    source |-> source, fetchedFor |-> PublicIdentifier]
<1>1. new \in Labelled /\ documents' = Append(documents, new) /\ documents \in Seq(Labelled)
  BY DEF Labelled, Arrives, DocumentsOk
<1>2. documents' \in Seq(Labelled) /\ documents' # <<>>
  BY <1>1
<1>3. CASE documents = <<>>
  <2>1. documents' = <<new>>
    BY <1>1, <1>3
  <2>2. MatchesPrimaryIdentity(new, PublicIdentifier)
    BY <1>3 DEF MatchesPrimaryIdentity, SomeCandidateMatches, LegacyIdentifiers, HasLegacy,
                PrimaryCandidates
  <2>3. new.source = "primary"
    BY <1>3
  <2>. QED
    BY <1>2, <2>1, <2>2, <2>3 DEF DocumentsOk, Primary
<1>4. CASE documents # <<>>
  <2>1. documents'[1] = documents[1]
    BY <1>1, <1>4
  <2>2. MatchesPrimaryIdentity(documents'[1], PublicIdentifier) /\ documents'[1].source = "primary"
    BY <2>1, <1>4 DEF DocumentsOk, Primary
  <2>3. ASSUME NEW d \in DOMAIN documents', documents'[d].source = "primary" PROVE d = 1
    <3>1. CASE d = Len(documents) + 1
      <4>1. documents'[d] = new
        BY <3>1, <1>1
      <4>2. new.source = source
        OBVIOUS
      <4>. QED
        BY <4>1, <4>2, <2>3, <1>4
    <3>2. CASE d # Len(documents) + 1
      BY <3>2, <2>3, <1>1 DEF DocumentsOk
    <3>. QED
      BY <3>1, <3>2
  <2>. QED
    BY <1>2, <2>2, <2>3 DEF DocumentsOk, Primary
<1>. QED
  BY <1>3, <1>4

\* While documents arrive nothing has been served or refused, and while the
\* parser has them they stay as they are.
LEMMA ArrivalKeepsTheRest ==
  ASSUME IInv, NEW doc, NEW source, Arrives(doc, source)
  PROVE  (ProfileMade /\ RefusalIsObjection)'
  BY DEF IInv, ProfileMade, RefusalIsObjection, Arrives, Served

LEMMA ObjectionStays ==
  ASSUME UNCHANGED documents
  PROVE  /\ Objection' = Objection
         /\ \A s \in SectionNames : Merged(s)' = Merged(s)
         /\ DocumentsOk /\ (documents # <<>> \/ stage' = "fetch") => DocumentsOk'
  BY DEF Objection, LegacyConflict, DashConflict, LegacyView, DashView, MemberIds, DashMember,
         LegacyMember, Chosen, Foreign, Parsed, Entities, EntityAt, ProfileDocuments, Primary,
         Merged, DocumentsOk

-----------------------------------------------------------------------------
LEMMA InitIInv == Init => IInv
<1>. SUFFICES ASSUME Init PROVE IInv
  OBVIOUS
<1>1. DocumentsOk
  BY DEF Init, DocumentsOk
<1>2. ProfileMade
  BY DEF Init, ProfileMade, Served
<1>3. RefusalIsObjection
  BY ParserAssumption DEF Init, RefusalIsObjection, ParserAssumption
<1>. QED
  BY <1>1, <1>2, <1>3 DEF IInv

LEMMA NextIInv == IInv /\ [Next]_vars => IInv'
<1>. SUFFICES ASSUME IInv, [Next]_vars PROVE IInv'
  OBVIOUS
<1>1. ASSUME NEW doc \in Primaries, FetchPrimary(doc) PROVE IInv'
  <2>1. DocumentsOk'
    BY <1>1, ArrivalKeepsDocuments DEF IInv, FetchPrimary, Sources
  <2>. QED
    BY <2>1, <1>1, ArrivalKeepsTheRest DEF IInv, FetchPrimary
<1>2. ASSUME NEW doc \in Others, FetchSection(doc) PROVE IInv'
  <2>0. documents # <<>>
    BY <1>2 DEF FetchSection, Has
  <2>1. DocumentsOk'
    BY <2>0, <1>2, ArrivalKeepsDocuments DEF IInv, FetchSection, Sources
  <2>. QED
    BY <2>1, <1>2, ArrivalKeepsTheRest DEF IInv, FetchSection
<1>3. ASSUME NEW doc \in Others, FetchContact(doc) PROVE IInv'
  <2>0. documents # <<>>
    BY <1>3 DEF FetchContact, Has
  <2>1. DocumentsOk'
    BY <2>0, <1>3, ArrivalKeepsDocuments DEF IInv, FetchContact, Sources
  <2>. QED
    BY <2>1, <1>3, ArrivalKeepsTheRest DEF IInv, FetchContact
<1>4. CASE NewVoyagerParser
  <2>0. Has("primary") /\ UNCHANGED documents
    BY <1>4 DEF NewVoyagerParser
  <2>1. UNCHANGED documents /\ documents # <<>>
    BY <2>0 DEF Has
  <2>2. refusal' = "too many" \/ refusal' = refusal
    BY <1>4 DEF NewVoyagerParser
  <2>3. ~ Served /\ ~ Served' /\ stage = "fetch"
    BY <1>4 DEF NewVoyagerParser, IInv, ProfileMade, Served
  <2>. QED
    BY <2>1, <2>2, <2>3, ObjectionStays DEF IInv, ProfileMade, RefusalIsObjection
<1>5. CASE Refuse
  <2>1. UNCHANGED documents /\ documents # <<>> /\ stage' = "done" /\ refusal' = Objection
    BY <1>5 DEF Refuse, IInv, DocumentsOk
  <2>2. ~ Served'
    BY <1>5 DEF Refuse, IInv, ProfileMade, Served
  <2>. QED
    BY <2>1, <2>2, ObjectionStays DEF IInv, ProfileMade, RefusalIsObjection
<1>6. ASSUME NEW view, NEW made \in SUBSET SectionNames,
             \A s \in SectionNames : Merged(s) # {} => s \in made,
             stage = "parse", Objection = "none", Serve(view, made)
      PROVE  IInv'
  <2>1. UNCHANGED documents /\ documents # <<>> /\ stage' = "done" /\ UNCHANGED refusal
    BY <1>6 DEF Serve, IInv, DocumentsOk
  <2>2. profile'.made = made /\ \A s \in SectionNames : profile'.lists[s] = Merged(s)
    BY <1>6 DEF Serve
  <2>. QED
    BY <1>6, <2>1, <2>2, ObjectionStays DEF IInv, ProfileMade, RefusalIsObjection
<1>7. CASE ServeDash
  BY <1>7, <1>6 DEF ServeDash
<1>8. CASE ServeLegacy
  BY <1>8, <1>6 DEF ServeLegacy
<1>9. CASE UNCHANGED vars
  <2>1. UNCHANGED <<stage, documents, profile, refusal>>
    BY <1>9 DEF vars
  <2>. QED
    BY <2>1, ObjectionStays DEF IInv, DocumentsOk, ProfileMade, RefusalIsObjection, Served
<1>. QED
  BY <1>1, <1>2, <1>3, <1>4, <1>5, <1>7, <1>8, <1>9 DEF Next, Done

LEMMA AlwaysIInv == Spec => []IInv
  BY InitIInv, NextIInv, PTL DEF Spec

-----------------------------------------------------------------------------
\* A profile is served only if the publicIdentifier of every root of its
\* document and both identifiers of its legacy view are the one asked for,
\* whichever of its profiles is used (legacyProfileView, profileEntity).
THEOREM IdentityServed == Spec => []ServedIsRequested
<1>1. IInv => ServedIsRequested
  <2>. SUFFICES ASSUME IInv, Served PROVE ServedIsRequested
    BY DEF ServedIsRequested
  <2>1. Objection = "none"
    BY DEF IInv, ProfileMade
  <2>2. ~ LegacyConflict /\ ~ DashConflict /\ (LegacyView \/ DashView)
    BY <2>1 DEF Objection
  <2>. QED
    BY <2>2 DEF ServedIsRequested, LegacyConflict, DashConflict, LegacyIdentifiers
<1>. QED
  BY <1>1, AlwaysIInv, PTL

\* No item of a served profile belongs to another member, from whichever
\* document it comes (validateMemberEntityOwnership).
THEOREM OwnersServed == Spec => []SectionsOwned
<1>1. IInv => SectionsOwned
  <2>. SUFFICES ASSUME IInv, Served, NEW p \in Items, HasOwner(EntityAt(p))
                PROVE  LET owner == EntityAt(p).urn.member
                           urn   == Primary.included[Chosen].urn
                       IN  /\ DashView /\ urn # Nothing /\ urn.form = "profile" => owner = urn.member
                           /\ LegacyView /\ Primary.legacy.miniUrn = Nothing
                                /\ Primary.legacy.urn # Nothing
                                /\ Primary.legacy.urn.form = "profile"
                              => owner = Primary.legacy.urn.member
    BY DEF SectionsOwned
  <2>1. PICK s \in SectionNames : p \in Merged(s)
    BY DEF IInv, ProfileMade, Items
  <2>2. p \in Parsed /\ InSection(EntityAt(p))
    BY <2>1 DEF Merged, InSection
  <2>3. ~ Foreign
    BY DEF IInv, ProfileMade, Objection
  <2>4. \A m \in MemberIds : EntityAt(p).urn.member = m
    BY <2>2, <2>3 DEF Foreign
  <2>5. DashView /\ Primary.included[Chosen].urn # Nothing
          /\ Primary.included[Chosen].urn.form = "profile"
        => Primary.included[Chosen].urn.member \in MemberIds
    BY DEF MemberIds, DashMember
  <2>6. ASSUME LegacyView, Primary.legacy.miniUrn = Nothing, Primary.legacy.urn # Nothing,
               Primary.legacy.urn.form = "profile"
        PROVE  Primary.legacy.urn.member \in MemberIds
    <3>1. Cardinality(ProfileMemberIds(Primary.legacy)) = 1
            /\ "urn" \in ProfileMemberIds(Primary.legacy)
      BY <2>6, OneMemberId
    <3>. QED
      BY <3>1, <2>6 DEF MemberIds, LegacyMember
  <2>. QED
    BY <2>4, <2>5, <2>6
<1>. QED
  BY <1>1, AlwaysIInv, PTL

\* A served profile lists everything of its sections and nothing of the
\* contact document (mergeEntitySections).
THEOREM NothingLost == Spec => []ProfileComplete
<1>1. IInv => ProfileComplete
  <2>. SUFFICES ASSUME IInv, Served PROVE ProfileComplete
    BY DEF ProfileComplete
  <2>1. ASSUME NEW p \in Items PROVE documents[p[1]].source # "contact"
    <3>1. PICK s \in SectionNames : p \in Merged(s)
      BY <2>1 DEF IInv, ProfileMade, Items
    <3>2. p[1] \in ProfileDocuments
      BY <3>1 DEF Merged, Parsed, Entities
    <3>3. documents # <<>> /\ documents[1].source = "primary"
      BY DEF IInv, ProfileMade, DocumentsOk, Primary
    <3>. QED
      BY <3>2, <3>3 DEF ProfileDocuments
  <2>2. ASSUME NEW d \in DOMAIN documents, NEW i \in DOMAIN documents[d].included,
               documents[d].source # "contact",
               documents[d].included[i].kind \in SectionNames,
               documents[d].included[i].kind \in NeedName => documents[d].included[i].named
        PROVE  /\ documents[d].included[i].kind \in profile.made
               /\ <<d, i>> \in profile.lists[documents[d].included[i].kind]
    <3>1. documents[d] \in Labelled
      BY <2>2 DEF IInv, DocumentsOk
    <3>2. documents[d].source \in {"primary", "section"}
            /\ documents[d].fetchedFor = PublicIdentifier
      BY <3>1, <2>2 DEF Labelled, Sources
    <3>3. SameId(PublicIdentifier, PublicIdentifier)
      BY ParserAssumption DEF ParserAssumption, SameId
    <3>4. d \in ProfileDocuments
      BY <3>2, <3>3, <2>2 DEF ProfileDocuments, IInv, DocumentsOk
    <3>5. <<d, i>> \in Parsed
      BY <3>4, <2>2 DEF Parsed, Entities
    <3>6. <<d, i>> \in Merged(documents[d].included[i].kind)
      BY <3>5, <2>2 DEF Merged, EntityAt
    <3>. QED
      BY <3>6, <2>2 DEF IInv, ProfileMade
  <2>. QED
    BY <2>1, <2>2 DEF ProfileComplete
<1>. QED
  BY <1>1, AlwaysIInv, PTL

\* Of the documents the client accepted, the parser refuses for its identity
\* only one with an identifier that is not the one asked for, with a root that
\* tells none, or of two members (matchesPrimaryIdentity before Parse).
THEOREM RefusalsHaveReasons == Spec => []RefusalsExplained
<1>0. Cardinality(MemberIds) > 1 => \E m, n \in MemberIds : m # n
  BY MoreThanOne
<1>1. IInv => RefusalsExplained
  <2>. SUFFICES ASSUME IInv, refusal \in {"no profile", "conflicting identities"}
                PROVE  RefusalsExplained
    BY DEF RefusalsExplained
  <2>1. refusal = Objection /\ documents # <<>>
    BY DEF IInv, RefusalIsObjection, DocumentsOk
  <2>2. MatchesPrimaryIdentity(Primary, PublicIdentifier)
    BY <2>1 DEF IInv, DocumentsOk
  <2>3. LegacyView \/ DashView
    BY <2>2, MatchHasProfile DEF LegacyView, DashView
  <2>4. Objection # "no profile"
    BY <2>3 DEF Objection
  <2>5. Objection = "conflicting identities" =>
          LegacyConflict \/ DashConflict \/ Cardinality(MemberIds) > 1
    BY DEF Objection
  <2>6. LegacyConflict => \E x \in LegacyIdentifiers(Primary) : ~ SameId(x, PublicIdentifier)
    BY <2>2 DEF LegacyConflict, MatchesPrimaryIdentity
  <2>. QED
    BY <2>1, <2>4, <2>5, <2>6, <1>0 DEF RefusalsExplained, DashConflict
<1>. QED
  BY <1>1, AlwaysIInv, PTL
=============================================================================
