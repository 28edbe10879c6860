-------------------------------- MODULE MCParser --------------------------------
(* Model-checking instance of Parser: see MCParser*.cfg. *)
EXTENDS Parser, TLC

CONSTANTS ada, Ada, bob, m1, m2

MCFold == [id \in Ids |-> IF id = Ada THEN ada ELSE id]

MemberUrns == {[form |-> "profile", member |-> m1], [form |-> "profile", member |-> m2]}
Scoped(m) == [form |-> "scoped", member |-> m]

Legacies ==
  {Nothing} \cup
  {[id |-> id, mini |-> mini, urn |-> urn, miniUrn |-> miniUrn] :
     id \in {Ada, bob, Nothing}, mini \in {ada, bob, Nothing, Malformed},
     urn \in {Nothing} \cup MemberUrns, miniUrn \in {Nothing, [form |-> "other", member |-> m1]}}

Named(kind, urn, named) ==
  [kind |-> kind, id |-> Nothing, mini |-> Nothing, urn |-> urn, miniUrn |-> Nothing,
   size |-> 1, named |-> named]

Profile(id, mini, urn, size) ==
  [kind |-> "profile", id |-> id, mini |-> mini, urn |-> urn, miniUrn |-> Nothing,
   size |-> size, named |-> TRUE]

Profiles ==
  {Profile(id, Nothing, urn, size) :
     id \in {Ada, bob, Nothing, Malformed}, urn \in MemberUrns \cup {Nothing}, size \in 1..2}

\* With an identifier in the miniProfile too: the same, another, or none that
\* is a string.
MiniProfiles ==
  {Profile(id, mini, [form |-> "profile", member |-> m1], 1) :
     id \in {Ada, bob, Nothing, Malformed}, mini \in {ada, bob, Malformed}}

Items1 == {Named("skills", Scoped(m1), TRUE), Named("skills", Scoped(m2), TRUE)}
Items2 == {Named("skills", Scoped(m1), TRUE), Named("skills", Nothing, FALSE),
           Named("honors", Scoped(m2), FALSE), Named("other", Scoped(m2), FALSE)}

Incl == {<<>>} \cup {<<p>> : p \in Profiles \cup Items1} \cup
        {<<p, q>> : p \in Profiles, q \in Profiles \cup Items1} \cup
        {<<p>> : p \in MiniProfiles} \cup {<<p, q>> : p \in MiniProfiles, q \in Profiles}

Doc(legacy, included, roots) == [legacy |-> legacy, included |-> included, roots |-> roots]

MCPrimaries ==
  {Doc(l, inc, Nothing) : l \in Legacies, inc \in {<<>>} \cup {<<p>> : p \in Profiles \cup Items1}} \cup
  {Doc(Nothing, inc, roots) : inc \in Incl, roots \in {Nothing} \cup {{u} : u \in MemberUrns}}

MCOthers == {Doc(Nothing, <<e>>, Nothing) : e \in Items2}
=============================================================================
