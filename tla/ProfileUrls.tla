------------------------------ MODULE ProfileUrls ------------------------------
(***************************************************************************)
(* utils/url_utils.go: what ParseLinkedInProfileURL makes of the text that *)
(* a client sends as the URL of a profile.                                 *)
(*                                                                         *)
(* A text is described by what the code asks of it.  Its path is given in  *)
(* segments, decoded and divided at every slash, so that "/in//ada/" is    *)
(* <<"", "in", "", "ada", "">>.                                            *)
(***************************************************************************)
EXTENDS Naturals, Sequences, Subsequences

CONSTANTS
  Identifiers,   \* segments that publicIdentifierRegexp matches
  Member         \* segments that strings.ToLower makes "in"

\* The expression matches no less than two characters.
ASSUME IdentifiersAssumption == "" \notin Identifiers
ASSUME MemberAssumption == "in" \in Member /\ "" \notin Member

Url ==
  [text : {"empty", "blank", "visible"},       \* what is left after TrimSpace
   long : BOOLEAN,                             \* more than MaxProfileURLLength
   control : BOOLEAN,                          \* a control character in it
   scheme : {"none", "https", "http"},
   nested : BOOLEAN,                           \* "://" again, behind the path
   wellFormed : BOOLEAN,                       \* url.Parse accepts it
   host : {"allowed", "foreign"},              \* allowedHosts, in lower case
   port : BOOLEAN,
   user : BOOLEAN,
   path : Seq(STRING),
   demonstration : BOOLEAN]                    \* the demonstration's identifier in it

\* Without a scheme https is assumed, unless "://" occurs anywhere.
Scheme(u) == IF u.scheme = "none" /\ ~ u.nested THEN "https" ELSE u.scheme

PathAsSplit(u) == u.path
NotEmpty(part) == part # ""
PathParts(u) == Filtered(u.path, NotEmpty)

IsProfilePath(parts) ==
  Len(parts) = 2 /\ parts[1] \in Member /\ parts[2] \in Identifiers

\* Every refusal is the same error, so their order does not show.
Accepted(u) ==
  /\ ~ u.long /\ u.text = "visible" /\ ~ u.control
  /\ u.wellFormed /\ Scheme(u) = "https"
  /\ u.host = "allowed" /\ ~ u.port /\ ~ u.user
  /\ IsProfilePath(PathParts(u))

PublicIdentifier(u) == PathParts(u)[2]

CanonicalURL(id) ==
  [text |-> "visible", long |-> FALSE, control |-> FALSE, scheme |-> "https",
   nested |-> FALSE, wellFormed |-> TRUE, host |-> "allowed", port |-> FALSE,
   user |-> FALSE, path |-> <<"", "in", id, "">>, demonstration |-> FALSE]

-----------------------------------------------------------------------------
\* A text is a page of a member if it differs from the canonical URL of the
\* member by no more than slashes, the case of "in" and a missing scheme.
NamesMember(path, id) ==
  \E i, j \in DOMAIN path :
    /\ i < j /\ path[i] \in Member /\ path[j] = id
    /\ \A k \in DOMAIN path \ {i, j} : path[k] = ""

PageOf(u, id) ==
  /\ NamesMember(u.path, id)
  /\ u.scheme = "https" \/ (u.scheme = "none" /\ ~ u.nested)
  /\ u = [CanonicalURL(id) EXCEPT !.path = u.path, !.scheme = u.scheme,
             !.nested = u.nested, !.demonstration = u.demonstration]
=============================================================================
