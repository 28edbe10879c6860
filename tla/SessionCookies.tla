---------------------------- MODULE SessionCookies ----------------------------
(***************************************************************************)
(* What becomes of configured LinkedIn credentials: fromEnvironment, the   *)
(* end of fromSecretsManager and validate of config/config.go, which hands *)
(* the cookies to session/session.go, and what the adapter of main.go then *)
(* gives the client to send.                                               *)
(*                                                                         *)
(* A text is told from another by what the code asks of it.  A li_at is    *)
(* one of the tokens that are long enough, or "short", or "blank".  A      *)
(* JSESSIONID is a token that begins with ajax: (or "other", or "blank"),  *)
(* in quotes or not, with spaces before it or not.  Of these tokens some   *)
(* hold an unsafe character, and some are longer than a cookie may be.     *)
(* Any other cookie is "usable", "unusable" (empty or too long) or         *)
(* "unsafe".  A segment of the header that is no cookie at all has a name  *)
(* of its own, and is "unsafe" if an unsafe character is anywhere in it.   *)
(***************************************************************************)
EXTENDS Integers, Sequences, Functions

CONSTANTS
  LiAts,        \* li_at tokens that are long enough
  Tokens,       \* JSESSIONID tokens that begin with ajax:
  Unsafe,       \* those of them with a character outside 0x20..0x7E
  Oversized,    \* those of them longer than MaxCookieValueLength
  Configured,   \* bound: the configurations considered
  None          \* not configured, no value

Required == {"li_at", "JSESSIONID"}
SessionCookieNames == Required \cup {"lang"}

LiAt == LiAts \cup {"short", "blank"}
Jsession == [token : Tokens \cup {"other", "blank"}, quoted : BOOLEAN, padded : BOOLEAN]

ValuesOf(name) ==
  CASE name = "li_at" -> LiAt
    [] name = "JSESSIONID" -> Jsession
    [] OTHER -> {"usable", "unusable", "unsafe"}

\* A header is a list of segments, each a name with a value, which may be
\* longer in all than MaxCookieHeaderLength; a map has the values by name.
Configuration(c) ==
  /\ DOMAIN c = {"source", "liAt", "jsession", "header", "long", "map"}
  /\ c.source \in {"environment", "secret"}
  /\ c.liAt \in LiAt \cup {None}
  /\ c.jsession \in {None} \cup Jsession
  /\ c.long \in BOOLEAN
  /\ c.header # None =>
       /\ c.header \in Seq(Range(c.header))
       /\ \A segment \in Range(c.header) : segment.value \in ValuesOf(segment.name)
  /\ c.map # None => \A name \in DOMAIN c.map : c.map[name] \in ValuesOf(name)

ASSUME SessionCookiesAssumption ==
  /\ \A c \in Configured : Configuration(c)
  /\ {"blank", "short", "other", "usable", "unusable", "unsafe"} \cap (LiAts \cup Tokens) = {}
  /\ Unsafe \cup Oversized \subseteq LiAts \cup Tokens
  /\ None \notin {<<>>, "absent", "invalid", "valid"} \cup Jsession

VARIABLES
  given,    \* the configuration, trimmed as it is read
  stage,    \* where its validation is
  next,     \* the segment of the header to look at
  left,     \* the names of the map to look at
  cookies,  \* the cookies accepted so far
  outcome   \* "absent", "invalid" or "valid"

vars == <<given, stage, next, left, cookies, outcome>>

NoCookies == [name \in {} |-> None]

Init ==
  /\ given \in Configured
  /\ stage = "read"
  /\ next = 1
  /\ left = {}
  /\ cookies = NoCookies
  /\ outcome = None

-----------------------------------------------------------------------------
\* strings.TrimSpace, and strings.Trim with the quote: behind white space the
\* quote stays.
TrimSpace(jsession) == [jsession EXCEPT !.padded = FALSE]
Unquoted(jsession) == jsession.token

HasAjaxPrefix(jsession) == jsession.token \in Tokens /\ ~ jsession.padded

\* validateText, of a cookie's value and of a whole header: in the header an
\* unsafe character is refused wherever it is, in a cookie of no interest too.
Text(name, value) == IF name = "JSESSIONID" THEN value.token ELSE value
IsUnsafe(text) == text \in Unsafe \cup {"unsafe"}

Usable(name, value) ==
  /\ Text(name, value) \notin {"blank", "unusable"} \cup Oversized
  /\ ~ IsUnsafe(Text(name, value))

HeaderNotEmpty(header) == header # <<>>
HeaderReadable(header) ==
  /\ header # <<>> /\ ~ given.long
  /\ \A segment \in Range(header) : ~ IsUnsafe(Text(segment.name, segment.value))

Normalized(name, value) == IF name = "JSESSIONID" THEN TrimSpace(value) ELSE value

End(verdict) ==
  /\ stage' = "done"
  /\ outcome' = verdict
  /\ UNCHANGED <<given, next, left, cookies>>

-----------------------------------------------------------------------------
\* fromEnvironment looks whether there is something to validate, and trims it;
\* fromSecretsManager needs both values and does not trim.
Missing == given.liAt = None \/ given.jsession = None
Blank == ~ Missing /\ given.liAt = "blank" /\ given.jsession.token = "blank"

Absent ==
  /\ stage = "read" /\ given.source = "environment"
  /\ Missing \/ Blank
  /\ End("absent")

SecretIncomplete ==
  /\ stage = "read" /\ given.source = "secret" /\ Missing
  /\ End("invalid")

Read ==
  /\ stage = "read" /\ ~ Missing
  /\ given.source = "environment" => ~ Blank
  /\ given' = IF given.source = "environment"
              THEN [given EXCEPT !.jsession = TrimSpace(@)] ELSE given
  /\ stage' = "validate"
  /\ UNCHANGED <<next, left, cookies, outcome>>

\* validate
ValuesValid == given.liAt \in LiAts /\ HasAjaxPrefix(given.jsession)

RefuseValues ==
  /\ stage = "validate"
  /\ ~ ValuesValid \/ (given.map # None /\ given.header # None)
  /\ End("invalid")

NoCookiesGiven ==
  /\ stage = "validate" /\ ValuesValid
  /\ given.map = None /\ given.header = None
  /\ End("valid")

\* The header is looked at whole before its segments are.
RefuseHeader ==
  /\ stage = "validate" /\ ValuesValid
  /\ given.map = None /\ given.header # None /\ ~ HeaderReadable(given.header)
  /\ End("invalid")

BeginHeader ==
  /\ stage = "validate" /\ ValuesValid
  /\ given.map = None /\ given.header # None /\ HeaderReadable(given.header)
  /\ stage' = "header"
  /\ UNCHANGED <<given, next, left, cookies, outcome>>

BeginMap ==
  /\ stage = "validate" /\ ValuesValid
  /\ given.map # None /\ given.header = None
  /\ stage' = "map"
  /\ left' = DOMAIN given.map
  /\ UNCHANGED <<given, next, cookies, outcome>>

-----------------------------------------------------------------------------
\* The loop of ImportCookieHeader.
Segment == given.header[next]
IsSession == Segment.name \in SessionCookieNames
Repeated == Segment.name \in DOMAIN cookies

SkipSegment ==
  /\ stage = "header" /\ next <= Len(given.header) /\ ~ IsSession
  /\ next' = next + 1
  /\ UNCHANGED <<given, stage, left, cookies, outcome>>

RefuseSegment ==
  /\ stage = "header" /\ next <= Len(given.header) /\ IsSession
  /\ Repeated \/ ~ Usable(Segment.name, Segment.value)
  /\ End("invalid")

Keep(name, value) ==
  cookies' = [n \in DOMAIN cookies \cup {name} |->
                IF n = name THEN Normalized(name, value) ELSE cookies[n]]

TakeSegment ==
  /\ stage = "header" /\ next <= Len(given.header) /\ IsSession
  /\ ~ Repeated /\ Usable(Segment.name, Segment.value)
  /\ Keep(Segment.name, Segment.value)
  /\ next' = next + 1
  /\ UNCHANGED <<given, stage, left, outcome>>

\* The loop of ValidateCookieMap, in the order Go happens to choose.
RefuseEntry(name) ==
  /\ stage = "map" /\ name \in left
  /\ name \notin SessionCookieNames \/ ~ Usable(name, given.map[name])
  /\ End("invalid")

TakeEntry(name) ==
  /\ stage = "map" /\ name \in left
  /\ name \in SessionCookieNames /\ Usable(name, given.map[name])
  /\ Keep(name, given.map[name])
  /\ left' = left \ {name}
  /\ UNCHANGED <<given, stage, next, outcome>>

\* validateRequiredValues
HasRequiredValues ==
  /\ Required \subseteq DOMAIN cookies
  /\ cookies["li_at"] \in LiAts /\ HasAjaxPrefix(cookies["JSESSIONID"])
RequiredValuesMatch ==
  /\ Required \subseteq DOMAIN cookies
  /\ cookies["li_at"] \in LiAts /\ HasAjaxPrefix(cookies["JSESSIONID"])
  /\ cookies["li_at"] = given.liAt
  /\ Unquoted(cookies["JSESSIONID"]) = Unquoted(given.jsession)

EndImport ==
  /\ \/ stage = "header" /\ next > Len(given.header)
     \/ stage = "map" /\ left = {}
  /\ End(IF RequiredValuesMatch THEN "valid" ELSE "invalid")

Done == stage = "done" /\ UNCHANGED vars

Next ==
  \/ Absent \/ SecretIncomplete \/ Read
  \/ RefuseValues \/ NoCookiesGiven \/ RefuseHeader \/ BeginHeader \/ BeginMap
  \/ SkipSegment \/ RefuseSegment \/ TakeSegment
  \/ \E name \in left : RefuseEntry(name) \/ TakeEntry(name)
  \/ EndImport
  \/ Done

Spec == Init /\ [][Next]_vars

-----------------------------------------------------------------------------
\* CsrfToken and Cookies of the credentials, as the adapter hands them on;
\* without imported cookies the two values are sent, the second one quoted.
CsrfToken == Unquoted(given.jsession)

CookiesSent ==
  IF cookies # NoCookies THEN cookies
  ELSE [name \in Required |->
          IF name = "li_at" THEN given.liAt ELSE [given.jsession EXCEPT !.quoted = TRUE]]

\* LinkedIn takes a request only if its csrf-token header is the session
\* cookie's token: whatever the configuration says, in whichever of its three
\* forms and whatever the order of its cookies, what is sent agrees with
\* itself and is the session that was configured (validateRequiredValues).
CredentialsAgree ==
  outcome = "valid" =>
    /\ Required \subseteq DOMAIN CookiesSent
    /\ Unquoted(CookiesSent["JSESSIONID"]) = CsrfToken
    /\ CookiesSent["li_at"] = given.liAt
    /\ DOMAIN CookiesSent \subseteq SessionCookieNames

\* A configuration is accepted exactly when it should be: a header, whatever
\* the order of its segments, when it is not too long, holds nothing unsafe
\* anywhere, and has every session cookie at most once and usable, li_at and
\* JSESSIONID among them as configured; other cookies in it, if they are safe,
\* do not matter, empty or oversized.  A map has no others, and the same of
\* its session cookies.
Sendable == (LiAts \cup Tokens) \ (Unsafe \cup Oversized)

Good(name, value) ==
  CASE name = "li_at" -> value = given.liAt /\ value \in Sendable
    [] name = "JSESSIONID" -> value.token = given.jsession.token /\ value.token \in Sendable
    [] OTHER -> value = "usable"

HeaderGood(header) ==
  /\ ~ given.long
  /\ \A i \in DOMAIN header : ~ IsUnsafe(Text(header[i].name, header[i].value))
  /\ \A name \in Required : \E i \in DOMAIN header : header[i].name = name
  /\ \A i \in DOMAIN header : header[i].name \in SessionCookieNames =>
       /\ Good(header[i].name, header[i].value)
       /\ \A j \in DOMAIN header : header[j].name = header[i].name => j = i

MapGood(map) ==
  /\ Required \subseteq DOMAIN map /\ DOMAIN map \subseteq SessionCookieNames
  /\ \A name \in DOMAIN map : Good(name, map[name])

AcceptedExactly ==
  stage = "done" /\ outcome # "absent" =>
    (outcome = "valid" <=>
       /\ ~ Missing
       /\ given.liAt \in LiAts /\ given.jsession.token \in Tokens /\ ~ given.jsession.padded
       /\ given.header = None \/ given.map = None
       /\ given.header # None => HeaderGood(given.header)
       /\ given.map # None => MapGood(given.map))
=============================================================================
