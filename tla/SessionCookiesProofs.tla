------------------------- MODULE SessionCookiesProofs -------------------------
(***************************************************************************)
(* Theorems about SessionCookies: what is sent is the session that was     *)
(* configured, and what is accepted is what should be, for every header,   *)
(* of whatever length, and every map, in whatever order it is gone over.   *)
(*                                                                         *)
(* The two loops are followed by HeaderRead and MapRead: what has been     *)
(* looked at was usable and is among the cookies, none of it twice, and    *)
(* nothing else is.                                                        *)
(***************************************************************************)
EXTENDS SessionCookies, TLAPS

\* The segments before next are done: each name that counts once.
HeaderRead ==
  LET header == given.header IN
  /\ next \in 1..(Len(header) + 1)
  /\ DOMAIN cookies = {header[i].name : i \in 1..(next - 1)} \cap SessionCookieNames
  /\ \A i \in 1..(next - 1) : header[i].name \in SessionCookieNames =>
       /\ Usable(header[i].name, header[i].value)
       /\ cookies[header[i].name] = Normalized(header[i].name, header[i].value)
       /\ \A j \in 1..(next - 1) : header[j].name = header[i].name => j = i

\* The names that are not left are done.
MapRead ==
  LET map == given.map IN
  /\ left \subseteq DOMAIN map
  /\ DOMAIN cookies = DOMAIN map \ left
  /\ \A name \in DOMAIN cookies :
       /\ name \in SessionCookieNames /\ Usable(name, map[name])
       /\ cookies[name] = Normalized(name, map[name])

\* Nothing is looked at before the values are there.
Unread == stage = "read" => next = 1
Present == stage = "validate" => next = 1 /\ ~ Missing
BeforeLoops == stage \in {"read", "validate"} => cookies = NoCookies

InHeader ==
  stage = "header" =>
    /\ ~ Missing /\ ValuesValid /\ given.map = None /\ given.header # None
    /\ HeaderReadable(given.header) /\ HeaderRead

InMap ==
  stage = "map" =>
    /\ ~ Missing /\ ValuesValid /\ given.header = None /\ given.map # None
    /\ MapRead

Undecided == stage # "done" => outcome = None

IInv ==
  /\ Configuration(given)
  /\ stage \in {"read", "validate", "header", "map", "done"}
  /\ Unread /\ Present /\ BeforeLoops /\ InHeader /\ InMap /\ Undecided
  /\ CredentialsAgree /\ AcceptedExactly
-----------------------------------------------------------------------------
\* One cookie.

LEMMA Names ==
  /\ Required \subseteq SessionCookieNames
  /\ "li_at" \in Required /\ "JSESSIONID" \in Required /\ "li_at" # "JSESSIONID"
  /\ \A name \in SessionCookieNames \ Required : name # "li_at" /\ name # "JSESSIONID"
  /\ \A name \in Required : name = "li_at" \/ name = "JSESSIONID"
BY DEF Required, SessionCookieNames

LEMMA Trimmed ==
  ASSUME NEW value \in Jsession
  PROVE  /\ TrimSpace(value) \in Jsession
         /\ TrimSpace(value).token = value.token /\ TrimSpace(value).padded = FALSE
BY DEF TrimSpace, Jsession

\* The cookie that is kept of a name is the one configured.
Matching(name, value) ==
  /\ name = "li_at" => value = given.liAt
  /\ name = "JSESSIONID" => value.token = given.jsession.token

\* Required values that are valid, as they are when a loop begins.
Valid == Configuration(given) /\ ~ Missing /\ ValuesValid

LEMMA ValidValues ==
  ASSUME Valid
  PROVE  /\ given.liAt \in LiAts
         /\ given.jsession \in Jsession /\ given.jsession.token \in Tokens
         /\ given.jsession.padded = FALSE
<1>1. given.jsession \in Jsession BY DEF Valid, Configuration, Missing
<1>2. given.liAt \in LiAts /\ given.jsession.token \in Tokens /\ ~ given.jsession.padded
  BY DEF Valid, ValuesValid, HasAjaxPrefix
<1>3. given.jsession.padded \in BOOLEAN BY <1>1 DEF Jsession
<1> QED BY <1>1, <1>2, <1>3, SessionCookiesAssumption

\* A token can be used as a cookie's value exactly if it is fit to be sent.
LEMMA TokenUsable ==
  ASSUME NEW name \in Required, NEW value, Text(name, value) \in LiAts \cup Tokens
  PROVE  Usable(name, value) <=> Text(name, value) \in Sendable
BY SessionCookiesAssumption DEF Usable, IsUnsafe, Sendable

LEMMA Fits ==
  ASSUME Valid, NEW name \in SessionCookieNames, NEW value \in ValuesOf(name)
  PROVE  /\ ~ Usable(name, value) => ~ Good(name, value)
         /\ Usable(name, value) => (Good(name, value) <=> Matching(name, Normalized(name, value)))
<1>1. CASE name = "li_at"
  <2>1. Normalized(name, value) = value BY <1>1 DEF Normalized
  <2>2. Good(name, value) <=> value = given.liAt /\ value \in Sendable BY <1>1 DEF Good
  <2>3. Text(name, value) = value BY <1>1 DEF Text
  <2>4. value = given.liAt => (Usable(name, value) <=> value \in Sendable)
    BY <1>1, <2>3, ValidValues, TokenUsable, Names
  <2> QED BY <1>1, <2>1, <2>2, <2>4 DEF Matching
<1>2. CASE name = "JSESSIONID"
  <2>1. value \in Jsession BY <1>2 DEF ValuesOf
  <2>2. Normalized(name, value) = TrimSpace(value) BY <1>2 DEF Normalized
  <2>3. Good(name, value) <=> value.token = given.jsession.token /\ value.token \in Sendable
    BY <1>2 DEF Good
  <2>4. Text(name, value) = value.token BY <1>2 DEF Text
  <2>5. value.token = given.jsession.token => (Usable(name, value) <=> value.token \in Sendable)
    BY <1>2, <2>4, ValidValues, TokenUsable, Names
  <2>6. TrimSpace(value).token = value.token BY <2>1, Trimmed
  <2> QED BY <1>2, <2>2, <2>3, <2>5, <2>6 DEF Matching
<1>3. CASE name \notin Required
  <2>1. name # "li_at" /\ name # "JSESSIONID" BY <1>3, Names
  <2>2. Good(name, value) <=> value = "usable" BY <2>1 DEF Good
  <2>3. value \in {"usable", "unusable", "unsafe"} /\ Text(name, value) = value
    BY <2>1 DEF ValuesOf, Text
  <2>4. Usable(name, value) <=> value = "usable"
    BY <2>3, SessionCookiesAssumption DEF Usable, IsUnsafe
  <2> QED BY <2>1, <2>2, <2>4 DEF Matching
<1> QED BY <1>1, <1>2, <1>3, Names

\* The last test of the import, cookie by cookie.
LEMMA MatchByCookie ==
  ASSUME Valid, "JSESSIONID" \in DOMAIN cookies => cookies["JSESSIONID"].padded = FALSE
  PROVE  RequiredValuesMatch <=>
           /\ Required \subseteq DOMAIN cookies
           /\ \A name \in DOMAIN cookies : Matching(name, cookies[name])
BY ValidValues, Names DEF RequiredValuesMatch, HasAjaxPrefix, Unquoted, Matching

-----------------------------------------------------------------------------
\* The verdict of each loop.

\* A header is a list; its values fit their names.
LEMMA HeaderIsList ==
  ASSUME Configuration(given), given.header # None
  PROVE  /\ DOMAIN given.header = 1..Len(given.header) /\ Len(given.header) \in Nat
         /\ \A i \in 1..Len(given.header) :
              given.header[i].value \in ValuesOf(given.header[i].name)
<1>1. /\ given.header \in Seq(Range(given.header))
      /\ \A segment \in Range(given.header) : segment.value \in ValuesOf(segment.name)
  BY DEF Configuration
<1>2. DOMAIN given.header = 1..Len(given.header) /\ Len(given.header) \in Nat BY <1>1
<1> QED BY <1>1, <1>2 DEF Range

LEMMA HeaderVerdict ==
  ASSUME Valid, given.header # None, HeaderReadable(given.header), HeaderRead,
         next > Len(given.header)
  PROVE  /\ RequiredValuesMatch <=> HeaderGood(given.header)
         /\ DOMAIN cookies \subseteq SessionCookieNames
<1> DEFINE header == given.header
           N == 1..Len(header)
<1>1. Configuration(given) BY DEF Valid
<1>2. DOMAIN header = N /\ Len(header) \in Nat
      /\ \A i \in N : header[i].value \in ValuesOf(header[i].name)
  BY <1>1, HeaderIsList
<1>3. next - 1 = Len(header)
  <2>1. next \in 1..(Len(header) + 1) BY DEF HeaderRead
  <2> QED BY <1>2, <2>1
<1>4. /\ DOMAIN cookies = {header[i].name : i \in N} \cap SessionCookieNames
      /\ \A i \in N : header[i].name \in SessionCookieNames =>
           /\ Usable(header[i].name, header[i].value)
           /\ cookies[header[i].name] = Normalized(header[i].name, header[i].value)
           /\ \A j \in N : header[j].name = header[i].name => j = i
  BY <1>3 DEF HeaderRead
<1> HIDE DEF N
<1>12. ~ given.long /\ \A i \in DOMAIN header : ~ IsUnsafe(Text(header[i].name, header[i].value))
  BY DEF HeaderReadable, Range
<1> HIDE DEF header
<1>5. \A i \in N : header[i].name \in SessionCookieNames =>
        (Good(header[i].name, header[i].value) <=> Matching(header[i].name, cookies[header[i].name]))
  BY <1>2, <1>4, Fits
<1>6. "JSESSIONID" \in DOMAIN cookies => cookies["JSESSIONID"].padded = FALSE
  <2> SUFFICES ASSUME "JSESSIONID" \in DOMAIN cookies PROVE cookies["JSESSIONID"].padded = FALSE
    OBVIOUS
  <2>1. PICK i \in N : header[i].name = "JSESSIONID" /\ "JSESSIONID" \in SessionCookieNames BY <1>4
  <2>2. header[i].value \in Jsession BY <1>2, <2>1 DEF ValuesOf
  <2>3. cookies["JSESSIONID"] = TrimSpace(header[i].value) BY <1>4, <2>1 DEF Normalized
  <2> QED BY <2>2, <2>3, Trimmed
<1>7. RequiredValuesMatch <=>
        /\ Required \subseteq DOMAIN cookies
        /\ \A name \in DOMAIN cookies : Matching(name, cookies[name])
  BY <1>6, MatchByCookie
<1>8. (\A name \in DOMAIN cookies : Matching(name, cookies[name])) <=>
        \A i \in N : header[i].name \in SessionCookieNames =>
          Good(header[i].name, header[i].value)
  BY <1>4, <1>5
<1>9. Required \subseteq DOMAIN cookies <=> \A name \in Required : \E i \in N : header[i].name = name
  BY <1>4, Names
<1>10. HeaderGood(header) <=>
         /\ \A name \in Required : \E i \in N : header[i].name = name
         /\ \A i \in N : header[i].name \in SessionCookieNames =>
              Good(header[i].name, header[i].value)
  BY <1>2, <1>4, <1>12 DEF HeaderGood
<1>11. RequiredValuesMatch <=> HeaderGood(header) BY <1>7, <1>8, <1>9, <1>10
<1> QED BY <1>4, <1>11 DEF header

LEMMA MapVerdict ==
  ASSUME Valid, given.map # None, MapRead, left = {}
  PROVE  /\ RequiredValuesMatch <=> MapGood(given.map)
         /\ DOMAIN cookies \subseteq SessionCookieNames
<1> DEFINE map == given.map
<1>1. \A name \in DOMAIN map : map[name] \in ValuesOf(name) BY DEF Valid, Configuration
<1>2. /\ DOMAIN cookies = DOMAIN map
      /\ \A name \in DOMAIN map :
           /\ name \in SessionCookieNames /\ Usable(name, map[name])
           /\ cookies[name] = Normalized(name, map[name])
  BY DEF MapRead
<1> HIDE DEF map
<1>3. \A name \in DOMAIN map : Good(name, map[name]) <=> Matching(name, cookies[name])
  BY <1>1, <1>2, Fits
<1>4. "JSESSIONID" \in DOMAIN cookies => cookies["JSESSIONID"].padded = FALSE
  <2> SUFFICES ASSUME "JSESSIONID" \in DOMAIN cookies PROVE cookies["JSESSIONID"].padded = FALSE
    OBVIOUS
  <2>1. map["JSESSIONID"] \in Jsession BY <1>1, <1>2 DEF ValuesOf
  <2>2. cookies["JSESSIONID"] = TrimSpace(map["JSESSIONID"]) BY <1>2 DEF Normalized
  <2> QED BY <2>1, <2>2, Trimmed
<1>5. RequiredValuesMatch <=>
        /\ Required \subseteq DOMAIN cookies
        /\ \A name \in DOMAIN cookies : Matching(name, cookies[name])
  BY <1>4, MatchByCookie
<1>6. RequiredValuesMatch <=> MapGood(map) BY <1>2, <1>3, <1>5 DEF MapGood
<1> QED BY <1>2, <1>6 DEF map

-----------------------------------------------------------------------------
\* A verdict, whatever its reason: the configuration and the cookies are what
\* they were.
Right(verdict) ==
  verdict # "absent" =>
    (verdict = "valid" <=>
       /\ ~ Missing
       /\ given.liAt \in LiAts /\ given.jsession.token \in Tokens /\ ~ given.jsession.padded
       /\ given.header = None \/ given.map = None
       /\ given.header # None => HeaderGood(given.header)
       /\ given.map # None => MapGood(given.map))

Agree ==
  /\ Required \subseteq DOMAIN CookiesSent
  /\ Unquoted(CookiesSent["JSESSIONID"]) = CsrfToken
  /\ CookiesSent["li_at"] = given.liAt
  /\ DOMAIN CookiesSent \subseteq SessionCookieNames

LEMMA EndKeeps ==
  ASSUME IInv, NEW verdict, End(verdict), Right(verdict), verdict = "valid" => Agree
  PROVE  IInv'
<1>1. stage' = "done" /\ outcome' = verdict /\ UNCHANGED <<given, next, left, cookies>>
  BY DEF End
<1>2. CredentialsAgree'
  BY <1>1 DEF CredentialsAgree, Agree, CookiesSent, CsrfToken
<1>3. AcceptedExactly'
  BY <1>1 DEF AcceptedExactly, Right, Missing, HeaderGood, MapGood, Good
<1>4. Configuration(given)' BY <1>1 DEF IInv
<1> QED BY <1>1, <1>2, <1>3, <1>4
     DEF IInv, Unread, Present, BeforeLoops, InHeader, InMap, Undecided

\* A step that decides nothing.
LEMMA GoesOn ==
  ASSUME stage' # "done", outcome' = None
  PROVE  CredentialsAgree' /\ AcceptedExactly' /\ Undecided'
BY SessionCookiesAssumption DEF CredentialsAgree, AcceptedExactly, Undecided

-----------------------------------------------------------------------------
\* The steps.

LEMMA EarlyVerdictsKeep ==
  ASSUME IInv, Absent \/ SecretIncomplete \/ RefuseValues
  PROVE  IInv'
<1>1. CASE Absent BY <1>1, EndKeeps DEF Absent, Right
<1>2. CASE SecretIncomplete BY <1>2, EndKeeps DEF SecretIncomplete, Right
<1>3. CASE RefuseValues
  <2>1. ~ Missing BY <1>3 DEF RefuseValues, IInv, Present
  <2>2. ~ ValuesValid => ~ (given.liAt \in LiAts /\ given.jsession.token \in Tokens /\ ~ given.jsession.padded)
    BY DEF ValuesValid, HasAjaxPrefix
  <2>3. Right("invalid") BY <1>3, <2>2 DEF RefuseValues, Right
  <2> QED BY <1>3, <2>3, EndKeeps DEF RefuseValues
<1> QED BY <1>1, <1>2, <1>3

LEMMA ReadKeeps ==
  ASSUME IInv, Read
  PROVE  IInv'
<1>1. stage = "read" /\ ~ Missing /\ stage' = "validate" /\ UNCHANGED <<next, left, cookies, outcome>>
      /\ given' = IF given.source = "environment"
                  THEN [given EXCEPT !.jsession = TrimSpace(@)] ELSE given
  BY DEF Read
<1>2. Configuration(given) BY DEF IInv
<1>3. Configuration(given)' /\ ~ Missing'
  <2>1. CASE given.source = "environment"
    <3>1. given' = [given EXCEPT !.jsession = TrimSpace(given.jsession)] BY <1>1, <2>1
    <3>2. given.jsession \in Jsession /\ given.jsession # None BY <1>1, <1>2 DEF Missing, Configuration
    <3>3. TrimSpace(given.jsession) \in Jsession BY <3>2, Trimmed
    <3>4. /\ DOMAIN given' = DOMAIN given /\ given'.jsession = TrimSpace(given.jsession)
          /\ given'.source = given.source /\ given'.liAt = given.liAt
          /\ given'.header = given.header /\ given'.long = given.long /\ given'.map = given.map
      BY <1>2, <3>1 DEF Configuration
    <3>5. Configuration(given') BY <1>2, <3>3, <3>4 DEF Configuration
    <3>6. TrimSpace(given.jsession) # None BY <3>3, SessionCookiesAssumption
    <3> QED BY <1>1, <3>4, <3>5, <3>6 DEF Missing
  <2>2. CASE given.source # "environment" BY <1>1, <1>2, <2>2 DEF Missing
  <2> QED BY <2>1, <2>2
<1>4. next = 1 /\ cookies = NoCookies /\ outcome = None
  BY <1>1 DEF IInv, Unread, BeforeLoops, Undecided
<1>5. CredentialsAgree' /\ AcceptedExactly' /\ Undecided' BY <1>1, <1>4, GoesOn
<1> QED BY <1>1, <1>3, <1>4, <1>5 DEF IInv, Unread, Present, BeforeLoops, InHeader, InMap

LEMMA ValidWhenValidated ==
  ASSUME IInv, stage = "validate", ValuesValid
  PROVE  Valid
BY DEF IInv, Present, Valid

LEMMA NoCookiesGivenKeeps ==
  ASSUME IInv, NoCookiesGiven
  PROVE  IInv'
<1>1. stage = "validate" /\ ValuesValid /\ given.map = None /\ given.header = None /\ End("valid")
  BY DEF NoCookiesGiven
<1>2. Valid BY <1>1, ValidWhenValidated
<1>3. Right("valid") BY <1>1, <1>2, ValidValues DEF Right, Valid
<1>4. cookies = NoCookies BY <1>1 DEF IInv, BeforeLoops
<1>5. Agree
  <2>1. CookiesSent = [name \in Required |->
          IF name = "li_at" THEN given.liAt ELSE [given.jsession EXCEPT !.quoted = TRUE]]
    BY <1>4 DEF CookiesSent
  <2>2. DOMAIN CookiesSent = Required /\ CookiesSent["li_at"] = given.liAt
        /\ CookiesSent["JSESSIONID"] = [given.jsession EXCEPT !.quoted = TRUE]
    BY <2>1, Names
  <2>3. [given.jsession EXCEPT !.quoted = TRUE].token = given.jsession.token
    BY <1>2, ValidValues DEF Jsession
  <2> QED BY <2>2, <2>3, Names DEF Agree, Unquoted, CsrfToken
<1> QED BY <1>1, <1>3, <1>5, EndKeeps

\* A header that is not read is not good: it is empty, too long, or unsafe in
\* one of its segments.
LEMMA RefuseHeaderKeeps ==
  ASSUME IInv, RefuseHeader
  PROVE  IInv'
<1>1. given.header # None /\ ~ HeaderReadable(given.header) /\ End("invalid") BY DEF RefuseHeader
<1>2. ~ HeaderGood(given.header)
  <2>1. CASE given.header = <<>>
    <3>1. DOMAIN <<>> = {} OBVIOUS
    <3> QED BY <2>1, <3>1, Names DEF HeaderGood
  <2>2. CASE given.long BY <2>2 DEF HeaderGood
  <2>3. CASE \E segment \in Range(given.header) : IsUnsafe(Text(segment.name, segment.value))
    <3>1. \E i \in DOMAIN given.header : IsUnsafe(Text(given.header[i].name, given.header[i].value))
      BY <2>3 DEF Range
    <3> QED BY <3>1 DEF HeaderGood
  <2> QED BY <1>1, <2>1, <2>2, <2>3 DEF HeaderReadable
<1>3. Right("invalid") BY <1>1, <1>2 DEF Right
<1> QED BY <1>1, <1>3, EndKeeps

LEMMA BeginHeaderKeeps ==
  ASSUME IInv, BeginHeader
  PROVE  IInv'
<1>1. stage = "validate" /\ ValuesValid /\ given.map = None /\ given.header # None
      /\ HeaderReadable(given.header)
      /\ stage' = "header" /\ UNCHANGED <<given, next, left, cookies, outcome>>
  BY DEF BeginHeader
<1>2. Configuration(given) /\ ~ Missing /\ next = 1 /\ cookies = NoCookies /\ outcome = None
  BY <1>1 DEF IInv, Present, BeforeLoops, Undecided
<1>3. HeaderRead
  <2>1. Len(given.header) \in Nat BY <1>1, <1>2, HeaderIsList
  <2>2. 1 \in 1..(Len(given.header) + 1) /\ 1..(1 - 1) = {} BY <2>1
  <2>3. DOMAIN cookies = {} BY <1>2 DEF NoCookies
  <2> QED BY <1>2, <2>2, <2>3 DEF HeaderRead
<1>4. CredentialsAgree' /\ AcceptedExactly' /\ Undecided' BY <1>1, <1>2, GoesOn
<1>5. InHeader' BY <1>1, <1>2, <1>3 DEF InHeader, HeaderRead, HeaderReadable, Missing, ValuesValid
<1>6. Configuration(given)' BY <1>1, <1>2
<1> QED BY <1>1, <1>4, <1>5, <1>6 DEF IInv, Unread, Present, BeforeLoops, InMap

LEMMA BeginMapKeeps ==
  ASSUME IInv, BeginMap
  PROVE  IInv'
<1>1. stage = "validate" /\ ValuesValid /\ given.map # None /\ given.header = None
      /\ stage' = "map" /\ left' = DOMAIN given.map /\ UNCHANGED <<given, next, cookies, outcome>>
  BY DEF BeginMap
<1>2. Configuration(given) /\ ~ Missing /\ cookies = NoCookies /\ outcome = None
  BY <1>1 DEF IInv, Present, BeforeLoops, Undecided
<1>3. MapRead'
  <2>1. DOMAIN cookies = {} BY <1>2 DEF NoCookies
  <2> QED BY <1>1, <2>1 DEF MapRead
<1>4. CredentialsAgree' /\ AcceptedExactly' /\ Undecided' BY <1>1, <1>2, GoesOn
<1>5. InMap' BY <1>1, <1>2, <1>3 DEF InMap, Missing, ValuesValid
<1>6. Configuration(given)' BY <1>1, <1>2
<1> QED BY <1>1, <1>4, <1>5, <1>6 DEF IInv, Unread, Present, BeforeLoops, InHeader

\* A segment more, kept or not.
LEMMA SegmentStep ==
  ASSUME IInv, stage = "header", next \in 1..Len(given.header), next' = next + 1,
         UNCHANGED <<given, stage, left, outcome>>, HeaderRead'
  PROVE  IInv'
<1>1. InHeader' BY DEF IInv, InHeader, HeaderReadable, Missing, ValuesValid
<1>2. CredentialsAgree' /\ AcceptedExactly' /\ Undecided'
  BY GoesOn DEF IInv, Undecided
<1>3. Configuration(given)' BY DEF IInv
<1> QED BY <1>1, <1>2, <1>3 DEF IInv, Unread, Present, BeforeLoops, InMap

LEMMA SegmentStepsKeep ==
  ASSUME IInv, SkipSegment \/ TakeSegment
  PROVE  IInv'
<1> DEFINE header == given.header
           N == 1..(next - 1)
           M == 1..(next' - 1)
           name == header[next].name
           value == header[next].value
<1>1. stage = "header" /\ next <= Len(header) /\ next' = next + 1
      /\ UNCHANGED <<given, stage, left, outcome>>
  BY DEF SkipSegment, TakeSegment
<1>2. HeaderRead /\ given.header # None /\ Configuration(given) BY <1>1 DEF IInv, InHeader
<1>3. next \in 1..Len(header) /\ Len(header) \in Nat
  <2>1. Len(header) \in Nat BY <1>2, HeaderIsList
  <2>2. next \in 1..(Len(header) + 1) BY <1>2 DEF HeaderRead
  <2> QED BY <1>1, <2>1, <2>2
<1>4. M = N \cup {next} /\ next \notin N /\ next' \in 1..(Len(header) + 1)
  BY <1>1, <1>3
<1>5. /\ DOMAIN cookies = {header[i].name : i \in N} \cap SessionCookieNames
      /\ \A i \in N : header[i].name \in SessionCookieNames =>
           /\ Usable(header[i].name, header[i].value)
           /\ cookies[header[i].name] = Normalized(header[i].name, header[i].value)
           /\ \A j \in N : header[j].name = header[i].name => j = i
  BY <1>2 DEF HeaderRead
<1> HIDE DEF N, M
<1>6. /\ DOMAIN cookies' = {header[i].name : i \in M} \cap SessionCookieNames
      /\ \A i \in M : header[i].name \in SessionCookieNames =>
           /\ Usable(header[i].name, header[i].value)
           /\ cookies'[header[i].name] = Normalized(header[i].name, header[i].value)
           /\ \A j \in M : header[j].name = header[i].name => j = i
  <2>1. CASE SkipSegment
    <3>1. name \notin SessionCookieNames /\ cookies' = cookies
      BY <2>1 DEF SkipSegment, IsSession, Segment
    <3> QED BY <1>4, <1>5, <3>1
  <2>2. CASE TakeSegment
    <3>1. /\ name \in SessionCookieNames /\ name \notin DOMAIN cookies /\ Usable(name, value)
          /\ cookies' = [n \in DOMAIN cookies \cup {name} |->
                           IF n = name THEN Normalized(name, value) ELSE cookies[n]]
      BY <2>2 DEF TakeSegment, IsSession, Repeated, Segment, Keep
    <3>2. \A i \in N : header[i].name # name BY <1>5, <3>1
    <3>3. DOMAIN cookies' = DOMAIN cookies \cup {name} /\ cookies'[name] = Normalized(name, value)
          /\ \A n \in DOMAIN cookies : cookies'[n] = cookies[n]
      BY <3>1
    <3>4. DOMAIN cookies' = {header[i].name : i \in M} \cap SessionCookieNames
      BY <1>4, <1>5, <3>1, <3>3
    <3>5. ASSUME NEW i \in M, header[i].name \in SessionCookieNames
          PROVE  /\ Usable(header[i].name, header[i].value)
                 /\ cookies'[header[i].name] = Normalized(header[i].name, header[i].value)
                 /\ \A j \in M : header[j].name = header[i].name => j = i
      <4>1. CASE i = next BY <1>4, <3>1, <3>2, <3>3, <4>1
      <4>2. CASE i \in N
        <5>1. header[i].name \in DOMAIN cookies BY <1>5, <3>5, <4>2
        <5> QED BY <1>4, <1>5, <3>2, <3>3, <3>5, <4>2, <5>1
      <4> QED BY <1>4, <4>1, <4>2
    <3> QED BY <3>4, <3>5
  <2> QED BY <2>1, <2>2
<1>7. HeaderRead'
  BY <1>1, <1>4, <1>6 DEF HeaderRead, M
<1> QED BY <1>1, <1>3, <1>7, SegmentStep

LEMMA RefuseSegmentKeeps ==
  ASSUME IInv, RefuseSegment
  PROVE  IInv'
<1> DEFINE header == given.header
           name == header[next].name
           value == header[next].value
<1>1. /\ stage = "header" /\ next <= Len(header) /\ name \in SessionCookieNames
      /\ name \in DOMAIN cookies \/ ~ Usable(name, value)
      /\ End("invalid")
  BY DEF RefuseSegment, IsSession, Repeated, Segment
<1>2. HeaderRead /\ given.header # None /\ Valid BY <1>1 DEF IInv, InHeader, Valid
<1>3. /\ DOMAIN header = 1..Len(header) /\ Len(header) \in Nat /\ next \in 1..Len(header)
      /\ value \in ValuesOf(name)
  <2>1. DOMAIN header = 1..Len(header) /\ Len(header) \in Nat
        /\ \A i \in 1..Len(header) : header[i].value \in ValuesOf(header[i].name)
    BY <1>2, HeaderIsList DEF Valid
  <2>2. next \in 1..(Len(header) + 1) BY <1>2 DEF HeaderRead
  <2>3. next \in 1..Len(header) BY <1>1, <2>1, <2>2
  <2> QED BY <2>1, <2>3
<1>4. ~ HeaderGood(header)
  <2>1. CASE ~ Usable(name, value)
    <3>1. ~ Good(name, value) BY <1>1, <1>2, <1>3, <2>1, Fits
    <3> QED BY <1>1, <1>3, <3>1 DEF HeaderGood
  <2>2. CASE name \in DOMAIN cookies
    <3>1. PICK i \in 1..(next - 1) : header[i].name = name BY <1>2, <2>2 DEF HeaderRead
    <3>2. i \in DOMAIN header /\ i # next BY <1>3
    <3> QED BY <1>1, <1>3, <3>1, <3>2 DEF HeaderGood
  <2> QED BY <1>1, <2>1, <2>2
<1>5. Right("invalid") BY <1>2, <1>4 DEF Right
<1> QED BY <1>1, <1>5, EndKeeps

LEMMA RefuseEntryKeeps ==
  ASSUME IInv, NEW name \in left, RefuseEntry(name)
  PROVE  IInv'
<1>1. /\ stage = "map"
      /\ name \notin SessionCookieNames \/ ~ Usable(name, given.map[name])
      /\ End("invalid")
  BY DEF RefuseEntry
<1>2. MapRead /\ given.map # None /\ Valid BY <1>1 DEF IInv, InMap, Valid
<1>3. name \in DOMAIN given.map BY <1>2 DEF MapRead
<1>4. given.map[name] \in ValuesOf(name) BY <1>2, <1>3 DEF Valid, Configuration
<1>5. ~ MapGood(given.map)
  BY <1>1, <1>2, <1>3, <1>4, Fits DEF MapGood
<1>6. Right("invalid") BY <1>2, <1>5 DEF Right
<1> QED BY <1>1, <1>6, EndKeeps

LEMMA TakeEntryKeeps ==
  ASSUME IInv, NEW name \in left, TakeEntry(name)
  PROVE  IInv'
<1> DEFINE map == given.map
<1>1. /\ stage = "map" /\ name \in SessionCookieNames /\ Usable(name, map[name])
      /\ cookies' = [n \in DOMAIN cookies \cup {name} |->
                       IF n = name THEN Normalized(name, map[name]) ELSE cookies[n]]
      /\ left' = left \ {name} /\ UNCHANGED <<given, stage, next, outcome>>
  BY DEF TakeEntry, Keep
<1>2. /\ left \subseteq DOMAIN map
      /\ DOMAIN cookies = DOMAIN map \ left
      /\ \A n \in DOMAIN cookies :
           /\ n \in SessionCookieNames /\ Usable(n, map[n])
           /\ cookies[n] = Normalized(n, map[n])
  BY <1>1 DEF IInv, InMap, MapRead
<1>3. DOMAIN cookies' = DOMAIN cookies \cup {name} /\ cookies'[name] = Normalized(name, map[name])
      /\ \A n \in DOMAIN cookies : n # name => cookies'[n] = cookies[n]
  BY <1>1
<1>4. /\ left' \subseteq DOMAIN map
      /\ DOMAIN cookies' = DOMAIN map \ left'
      /\ \A n \in DOMAIN cookies' :
           /\ n \in SessionCookieNames /\ Usable(n, map[n])
           /\ cookies'[n] = Normalized(n, map[n])
  BY <1>1, <1>2, <1>3
<1>5. MapRead' BY <1>1, <1>4 DEF MapRead
<1>6. InMap' BY <1>1, <1>5 DEF IInv, InMap, Missing, ValuesValid
<1>7. CredentialsAgree' /\ AcceptedExactly' /\ Undecided'
  BY <1>1, GoesOn DEF IInv, Undecided
<1>8. Configuration(given)' BY <1>1 DEF IInv
<1> QED BY <1>1, <1>6, <1>7, <1>8 DEF IInv, Unread, Present, BeforeLoops, InHeader

LEMMA EndImportKeeps ==
  ASSUME IInv, EndImport
  PROVE  IInv'
<1> DEFINE verdict == IF RequiredValuesMatch THEN "valid" ELSE "invalid"
<1>1. End(verdict) BY DEF EndImport
<1>2. Right(verdict) /\ Valid /\ DOMAIN cookies \subseteq SessionCookieNames
  <2>1. CASE stage = "header"
    <3>1. /\ Valid /\ HeaderReadable(given.header) /\ HeaderRead
          /\ given.header # None /\ given.map = None
      BY <2>1 DEF IInv, InHeader, Valid
    <3>2. next > Len(given.header) BY <2>1 DEF EndImport
    <3>3. /\ RequiredValuesMatch <=> HeaderGood(given.header)
          /\ DOMAIN cookies \subseteq SessionCookieNames
      BY <3>1, <3>2, HeaderVerdict
    <3> QED BY <3>1, <3>3, ValidValues DEF Right, Valid
  <2>2. CASE stage = "map"
    <3>1. Valid /\ MapRead /\ given.map # None /\ given.header = None
      BY <2>2 DEF IInv, InMap, Valid
    <3>2. left = {} BY <2>2 DEF EndImport
    <3>3. /\ RequiredValuesMatch <=> MapGood(given.map)
          /\ DOMAIN cookies \subseteq SessionCookieNames
      BY <3>1, <3>2, MapVerdict
    <3> QED BY <3>1, <3>3, ValidValues DEF Right, Valid
  <2> QED BY <2>1, <2>2 DEF EndImport
<1>3. ASSUME RequiredValuesMatch PROVE Agree
  <2>1. /\ Required \subseteq DOMAIN cookies /\ cookies["li_at"] = given.liAt
        /\ Unquoted(cookies["JSESSIONID"]) = Unquoted(given.jsession)
    BY <1>3 DEF RequiredValuesMatch
  <2>2. cookies # NoCookies BY <2>1, Names DEF NoCookies
  <2>3. CookiesSent = cookies BY <2>2 DEF CookiesSent
  <2> QED BY <1>2, <2>1, <2>3 DEF Agree, CsrfToken
<1>4. verdict = "valid" => Agree BY <1>3
<1> HIDE DEF verdict
<1> QED BY <1>1, <1>2, <1>4, EndKeeps

-----------------------------------------------------------------------------
LEMMA Invariance == Spec => []IInv
<1>1. Init => IInv
  BY SessionCookiesAssumption
  DEF Init, IInv, Unread, Present, BeforeLoops, InHeader, InMap, Undecided,
      CredentialsAgree, AcceptedExactly
<1>2. IInv /\ [Next]_vars => IInv'
  <2> SUFFICES ASSUME IInv, [Next]_vars PROVE IInv'
    OBVIOUS
  <2>1. CASE UNCHANGED vars
    <3>1. UNCHANGED <<given, stage, next, left, cookies, outcome>> BY <2>1 DEF vars
    <3>2. CredentialsAgree' BY <3>1 DEF IInv, CredentialsAgree, CookiesSent, CsrfToken
    <3>3. AcceptedExactly'
      BY <3>1 DEF IInv, AcceptedExactly, Missing, HeaderGood, MapGood, Good
    <3>4. InHeader'
      <4>1. HeaderReadable(given.header)' = HeaderReadable(given.header) BY <3>1 DEF HeaderReadable
      <4>2. HeaderRead' = HeaderRead BY <3>1 DEF HeaderRead
      <4> QED BY <3>1, <4>1, <4>2 DEF IInv, InHeader, Missing, ValuesValid
    <3>5. InMap' BY <3>1 DEF IInv, InMap, MapRead, Missing, ValuesValid
    <3>6. Configuration(given)' BY <3>1 DEF IInv
    <3> QED BY <3>1, <3>2, <3>3, <3>4, <3>5, <3>6
         DEF IInv, Unread, Present, BeforeLoops, Undecided, Missing
  <2>2. CASE Absent \/ SecretIncomplete \/ RefuseValues BY <2>2, EarlyVerdictsKeep
  <2>3. CASE SkipSegment \/ TakeSegment BY <2>3, SegmentStepsKeep
  <2>4. ASSUME NEW name \in left, RefuseEntry(name) \/ TakeEntry(name) PROVE IInv'
    BY <2>4, RefuseEntryKeeps, TakeEntryKeeps
  <2> QED BY <2>1, <2>2, <2>3, <2>4, ReadKeeps, NoCookiesGivenKeeps, RefuseHeaderKeeps,
             BeginHeaderKeeps, BeginMapKeeps, RefuseSegmentKeeps, EndImportKeeps DEF Next, Done
<1> QED BY <1>1, <1>2, PTL DEF Spec

\* What is sent agrees with itself and is the session that was configured, in
\* whichever form and order its cookies were given (validateRequiredValues).
THEOREM CredentialsDoAgree == Spec => []CredentialsAgree
<1>1. IInv => CredentialsAgree BY DEF IInv
<1> QED BY <1>1, Invariance, PTL

\* A configuration is accepted if it should be and not otherwise, whatever the
\* number and order of its header's segments and of its map's entries
\* (ImportCookieHeader with the whole header looked at first, ValidateCookieMap).
THEOREM ExactlyTheGoodAreAccepted == Spec => []AcceptedExactly
<1>1. IInv => AcceptedExactly BY DEF IInv
<1> QED BY <1>1, Invariance, PTL
=============================================================================
