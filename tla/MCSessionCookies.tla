--------------------------- MODULE MCSessionCookies ---------------------------
(* Model-checking instance of SessionCookies: see MCSessionCookies.cfg. *)
EXTENDS SessionCookies, SequencesExt

CONSTANTS liA, liB, liUnsafe, liLong, t1, t2, tUnsafe

J(token, quoted, padded) == [token |-> token, quoted |-> quoted, padded |-> padded]

MCLiAts == {liA, liB, liUnsafe, liLong}
GivenLiAts == {None, "blank", "short", liA, liUnsafe, liLong}
GivenJsessions ==
  {None, J("blank", FALSE, FALSE), J("other", FALSE, FALSE)} \cup
  {J(t1, quoted, padded) : quoted, padded \in BOOLEAN} \cup {J(tUnsafe, FALSE, FALSE)}

CookieLiAts == {liA, liB, "short"}
CookieJsessions == {J(t1, FALSE, TRUE), J(t1, TRUE, FALSE), J(t2, FALSE, FALSE)}

Segments ==
  [name : {"li_at"}, value : CookieLiAts] \cup [name : {"JSESSIONID"}, value : CookieJsessions]
    \cup [name : {"lang"}, value : {"usable", "unusable"}]
    \cup [name : {"other"}, value : {"usable", "unsafe"}]

\* In the short headers also li_at and JSESSIONID as configured but not fit to
\* be sent, an empty foreign cookie, an unsafe session cookie.
AllSegments ==
  Segments \cup [name : {"li_at"}, value : {liUnsafe, liLong}]
    \cup [name : {"JSESSIONID"}, value : {J(tUnsafe, FALSE, FALSE)}]
    \cup [name : {"lang"}, value : {"unsafe"}] \cup [name : {"other"}, value : {"unusable"}]

Maps ==
  UNION {{[n \in names |-> CASE n = "li_at" -> l [] n = "JSESSIONID" -> j [] OTHER -> v] :
            l \in CookieLiAts \cup {liUnsafe, liLong},
            j \in CookieJsessions \cup {J(tUnsafe, FALSE, FALSE)},
            v \in {"usable", "unusable", "unsafe"}} :
         names \in SUBSET {"li_at", "JSESSIONID", "lang", "other"}}

MCConfigured ==
  [source : {"environment", "secret"}, liAt : GivenLiAts, jsession : GivenJsessions,
   header : {None} \cup BoundedSeq(AllSegments, 2), long : {FALSE}, map : {None}] \cup
  [source : {"environment", "secret"}, liAt : {liA}, jsession : GivenJsessions,
   header : SeqOf(Segments, 4) \ SeqOf(Segments, 2), long : {FALSE}, map : {None}] \cup
  [source : {"secret"}, liAt : {liA}, jsession : GivenJsessions,
   header : SeqOf(Segments, 2) \ {<<>>}, long : {TRUE}, map : {None}] \cup
  [source : {"secret"}, liAt : GivenLiAts, jsession : GivenJsessions,
   header : {None, <<>>}, long : {FALSE}, map : Maps]
=============================================================================
