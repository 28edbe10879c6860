-------------------------------- MODULE HttpApi --------------------------------
(***************************************************************************)
(* api/api.go: the way of one HTTP request through the middlewares that    *)
(* CreateApp installs, its handler, and back.                              *)
(*                                                                         *)
(* gin (external) runs the chain like nested calls: Next runs what is left *)
(* of it and comes back, Abort makes Next come back at once.  The position *)
(* is the middleware that runs now and whether it is on its way in, before *)
(* its Next, or on its way out.  Headers set on the writer go on the wire  *)
(* with the first write; what is set later stays behind.                   *)
(*                                                                         *)
(* The limiter's verdict, what the body and the URL are, and how           *)
(* GetProfile ends, unless it refuses the URL, are inputs; RateLimiter and *)
(* ProfileService model them.                                              *)
(***************************************************************************)
EXTENDS Integers, ProfileUrls

CONSTANTS
  Urls,   \* bound: the URLs that clients send
  None    \* nothing sent, nothing asked, no error

Outcomes ==
  {"profile", "contact_info_disabled", "invalid_url", "not found", "rate limited",
   "authentication", "budget", "upstream", "credentials", "parse"}

\* Requests: the documentation is at a path that no route serves.
Targets == {"index", "health", "profiles", "documentation"}
Bodies == {"declared too large", "too large", "malformed", "valid"}

Request ==
  [method : {"GET", "POST", "DELETE"}, target : Targets, id : {"safe", "unsafe"},
   body : Bodies, url : Urls]

\* What goes on the wire with the first write.
Codes ==
  Outcomes \cup {"client_rate_limited", "request_too_large", "invalid_request",
                 "static", "demonstration", "no route"}

Response ==
  [status : 200..599, code : Codes, id : {"supplied", "generated", "none"},
   headers : SUBSET {"Retry-After", "security"}]

ASSUME HttpAssumption ==
  /\ Urls \subseteq Url
  /\ None \notin Response \cup Outcomes \cup {"allowed", "refused"}

VARIABLES
  request,    \* the request, fixed
  position,   \* index of the middleware that runs, 0 when gin has the request back
  way,        \* "in" before its Next, "out" after it
  asked,      \* the limiter's verdict, None if it was not asked
  requestId,  \* the context's "request_id": supplied, generated or none
  served,     \* how GetProfile ended, None if it was not called
  error,      \* c.Errors.Last
  headers,    \* headers set on the writer
  sent,       \* what went on the wire, None before the first write
  writes      \* number of bodies written

vars == <<request, position, way, asked, requestId, served, error, headers, sent, writes>>

TypeOK ==
  /\ request \in Request
  /\ position \in 0..4
  /\ way \in {"in", "out"}
  /\ asked \in {"allowed", "refused", None}
  /\ requestId \in {"supplied", "generated", "none"}
  /\ served \in Outcomes \cup {None}
  /\ error \in (Outcomes \ {"profile"}) \cup {None}
  /\ headers \subseteq {"Retry-After", "security"}
  /\ sent \in Response \cup {None}
  /\ writes \in Nat

Init ==
  /\ request \in Request
  /\ position = 1
  /\ way = "in"
  /\ asked = None
  /\ requestId = "none"
  /\ served = None
  /\ error = None
  /\ headers = {}
  /\ sent = None
  /\ writes = 0

-----------------------------------------------------------------------------
\* The chain: a request without a route has no handler.
BodyFirst == <<"body", "context", "errors">>
Middlewares == <<"context", "body", "errors">>

Routed ==
  \/ request.target \in {"index", "health"} /\ request.method = "GET"
  \/ request.target = "profiles" /\ request.method \in {"GET", "POST"}

Chain == Middlewares \o (IF Routed THEN <<"handler">> ELSE <<>>)

Running(name) == position \in 1..Len(Chain) /\ Chain[position] = name
In(name) == way = "in" /\ Running(name)
Out(name) == way = "out" /\ Running(name)

\* Next of the last one comes back at once.
GoOn ==
  IF position = Len(Chain) THEN way' = "out" /\ UNCHANGED position
                           ELSE position' = position + 1 /\ UNCHANGED way
GoBack == way' = "out" /\ position' = position - 1

\* A body is written; the first one takes the status and the headers along.
Write(status, code, id, with) ==
  /\ writes' = writes + 1
  /\ headers' = headers \cup with
  /\ sent' = IF sent = None
             THEN [status |-> status, code |-> code, id |-> id, headers |-> headers']
             ELSE sent

ErrorResponse(status, code, with) == Write(status, code, requestId', with)

-----------------------------------------------------------------------------
\* RequestContextMiddleware
LimitedPostOnly == request.target = "profiles" /\ request.method = "POST"
Limited == request.target = "profiles"

SetRequestId == requestId' = IF request.id = "safe" THEN "supplied" ELSE "generated"

Refuse ==
  /\ In("context") /\ Limited
  /\ SetRequestId
  /\ asked' = "refused"
  /\ ErrorResponse(429, "client_rate_limited", {"Retry-After"})
  /\ GoBack
  /\ UNCHANGED <<request, served, error>>

Admit ==
  /\ In("context")
  /\ SetRequestId
  /\ asked' = IF Limited THEN "allowed" ELSE None
  /\ GoOn
  /\ UNCHANGED <<request, served, error, headers, sent, writes>>

SetHeaders ==
  /\ Out("context")
  /\ headers' = headers \cup {"security"}
  /\ GoBack
  /\ UNCHANGED <<request, asked, requestId, served, error, sent, writes>>

\* BodyLimitMiddleware
TooLarge ==
  /\ request.target = "profiles" /\ request.method = "POST"
  /\ request.body \in {"declared too large", "too large"}

RejectBody ==
  /\ In("body") /\ TooLarge
  /\ UNCHANGED requestId
  /\ ErrorResponse(413, "request_too_large", {})
  /\ GoBack
  /\ UNCHANGED <<request, asked, served, error>>

PassBody ==
  /\ \/ In("body") /\ ~ TooLarge /\ GoOn
     \/ Out("body") /\ GoBack
  /\ UNCHANGED <<request, asked, requestId, served, error, headers, sent, writes>>

\* ErrorHandlerMiddleware: nothing on the way in, the last error on the way out.
EnterHandlers ==
  /\ In("errors") /\ GoOn
  /\ UNCHANGED <<request, asked, requestId, served, error, headers, sent, writes>>

LeaveHandlers ==
  /\ Out("errors") /\ error = None /\ GoBack
  /\ UNCHANGED <<request, asked, requestId, served, error, headers, sent, writes>>

SessionIs401(e) ==
  CASE e = "contact_info_disabled" -> 403
    [] e = "invalid_url" -> 422
    [] e = "not found" -> 404
    [] e = "rate limited" -> 429
    [] e = "authentication" -> 401
    [] OTHER -> 500
StatusOf(e) ==
  CASE e = "contact_info_disabled" -> 403
    [] e = "invalid_url" -> 422
    [] e = "not found" -> 404
    [] e = "rate limited" -> 429
    [] e \in {"authentication", "budget"} -> 503
    [] OTHER -> 500

RetryAfterOf(e) == IF e = "rate limited" THEN {"Retry-After"} ELSE {}

TellError ==
  /\ Out("errors") /\ error # None
  /\ UNCHANGED requestId
  /\ ErrorResponse(StatusOf(error), error, RetryAfterOf(error))
  /\ GoBack
  /\ UNCHANGED <<request, asked, served, error>>

-----------------------------------------------------------------------------
\* The handlers
ServeStatic ==
  /\ In("handler") /\ request.target \in {"index", "health"}
  /\ Write(200, "static", "none", {})
  /\ GoBack
  /\ UNCHANGED <<request, asked, requestId, served, error>>

\* A body that is no JSON request, or a missing or overlong url parameter.
Invalid ==
  IF request.method = "POST" THEN request.body = "malformed"
                             ELSE request.url.long \/ request.url.text = "empty"

RejectRequestTwice ==
  /\ In("handler") /\ request.target = "profiles" /\ Invalid
  /\ UNCHANGED requestId
  /\ ErrorResponse(422, "invalid_request", {})
  /\ error' = "invalid_url"
  /\ GoBack
  /\ UNCHANGED <<request, asked, served>>
RejectRequest ==
  /\ In("handler") /\ request.target = "profiles" /\ Invalid
  /\ UNCHANGED requestId
  /\ ErrorResponse(422, "invalid_request", {})
  /\ GoBack
  /\ UNCHANGED <<request, asked, served, error>>

ServeDemonstration ==
  /\ In("handler") /\ request.target = "profiles" /\ ~ Invalid /\ request.url.demonstration
  /\ Write(200, "demonstration", "none", {})
  /\ GoBack
  /\ UNCHANGED <<request, asked, requestId, served, error>>

\* GetProfile looks at the contact option first and at the URL next.
GetProfileEndsWith(outcome) ==
  \/ outcome = "contact_info_disabled"
  \/ outcome = "invalid_url" /\ ~ Accepted(request.url)
  \/ outcome \notin {"contact_info_disabled", "invalid_url"} /\ Accepted(request.url)

ServeProfile ==
  /\ In("handler") /\ request.target = "profiles" /\ ~ Invalid /\ ~ request.url.demonstration
  /\ GetProfileEndsWith("profile")
  /\ served' = "profile"
  /\ Write(200, "profile", "none", {})
  /\ GoBack
  /\ UNCHANGED <<request, asked, requestId, error>>

FailProfile(outcome) ==
  /\ In("handler") /\ request.target = "profiles" /\ ~ Invalid /\ ~ request.url.demonstration
  /\ GetProfileEndsWith(outcome)
  /\ served' = outcome
  /\ error' = outcome
  /\ GoBack
  /\ UNCHANGED <<request, asked, requestId, headers, sent, writes>>

-----------------------------------------------------------------------------
\* gin answers a request without a route itself, unless somebody has written.
NotFound ==
  /\ position = 0 /\ sent = None
  /\ Write(404, "no route", "none", {})
  /\ UNCHANGED <<request, position, way, asked, requestId, served, error>>

Done == position = 0 /\ sent # None

Next ==
  \/ Refuse \/ Admit \/ SetHeaders
  \/ RejectBody \/ PassBody
  \/ EnterHandlers \/ LeaveHandlers \/ TellError
  \/ ServeStatic \/ RejectRequest \/ ServeDemonstration \/ ServeProfile
  \/ \E outcome \in Outcomes \ {"profile"} : FailProfile(outcome)
  \/ NotFound
  \/ (Done /\ UNCHANGED vars)

Spec == Init /\ [][Next]_vars

-----------------------------------------------------------------------------
\* Every request gets exactly one response: nobody on the way out writes a
\* second body behind the first, and a request that has a route is answered by
\* the application (errorResponse's Abort, ErrorHandlerMiddleware).
OneResponse ==
  /\ writes <= 1
  /\ Done => writes = 1 /\ (Routed => sent.code # "no route")

\* Only what the limiter admitted reaches the service, whatever the method,
\* and nothing that the body limit stops ("Built-in IP-based rate limiter to
\* protect the session cookies", README.md).
OnlyAdmittedAreFetched == served # None => asked = "allowed" /\ ~ TooLarge

\* The status says what happened: 200 for a profile only if it was served or
\* is the demonstration, 429 exactly if the limiter or LinkedIn asks to wait,
\* and then with Retry-After on the wire, and 5xx exactly if the service
\* failed for a reason that is not the caller's (ErrorHandlerMiddleware).
StatusTellsOutcome ==
  Done /\ request.target = "profiles" /\ Routed =>
    /\ sent.status = 200 <=>
         (served = "profile" \/ (asked = "allowed" /\ sent.code = "demonstration"))
    /\ sent.status = 429 <=> (asked = "refused" \/ served = "rate limited")
    /\ sent.status = 429 => "Retry-After" \in sent.headers
    /\ sent.status >= 500 <=> served \in {"authentication", "budget", "upstream", "credentials", "parse"}

\* 422 means that the request or its URL is at fault and nothing else: of the
\* admitted requests that can be read, exactly those whose URL is no page of a
\* member are answered so, unless contact information is refused first, or the
\* demonstration is served, which is found in any text; and a page is taken
\* for its own member and no other (ParseLinkedInProfileURL, the handlers).
Pages == {id \in Identifiers : PageOf(request.url, id)}

RefusedForCause ==
  /\ Accepted(request.url) => Pages = {PublicIdentifier(request.url)}
  /\ Done /\ asked = "allowed" /\ Routed /\ ~ TooLarge =>
       (sent.status = 422 <=>
          \/ Invalid
          \/ /\ Pages = {} /\ ~ request.url.demonstration
             /\ served # "contact_info_disabled")

\* Every error response of the application names its request: by the id the
\* client supplied if that is a safe one, else by a generated one.
ErrorsNameTheRequest ==
  sent # None /\ sent.status >= 400 /\ sent.code # "no route" =>
    sent.id = IF request.id = "safe" THEN "supplied" ELSE "generated"

\* "Interactive documentation and health endpoints are available
\* out-of-the-box" (README.md): both paths the index names are served.
AdvertisedAreServed ==
  Done /\ request.method = "GET" /\ request.target \in {"health", "documentation"} =>
    sent.status = 200
=============================================================================
