----------------------------- MODULE HttpApiProofs -----------------------------
(***************************************************************************)
(* Theorems about HttpApi: what holds of the response to every request,    *)
(* whatever the URLs, the limiter and GetProfile.                          *)
(*                                                                         *)
(* The inductive invariant follows the request through the chain: nothing  *)
(* happens on the way in, and on the way out the response tells which of   *)
(* the writers it comes from (Origin).                                     *)
(***************************************************************************)
EXTENDS HttpApi, TLAPS, FiniteSetTheorems

Named == IF request.id = "safe" THEN "supplied" ELSE "generated"

Profiles == request.target = "profiles"

\* Parts of the chain.
AtGin == position = 0
AtLimiter == position = 1
PastTheLimiter == position \in 2..4
AfterErrors == position \in 0..2
AtErrors == position = 3
BeforeHandler == position \in 0..3
InsideBodyLimit == position \in 3..4

OnTheWayIn ==
  way = "in" =>
    /\ ~ AtGin /\ sent = None /\ served = None /\ error = None
    /\ AtLimiter => asked = None

PastLimiter ==
  PastTheLimiter \/ (way = "out" /\ asked # "refused") =>
    /\ asked = IF Limited THEN "allowed" ELSE None
    /\ requestId = Named

RefusedAtOnce ==
  asked = "refused" => AtGin /\ way = "out" /\ Limited /\ sent # None /\ served = None

BodyFits == InsideBodyLimit \/ served # None => ~ TooLarge

InChain == position <= Len(Chain)

WrittenOnce == writes = IF sent = None THEN 0 ELSE 1

ErrorIsServed == error = IF served \in {None, "profile"} THEN None ELSE served

ServedByHandler == served # None => Profiles /\ Routed /\ asked = "allowed"

\* On the way out a response is missing only if ErrorHandlerMiddleware or gin
\* is going to write it.
Unwritten ==
  way = "out" /\ BeforeHandler /\ sent = None =>
    \/ AtErrors /\ error # None
    \/ ~ Routed /\ error = None

FromLimiter ==
  /\ asked = "refused" /\ sent.status = 429 /\ sent.code = "client_rate_limited"
  /\ "Retry-After" \in sent.headers /\ sent.id = Named
FromBodyLimit ==
  /\ TooLarge /\ served = None /\ asked # "refused" /\ sent.status = 413 /\ sent.code = "request_too_large"
  /\ sent.id = Named
FromErrors ==
  /\ error # None /\ AfterErrors
  /\ sent.status = StatusOf(error) /\ sent.code = error /\ sent.id = Named
  /\ error = "rate limited" => "Retry-After" \in sent.headers
FromStatic ==
  /\ ~ Profiles /\ sent.status = 200 /\ sent.code = "static"
FromValidation ==
  /\ Profiles /\ Routed /\ served = None /\ asked = "allowed"
  /\ sent.status = 422 /\ sent.code = "invalid_request" /\ sent.id = Named
FromDemonstration ==
  /\ Profiles /\ Routed /\ served = None /\ asked = "allowed"
  /\ sent.status = 200 /\ sent.code = "demonstration"
FromService ==
  /\ served = "profile" /\ sent.status = 200 /\ sent.code = "profile"
FromGin ==
  /\ ~ Routed /\ AtGin /\ sent.status = 404 /\ sent.code = "no route"

Origin ==
  sent # None =>
    /\ way = "out"
    /\ \/ FromLimiter \/ FromBodyLimit \/ FromErrors \/ FromStatic
       \/ FromValidation \/ FromDemonstration \/ FromService \/ FromGin

IInv ==
  /\ TypeOK
  /\ OnTheWayIn /\ PastLimiter /\ RefusedAtOnce /\ BodyFits
  /\ InChain /\ WrittenOnce /\ ErrorIsServed /\ ServedByHandler /\ Unwritten /\ Origin

-----------------------------------------------------------------------------
\* The chain in full.
LEMMA ChainShape ==
  /\ Len(Chain) = IF Routed THEN 4 ELSE 3
  /\ Chain[1] = "context" /\ Chain[2] = "body" /\ Chain[3] = "errors"
  /\ Routed => Chain[4] = "handler"
<1>1. Len(Chain) = IF Routed THEN 4 ELSE 3
  BY DEF Chain, Middlewares
<1>2. Chain[1] = "context" /\ Chain[2] = "body" /\ Chain[3] = "errors"
  BY DEF Chain, Middlewares
<1>3. Routed => Chain[4] = "handler"
  BY DEF Chain, Middlewares
<1> QED BY <1>1, <1>2, <1>3

\* Where each of them runs.
LEMMA Stations ==
  ASSUME position \in 0..4
  PROVE  /\ In("context") <=> way = "in" /\ position = 1
         /\ In("body") <=> way = "in" /\ position = 2
         /\ In("errors") <=> way = "in" /\ position = 3
         /\ In("handler") <=> way = "in" /\ position = 4 /\ Routed
         /\ Out("context") <=> way = "out" /\ position = 1
         /\ Out("body") <=> way = "out" /\ position = 2
         /\ Out("errors") <=> way = "out" /\ position = 3
<1>1. \A name \in {"context", "body", "errors", "handler"} :
        Running(name) <=>
          \/ name = "context" /\ position = 1
          \/ name = "body" /\ position = 2
          \/ name = "errors" /\ position = 3
          \/ name = "handler" /\ position = 4 /\ Routed
  BY ChainShape DEF Running
<1> QED BY <1>1 DEF In, Out

LEMMA Initially == Init => IInv
<1> SUFFICES ASSUME Init PROVE IInv
  OBVIOUS
<1>1. TypeOK
  BY DEF Init, TypeOK
<1>2. InChain /\ WrittenOnce
  BY ChainShape DEF Init, InChain, WrittenOnce
<1>3. ~ AtGin /\ ~ PastTheLimiter /\ ~ InsideBodyLimit
  BY DEF Init, AtGin, PastTheLimiter, InsideBodyLimit
<1> QED BY <1>1, <1>2, <1>3, HttpAssumption
     DEF Init, IInv, OnTheWayIn, PastLimiter, RefusedAtOnce, BodyFits, ErrorIsServed,
         ServedByHandler, Unwritten, Origin

LEMMA Inductive == IInv /\ [Next]_vars => IInv'
<1> SUFFICES ASSUME IInv, [Next]_vars PROVE IInv'
  OBVIOUS
<1>s. /\ request' = request /\ Named' = Named
      /\ Profiles' <=> Profiles
      /\ Routed' <=> Routed
      /\ TooLarge' <=> TooLarge
      /\ Limited' <=> Limited
  BY DEF Next, vars, Refuse, Admit, SetHeaders, RejectBody, PassBody, EnterHandlers,
         LeaveHandlers, TellError, ServeStatic, RejectRequest, ServeDemonstration,
         ServeProfile, FailProfile, NotFound, Routed, TooLarge, Limited, Profiles, Named
<1>c. /\ Len(Chain) = IF Routed THEN 4 ELSE 3
      /\ Len(Chain') = Len(Chain)
  BY <1>s, ChainShape DEF Chain, Middlewares
<1>i. /\ TypeOK /\ OnTheWayIn /\ PastLimiter /\ RefusedAtOnce /\ BodyFits /\ InChain
      /\ WrittenOnce /\ ErrorIsServed /\ ServedByHandler /\ Unwritten /\ Origin
  BY DEF IInv
<1>t. position \in 0..4
  BY <1>i DEF TypeOK
<1>w. way = "in" \/ way = "out"
  BY <1>i DEF TypeOK
<1>n. /\ None \notin Outcomes /\ None # "allowed" /\ None # "refused" /\ None \notin Response
      /\ "profile" \in Outcomes
      /\ served \in Outcomes \cup {None}
  BY <1>i, HttpAssumption DEF Outcomes, TypeOK
<1> DEFINE Kept == OnTheWayIn' /\ PastLimiter' /\ RefusedAtOnce' /\ BodyFits'
           Told == ErrorIsServed' /\ ServedByHandler' /\ Unwritten'
<1>1. CASE Refuse
  <2>p. position = 1
    BY <1>1, <1>t, Stations DEF Refuse
  <2>a. /\ ~ AtGin /\ AtLimiter /\ ~ PastTheLimiter /\ AfterErrors
        /\ ~ AtErrors /\ BeforeHandler /\ ~ InsideBodyLimit
    BY <2>p DEF AtGin, AtLimiter, PastTheLimiter, AfterErrors, AtErrors, BeforeHandler, InsideBodyLimit
  <2>1. way = "in"
    BY <1>1, <1>t, Stations DEF Refuse
  <2>2. sent = None /\ served = None /\ error = None
    BY <2>1, <1>i DEF OnTheWayIn
  <2>q. position' = 0
    BY <1>1, <1>c, <2>p DEF Refuse, GoBack
  <2>b. /\ AtGin' /\ ~ AtLimiter' /\ ~ PastTheLimiter' /\ AfterErrors'
        /\ ~ AtErrors' /\ BeforeHandler' /\ ~ InsideBodyLimit' /\ InChain'
    BY <2>q, <2>p, <1>c, <1>i DEF InChain, AtGin, AtLimiter, PastTheLimiter, AfterErrors, AtErrors, BeforeHandler, InsideBodyLimit
  <2>3. /\ way' = "out" /\ served' = None /\ error' = None
        /\ asked' = "refused" /\ Limited /\ requestId' = Named
    BY <2>2, <1>1 DEF Refuse, GoBack, SetRequestId, Named
  <2>4. /\ writes' = 1 /\ headers' = headers \cup {"Retry-After"}
        /\ sent' = [status |-> 429, code |-> "client_rate_limited",
                    id |-> requestId', headers |-> headers']
    <3>1. writes = 0
      BY <2>2, <1>i DEF WrittenOnce
    <3>2. Write(429, "client_rate_limited", requestId', {"Retry-After"})
      BY <1>1 DEF Refuse, ErrorResponse
    <3> QED BY <3>1, <3>2, <2>2 DEF Write
  <2>5. /\ headers' \in SUBSET {"Retry-After", "security"}
        /\ sent' \in Response /\ sent' # None
    <3>1. headers \in SUBSET {"Retry-After", "security"}
      BY <1>i DEF TypeOK
    <3>2. headers' \in SUBSET {"Retry-After", "security"}
      BY <2>4, <3>1 DEF RetryAfterOf
    <3>3. 429 \in 200..599
      OBVIOUS
    <3>4. "client_rate_limited" \in Codes
      BY DEF Codes, Outcomes
    <3>5. requestId' \in {"supplied", "generated", "none"}
      BY <1>i, <2>3 DEF TypeOK, Named
    <3>6. sent' \in Response
      BY <3>2, <3>3, <3>4, <3>5, <2>4, Zenon DEF Response
    <3> QED BY <3>2, <3>6, <1>n
  <2>6. /\ sent'.status = 429 /\ sent'.code = "client_rate_limited" /\ sent'.id = requestId'
        /\ {"Retry-After"} \subseteq sent'.headers
    BY <2>4
  <2>7. TypeOK' /\ WrittenOnce'
    BY <1>i, <1>n, <1>s, <2>q, <2>2, <2>3, <2>4, <2>5 DEF TypeOK, WrittenOnce, Named
  <2>8. Kept
    BY <1>i, <1>s, <1>n, <2>a, <2>b, <2>1, <2>2, <2>3, <2>5
    DEF OnTheWayIn, PastLimiter, RefusedAtOnce, BodyFits, Limited, Profiles
  <2>9. Told
    BY <1>i, <1>s, <1>n, <2>a, <2>b, <2>1, <2>2, <2>3, <2>5
    DEF PastLimiter, ErrorIsServed, ServedByHandler, Unwritten, Limited, Profiles
  <2>10. FromLimiter'
    BY <1>i, <1>s, <1>n, <2>a, <2>b, <2>1, <2>2, <2>3, <2>6
    DEF FromLimiter, PastLimiter, Limited, Profiles, RetryAfterOf
  <2> QED BY <2>b, <2>3, <2>5, <2>7, <2>8, <2>9, <2>10 DEF Origin, IInv
<1>2. CASE Admit
  <2>p. position = 1
    BY <1>2, <1>t, Stations DEF Admit
  <2>a. /\ ~ AtGin /\ AtLimiter /\ ~ PastTheLimiter /\ AfterErrors
        /\ ~ AtErrors /\ BeforeHandler /\ ~ InsideBodyLimit
    BY <2>p DEF AtGin, AtLimiter, PastTheLimiter, AfterErrors, AtErrors, BeforeHandler, InsideBodyLimit
  <2>1. way = "in"
    BY <1>2, <1>t, Stations DEF Admit
  <2>2. sent = None /\ served = None /\ error = None
    BY <2>1, <1>i DEF OnTheWayIn
  <2>q. position' = 2
    BY <1>2, <1>c, <2>p DEF Admit, GoOn
  <2>b. /\ ~ AtGin' /\ ~ AtLimiter' /\ PastTheLimiter' /\ AfterErrors'
        /\ ~ AtErrors' /\ BeforeHandler' /\ ~ InsideBodyLimit' /\ InChain'
    BY <2>q, <2>p, <1>c, <1>i DEF InChain, AtGin, AtLimiter, PastTheLimiter, AfterErrors, AtErrors, BeforeHandler, InsideBodyLimit
  <2>3. /\ way' = "in" /\ requestId' = Named
        /\ asked' = IF Limited THEN "allowed" ELSE None
        /\ sent' = None /\ served' = None /\ error' = None /\ writes' = writes
    BY <2>1, <2>2, <1>2, <1>c, <2>p DEF Admit, GoOn, SetRequestId, Named
  <2>4. TypeOK' /\ WrittenOnce'
    BY <1>2, <1>i, <1>n, <1>s, <2>q, <2>1, <2>2, <2>3 DEF Admit, TypeOK, WrittenOnce, Named
  <2>5. Kept
    BY <1>i, <1>s, <1>n, <1>2, <2>a, <2>b, <2>1, <2>2, <2>3
    DEF Admit, OnTheWayIn, PastLimiter, RefusedAtOnce, BodyFits, Limited, Profiles
  <2>6. Told
    BY <1>i, <1>s, <1>n, <2>a, <2>b, <2>1, <2>2, <2>3
    DEF PastLimiter, ErrorIsServed, ServedByHandler, Unwritten, Limited, Profiles
  <2>7. Origin'
    BY <2>3 DEF Origin
  <2> QED BY <2>b, <2>4, <2>5, <2>6, <2>7 DEF IInv
<1>3. CASE SetHeaders
  <2>p. position = 1
    BY <1>3, <1>t, Stations DEF SetHeaders
  <2>a. /\ ~ AtGin /\ AtLimiter /\ ~ PastTheLimiter /\ AfterErrors
        /\ ~ AtErrors /\ BeforeHandler /\ ~ InsideBodyLimit
    BY <2>p DEF AtGin, AtLimiter, PastTheLimiter, AfterErrors, AtErrors, BeforeHandler, InsideBodyLimit
  <2>1. way = "out"
    BY <1>3, <1>t, Stations DEF SetHeaders
  <2>q. position' = 0
    BY <1>3, <1>c, <2>p DEF SetHeaders, GoBack
  <2>b. /\ AtGin' /\ ~ AtLimiter' /\ ~ PastTheLimiter' /\ AfterErrors'
        /\ ~ AtErrors' /\ BeforeHandler' /\ ~ InsideBodyLimit' /\ InChain'
    BY <2>q, <2>p, <1>c, <1>i DEF InChain, AtGin, AtLimiter, PastTheLimiter, AfterErrors, AtErrors, BeforeHandler, InsideBodyLimit
  <2>3. /\ way' = "out"
        /\ asked' = asked /\ requestId' = requestId /\ served' = served
        /\ error' = error /\ sent' = sent /\ writes' = writes
    BY <2>1, <1>3, <1>c, <2>p DEF SetHeaders, GoBack
  <2>4. TypeOK' /\ WrittenOnce'
    BY <1>3, <1>i, <1>n, <1>s, <2>q, <2>1, <2>3 DEF SetHeaders, TypeOK, WrittenOnce, Named
  <2>5. Kept
    BY <1>i, <1>s, <1>n, <1>3, <2>a, <2>b, <2>1, <2>3
    DEF SetHeaders, OnTheWayIn, PastLimiter, RefusedAtOnce, BodyFits, Limited, Profiles
  <2>6. Told
    BY <1>i, <1>s, <1>n, <2>a, <2>b, <2>1, <2>3
    DEF PastLimiter, ErrorIsServed, ServedByHandler, Unwritten, Limited, Profiles
  <2>7. Origin'
    <3>1. FromLimiter => FromLimiter'
      BY <2>a, <2>b, <2>3, <1>s DEF FromLimiter
    <3>2. FromBodyLimit => FromBodyLimit'
      BY <2>a, <2>b, <2>3, <1>s DEF FromBodyLimit
    <3>3. FromErrors => FromErrors'
      BY <2>a, <2>b, <2>3, <1>s DEF FromErrors
    <3>4. FromStatic => FromStatic'
      BY <2>a, <2>b, <2>3, <1>s DEF FromStatic
    <3>5. FromValidation => FromValidation'
      BY <2>a, <2>b, <2>3, <1>s DEF FromValidation
    <3>6. FromDemonstration => FromDemonstration'
      BY <2>a, <2>b, <2>3, <1>s DEF FromDemonstration
    <3>7. FromService => FromService'
      BY <2>a, <2>b, <2>3, <1>s DEF FromService
    <3>8. FromGin => FromGin'
      BY <2>a, <2>b, <2>3, <1>s DEF FromGin
    <3> QED BY <3>1, <3>2, <3>3, <3>4, <3>5, <3>6, <3>7, <3>8, <2>3, <1>i DEF Origin
  <2> QED BY <2>b, <2>4, <2>5, <2>6, <2>7 DEF IInv
<1>4. CASE RejectBody
  <2>p. position = 2
    BY <1>4, <1>t, Stations DEF RejectBody
  <2>a. /\ ~ AtGin /\ ~ AtLimiter /\ PastTheLimiter /\ AfterErrors
        /\ ~ AtErrors /\ BeforeHandler /\ ~ InsideBodyLimit
    BY <2>p DEF AtGin, AtLimiter, PastTheLimiter, AfterErrors, AtErrors, BeforeHandler, InsideBodyLimit
  <2>1. way = "in"
    BY <1>4, <1>t, Stations DEF RejectBody
  <2>2. sent = None /\ served = None /\ error = None
    BY <2>1, <1>i DEF OnTheWayIn
  <2>q. position' = 1
    BY <1>4, <1>c, <2>p DEF RejectBody, GoBack
  <2>b. /\ ~ AtGin' /\ AtLimiter' /\ ~ PastTheLimiter' /\ AfterErrors'
        /\ ~ AtErrors' /\ BeforeHandler' /\ ~ InsideBodyLimit' /\ InChain'
    BY <2>q, <2>p, <1>c, <1>i DEF InChain, AtGin, AtLimiter, PastTheLimiter, AfterErrors, AtErrors, BeforeHandler, InsideBodyLimit
  <2>3. /\ way' = "out" /\ served' = None /\ error' = None
        /\ asked' = asked /\ requestId' = requestId
    BY <2>2, <1>4 DEF RejectBody, GoBack
  <2>4. /\ writes' = 1 /\ headers' = headers \cup {}
        /\ sent' = [status |-> 413, code |-> "request_too_large",
                    id |-> requestId', headers |-> headers']
    <3>1. writes = 0
      BY <2>2, <1>i DEF WrittenOnce
    <3>2. Write(413, "request_too_large", requestId', {})
      BY <1>4 DEF RejectBody, ErrorResponse
    <3> QED BY <3>1, <3>2, <2>2 DEF Write
  <2>5. /\ headers' \in SUBSET {"Retry-After", "security"}
        /\ sent' \in Response /\ sent' # None
    <3>1. headers \in SUBSET {"Retry-After", "security"}
      BY <1>i DEF TypeOK
    <3>2. headers' \in SUBSET {"Retry-After", "security"}
      BY <2>4, <3>1 DEF RetryAfterOf
    <3>3. 413 \in 200..599
      OBVIOUS
    <3>4. "request_too_large" \in Codes
      BY DEF Codes, Outcomes
    <3>5. requestId' \in {"supplied", "generated", "none"}
      BY <1>i, <2>3 DEF TypeOK, Named
    <3>6. sent' \in Response
      BY <3>2, <3>3, <3>4, <3>5, <2>4, Zenon DEF Response
    <3> QED BY <3>2, <3>6, <1>n
  <2>6. /\ sent'.status = 413 /\ sent'.code = "request_too_large" /\ sent'.id = requestId'
        /\ {} \subseteq sent'.headers
    BY <2>4
  <2>7. TypeOK' /\ WrittenOnce'
    BY <1>i, <1>n, <1>s, <2>q, <2>2, <2>3, <2>4, <2>5 DEF TypeOK, WrittenOnce, Named
  <2>8. Kept
    BY <1>i, <1>s, <1>n, <2>a, <2>b, <2>1, <2>2, <2>3, <2>5, <1>4
    DEF RejectBody, OnTheWayIn, PastLimiter, RefusedAtOnce, BodyFits, Limited, Profiles
  <2>9. Told
    BY <1>i, <1>s, <1>n, <2>a, <2>b, <2>1, <2>2, <2>3, <2>5, <1>4
    DEF RejectBody, PastLimiter, ErrorIsServed, ServedByHandler, Unwritten, Limited, Profiles
  <2>10. FromBodyLimit'
    BY <1>i, <1>s, <1>n, <2>a, <2>b, <2>1, <2>2, <2>3, <2>6, <1>4
    DEF RejectBody, FromBodyLimit, PastLimiter, Limited, Profiles, RetryAfterOf
  <2> QED BY <2>b, <2>3, <2>5, <2>7, <2>8, <2>9, <2>10 DEF Origin, IInv
<1>5. CASE PassBody /\ way = "in"
  <2>p. position = 2
    BY <1>5, <1>t, Stations DEF PassBody
  <2>a. /\ ~ AtGin /\ ~ AtLimiter /\ PastTheLimiter /\ AfterErrors
        /\ ~ AtErrors /\ BeforeHandler /\ ~ InsideBodyLimit
    BY <2>p DEF AtGin, AtLimiter, PastTheLimiter, AfterErrors, AtErrors, BeforeHandler, InsideBodyLimit
  <2>1. way = "in"
    BY <1>5, <1>t, Stations DEF PassBody
  <2>2. sent = None /\ served = None /\ error = None
    BY <2>1, <1>i DEF OnTheWayIn
  <2>q. position' = 3
    BY <1>5, <1>c, <2>p DEF PassBody, GoOn, GoBack, In, Out
  <2>b. /\ ~ AtGin' /\ ~ AtLimiter' /\ PastTheLimiter' /\ ~ AfterErrors'
        /\ AtErrors' /\ BeforeHandler' /\ InsideBodyLimit' /\ InChain'
    BY <2>q, <2>p, <1>c, <1>i DEF InChain, AtGin, AtLimiter, PastTheLimiter, AfterErrors, AtErrors, BeforeHandler, InsideBodyLimit
  <2>3. /\ way' = "in" /\ asked' = asked /\ requestId' = requestId
        /\ sent' = None /\ served' = None /\ error' = None /\ writes' = writes /\ ~ TooLarge
    BY <2>1, <2>2, <1>5, <1>c, <2>p DEF PassBody, GoOn, In, Out
  <2>4. TypeOK' /\ WrittenOnce'
    BY <1>5, <1>i, <1>n, <1>s, <2>q, <2>1, <2>2, <2>3 DEF PassBody, TypeOK, WrittenOnce, Named
  <2>5. Kept
    BY <1>i, <1>s, <1>n, <1>5, <2>a, <2>b, <2>1, <2>2, <2>3
    DEF PassBody, OnTheWayIn, PastLimiter, RefusedAtOnce, BodyFits, Limited, Profiles
  <2>6. Told
    BY <1>i, <1>s, <1>n, <2>a, <2>b, <2>1, <2>2, <2>3
    DEF PastLimiter, ErrorIsServed, ServedByHandler, Unwritten, Limited, Profiles
  <2>7. Origin'
    BY <2>3 DEF Origin
  <2> QED BY <2>b, <2>4, <2>5, <2>6, <2>7 DEF IInv
<1>6. CASE PassBody /\ way = "out"
  <2>p. position = 2
    BY <1>6, <1>t, Stations DEF PassBody
  <2>a. /\ ~ AtGin /\ ~ AtLimiter /\ PastTheLimiter /\ AfterErrors
        /\ ~ AtErrors /\ BeforeHandler /\ ~ InsideBodyLimit
    BY <2>p DEF AtGin, AtLimiter, PastTheLimiter, AfterErrors, AtErrors, BeforeHandler, InsideBodyLimit
  <2>1. way = "out"
    BY <1>6, <1>t, Stations DEF PassBody
  <2>q. position' = 1
    BY <1>6, <1>c, <2>p DEF PassBody, GoOn, GoBack, In, Out
  <2>b. /\ ~ AtGin' /\ AtLimiter' /\ ~ PastTheLimiter' /\ AfterErrors'
        /\ ~ AtErrors' /\ BeforeHandler' /\ ~ InsideBodyLimit' /\ InChain'
    BY <2>q, <2>p, <1>c, <1>i DEF InChain, AtGin, AtLimiter, PastTheLimiter, AfterErrors, AtErrors, BeforeHandler, InsideBodyLimit
  <2>3. /\ way' = "out"
        /\ asked' = asked /\ requestId' = requestId /\ served' = served
        /\ error' = error /\ sent' = sent /\ writes' = writes
    BY <2>1, <1>6, <1>c, <2>p DEF PassBody, GoBack, In, Out
  <2>4. TypeOK' /\ WrittenOnce'
    BY <1>6, <1>i, <1>n, <1>s, <2>q, <2>1, <2>3 DEF PassBody, TypeOK, WrittenOnce, Named
  <2>5. Kept
    BY <1>i, <1>s, <1>n, <1>6, <2>a, <2>b, <2>1, <2>3
    DEF PassBody, OnTheWayIn, PastLimiter, RefusedAtOnce, BodyFits, Limited, Profiles
  <2>6. Told
    BY <1>i, <1>s, <1>n, <2>a, <2>b, <2>1, <2>3
    DEF PastLimiter, ErrorIsServed, ServedByHandler, Unwritten, Limited, Profiles
  <2>7. Origin'
    <3>1. FromLimiter => FromLimiter'
      BY <2>a, <2>b, <2>3, <1>s DEF FromLimiter
    <3>2. FromBodyLimit => FromBodyLimit'
      BY <2>a, <2>b, <2>3, <1>s DEF FromBodyLimit
    <3>3. FromErrors => FromErrors'
      BY <2>a, <2>b, <2>3, <1>s DEF FromErrors
    <3>4. FromStatic => FromStatic'
      BY <2>a, <2>b, <2>3, <1>s DEF FromStatic
    <3>5. FromValidation => FromValidation'
      BY <2>a, <2>b, <2>3, <1>s DEF FromValidation
    <3>6. FromDemonstration => FromDemonstration'
      BY <2>a, <2>b, <2>3, <1>s DEF FromDemonstration
    <3>7. FromService => FromService'
      BY <2>a, <2>b, <2>3, <1>s DEF FromService
    <3>8. FromGin => FromGin'
      BY <2>a, <2>b, <2>3, <1>s DEF FromGin
    <3> QED BY <3>1, <3>2, <3>3, <3>4, <3>5, <3>6, <3>7, <3>8, <2>3, <1>i DEF Origin
  <2> QED BY <2>b, <2>4, <2>5, <2>6, <2>7 DEF IInv
<1>7. CASE EnterHandlers /\ Routed
  <2>p. position = 3
    BY <1>7, <1>t, Stations DEF EnterHandlers
  <2>a. /\ ~ AtGin /\ ~ AtLimiter /\ PastTheLimiter /\ ~ AfterErrors
        /\ AtErrors /\ BeforeHandler /\ InsideBodyLimit
    BY <2>p DEF AtGin, AtLimiter, PastTheLimiter, AfterErrors, AtErrors, BeforeHandler, InsideBodyLimit
  <2>1. way = "in" /\ Routed
    BY <1>7, <1>t, Stations DEF EnterHandlers
  <2>2. sent = None /\ served = None /\ error = None
    BY <2>1, <1>i DEF OnTheWayIn
  <2>q. position' = 4
    BY <1>7, <1>c, <2>p DEF EnterHandlers, GoOn
  <2>r. Routed
    BY <2>1
  <2>b. /\ ~ AtGin' /\ ~ AtLimiter' /\ PastTheLimiter' /\ ~ AfterErrors'
        /\ ~ AtErrors' /\ ~ BeforeHandler' /\ InsideBodyLimit' /\ InChain'
    BY <2>q, <2>r, <1>c DEF InChain, AtGin, AtLimiter, PastTheLimiter, AfterErrors, AtErrors, BeforeHandler, InsideBodyLimit
  <2>3. /\ way' = "in" /\ asked' = asked /\ requestId' = requestId
        /\ sent' = None /\ served' = None /\ error' = None /\ writes' = writes
    BY <2>1, <2>2, <1>7, <1>c, <2>p DEF EnterHandlers, GoOn
  <2>4. TypeOK' /\ WrittenOnce'
    BY <1>7, <1>i, <1>n, <1>s, <2>q, <2>1, <2>2, <2>3 DEF EnterHandlers, TypeOK, WrittenOnce, Named
  <2>5. Kept
    BY <1>i, <1>s, <1>n, <1>7, <2>a, <2>b, <2>1, <2>2, <2>3
    DEF EnterHandlers, OnTheWayIn, PastLimiter, RefusedAtOnce, BodyFits, Limited, Profiles
  <2>6. Told
    BY <1>i, <1>s, <1>n, <2>a, <2>b, <2>1, <2>2, <2>3
    DEF PastLimiter, ErrorIsServed, ServedByHandler, Unwritten, Limited, Profiles
  <2>7. Origin'
    BY <2>3 DEF Origin
  <2> QED BY <2>b, <2>4, <2>5, <2>6, <2>7 DEF IInv
<1>8. CASE EnterHandlers /\ ~ Routed
  <2>p. position = 3
    BY <1>8, <1>t, Stations DEF EnterHandlers
  <2>a. /\ ~ AtGin /\ ~ AtLimiter /\ PastTheLimiter /\ ~ AfterErrors
        /\ AtErrors /\ BeforeHandler /\ InsideBodyLimit
    BY <2>p DEF AtGin, AtLimiter, PastTheLimiter, AfterErrors, AtErrors, BeforeHandler, InsideBodyLimit
  <2>1. way = "in" /\ ~ Routed
    BY <1>8, <1>t, Stations DEF EnterHandlers
  <2>2. sent = None /\ served = None /\ error = None
    BY <2>1, <1>i DEF OnTheWayIn
  <2>q. position' = 3
    BY <1>8, <1>c, <2>p DEF EnterHandlers, GoOn
  <2>b. /\ ~ AtGin' /\ ~ AtLimiter' /\ PastTheLimiter' /\ ~ AfterErrors'
        /\ AtErrors' /\ BeforeHandler' /\ InsideBodyLimit' /\ InChain'
    BY <2>q, <2>p, <1>c, <1>i DEF InChain, AtGin, AtLimiter, PastTheLimiter, AfterErrors, AtErrors, BeforeHandler, InsideBodyLimit
  <2>3. /\ way' = "out" /\ asked' = asked /\ requestId' = requestId
        /\ sent' = None /\ served' = None /\ error' = None /\ writes' = writes
    BY <2>1, <2>2, <1>8, <1>c, <2>p DEF EnterHandlers, GoOn
  <2>4. TypeOK' /\ WrittenOnce'
    BY <1>8, <1>i, <1>n, <1>s, <2>q, <2>1, <2>2, <2>3 DEF EnterHandlers, TypeOK, WrittenOnce, Named
  <2>5. Kept
    BY <1>i, <1>s, <1>n, <1>8, <2>a, <2>b, <2>1, <2>2, <2>3
    DEF EnterHandlers, OnTheWayIn, PastLimiter, RefusedAtOnce, BodyFits, Limited, Profiles
  <2>6. Told
    BY <1>i, <1>s, <1>n, <2>a, <2>b, <2>1, <2>2, <2>3
    DEF PastLimiter, ErrorIsServed, ServedByHandler, Unwritten, Limited, Profiles
  <2>7. Origin'
    BY <2>3 DEF Origin
  <2> QED BY <2>b, <2>4, <2>5, <2>6, <2>7 DEF IInv
<1>9. CASE TellError
  <2>p. position = 3
    BY <1>9, <1>t, Stations DEF TellError
  <2>a. /\ ~ AtGin /\ ~ AtLimiter /\ PastTheLimiter /\ ~ AfterErrors
        /\ AtErrors /\ BeforeHandler /\ InsideBodyLimit
    BY <2>p DEF AtGin, AtLimiter, PastTheLimiter, AfterErrors, AtErrors, BeforeHandler, InsideBodyLimit
  <2>1. way = "out" /\ error # None
    BY <1>9, <1>t, Stations DEF TellError
  <2>2. sent = None /\ asked # "refused" /\ served = error /\ ~ TooLarge
    <3>1. served = error /\ error # "profile"
      BY <2>1, <1>i, <1>n DEF ErrorIsServed
    <3>2. asked # "refused" /\ ~ TooLarge
      BY <2>a, <1>i DEF RefusedAtOnce, BodyFits
    <3>3. ~ FromLimiter /\ ~ FromBodyLimit /\ ~ FromErrors /\ ~ FromGin
      BY <2>a, <3>2 DEF FromLimiter, FromBodyLimit, FromErrors, FromGin
    <3>4. ~ FromStatic /\ ~ FromValidation /\ ~ FromDemonstration /\ ~ FromService
      BY <2>1, <3>1, <1>i DEF ServedByHandler, FromStatic, FromValidation, FromDemonstration,
         FromService
    <3> QED BY <3>1, <3>2, <3>3, <3>4, <1>i DEF Origin
  <2>q. position' = 2
    BY <1>9, <1>c, <2>p DEF TellError, GoBack
  <2>b. /\ ~ AtGin' /\ ~ AtLimiter' /\ PastTheLimiter' /\ AfterErrors'
        /\ ~ AtErrors' /\ BeforeHandler' /\ ~ InsideBodyLimit' /\ InChain'
    BY <2>q, <2>p, <1>c, <1>i DEF InChain, AtGin, AtLimiter, PastTheLimiter, AfterErrors, AtErrors, BeforeHandler, InsideBodyLimit
  <2>3. /\ way' = "out" /\ asked' = asked /\ requestId' = requestId
        /\ served' = served /\ error' = error
    BY <1>9 DEF TellError, GoBack
  <2>4. /\ writes' = 1 /\ headers' = headers \cup RetryAfterOf(error)
        /\ sent' = [status |-> StatusOf(error), code |-> error,
                    id |-> requestId', headers |-> headers']
    <3>1. writes = 0
      BY <2>2, <1>i DEF WrittenOnce
    <3>2. Write(StatusOf(error), error, requestId', RetryAfterOf(error))
      BY <1>9 DEF TellError, ErrorResponse
    <3> QED BY <3>1, <3>2, <2>2 DEF Write
  <2>5. /\ headers' \in SUBSET {"Retry-After", "security"}
        /\ sent' \in Response /\ sent' # None
    <3>1. headers \in SUBSET {"Retry-After", "security"}
      BY <1>i DEF TypeOK
    <3>2. headers' \in SUBSET {"Retry-After", "security"}
      BY <2>4, <3>1 DEF RetryAfterOf
    <3>3. StatusOf(error) \in 200..599
      BY DEF StatusOf
    <3>4. error \in Codes
      BY <1>i, <2>1 DEF TypeOK, Codes
    <3>5. requestId' \in {"supplied", "generated", "none"}
      BY <1>i, <2>3 DEF TypeOK, Named
    <3>6. sent' \in Response
      BY <3>2, <3>3, <3>4, <3>5, <2>4, Zenon DEF Response
    <3> QED BY <3>2, <3>6, <1>n
  <2>6. /\ sent'.status = StatusOf(error) /\ sent'.code = error /\ sent'.id = requestId'
        /\ RetryAfterOf(error) \subseteq sent'.headers
    BY <2>4
  <2>7. TypeOK' /\ WrittenOnce'
    BY <1>i, <1>n, <1>s, <2>q, <2>2, <2>3, <2>4, <2>5 DEF TypeOK, WrittenOnce, Named
  <2>8. Kept
    BY <1>i, <1>s, <1>n, <2>a, <2>b, <2>1, <2>2, <2>3, <2>5
    DEF OnTheWayIn, PastLimiter, RefusedAtOnce, BodyFits, Limited, Profiles
  <2>9. Told
    BY <1>i, <1>s, <1>n, <2>a, <2>b, <2>1, <2>2, <2>3, <2>5
    DEF PastLimiter, ErrorIsServed, ServedByHandler, Unwritten, Limited, Profiles
  <2>10. FromErrors'
    BY <1>i, <1>s, <1>n, <2>a, <2>b, <2>1, <2>2, <2>3, <2>6
    DEF FromErrors, PastLimiter, Limited, Profiles, RetryAfterOf
  <2> QED BY <2>b, <2>3, <2>5, <2>7, <2>8, <2>9, <2>10 DEF Origin, IInv
<1>10. CASE ServeStatic
  <2>p. position = 4
    BY <1>10, <1>t, Stations DEF ServeStatic
  <2>a. /\ ~ AtGin /\ ~ AtLimiter /\ PastTheLimiter /\ ~ AfterErrors
        /\ ~ AtErrors /\ ~ BeforeHandler /\ InsideBodyLimit
    BY <2>p DEF AtGin, AtLimiter, PastTheLimiter, AfterErrors, AtErrors, BeforeHandler, InsideBodyLimit
  <2>1. way = "in" /\ Routed
    BY <1>10, <1>t, Stations DEF ServeStatic
  <2>2. sent = None /\ served = None /\ error = None
    BY <2>1, <1>i DEF OnTheWayIn
  <2>q. position' = 3
    BY <1>10, <1>c, <2>p DEF ServeStatic, GoBack
  <2>b. /\ ~ AtGin' /\ ~ AtLimiter' /\ PastTheLimiter' /\ ~ AfterErrors'
        /\ AtErrors' /\ BeforeHandler' /\ InsideBodyLimit' /\ InChain'
    BY <2>q, <2>p, <1>c, <1>i DEF InChain, AtGin, AtLimiter, PastTheLimiter, AfterErrors, AtErrors, BeforeHandler, InsideBodyLimit
  <2>3. /\ way' = "out" /\ served' = None /\ error' = None
        /\ asked' = asked /\ requestId' = requestId
    BY <2>2, <1>10 DEF ServeStatic, GoBack
  <2>4. /\ writes' = 1 /\ headers' = headers \cup {}
        /\ sent' = [status |-> 200, code |-> "static",
                    id |-> "none", headers |-> headers']
    <3>1. writes = 0
      BY <2>2, <1>i DEF WrittenOnce
    <3>2. Write(200, "static", "none", {})
      BY <1>10 DEF ServeStatic
    <3> QED BY <3>1, <3>2, <2>2 DEF Write
  <2>5. /\ headers' \in SUBSET {"Retry-After", "security"}
        /\ sent' \in Response /\ sent' # None
    <3>1. headers \in SUBSET {"Retry-After", "security"}
      BY <1>i DEF TypeOK
    <3>2. headers' \in SUBSET {"Retry-After", "security"}
      BY <2>4, <3>1 DEF RetryAfterOf
    <3>3. 200 \in 200..599
      OBVIOUS
    <3>4. "static" \in Codes
      BY DEF Codes, Outcomes
    <3>5. requestId' \in {"supplied", "generated", "none"}
      BY <1>i, <2>3 DEF TypeOK, Named
    <3>6. sent' \in Response
      BY <3>2, <3>3, <3>4, <3>5, <2>4, Zenon DEF Response
    <3> QED BY <3>2, <3>6, <1>n
  <2>6. /\ sent'.status = 200 /\ sent'.code = "static" /\ sent'.id = "none"
        /\ {} \subseteq sent'.headers
    BY <2>4
  <2>7. TypeOK' /\ WrittenOnce'
    BY <1>i, <1>n, <1>s, <2>q, <2>2, <2>3, <2>4, <2>5 DEF TypeOK, WrittenOnce, Named
  <2>8. Kept
    BY <1>i, <1>s, <1>n, <2>a, <2>b, <2>1, <2>2, <2>3, <2>5, <1>10
    DEF ServeStatic, OnTheWayIn, PastLimiter, RefusedAtOnce, BodyFits, Limited, Profiles
  <2>9. Told
    BY <1>i, <1>s, <1>n, <2>a, <2>b, <2>1, <2>2, <2>3, <2>5, <1>10
    DEF ServeStatic, PastLimiter, ErrorIsServed, ServedByHandler, Unwritten, Limited, Profiles
  <2>10. FromStatic'
    BY <1>i, <1>s, <1>n, <2>a, <2>b, <2>1, <2>2, <2>3, <2>6, <1>10
    DEF ServeStatic, FromStatic, PastLimiter, Limited, Profiles, RetryAfterOf
  <2> QED BY <2>b, <2>3, <2>5, <2>7, <2>8, <2>9, <2>10 DEF Origin, IInv
<1>11. CASE RejectRequest
  <2>p. position = 4
    BY <1>11, <1>t, Stations DEF RejectRequest
  <2>a. /\ ~ AtGin /\ ~ AtLimiter /\ PastTheLimiter /\ ~ AfterErrors
        /\ ~ AtErrors /\ ~ BeforeHandler /\ InsideBodyLimit
    BY <2>p DEF AtGin, AtLimiter, PastTheLimiter, AfterErrors, AtErrors, BeforeHandler, InsideBodyLimit
  <2>1. way = "in" /\ Routed
    BY <1>11, <1>t, Stations DEF RejectRequest
  <2>2. sent = None /\ served = None /\ error = None
    BY <2>1, <1>i DEF OnTheWayIn
  <2>q. position' = 3
    BY <1>11, <1>c, <2>p DEF RejectRequest, GoBack
  <2>b. /\ ~ AtGin' /\ ~ AtLimiter' /\ PastTheLimiter' /\ ~ AfterErrors'
        /\ AtErrors' /\ BeforeHandler' /\ InsideBodyLimit' /\ InChain'
    BY <2>q, <2>p, <1>c, <1>i DEF InChain, AtGin, AtLimiter, PastTheLimiter, AfterErrors, AtErrors, BeforeHandler, InsideBodyLimit
  <2>3. /\ way' = "out" /\ served' = None /\ error' = None
        /\ asked' = asked /\ requestId' = requestId
    BY <2>2, <1>11 DEF RejectRequest, GoBack
  <2>4. /\ writes' = 1 /\ headers' = headers \cup {}
        /\ sent' = [status |-> 422, code |-> "invalid_request",
                    id |-> requestId', headers |-> headers']
    <3>1. writes = 0
      BY <2>2, <1>i DEF WrittenOnce
    <3>2. Write(422, "invalid_request", requestId', {})
      BY <1>11 DEF RejectRequest, ErrorResponse
    <3> QED BY <3>1, <3>2, <2>2 DEF Write
  <2>5. /\ headers' \in SUBSET {"Retry-After", "security"}
        /\ sent' \in Response /\ sent' # None
    <3>1. headers \in SUBSET {"Retry-After", "security"}
      BY <1>i DEF TypeOK
    <3>2. headers' \in SUBSET {"Retry-After", "security"}
      BY <2>4, <3>1 DEF RetryAfterOf
    <3>3. 422 \in 200..599
      OBVIOUS
    <3>4. "invalid_request" \in Codes
      BY DEF Codes, Outcomes
    <3>5. requestId' \in {"supplied", "generated", "none"}
      BY <1>i, <2>3 DEF TypeOK, Named
    <3>6. sent' \in Response
      BY <3>2, <3>3, <3>4, <3>5, <2>4, Zenon DEF Response
    <3> QED BY <3>2, <3>6, <1>n
  <2>6. /\ sent'.status = 422 /\ sent'.code = "invalid_request" /\ sent'.id = requestId'
        /\ {} \subseteq sent'.headers
    BY <2>4
  <2>7. TypeOK' /\ WrittenOnce'
    BY <1>i, <1>n, <1>s, <2>q, <2>2, <2>3, <2>4, <2>5 DEF TypeOK, WrittenOnce, Named
  <2>8. Kept
    BY <1>i, <1>s, <1>n, <2>a, <2>b, <2>1, <2>2, <2>3, <2>5, <1>11
    DEF RejectRequest, OnTheWayIn, PastLimiter, RefusedAtOnce, BodyFits, Limited, Profiles
  <2>9. Told
    BY <1>i, <1>s, <1>n, <2>a, <2>b, <2>1, <2>2, <2>3, <2>5, <1>11
    DEF RejectRequest, PastLimiter, ErrorIsServed, ServedByHandler, Unwritten, Limited, Profiles
  <2>10. FromValidation'
    BY <1>i, <1>s, <1>n, <2>a, <2>b, <2>1, <2>2, <2>3, <2>6, <1>11
    DEF RejectRequest, FromValidation, PastLimiter, Limited, Profiles, RetryAfterOf
  <2> QED BY <2>b, <2>3, <2>5, <2>7, <2>8, <2>9, <2>10 DEF Origin, IInv
<1>12. CASE ServeDemonstration
  <2>p. position = 4
    BY <1>12, <1>t, Stations DEF ServeDemonstration
  <2>a. /\ ~ AtGin /\ ~ AtLimiter /\ PastTheLimiter /\ ~ AfterErrors
        /\ ~ AtErrors /\ ~ BeforeHandler /\ InsideBodyLimit
    BY <2>p DEF AtGin, AtLimiter, PastTheLimiter, AfterErrors, AtErrors, BeforeHandler, InsideBodyLimit
  <2>1. way = "in" /\ Routed
    BY <1>12, <1>t, Stations DEF ServeDemonstration
  <2>2. sent = None /\ served = None /\ error = None
    BY <2>1, <1>i DEF OnTheWayIn
  <2>q. position' = 3
    BY <1>12, <1>c, <2>p DEF ServeDemonstration, GoBack
  <2>b. /\ ~ AtGin' /\ ~ AtLimiter' /\ PastTheLimiter' /\ ~ AfterErrors'
        /\ AtErrors' /\ BeforeHandler' /\ InsideBodyLimit' /\ InChain'
    BY <2>q, <2>p, <1>c, <1>i DEF InChain, AtGin, AtLimiter, PastTheLimiter, AfterErrors, AtErrors, BeforeHandler, InsideBodyLimit
  <2>3. /\ way' = "out" /\ served' = None /\ error' = None
        /\ asked' = asked /\ requestId' = requestId
    BY <2>2, <1>12 DEF ServeDemonstration, GoBack
  <2>4. /\ writes' = 1 /\ headers' = headers \cup {}
        /\ sent' = [status |-> 200, code |-> "demonstration",
                    id |-> "none", headers |-> headers']
    <3>1. writes = 0
      BY <2>2, <1>i DEF WrittenOnce
    <3>2. Write(200, "demonstration", "none", {})
      BY <1>12 DEF ServeDemonstration
    <3> QED BY <3>1, <3>2, <2>2 DEF Write
  <2>5. /\ headers' \in SUBSET {"Retry-After", "security"}
        /\ sent' \in Response /\ sent' # None
    <3>1. headers \in SUBSET {"Retry-After", "security"}
      BY <1>i DEF TypeOK
    <3>2. headers' \in SUBSET {"Retry-After", "security"}
      BY <2>4, <3>1 DEF RetryAfterOf
    <3>3. 200 \in 200..599
      OBVIOUS
    <3>4. "demonstration" \in Codes
      BY DEF Codes, Outcomes
    <3>5. requestId' \in {"supplied", "generated", "none"}
      BY <1>i, <2>3 DEF TypeOK, Named
    <3>6. sent' \in Response
      BY <3>2, <3>3, <3>4, <3>5, <2>4, Zenon DEF Response
    <3> QED BY <3>2, <3>6, <1>n
  <2>6. /\ sent'.status = 200 /\ sent'.code = "demonstration" /\ sent'.id = "none"
        /\ {} \subseteq sent'.headers
    BY <2>4
  <2>7. TypeOK' /\ WrittenOnce'
    BY <1>i, <1>n, <1>s, <2>q, <2>2, <2>3, <2>4, <2>5 DEF TypeOK, WrittenOnce, Named
  <2>8. Kept
    BY <1>i, <1>s, <1>n, <2>a, <2>b, <2>1, <2>2, <2>3, <2>5, <1>12
    DEF ServeDemonstration, OnTheWayIn, PastLimiter, RefusedAtOnce, BodyFits, Limited, Profiles
  <2>9. Told
    BY <1>i, <1>s, <1>n, <2>a, <2>b, <2>1, <2>2, <2>3, <2>5, <1>12
    DEF ServeDemonstration, PastLimiter, ErrorIsServed, ServedByHandler, Unwritten, Limited, Profiles
  <2>10. FromDemonstration'
    BY <1>i, <1>s, <1>n, <2>a, <2>b, <2>1, <2>2, <2>3, <2>6, <1>12
    DEF ServeDemonstration, FromDemonstration, PastLimiter, Limited, Profiles, RetryAfterOf
  <2> QED BY <2>b, <2>3, <2>5, <2>7, <2>8, <2>9, <2>10 DEF Origin, IInv
<1>13. CASE ServeProfile
  <2>p. position = 4
    BY <1>13, <1>t, Stations DEF ServeProfile
  <2>a. /\ ~ AtGin /\ ~ AtLimiter /\ PastTheLimiter /\ ~ AfterErrors
        /\ ~ AtErrors /\ ~ BeforeHandler /\ InsideBodyLimit
    BY <2>p DEF AtGin, AtLimiter, PastTheLimiter, AfterErrors, AtErrors, BeforeHandler, InsideBodyLimit
  <2>1. way = "in" /\ Routed
    BY <1>13, <1>t, Stations DEF ServeProfile
  <2>2. sent = None /\ served = None /\ error = None
    BY <2>1, <1>i DEF OnTheWayIn
  <2>q. position' = 3
    BY <1>13, <1>c, <2>p DEF ServeProfile, GoBack
  <2>b. /\ ~ AtGin' /\ ~ AtLimiter' /\ PastTheLimiter' /\ ~ AfterErrors'
        /\ AtErrors' /\ BeforeHandler' /\ InsideBodyLimit' /\ InChain'
    BY <2>q, <2>p, <1>c, <1>i DEF InChain, AtGin, AtLimiter, PastTheLimiter, AfterErrors, AtErrors, BeforeHandler, InsideBodyLimit
  <2>3. /\ way' = "out" /\ served' = "profile" /\ error' = None
        /\ asked' = asked /\ requestId' = requestId
    BY <2>2, <1>13 DEF ServeProfile, GoBack
  <2>4. /\ writes' = 1 /\ headers' = headers \cup {}
        /\ sent' = [status |-> 200, code |-> "profile",
                    id |-> "none", headers |-> headers']
    <3>1. writes = 0
      BY <2>2, <1>i DEF WrittenOnce
    <3>2. Write(200, "profile", "none", {})
      BY <1>13 DEF ServeProfile
    <3> QED BY <3>1, <3>2, <2>2 DEF Write
  <2>5. /\ headers' \in SUBSET {"Retry-After", "security"}
        /\ sent' \in Response /\ sent' # None
    <3>1. headers \in SUBSET {"Retry-After", "security"}
      BY <1>i DEF TypeOK
    <3>2. headers' \in SUBSET {"Retry-After", "security"}
      BY <2>4, <3>1 DEF RetryAfterOf
    <3>3. 200 \in 200..599
      OBVIOUS
    <3>4. "profile" \in Codes
      BY DEF Codes, Outcomes
    <3>5. requestId' \in {"supplied", "generated", "none"}
      BY <1>i, <2>3 DEF TypeOK, Named
    <3>6. sent' \in Response
      BY <3>2, <3>3, <3>4, <3>5, <2>4, Zenon DEF Response
    <3> QED BY <3>2, <3>6, <1>n
  <2>6. /\ sent'.status = 200 /\ sent'.code = "profile" /\ sent'.id = "none"
        /\ {} \subseteq sent'.headers
    BY <2>4
  <2>7. TypeOK' /\ WrittenOnce'
    BY <1>i, <1>n, <1>s, <2>q, <2>2, <2>3, <2>4, <2>5 DEF TypeOK, WrittenOnce, Named
  <2>8. Kept
    BY <1>i, <1>s, <1>n, <2>a, <2>b, <2>1, <2>2, <2>3, <2>5, <1>13
    DEF ServeProfile, OnTheWayIn, PastLimiter, RefusedAtOnce, BodyFits, Limited, Profiles
  <2>9. Told
    BY <1>i, <1>s, <1>n, <2>a, <2>b, <2>1, <2>2, <2>3, <2>5, <1>13
    DEF ServeProfile, PastLimiter, ErrorIsServed, ServedByHandler, Unwritten, Limited, Profiles
  <2>10. FromService'
    BY <1>i, <1>s, <1>n, <2>a, <2>b, <2>1, <2>2, <2>3, <2>6, <1>13
    DEF ServeProfile, FromService, PastLimiter, Limited, Profiles, RetryAfterOf
  <2> QED BY <2>b, <2>3, <2>5, <2>7, <2>8, <2>9, <2>10 DEF Origin, IInv
<1>14. ASSUME NEW outcome \in Outcomes \ {"profile"}, FailProfile(outcome)
       PROVE  IInv'
  <2>p. position = 4
    BY <1>14, <1>t, Stations DEF FailProfile
  <2>a. /\ ~ AtGin /\ ~ AtLimiter /\ PastTheLimiter /\ ~ AfterErrors
        /\ ~ AtErrors /\ ~ BeforeHandler /\ InsideBodyLimit
    BY <2>p DEF AtGin, AtLimiter, PastTheLimiter, AfterErrors, AtErrors, BeforeHandler, InsideBodyLimit
  <2>1. way = "in" /\ Routed /\ Profiles /\ Limited
    BY <1>14, <1>t, Stations DEF FailProfile, Profiles, Limited
  <2>2. sent = None /\ served = None /\ error = None
    BY <2>1, <1>i DEF OnTheWayIn
  <2>q. position' = 3
    BY <1>14, <1>c, <2>p DEF FailProfile, GoBack
  <2>b. /\ ~ AtGin' /\ ~ AtLimiter' /\ PastTheLimiter' /\ ~ AfterErrors'
        /\ AtErrors' /\ BeforeHandler' /\ InsideBodyLimit' /\ InChain'
    BY <2>q, <2>p, <1>c, <1>i DEF InChain, AtGin, AtLimiter, PastTheLimiter, AfterErrors, AtErrors, BeforeHandler, InsideBodyLimit
  <2>3. /\ way' = "out" /\ served' = outcome /\ error' = outcome
        /\ asked' = asked /\ requestId' = requestId /\ sent' = None /\ writes' = writes
    BY <2>1, <2>2, <1>14, <1>c, <2>p DEF FailProfile, GoBack
  <2>4. TypeOK' /\ WrittenOnce'
    BY <1>14, <1>i, <1>n, <1>s, <2>q, <2>1, <2>2, <2>3 DEF FailProfile, TypeOK, WrittenOnce, Named
  <2>5. Kept
    BY <1>i, <1>s, <1>n, <1>14, <2>a, <2>b, <2>1, <2>2, <2>3
    DEF FailProfile, OnTheWayIn, PastLimiter, RefusedAtOnce, BodyFits, Limited, Profiles
  <2>6. Told
    BY <1>i, <1>s, <1>n, <1>14, <2>a, <2>b, <2>1, <2>2, <2>3
    DEF FailProfile, PastLimiter, ErrorIsServed, ServedByHandler, Unwritten, Limited, Profiles
  <2>7. Origin'
    BY <2>3 DEF Origin
  <2> QED BY <2>b, <2>4, <2>5, <2>6, <2>7 DEF IInv
<1>15. CASE NotFound
  <2>p. position = 0
    BY <1>15 DEF NotFound
  <2>a. /\ AtGin /\ ~ AtLimiter /\ ~ PastTheLimiter /\ AfterErrors
        /\ ~ AtErrors /\ BeforeHandler /\ ~ InsideBodyLimit
    BY <2>p DEF AtGin, AtLimiter, PastTheLimiter, AfterErrors, AtErrors, BeforeHandler, InsideBodyLimit
  <2>1. sent = None /\ way = "out"
    BY <1>15, <1>w, <1>i, <2>a DEF NotFound, OnTheWayIn
  <2>2. ~ Routed /\ error = None /\ asked # "refused"
    BY <2>1, <2>a, <1>i DEF Unwritten, RefusedAtOnce
  <2>q. position' = 0
    BY <1>15, <1>c, <2>p DEF NotFound
  <2>b. /\ AtGin' /\ ~ AtLimiter' /\ ~ PastTheLimiter' /\ AfterErrors'
        /\ ~ AtErrors' /\ BeforeHandler' /\ ~ InsideBodyLimit' /\ InChain'
    BY <2>q, <2>p, <1>c, <1>i DEF InChain, AtGin, AtLimiter, PastTheLimiter, AfterErrors, AtErrors, BeforeHandler, InsideBodyLimit
  <2>3. /\ way' = "out" /\ asked' = asked /\ requestId' = requestId
        /\ served' = served /\ error' = error
    BY <2>1, <1>15 DEF NotFound
  <2>s. sent = None
    BY <2>1
  <2>4. /\ writes' = 1 /\ headers' = headers \cup {}
        /\ sent' = [status |-> 404, code |-> "no route",
                    id |-> "none", headers |-> headers']
    <3>1. writes = 0
      BY <2>s, <1>i DEF WrittenOnce
    <3>2. Write(404, "no route", "none", {})
      BY <1>15 DEF NotFound
    <3>3. writes' = writes + 1
      BY <3>2 DEF Write
    <3>4. writes' = 1
      BY <3>1, <3>3
    <3>5. /\ headers' = headers \cup {}
          /\ sent' = [status |-> 404, code |-> "no route", id |-> "none", headers |-> headers']
      BY <3>2, <2>s, Zenon DEF Write
    <3> QED BY <3>4, <3>5
  <2>5. /\ headers' \in SUBSET {"Retry-After", "security"}
        /\ sent' \in Response /\ sent' # None
    <3>1. headers \in SUBSET {"Retry-After", "security"}
      BY <1>i DEF TypeOK
    <3>2. headers' \in SUBSET {"Retry-After", "security"}
      BY <2>4, <3>1 DEF RetryAfterOf
    <3>3. 404 \in 200..599
      OBVIOUS
    <3>4. "no route" \in Codes
      BY DEF Codes, Outcomes
    <3>5. requestId' \in {"supplied", "generated", "none"}
      BY <1>i, <2>3 DEF TypeOK, Named
    <3>6. sent' \in Response
      BY <3>2, <3>3, <3>4, <3>5, <2>4, Zenon DEF Response
    <3> QED BY <3>2, <3>6, <1>n
  <2>6. /\ sent'.status = 404 /\ sent'.code = "no route" /\ sent'.id = "none"
        /\ {} \subseteq sent'.headers
    BY <2>4
  <2>7. TypeOK' /\ WrittenOnce'
    <3>0. writes' = 1
      BY <2>4
    <3>1. position' \in 0..4 /\ writes' \in Nat
      BY <2>q, <3>0
    <3>2. /\ way' \in {"in", "out"} /\ request' \in Request
          /\ asked' \in {"allowed", "refused", None}
          /\ requestId' \in {"supplied", "generated", "none"}
      BY <1>i, <1>s, <2>3 DEF TypeOK
    <3>3. /\ served' \in Outcomes \cup {None}
          /\ error' \in (Outcomes \ {"profile"}) \cup {None}
      BY <1>i, <2>3 DEF TypeOK
    <3>4. TypeOK'
      BY <3>1, <3>2, <3>3, <2>5 DEF TypeOK
    <3>5. WrittenOnce'
      BY <2>4, <2>5 DEF WrittenOnce
    <3> QED BY <3>4, <3>5
  <2>8. Kept
    BY <1>i, <1>s, <1>n, <2>a, <2>b, <2>1, <2>2, <2>3, <2>5
    DEF OnTheWayIn, PastLimiter, RefusedAtOnce, BodyFits, Limited, Profiles
  <2>9. Told
    BY <1>i, <1>s, <1>n, <2>a, <2>b, <2>1, <2>2, <2>3, <2>5
    DEF PastLimiter, ErrorIsServed, ServedByHandler, Unwritten, Limited, Profiles
  <2>10. FromGin'
    BY <1>i, <1>s, <1>n, <2>a, <2>b, <2>1, <2>2, <2>3, <2>6
    DEF FromGin, PastLimiter, Limited, Profiles, RetryAfterOf
  <2> QED BY <2>b, <2>3, <2>5, <2>7, <2>8, <2>9, <2>10 DEF Origin, IInv
<1>16. CASE LeaveHandlers
  <2>p. position = 3
    BY <1>16, <1>t, Stations DEF LeaveHandlers
  <2>a. /\ ~ AtGin /\ ~ AtLimiter /\ PastTheLimiter /\ ~ AfterErrors
        /\ AtErrors /\ BeforeHandler /\ InsideBodyLimit
    BY <2>p DEF AtGin, AtLimiter, PastTheLimiter, AfterErrors, AtErrors, BeforeHandler, InsideBodyLimit
  <2>1. way = "out" /\ error = None
    BY <1>16, <1>t, Stations DEF LeaveHandlers
  <2>q. position' = 2
    BY <1>16, <1>c, <2>p DEF LeaveHandlers, GoBack
  <2>b. /\ ~ AtGin' /\ ~ AtLimiter' /\ PastTheLimiter' /\ AfterErrors'
        /\ ~ AtErrors' /\ BeforeHandler' /\ ~ InsideBodyLimit' /\ InChain'
    BY <2>q, <2>p, <1>c, <1>i DEF InChain, AtGin, AtLimiter, PastTheLimiter, AfterErrors, AtErrors, BeforeHandler, InsideBodyLimit
  <2>3. /\ way' = "out"
        /\ asked' = asked /\ requestId' = requestId /\ served' = served
        /\ error' = error /\ sent' = sent /\ writes' = writes
    BY <2>1, <1>16, <1>c, <2>p DEF LeaveHandlers, GoBack
  <2>4. TypeOK' /\ WrittenOnce'
    BY <1>16, <1>i, <1>n, <1>s, <2>q, <2>1, <2>3 DEF LeaveHandlers, TypeOK, WrittenOnce, Named
  <2>5. Kept
    BY <1>i, <1>s, <1>n, <1>16, <2>a, <2>b, <2>1, <2>3
    DEF LeaveHandlers, OnTheWayIn, PastLimiter, RefusedAtOnce, BodyFits, Limited, Profiles
  <2>6. Told
    BY <1>i, <1>s, <1>n, <2>a, <2>b, <2>1, <2>3
    DEF PastLimiter, ErrorIsServed, ServedByHandler, Unwritten, Limited, Profiles
  <2>7. Origin'
    <3>1. FromLimiter => FromLimiter'
      BY <2>a, <2>b, <2>3, <1>s DEF FromLimiter
    <3>2. FromBodyLimit => FromBodyLimit'
      BY <2>a, <2>b, <2>3, <1>s DEF FromBodyLimit
    <3>3. FromErrors => FromErrors'
      BY <2>a, <2>b, <2>3, <1>s DEF FromErrors
    <3>4. FromStatic => FromStatic'
      BY <2>a, <2>b, <2>3, <1>s DEF FromStatic
    <3>5. FromValidation => FromValidation'
      BY <2>a, <2>b, <2>3, <1>s DEF FromValidation
    <3>6. FromDemonstration => FromDemonstration'
      BY <2>a, <2>b, <2>3, <1>s DEF FromDemonstration
    <3>7. FromService => FromService'
      BY <2>a, <2>b, <2>3, <1>s DEF FromService
    <3>8. FromGin => FromGin'
      BY <2>a, <2>b, <2>3, <1>s DEF FromGin
    <3> QED BY <3>1, <3>2, <3>3, <3>4, <3>5, <3>6, <3>7, <3>8, <2>3, <1>i DEF Origin
  <2> QED BY <2>b, <2>4, <2>5, <2>6, <2>7 DEF IInv
<1>17. CASE UNCHANGED vars
  <2>3. /\ request' = request /\ position' = position /\ way' = way
        /\ asked' = asked /\ requestId' = requestId /\ served' = served
        /\ error' = error /\ sent' = sent /\ writes' = writes
    BY <1>17 DEF vars
  <2>b. /\ AtGin' <=> AtGin
        /\ AtLimiter' <=> AtLimiter
        /\ PastTheLimiter' <=> PastTheLimiter
        /\ AfterErrors' <=> AfterErrors
        /\ AtErrors' <=> AtErrors
        /\ BeforeHandler' <=> BeforeHandler
        /\ InsideBodyLimit' <=> InsideBodyLimit
        /\ InChain'
    BY <2>3, <1>c, <1>i DEF InChain, AtGin, AtLimiter, PastTheLimiter, AfterErrors, AtErrors, BeforeHandler, InsideBodyLimit
  <2>4. TypeOK' /\ WrittenOnce'
    BY <1>17, <1>i DEF vars, TypeOK, WrittenOnce
  <2>5. Kept /\ Told
    BY <2>3, <2>b, <1>i, <1>s
    DEF OnTheWayIn, PastLimiter, RefusedAtOnce, BodyFits, ErrorIsServed, ServedByHandler, Unwritten
  <2>7. Origin'
    <3>1. FromLimiter => FromLimiter'
      BY <2>b, <2>3, <1>s DEF FromLimiter
    <3>2. FromBodyLimit => FromBodyLimit'
      BY <2>b, <2>3, <1>s DEF FromBodyLimit
    <3>3. FromErrors => FromErrors'
      BY <2>b, <2>3, <1>s DEF FromErrors
    <3>4. FromStatic => FromStatic'
      BY <2>b, <2>3, <1>s DEF FromStatic
    <3>5. FromValidation => FromValidation'
      BY <2>b, <2>3, <1>s DEF FromValidation
    <3>6. FromDemonstration => FromDemonstration'
      BY <2>b, <2>3, <1>s DEF FromDemonstration
    <3>7. FromService => FromService'
      BY <2>b, <2>3, <1>s DEF FromService
    <3>8. FromGin => FromGin'
      BY <2>b, <2>3, <1>s DEF FromGin
    <3> QED BY <3>1, <3>2, <3>3, <3>4, <3>5, <3>6, <3>7, <3>8, <2>3, <1>i DEF Origin
  <2> QED BY <2>b, <2>4, <2>5, <2>7 DEF IInv
<1> QED
  BY <1>1, <1>2, <1>3, <1>4, <1>5, <1>6, <1>7, <1>8, <1>9, <1>10, <1>11, <1>12, <1>13,
     <1>14, <1>15, <1>16, <1>17, <1>w DEF Next
-----------------------------------------------------------------------------
LEMMA Invariance == Spec => []IInv
BY Initially, Inductive, PTL DEF Spec

\* Every variable of a request keeps its type; in particular what goes on the
\* wire is a response with a status of HTTP and a known code (ErrorResponse).
THEOREM TypeCorrect == Spec => []TypeOK
<1>1. IInv => TypeOK
  BY DEF IInv
<1> QED BY <1>1, Invariance, PTL

\* Every request gets exactly one response, a routed one from the application,
\* whatever the limiter, the service and the URLs are (errorResponse's Abort,
\* ErrorHandlerMiddleware).
THEOREM AnsweredOnce == Spec => []OneResponse
<1>1. IInv => OneResponse
  <2> SUFFICES ASSUME IInv PROVE OneResponse
    OBVIOUS
  <2>1. writes <= 1 /\ (Done => writes = 1)
    BY DEF IInv, WrittenOnce, Done
  <2>2. error \in Outcomes \cup {None} /\ "no route" \notin Outcomes
    BY DEF IInv, TypeOK, Outcomes
  <2>3. Done /\ Routed => sent.code # "no route"
    BY <2>2 DEF IInv, Origin, Done, FromLimiter, FromBodyLimit, FromErrors, FromStatic, FromValidation, FromDemonstration, FromService, FromGin
  <2> QED BY <2>1, <2>3 DEF OneResponse
<1> QED BY <1>1, Invariance, PTL

\* The service is only asked on behalf of requests that the limiter admitted
\* and whose body fits (the order of CreateApp's middlewares).
THEOREM FetchedIfAdmitted == Spec => []OnlyAdmittedAreFetched
<1>1. IInv => OnlyAdmittedAreFetched
  BY DEF IInv, ServedByHandler, BodyFits, OnlyAdmittedAreFetched
<1> QED BY <1>1, Invariance, PTL

\* What the statuses of errors say, each kind of error apart.
Failed(e) == e \in {"authentication", "budget", "upstream", "credentials", "parse"}
Waits(e) == e = "rate limited"
SaysOk(status) == status = 200
SaysWait(status) == status = 429
SaysFailed(status) == status >= 500

LEMMA Statuses ==
  /\ SaysOk(200) /\ ~ SaysWait(200) /\ ~ SaysFailed(200)
  /\ ~ SaysOk(429) /\ SaysWait(429) /\ ~ SaysFailed(429)
  /\ ~ SaysOk(503) /\ ~ SaysWait(503) /\ SaysFailed(503)
  /\ ~ SaysOk(500) /\ ~ SaysWait(500) /\ SaysFailed(500)
  /\ ~ SaysOk(403) /\ ~ SaysWait(403) /\ ~ SaysFailed(403)
  /\ ~ SaysOk(404) /\ ~ SaysWait(404) /\ ~ SaysFailed(404)
  /\ ~ SaysOk(413) /\ ~ SaysWait(413) /\ ~ SaysFailed(413)
  /\ ~ SaysOk(422) /\ ~ SaysWait(422) /\ ~ SaysFailed(422)
BY DEF SaysOk, SaysWait, SaysFailed

LEMMA StatusesOfErrors ==
  ASSUME NEW e \in Outcomes \ {"profile"}
  PROVE  /\ ~ SaysOk(StatusOf(e))
         /\ SaysWait(StatusOf(e)) <=> Waits(e)
         /\ SaysFailed(StatusOf(e)) <=> Failed(e)
<1>1. CASE e = "rate limited"
  <2>1. Waits(e) /\ ~ Failed(e)
    BY <1>1 DEF Waits, Failed
  <2>2. StatusOf(e) = 429
    BY <1>1 DEF StatusOf
  <2> QED BY <2>1, <2>2, Statuses
<1>2. CASE e \in {"authentication", "budget"}
  <2>1. ~ Waits(e) /\ Failed(e)
    BY <1>2 DEF Waits, Failed
  <2>2. StatusOf(e) = 503
    BY <1>2 DEF StatusOf
  <2> QED BY <2>1, <2>2, Statuses
<1>3. CASE e \in {"upstream", "credentials", "parse"}
  <2>1. ~ Waits(e) /\ Failed(e)
    BY <1>3 DEF Waits, Failed
  <2>2. /\ e # "contact_info_disabled" /\ e # "invalid_url" /\ e # "not found"
        /\ e # "rate limited" /\ e \notin {"authentication", "budget"}
    BY <1>3
  <2>3. StatusOf(e) = 500
    BY <2>2 DEF StatusOf
  <2> QED BY <2>1, <2>3, Statuses
<1>4. CASE e = "contact_info_disabled"
  <2>1. ~ Waits(e) /\ ~ Failed(e)
    BY <1>4 DEF Waits, Failed
  <2>2. StatusOf(e) = 403
    BY <1>4 DEF StatusOf
  <2> QED BY <2>1, <2>2, Statuses
<1>5. CASE e = "invalid_url"
  <2>1. ~ Waits(e) /\ ~ Failed(e)
    BY <1>5 DEF Waits, Failed
  <2>2. StatusOf(e) = 422
    BY <1>5 DEF StatusOf
  <2> QED BY <2>1, <2>2, Statuses
<1>6. CASE e = "not found"
  <2>1. ~ Waits(e) /\ ~ Failed(e)
    BY <1>6 DEF Waits, Failed
  <2>2. StatusOf(e) = 404
    BY <1>6 DEF StatusOf
  <2> QED BY <2>1, <2>2, Statuses
<1> QED BY <1>1, <1>2, <1>3, <1>4, <1>5, <1>6 DEF Outcomes

\* The status tells how the request ended: a profile, the wish to wait with its
\* Retry-After, or a failure of the service (ErrorHandlerMiddleware).
THEOREM StatusIsTrue == Spec => []StatusTellsOutcome
<1>1. IInv => StatusTellsOutcome
  <2> SUFFICES ASSUME IInv, Done, Profiles, Routed PROVE StatusTellsOutcome
    BY DEF StatusTellsOutcome, Profiles
  <2>1. Origin /\ RefusedAtOnce /\ ErrorIsServed /\ ServedByHandler
    BY DEF IInv
  <2>2. None \notin Outcomes /\ None # "refused" /\ None # "allowed"
    BY HttpAssumption
  <2>3. error \in (Outcomes \ {"profile"}) \cup {None}
    BY DEF IInv, TypeOK
  <2>4. "profile" \in Outcomes /\ ~ Waits("profile") /\ ~ Failed("profile")
        /\ ~ Waits(None) /\ ~ Failed(None) /\ "demonstration" \notin Outcomes
    BY <2>2 DEF Outcomes, Waits, Failed
  <2> DEFINE Ok == served = "profile" \/ (asked = "allowed" /\ sent.code = "demonstration")
             Told == /\ SaysOk(sent.status) <=> Ok
                     /\ SaysWait(sent.status) <=> (asked = "refused" \/ Waits(served))
                     /\ SaysWait(sent.status) => "Retry-After" \in sent.headers
                     /\ SaysFailed(sent.status) <=> Failed(served)
  <2>0. SUFFICES Told
    BY Zenon DEF StatusTellsOutcome, SaysOk, SaysWait, SaysFailed, Waits, Failed
  <2>5. CASE FromLimiter
    <3>1. served = None /\ ~ Ok /\ asked = "refused"
      BY <2>1, <2>2, <2>4, <2>5 DEF RefusedAtOnce, FromLimiter
    <3> QED BY <2>4, <2>5, <3>1, Statuses DEF FromLimiter
  <2>6. CASE FromBodyLimit
    <3>1. served = None /\ ~ Ok /\ asked # "refused"
      BY <2>1, <2>2, <2>4, <2>6 DEF RefusedAtOnce, FromBodyLimit
    <3> QED BY <2>4, <2>6, <3>1, Statuses DEF FromBodyLimit
  <2>7. CASE FromErrors
    <3>1. served = error /\ error \in Outcomes \ {"profile"} /\ ~ Ok /\ asked # "refused"
      BY <2>1, <2>2, <2>3, <2>4, <2>7 DEF ServedByHandler, ErrorIsServed, FromErrors
    <3>2. sent.status = StatusOf(error) /\ (Waits(error) => "Retry-After" \in sent.headers)
      BY <2>7 DEF FromErrors, Waits
    <3> QED BY <3>1, <3>2, StatusesOfErrors
  <2>8. CASE FromValidation
    <3>1. served = None /\ ~ Ok /\ asked # "refused"
      BY <2>2, <2>4, <2>8 DEF FromValidation
    <3> QED BY <2>4, <2>8, <3>1, Statuses DEF FromValidation
  <2>9. CASE FromDemonstration
    <3>1. served = None /\ Ok /\ asked # "refused"
      BY <2>2, <2>4, <2>9 DEF FromDemonstration
    <3> QED BY <2>4, <2>9, <3>1, Statuses DEF FromDemonstration
  <2>10. CASE FromService
    <3>1. served = "profile" /\ Ok /\ asked # "refused"
      BY <2>1, <2>2, <2>4, <2>10 DEF ServedByHandler, FromService
    <3> QED BY <2>4, <2>10, <3>1, Statuses DEF FromService
  <2>11. ~ FromStatic /\ ~ FromGin
    BY DEF FromStatic, FromGin
  <2> QED BY <2>1, <2>5, <2>6, <2>7, <2>8, <2>9, <2>10, <2>11 DEF Origin, Done
<1> QED BY <1>1, Invariance, PTL

LEMMA Above == \A status : status >= 400 => status # 200
OBVIOUS

\* Every error that the application writes names its request
\* (RequestContextMiddleware, errorResponse).
THEOREM ErrorsAreNamed == Spec => []ErrorsNameTheRequest
<1>1. IInv => ErrorsNameTheRequest
  <2> SUFFICES ASSUME IInv, sent # None, sent.status >= 400, sent.code # "no route"
               PROVE  sent.id = Named
    BY DEF ErrorsNameTheRequest, Named
  <2>1. sent.status # 200
    BY Above
  <2> QED BY <2>1 DEF IInv, Origin, FromLimiter, FromBodyLimit, FromErrors, FromStatic, FromValidation, FromDemonstration, FromService, FromGin
<1> QED BY <1>1, Invariance, PTL

-----------------------------------------------------------------------------
\* A path of exactly two parts that are not empty: they are what the loop of
\* ParseLinkedInProfileURL keeps, the first one first.

LEMMA PartsOfTwo ==
  ASSUME NEW list, NEW i \in Nat, NEW j \in Nat, i < j
  PROVE  /\ Len(Subsequence(list, {i, j})) = 2
         /\ Subsequence(list, {i, j})[1] = list[i]
         /\ Subsequence(list, {i, j})[2] = list[j]
<1> DEFINE kept == {i, j}
<1>1. IsFiniteSet({i}) /\ Cardinality({i}) = 1 BY FS_Singleton
<1>2. Cardinality(kept) = 2
  <2>1. kept = {i} \cup {j} /\ j \notin {i} OBVIOUS
  <2> QED BY <1>1, <2>1, FS_AddElement
<1>3. Rank(kept, i) = 1
  <2>1. {k \in kept : k <= i} = {i} OBVIOUS
  <2> QED BY <1>1, <2>1 DEF Rank
<1>4. Rank(kept, j) = 2
  <2>1. {k \in kept : k <= j} = kept OBVIOUS
  <2> QED BY <1>2, <2>1 DEF Rank
<1>5. (CHOOSE k \in kept : Rank(kept, k) = 1) = i
  <2>1. \A k \in kept : Rank(kept, k) = 1 => k = i BY <1>4
  <2>2. i \in kept OBVIOUS
  <2> HIDE DEF kept
  <2> QED BY <1>3, <2>1, <2>2
<1>6. (CHOOSE k \in kept : Rank(kept, k) = 2) = j
  <2>1. \A k \in kept : Rank(kept, k) = 2 => k = j BY <1>3
  <2>2. j \in kept OBVIOUS
  <2> HIDE DEF kept
  <2> QED BY <1>4, <2>1, <2>2
<1> HIDE DEF kept
<1>7. Subsequence(list, kept) = [k \in 1..2 |-> list[CHOOSE l \in kept : Rank(kept, l) = k]]
  BY <1>2 DEF Subsequence
<1>8. 1 \in 1..2 /\ 2 \in 1..2 OBVIOUS
<1>9. Subsequence(list, kept)[1] = list[i] /\ Subsequence(list, kept)[2] = list[j]
  BY <1>5, <1>6, <1>7, <1>8
<1>10. Len(Subsequence(list, kept)) = 2 BY <1>7
<1> QED BY <1>9, <1>10 DEF kept

LEMMA TwoPositions ==
  ASSUME NEW list, NEW kept \in SUBSET Nat, IsFiniteSet(kept), Len(Subsequence(list, kept)) = 2
  PROVE  \E i, j \in kept : i < j /\ kept = {i, j}
<1>2. Cardinality(kept) \in Nat BY FS_CardinalityType
<1>3. Cardinality(kept) = 2
  <2>1. Len([k \in 1..Cardinality(kept) |-> list[CHOOSE i \in kept : Rank(kept, i) = k]])
          = Cardinality(kept)
    BY <1>2
  <2> QED BY <2>1 DEF Subsequence
<1>4. PICK i \in kept : TRUE
  <2>1. kept # {} BY <1>3, FS_EmptySet
  <2> QED BY <2>1
<1>5. IsFiniteSet(kept \ {i}) /\ Cardinality(kept \ {i}) = 1
  BY <1>3, FS_RemoveElement
<1>6. PICK j : kept \ {i} = {j} BY <1>5, FS_Singleton
<1>7. i \in kept /\ j \in kept /\ i # j /\ kept = {i, j} BY <1>6
<1>8. i < j \/ j < i BY <1>7
<1> QED BY <1>7, <1>8

LEMMA PositionsAreNatural == \A n \in Nat : \A i \in 1..n : i \in Nat
OBVIOUS

\* What is accepted as the page of a member is one.
LEMMA PartsNameMember ==
  ASSUME NEW u \in Url, NEW id \in Identifiers
  PROVE  IsProfilePath(PathParts(u)) /\ PathParts(u)[2] = id <=> NamesMember(u.path, id)
<1> DEFINE path == u.path
           kept == {i \in 1..Len(path) : path[i] # ""}
           parts == PathParts(u)
<1>1. path \in Seq(STRING) BY DEF Url
<1>2. DOMAIN path = 1..Len(path) /\ Len(path) \in Nat BY <1>1
<1>3. parts = Subsequence(path, kept) BY <1>2 DEF PathParts, Filtered, NotEmpty
<1>4. id # "" /\ "" \notin Member BY IdentifiersAssumption, MemberAssumption
<1>5. ASSUME IsProfilePath(parts), parts[2] = id PROVE NamesMember(path, id)
  <2>1. Len(parts) = 2 /\ parts[1] \in Member BY <1>5 DEF IsProfilePath
  <2>3. PICK i, j \in kept : i < j /\ kept = {i, j}
    <3>1. Len(Subsequence(path, kept)) = 2 BY <1>3, <2>1
    <3>2. IsFiniteSet(1..Len(path)) BY <1>2, FS_Interval
    <3>3. IsFiniteSet(kept) /\ kept \in SUBSET Nat
      <4>1. kept \in SUBSET (1..Len(path)) OBVIOUS
      <4>2. 1..Len(path) \in SUBSET Nat BY <1>2
      <4> HIDE DEF kept
      <4> QED BY <3>2, <4>1, <4>2, FS_Subset
    <3> HIDE DEF kept, path, parts
    <3> QED BY <3>1, <3>3, TwoPositions
  <2>4. i \in Nat /\ j \in Nat BY <1>2, PositionsAreNatural
  <2>5. parts[1] = path[i] /\ parts[2] = path[j]
    <3> HIDE DEF kept, path, parts
    <3> QED BY <1>3, <2>3, <2>4, PartsOfTwo
  <2>6. \A k \in DOMAIN path \ {i, j} : path[k] = "" BY <1>2, <2>3
  <2> QED BY <1>2, <1>5, <2>1, <2>3, <2>5, <2>6 DEF NamesMember
<1>6. ASSUME NamesMember(path, id) PROVE IsProfilePath(parts) /\ parts[2] = id
  <2>1. PICK i, j \in DOMAIN path :
          /\ i < j /\ path[i] \in Member /\ path[j] = id
          /\ \A k \in DOMAIN path \ {i, j} : path[k] = ""
    BY <1>6 DEF NamesMember
  <2>2. kept = {i, j}
    <3>1. path[i] # "" /\ path[j] # "" BY <1>4, <2>1
    <3>2. \A k \in 1..Len(path) : k = i \/ k = j \/ path[k] = "" BY <1>2, <2>1
    <3> HIDE DEF path
    <3> QED BY <1>2, <3>1, <3>2
  <2>3. i \in Nat /\ j \in Nat /\ i < j BY <1>2, <2>1, PositionsAreNatural
  <2>4. Len(parts) = 2 /\ parts[1] = path[i] /\ parts[2] = path[j]
    <3> HIDE DEF kept, path, parts
    <3> QED BY <1>3, <2>2, <2>3, PartsOfTwo
  <2> QED BY <2>1, <2>4 DEF IsProfilePath
<1> QED BY <1>5, <1>6

LEMMA AcceptedArePages ==
  ASSUME NEW u \in Url, NEW id \in Identifiers
  PROVE  PageOf(u, id) <=> Accepted(u) /\ PublicIdentifier(u) = id
<1> DEFINE Named1 == NamesMember(u.path, id)
           Schemed == u.scheme = "https" \/ (u.scheme = "none" /\ ~ u.nested)
           Plain == /\ u.text = "visible" /\ u.long = FALSE /\ u.control = FALSE
                    /\ u.wellFormed = TRUE /\ u.host = "allowed"
                    /\ u.port = FALSE /\ u.user = FALSE
<1> DEFINE page == [CanonicalURL(id) EXCEPT !.path = u.path, !.scheme = u.scheme,
                      !.nested = u.nested, !.demonstration = u.demonstration]
           Fields == {"text", "long", "control", "scheme", "nested", "wellFormed", "host",
                      "port", "user", "path", "demonstration"}
<1>1. DOMAIN u = Fields /\ u = [f \in Fields |-> u[f]] BY DEF Url
<1>2. /\ DOMAIN page = Fields /\ page = [f \in Fields |-> page[f]]
      /\ page.text = "visible" /\ page.long = FALSE /\ page.control = FALSE
      /\ page.wellFormed = TRUE /\ page.host = "allowed" /\ page.port = FALSE /\ page.user = FALSE
      /\ page.path = u.path /\ page.scheme = u.scheme /\ page.nested = u.nested
      /\ page.demonstration = u.demonstration
  BY DEF CanonicalURL
<1> HIDE DEF page
<1>3. u = page <=> Plain
  <2>1. u = page => Plain BY <1>2
  <2>2. Plain => u = page
    <3>1. Plain => \A f \in Fields : u[f] = page[f] BY <1>2
    <3> HIDE DEF Fields, Plain
    <3> QED BY <1>1, <1>2, <3>1
  <2> QED BY <2>1, <2>2
<1>4. PageOf(u, id) <=> Named1 /\ Schemed /\ Plain BY <1>3, Zenon DEF PageOf, page
<1>5. Scheme(u) = "https" <=> Schemed
  BY DEF Scheme
<1>6. /\ u.long \in BOOLEAN /\ u.control \in BOOLEAN /\ u.wellFormed \in BOOLEAN
      /\ u.port \in BOOLEAN /\ u.user \in BOOLEAN
  BY DEF Url
<1>7. Accepted(u) <=> Plain /\ Schemed /\ IsProfilePath(PathParts(u))
  BY <1>5, <1>6, Zenon DEF Accepted
<1>8. Named1 <=> IsProfilePath(PathParts(u)) /\ PathParts(u)[2] = id
  BY PartsNameMember
<1> QED BY <1>4, <1>7, <1>8, Zenon DEF PublicIdentifier

LEMMA PagesOfRequest ==
  ASSUME TypeOK
  PROVE  /\ Accepted(request.url) => Pages = {PublicIdentifier(request.url)}
         /\ ~ Accepted(request.url) => Pages = {}
<1>1. request.url \in Url BY HttpAssumption DEF TypeOK, Request
<1>2. Accepted(request.url) => PublicIdentifier(request.url) \in Identifiers
  BY DEF Accepted, IsProfilePath, PublicIdentifier
<1> QED BY <1>1, <1>2, AcceptedArePages DEF Pages

-----------------------------------------------------------------------------
\* Why a handler answered as it did.
Reasons ==
  /\ served # None => ~ Invalid /\ ~ request.url.demonstration /\ GetProfileEndsWith(served)
  /\ sent # None => /\ sent.code = "invalid_request" => Invalid
                    /\ sent.code = "demonstration" => ~ Invalid /\ request.url.demonstration

LEMMA NextKeepsReasons ==
  ASSUME IInv, Reasons, [Next]_vars
  PROVE  Reasons'
<1> DEFINE Why(e) == ~ Invalid /\ ~ request.url.demonstration /\ GetProfileEndsWith(e)
           Told(r) == /\ r.code = "invalid_request" => Invalid
                      /\ r.code = "demonstration" => ~ Invalid /\ request.url.demonstration
<1>0. /\ served # None => Why(served)
      /\ sent # None => Told(sent)
  BY DEF Reasons
<1>1. request' = request
  BY DEF Next, vars, Refuse, Admit, SetHeaders, RejectBody, PassBody, EnterHandlers,
         LeaveHandlers, TellError, ServeStatic, RejectRequest, ServeDemonstration,
         ServeProfile, FailProfile, NotFound
<1>2. SUFFICES (served' = served \/ Why(served')) /\ (sent' = sent \/ sent' = None \/ Told(sent'))
  BY <1>0, <1>1 DEF Reasons, Invalid, GetProfileEndsWith
<1>3. ASSUME NEW status, NEW code, NEW id, NEW with, Write(status, code, id, with),
             code = "invalid_request" => Invalid,
             code = "demonstration" => ~ Invalid /\ request.url.demonstration
      PROVE  sent' = sent \/ Told(sent')
  BY <1>3 DEF Write
<1> HIDE DEF Why, Told
<1>4. CASE Refuse BY <1>3, <1>4 DEF Refuse, ErrorResponse
<1>5. CASE RejectBody BY <1>3, <1>5 DEF RejectBody, ErrorResponse
<1>6. CASE TellError
  <2>1. error \in Outcomes BY <1>6 DEF IInv, TypeOK, TellError
  <2>2. error # "invalid_request" /\ error # "demonstration" BY <2>1 DEF Outcomes
  <2> QED BY <1>3, <1>6, <2>2 DEF TellError, ErrorResponse
<1>7. CASE ServeStatic BY <1>3, <1>7 DEF ServeStatic
<1>8. CASE RejectRequest BY <1>3, <1>8 DEF RejectRequest, ErrorResponse
<1>9. CASE ServeDemonstration BY <1>3, <1>9 DEF ServeDemonstration
<1>10. CASE ServeProfile
  <2>1. Why(served') BY <1>10 DEF ServeProfile, Why
  <2> QED BY <1>3, <1>10, <2>1 DEF ServeProfile
<1>11. ASSUME NEW outcome \in Outcomes \ {"profile"}, FailProfile(outcome)
       PROVE (served' = served \/ Why(served')) /\ (sent' = sent \/ sent' = None \/ Told(sent'))
  <2>1. Why(served') /\ sent' = sent BY <1>11 DEF FailProfile, Why
  <2> QED BY <2>1
<1>12. CASE NotFound
  <2>1. Write(404, "no route", "none", {}) /\ served' = served BY <1>12 DEF NotFound
  <2>2. "no route" # "invalid_request" /\ "no route" # "demonstration" OBVIOUS
  <2>3. sent' = sent \/ Told(sent') BY <1>3, <2>1, <2>2
  <2> QED BY <2>1, <2>3
<1>13. CASE Admit \/ SetHeaders \/ PassBody \/ EnterHandlers \/ LeaveHandlers \/ UNCHANGED vars
  BY <1>13 DEF Admit, SetHeaders, PassBody, EnterHandlers, LeaveHandlers, vars
<1> QED BY <1>4, <1>5, <1>6, <1>7, <1>8, <1>9, <1>10, <1>11, <1>12, <1>13 DEF Next

LEMMA ReasonsAreKept == Spec => []Reasons
<1>1. Init => Reasons BY DEF Init, Reasons
<1>2. IInv /\ Reasons /\ [Next]_vars => Reasons' BY NextKeepsReasons
<1> QED BY <1>1, <1>2, Invariance, PTL DEF Spec

LEMMA UnprocessableErrors ==
  ASSUME NEW e \in Outcomes
  PROVE  StatusOf(e) = 422 <=> e = "invalid_url"
<1>1. CASE e = "invalid_url" BY <1>1 DEF StatusOf
<1>2. CASE e = "contact_info_disabled"
  <2>1. StatusOf(e) = 403 BY <1>2 DEF StatusOf
  <2>2. StatusOf(e) # 422 BY <2>1
  <2>3. e # "invalid_url" BY <1>2
  <2> QED BY <2>2, <2>3
<1>3. CASE e = "not found"
  <2>1. StatusOf(e) = 404 BY <1>3 DEF StatusOf
  <2>2. StatusOf(e) # 422 BY <2>1
  <2>3. e # "invalid_url" BY <1>3
  <2> QED BY <2>2, <2>3
<1>4. CASE e = "rate limited"
  <2>1. StatusOf(e) = 429 BY <1>4 DEF StatusOf
  <2>2. StatusOf(e) # 422 BY <2>1
  <2>3. e # "invalid_url" BY <1>4
  <2> QED BY <2>2, <2>3
<1>5. CASE e \in {"authentication", "budget"}
  <2>1. StatusOf(e) = 503 BY <1>5 DEF StatusOf
  <2>2. StatusOf(e) # 422 BY <2>1
  <2>3. e # "invalid_url" BY <1>5
  <2> QED BY <2>2, <2>3
<1>6. CASE e \in {"profile", "upstream", "credentials", "parse"}
  <2>1. /\ e # "contact_info_disabled" /\ e # "invalid_url" /\ e # "not found"
        /\ e # "rate limited" /\ e \notin {"authentication", "budget"}
    BY <1>6
  <2>2. StatusOf(e) = 500 BY <2>1 DEF StatusOf
  <2>3. StatusOf(e) # 422 BY <2>2
  <2> QED BY <2>1, <2>3
<1> QED BY <1>1, <1>2, <1>3, <1>4, <1>5, <1>6 DEF Outcomes

\* 422 is for requests that are at fault, and a page of a member is taken for
\* that member and no other, whatever the URLs (ParseLinkedInProfileURL and
\* the handlers).
THEOREM RefusalsHaveCause == Spec => []RefusedForCause
<1>1. IInv /\ Reasons => RefusedForCause
  <2> SUFFICES ASSUME IInv, Reasons PROVE RefusedForCause
    OBVIOUS
  <2>1. /\ Accepted(request.url) => Pages = {PublicIdentifier(request.url)}
        /\ ~ Accepted(request.url) => Pages = {}
    BY PagesOfRequest DEF IInv
  <2>2. Accepted(request.url) <=> Pages # {} BY <2>1
  <2> SUFFICES ASSUME Done, asked = "allowed", Routed, ~ TooLarge
               PROVE  sent.status = 422 <=>
                        \/ Invalid
                        \/ /\ Pages = {} /\ ~ request.url.demonstration
                           /\ served # "contact_info_disabled"
    BY <2>1 DEF RefusedForCause
  <2> DEFINE Cause == \/ Invalid
                      \/ /\ Pages = {} /\ ~ request.url.demonstration
                         /\ served # "contact_info_disabled"
  <2>3. sent # None /\ Origin BY DEF Done, IInv
  <2>4. None # "refused" /\ None # "allowed" /\ None \notin Outcomes BY HttpAssumption
  <2>5. Profiles
    <3>1. way = "out" BY <2>3 DEF Origin
    <3>2. asked = IF Limited THEN "allowed" ELSE None BY <3>1 DEF IInv, PastLimiter
    <3> QED BY <2>4, <3>2 DEF Limited, Profiles
  <2>6. CASE FromErrors
    <3>1. served = error /\ error \in Outcomes \ {"profile"}
      BY <2>6 DEF IInv, TypeOK, ErrorIsServed, FromErrors
    <3>2. ~ Invalid /\ ~ request.url.demonstration /\ GetProfileEndsWith(served)
      BY <2>4, <3>1 DEF Reasons
    <3>3. sent.status = 422 <=> served = "invalid_url"
      <4>1. sent.status = StatusOf(error) BY <2>6 DEF FromErrors
      <4>2. error \in Outcomes BY <3>1
      <4> QED BY <3>1, <4>1, <4>2, UnprocessableErrors
    <3>4. served = "invalid_url" => ~ Accepted(request.url)
      BY <3>2 DEF GetProfileEndsWith
    <3>5. served \notin {"invalid_url", "contact_info_disabled"} => Accepted(request.url)
      BY <3>2 DEF GetProfileEndsWith
    <3> QED BY <2>2, <3>2, <3>3, <3>4, <3>5
  <2>7. CASE FromValidation BY <2>3, <2>7 DEF Reasons, FromValidation
  <2>8. CASE FromDemonstration
    <3>1. sent.status = 200 /\ ~ Invalid /\ request.url.demonstration
      BY <2>3, <2>8 DEF Reasons, FromDemonstration
    <3> QED BY <3>1
  <2>9. CASE FromService
    <3>1. served = "profile" /\ sent.status = 200 BY <2>9 DEF FromService
    <3>2. served # None BY <2>4, <3>1 DEF Outcomes
    <3>3. ~ Invalid /\ Accepted(request.url) BY <3>1, <3>2 DEF Reasons, GetProfileEndsWith
    <3> QED BY <2>2, <3>1, <3>3
  <2>10. ~ FromLimiter /\ ~ FromBodyLimit /\ ~ FromStatic /\ ~ FromGin
    BY <2>5 DEF FromLimiter, FromBodyLimit, FromStatic, FromGin
  <2> QED BY <2>3, <2>6, <2>7, <2>8, <2>9, <2>10 DEF Origin
<1> QED BY <1>1, Invariance, ReasonsAreKept, PTL
=============================================================================
