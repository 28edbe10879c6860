---------------------------- MODULE ProfileService ----------------------------
(***************************************************************************)
(* service/service.go: GetProfile and fetchAndCache, run by any number of  *)
(* requests at once over one cache (ProfileCache) and one singleflight     *)
(* group (golang.org/x/sync/singleflight, external).                       *)
(*                                                                         *)
(* A request is a goroutine that calls GetProfile once.  Everything it     *)
(* does to shared state is a step: each call of the cache, Do's look at    *)
(* the group's map under the group's mutex, and the publication of a       *)
(* flight's result, which removes the flight from the map.  What is        *)
(* between FetchProfile's call and its return (linkedin/linkedin.go, the   *)
(* parser) is one long step here: the request is in "fetch" meanwhile.     *)
(***************************************************************************)
EXTENDS ProfileCache

CONSTANTS
  Requests,      \* calls of GetProfile
  Ids,           \* public identifiers as the URL spells them
  Fold,          \* strings.ToLower on identifiers
  AllowContact,  \* Settings.AllowContactInfo
  Failures,      \* errors of FetchProfile and of the parser
  None           \* no request, no result

VARIABLES
  pc,      \* where each request is
  ask,     \* what it asks for and since when
  flight,  \* the group's map: the request that runs fn for a key
  leader,  \* the request whose flight this one runs or waits for
  result,  \* what fn has to hand out: of a leader, c.val and c.err
  reply    \* what GetProfile returned

requestVars == <<pc, ask, flight, leader, result, reply>>
vars == <<clock, items, evictList, pc, ask, flight, leader, result, reply>>

Key == [id : Ids, contact : BOOLEAN]
Payload == [id : Ids, contact : BOOLEAN, at : 0..Horizon]

Failure == [error : Failures]
Refusal == [error : {"contact_info_disabled", "invalid_url"}]
Result == Response \cup Failure

ASSUME ProfileServiceAssumption ==
  /\ Keys = Key
  /\ Payloads = Payload
  /\ AllowContact \in BOOLEAN
  /\ None \notin Requests
  /\ None \notin Response \cup Failure \cup Refusal \cup Key \cup Payload

\* The stages of a flight's leader.
Leading == {"recheck", "fetch", "fill", "finish"}

TypeOK ==
  /\ CacheTypeOK
  /\ pc \in [Requests -> {"idle", "lookup", "join", "wait", "done"} \cup Leading]
  /\ ask \in [Requests -> Payload \cup {None}]
  /\ flight \in [Key -> Requests \cup {None}]
  /\ leader \in [Requests -> Requests \cup {None}]
  /\ result \in [Requests -> Result \cup {None}]
  /\ reply \in [Requests -> Result \cup Refusal \cup {None}]

Init ==
  /\ CacheInit
  /\ pc = [r \in Requests |-> "idle"]
  /\ ask = [r \in Requests |-> None]
  /\ flight = [k \in Key |-> None]
  /\ leader = [r \in Requests |-> None]
  /\ result = [r \in Requests |-> None]
  /\ reply = [r \in Requests |-> None]

-----------------------------------------------------------------------------
At(r, stage) == pc[r] = stage
Go(r, stage) == pc' = [pc EXCEPT ![r] = stage]

Answer(r, answer) ==
  /\ Go(r, "done")
  /\ reply' = [reply EXCEPT ![r] = answer]

KeyWithoutContact(id, contact) == [id |-> id, contact |-> FALSE]
CacheKey(id, contact) == [id |-> id, contact |-> contact]

KeyIn(a) == CacheKey(a.id, a.contact)
KeyOf(r) == KeyIn(ask[r])

\* Contact information that is not allowed, or an invalid URL.
Refuse(r) ==
  /\ At(r, "idle")
  /\ \E refusal \in Refusal :
       /\ refusal.error = "contact_info_disabled" => ~ AllowContact
       /\ Answer(r, refusal)
  /\ UNCHANGED <<clock, cacheVars, ask, flight, leader, result>>

AcceptAnyContact(r, id, contact) ==
  /\ At(r, "idle")
  /\ ask' = [ask EXCEPT ![r] = [id |-> id, contact |-> contact, at |-> clock]]
  /\ Go(r, "lookup")
  /\ UNCHANGED <<clock, cacheVars, flight, leader, result, reply>>
Accept(r, id, contact) ==
  /\ At(r, "idle") /\ (contact => AllowContact)
  /\ ask' = [ask EXCEPT ![r] = [id |-> id, contact |-> contact, at |-> clock]]
  /\ Go(r, "lookup")
  /\ UNCHANGED <<clock, cacheVars, flight, leader, result, reply>>

LookupHit(r) ==
  /\ At(r, "lookup")
  /\ GetHit(KeyOf(r))
  /\ Answer(r, Found(KeyOf(r)))
  /\ UNCHANGED <<clock, ask, flight, leader, result>>

LookupMiss(r) ==
  /\ At(r, "lookup")
  /\ GetMiss(KeyOf(r))
  /\ Go(r, "join")
  /\ UNCHANGED <<clock, ask, flight, leader, result, reply>>

\* Do finds no flight for the key and starts one ...
LeadAnyway(r) ==
  /\ At(r, "join")
  /\ flight' = [flight EXCEPT ![KeyOf(r)] = r]
  /\ leader' = [leader EXCEPT ![r] = r]
  /\ Go(r, "recheck")
  /\ UNCHANGED <<clock, cacheVars, ask, result, reply>>
Lead(r) ==
  /\ At(r, "join") /\ flight[KeyOf(r)] = None
  /\ flight' = [flight EXCEPT ![KeyOf(r)] = r]
  /\ leader' = [leader EXCEPT ![r] = r]
  /\ Go(r, "recheck")
  /\ UNCHANGED <<clock, cacheVars, ask, result, reply>>

\* ... or waits for the one there is.
Follow(r) ==
  /\ At(r, "join") /\ flight[KeyOf(r)] # None
  /\ leader' = [leader EXCEPT ![r] = flight[KeyOf(r)]]
  /\ Go(r, "wait")
  /\ UNCHANGED <<clock, cacheVars, ask, flight, result, reply>>

RecheckHit(r) ==
  /\ At(r, "recheck")
  /\ GetHit(KeyOf(r))
  /\ result' = [result EXCEPT ![r] = Found(KeyOf(r))]
  /\ Go(r, "finish")
  /\ UNCHANGED <<clock, ask, flight, leader, reply>>

RecheckSkipped(r) ==
  /\ At(r, "recheck")
  /\ Go(r, "fetch")
  /\ UNCHANGED <<clock, cacheVars, ask, flight, leader, result, reply>>
RecheckMiss(r) ==
  /\ At(r, "recheck")
  /\ GetMiss(KeyOf(r))
  /\ Go(r, "fetch")
  /\ UNCHANGED <<clock, ask, flight, leader, result, reply>>

\* FetchProfile and the parser deliver; RetrievedAt is read.
FetchOk(r) ==
  /\ At(r, "fetch")
  /\ LET p == [id |-> ask[r].id, contact |-> ask[r].contact, at |-> clock]
     IN  result' = [result EXCEPT ![r] = [payload |-> p, cached |-> FALSE]]
  /\ Go(r, "fill")
  /\ UNCHANGED <<clock, cacheVars, ask, flight, leader, reply>>

FetchFail(r, e) ==
  /\ At(r, "fetch")
  /\ result' = [result EXCEPT ![r] = [error |-> e]]
  /\ Go(r, "finish")
  /\ UNCHANGED <<clock, cacheVars, ask, flight, leader, reply>>

Fill(r) ==
  /\ At(r, "fill")
  /\ Set(KeyOf(r), result[r])
  /\ Go(r, "finish")
  /\ UNCHANGED <<clock, ask, flight, leader, result, reply>>

\* doCall's deferred function: the waiters are released and the flight leaves
\* the map, both under the group's mutex.
FinishKeepingFlight(r) ==
  /\ At(r, "finish")
  /\ Answer(r, result[r])
  /\ UNCHANGED <<clock, cacheVars, ask, flight, leader, result>>
Finish(r) ==
  /\ At(r, "finish")
  /\ flight' = [flight EXCEPT ![KeyOf(r)] = None]
  /\ Answer(r, result[r])
  /\ UNCHANGED <<clock, cacheVars, ask, leader, result>>

WakeUpOnSuccess(r) ==
  /\ At(r, "wait") /\ At(leader[r], "done")
  /\ result[leader[r]] \in Response
  /\ Answer(r, result[leader[r]])
  /\ UNCHANGED <<clock, cacheVars, ask, flight, leader, result>>
WakeUp(r) ==
  /\ At(r, "wait") /\ At(leader[r], "done")
  /\ Answer(r, result[leader[r]])
  /\ UNCHANGED <<clock, cacheVars, ask, flight, leader, result>>

TimePasses == Tick /\ UNCHANGED requestVars

AllAnswered == (\A r \in Requests : At(r, "done")) /\ UNCHANGED vars

\* What the goroutine of a request does once it was accepted.
Step(r) ==
  \/ LookupHit(r) \/ LookupMiss(r)
  \/ Lead(r) \/ Follow(r)
  \/ RecheckHit(r) \/ RecheckMiss(r)
  \/ FetchOk(r) \/ (\E e \in Failures : FetchFail(r, e))
  \/ Fill(r) \/ Finish(r) \/ WakeUp(r)

Next ==
  \/ TimePasses
  \/ \E r \in Requests :
       \/ Refuse(r)
       \/ \E id \in Ids, contact \in BOOLEAN : Accept(r, id, contact)
       \/ Step(r)
  \/ AllAnswered

Spec == Init /\ [][Next]_vars

-----------------------------------------------------------------------------
Fresh(k) == Enabled /\ k \in DOMAIN items /\ ~ Expired(k)

Served(r) == At(r, "done") /\ reply[r] \in Response

\* Concurrent requests for a key share one upstream fetch (service.go, the
\* singleflight comment; README "Singleflight Concurrency").
OneFetchPerKey ==
  \A r, s \in Requests :
    At(r, "fetch") /\ At(s, "fetch") /\ KeyOf(r) = KeyOf(s) => r = s

\* "Use lowercase public_identifier" (service.go): two requests for one
\* profile have one key, so they share a fetch however the URL spells it.
OneFetchPerProfile ==
  \A r, s \in Requests :
    /\ At(r, "fetch") /\ At(s, "fetch")
    /\ Fold[ask[r].id] = Fold[ask[s].id] /\ ask[r].contact = ask[s].contact
    => r = s

\* Nobody fetches what the cache could answer: while a request is fetching
\* its key, the cache has no live entry of it ("Double check cache").
NoRedundantFetch == \A r \in Requests : At(r, "fetch") => ~ Fresh(KeyOf(r))

\* Whoever answers (the cache, a flight led by another request, an own
\* fetch), the profile is the one asked for, and it was fetched with contact
\* information exactly if the request asked for that and the deployment
\* allows it.
RightProfile ==
  \A r \in Requests : Served(r) =>
    /\ Fold[reply[r].payload.id] = Fold[ask[r].id]
    /\ reply[r].payload.contact = ask[r].contact
    /\ ask[r].contact => AllowContact

\* An answer not flagged as cached was retrieved by a flight, after the request
\* that led it was accepted: it is never an entry of the cache, nor the result
\* of an earlier flight.
CachedFlagTruthful ==
  \A r \in Requests : Served(r) /\ ~ reply[r].cached =>
    /\ leader[r] # None
    /\ ask[leader[r]].at <= reply[r].payload.at

\* A flight in the group's map is run by a live request for its key, and a
\* waiting request waits for such a flight or for one that has delivered: a
\* newcomer never joins a flight that is over, and nobody waits in vain.
FlightsAreLive ==
  /\ \A k \in Key : flight[k] # None =>
       pc[flight[k]] \in Leading /\ KeyOf(flight[k]) = k
  /\ \A r \in Requests : At(r, "wait") =>
       /\ KeyOf(leader[r]) = KeyOf(r)
       /\ \/ flight[KeyOf(r)] = leader[r]
          \/ At(leader[r], "done") /\ result[leader[r]] # None

-----------------------------------------------------------------------------
\* The refinement: an outcome is a result without its cached flag.
Outcome(x) == IF x \in Response THEN x.payload ELSE x

OutcomesOfKey(k) == {p \in Payload : p.id = k.id /\ p.contact = k.contact} \cup Failure

Wanted(r) ==
  IF ask[r] = None THEN None ELSE [id |-> ask[r].id, contact |-> ask[r].contact]

Delivered ==
  {<<Wanted(r), Outcome(result[r])>> : r \in {s \in Requests : result[s] # None}}

Promise == INSTANCE ReadThrough WITH
  Keys <- Key,
  Forbidden <- {k \in Key : k.contact /\ ~ AllowContact},
  Outcomes <- Payload \cup Failure,
  OutcomesOf <- [k \in Key |-> OutcomesOfKey(k)],
  Refusals <- Refusal,
  want <- [r \in Requests |-> Wanted(r)],
  got <- [r \in Requests |-> Outcome(reply[r])],
  fetching <- {Wanted(r) : r \in {s \in Requests : At(s, "fetch")}},
  delivered <- Delivered

\* The service with its cache, group and locks implements the promise.
KeepsPromise == Promise!Spec
=============================================================================
