# A TLA+ model of the LinkedIn profile service

This directory models the Go service of this repository: an HTTP API that takes
the URL of a LinkedIn profile and answers with the profile as JSON. The modules
are checked by TLC on small instances; what matters most is proved with TLAPS
for every value of the constants.

Line numbers below are those of the files under `src/`.

## 1. The system

| component | code | state | operations |
|---|---|---|---|
| HTTP API | `api/api.go`, `errors/errors.go` | per request: position in the chain, writer, `c.Errors` | `RequestContextMiddleware`, `BodyLimitMiddleware`, `ErrorHandlerMiddleware`, handlers of `/`, `/health`, `/v1/profiles` |
| URL parsing | `utils/url_utils.go` | none | `ParseLinkedInProfileURL` |
| Rate limiter | `ratelimit/ratelimit.go` | map from client to timestamps, under a mutex | `Allow` (with `prune`) |
| Profile service | `service/service.go` | singleflight group, the cache | `GetProfile`, `fetchAndCache` |
| Profile cache | `cache/cache.go` | map and LRU list, under a mutex | `Get`, `Set` (with `removeOldest`) |
| LinkedIn client | `linkedin/linkedin.go` | per call: budget, results of the workers | `FetchProfile`, `fetchPrimary`, `fetchSections`, `optionalGet`, `getJSON`, `Charge` |
| Identity | `identity/identity.go`, `linkedin/linkedin.go` | none | identifiers and member ids of a document, `matchesPrimaryIdentity` |
| Parser | `parser/parser.go` | per call: documents, entities, target member | `NewVoyagerParser`, `Parse` |
| Credential provider | `config/config.go` | cached session and its expiry, under a mutex | `Get`, `Clear` |
| Session cookies | `session/session.go`, `config/config.go` | none | `validate`, `ImportCookieHeader`, `ValidateCookieMap` |
| Process wiring | `main.go` | none after the start | construction, the adapter from provider to client |
| Settings, models | `config/config.go`, `models/models.go` | none after the start | `LoadSettings` |

**How they interact.** Every request is a goroutine of `net/http`. It runs the
gin chain; `RequestContextMiddleware` asks the limiter (shared by all requests)
before anything is read. The handler calls `GetProfile`, which parses the URL,
looks into the cache, joins or starts a flight of the singleflight group for its
key, looks into the cache again inside the flight, and calls `FetchProfile`.
That call asks the credential provider (shared) for a session, which the
provider has validated cookie by cookie, sends its requests to LinkedIn, from
its own goroutine and from eight workers of which three run at a time, all
drawing on one budget, and tells the provider (`Clear`) when LinkedIn refuses
the session. The client takes the first document that matches the identifier,
and the parser, by rules of its own, turns all documents into a profile or
refuses them. The profile goes into the cache and to every request of the
flight. Errors travel back up to `ErrorHandlerMiddleware`, which makes the
response of them.

**What is hard.** Four pieces of state are shared by all requests (limiter,
cache, group, provider) and each is guarded by a mutex of its own, so the
questions are what happens *between* the guarded parts: a clock read before the
mutex, a cache looked at before the group, a session refused while it is being
loaded again. Inside one `FetchProfile`, workers, retries, the budget and the
wait group interleave, and every request may fail in six ways. Two components
decide one question, whose profile a document is, by different rules. Nothing is
persisted, so there is no crash recovery.

### What makes each component correct

* **Limiter**: no client gets more than its limit in a window; refusals have a
  cause; memory is bounded.
* **Cache**: map and list agree; what is lost is the oldest; a hit is the latest
  live value and does not change what others hold.
* **Service**: one fetch for a key at a time and none the cache makes needless;
  the answer is the profile asked for; what is not flagged as cached is not old;
  nobody waits in vain.
* **Client**: the budget is kept; refusals are not repeated; the primary document
  is the right profile; every section is accounted for; no worker outlives the
  call; the error returned is the one the order of the searches gives; the call
  returns.
* **Identity and parser**: the profile served is the one asked for, no section
  belongs to another member, no entity is lost, and an identity is objected to
  only if an identifier differs or is missing, or two members are told.
* **Provider**: refused or replaced values are not handed out for long; one load
  at a time; everyone gets the mutex.
* **Session cookies**: exactly the configurations that are consistent and, in a
  header, safe and short enough as a whole are accepted, and
  cookies, token and configured session agree in what is sent.
* **URL parsing**: exactly the URLs that tell a member's page in the forms the
  code knows reach the service, under that member's identifier.
* **HTTP API**: one response for a request, its status true, its id named; only
  what the limiter admitted reaches the service.
* **The process**: a refused session heals across requests, everyone is answered,
  and each component still keeps what it promises alone.

## 2. The modules

| module | models | correspondence |
|---|---|---|
| `RateLimiter` | `ratelimit.go` | `Allow` is `ReadClock` (lines 27-28, outside the mutex) and then `RefuseUnknown` (35-39), `RefuseOverLimit` (53-55) or `Admit` (57-58), each with `prune` and the filter. A slice of timestamps is a set of numbered stamps. |
| `ProfileCache` | `cache.go` | Each call is a step, since it runs under the mutex. `Get` ends as `GetHit`, `GetExpired`, `GetAbsent`; `Set` as `SetDisabled`, `Replace`, `Insert`, with the eviction loop in `Insert`. |
| `CacheUse` | callers of the cache | Any sequence of calls, with the history a caller could know. |
| `ReadThrough` | the promise of the service | No cache, group or lock: answers come from fetches of the key asked for, one at a time. |
| `ProfileService` | `service.go` | Extends `ProfileCache`. `Refuse` is an answer before the cache is asked (32-41); then one action per access to shared state: `LookupHit/Miss` (45), `Lead`/`Follow` (51), `RecheckHit/Miss` (53), `FetchOk/FetchFail` (58, 69-110), `Fill` (112), `Finish`, `WakeUp` (the end of `Do`). |
| `UpstreamCall` | the promise of a call of `FetchProfile` | No paths, workers, retries or choice of documents: a call opens with a session, sends within its budget, tells of a refusal, finds the profile, returns. |
| `LinkedInClient` | `linkedin.go` | One `FetchProfile`. `getJSON` is the loop `Charge`, `AskAgain`/`Respond`, `Retry` of a path; the main goroutine and each worker interleave. |
| `Credentials` | `config.go`, 157-334 | `Get` under a mutex that stays held from `BeginLoad` to `EndLoad`/`FailLoad`; `Clear`; the operator's `Rotate`. |
| `SessionCookies` | `config.go` `fromEnvironment`, `validate`; `session.go` | One configuration, validated: the loop over the header's segments and the walk over the map, one entry a step, the map in any order; then what the adapter of `main.go` sends. |
| `Documents` | `identity.go`, `matchesPrimaryIdentity` | Operators on a document: identifiers, member ids, candidates, and the client's verdict. |
| `Parser` | `parser.go` | Extends `Documents`. The documents arrive as the client collects them, `NewVoyagerParser` bounds them and loads the entities, and `Parse` refuses with its first `Objection` or serves the dash or the legacy view. |
| `Subsequences` | loops of `linkedin.go` (223-235) and `url_utils.go` (79-85) | What such a loop keeps of a list, said by the positions kept instead of element by element. |
| `ProfileUrls` | `url_utils.go` | `ParseLinkedInProfileURL` as an operator on what it asks of a text. `Member` is the set of segments `strings.ToLower` makes `in`, a constant (`in`, `In`, `iN`, `IN` in the run). |
| `HttpApi` | `api.go` | Uses `ProfileUrls`. A request's way in and out of the chain; gin's `Next`, `Abort` and writer as nested calls with a first write that counts. |
| `Deployment` | `main.go` | The process: `ProfileService` and `Credentials` with their shared clock. |
| `RateLimiterProofs`, `CacheUseProofs`, `LinkedInClientProofs`, `CredentialsProofs`, `SessionCookiesProofs`, `ParserProofs`, `HttpApiProofs`, `DeploymentProofs` (with those of `ProfileService`) | | theorems |
| `MC...` | | instances for TLC |

**Composition.** `ProfileService` extends `ProfileCache`; both move the same
variables. `ReadThrough` is instantiated by `ProfileService` with the refinement
mapping at its end: what a request wants and got, the keys being fetched, and
what each fetch delivered. `UpstreamCall` is instantiated by `LinkedInClient`
in the same way: the phase of the call is read off the main goroutine, what it
spent is the number of requests of all goroutines. It is what the service and
the provider see of a call, and the view `Deployment` takes of it. `Deployment` extends `ProfileService` and instantiates
`Credentials` (`Provider`): a request is a call of the provider from
`RecheckMiss`, where it calls `FetchProfile`, to the step in which
`FetchProfile` returns, which is a step of both components. `Parser` puts the
client's acceptance of the primary document before the parser, both on the
operators of `Documents`. `HttpApi` takes the verdict on a URL from
`ProfileUrls`; the limiter's verdict and the end of `GetProfile` are its inputs.

**Data.** A response is the identifier and the contact option it was fetched
with, the time of retrieval and the cached flag; the profile itself is not
looked at by the service. (The contact document is fetched and never parsed:
`Parse` does not use its second parameter. `contact` of a response is therefore
the option of the fetch, not the presence of contact information.) An HTTP
exchange is one of eight answers that the code tells apart. Credentials are a
version number in `Credentials`, and cookies told apart by what the code asks of
a text in `SessionCookies`. A URL is a record of what the code asks of it, its
path decoded and cut at slashes. A document is a legacy object, a sequence of
entities and the URNs of its roots; an entity is its kind, identifiers, URN and
whether it has a name; a list of a profile is the set of positions it is made of.

**History variables** (`admitted`, `lastUse`, `written`, `outcome`, `calls`,
`sent`, `retired`, `floor`, `asked` of `Deployment`) record what happened and
are never read by a guard, except that `CacheUse` stops at its number of calls
and a new stamp takes its number from `admitted`.

**Operators beside the code's.** Definitions like `StaleByFirst`, `LeadAnyway`
or `ForeignInPrimary` stand before the definition they resemble and are used by
no specification. They are plausible slips: with the code's definition replaced
by one of them, the property that `PROJECT.json` names must fail.

## 3. The runs

| run | checks | bounds |
|---|---|---|
| `rate_limiter` | `MemoryBounded`, `WindowLimit`, `RefusalJustified` | 2 clients, 2 goroutines, limit 2, room for 1 client, window 4, stall 1, clock to 6 |
| `rate_limiter_stall` | `RequestsPerMinute` is violated | the same |
| `profile_cache` | `TypeOK`, `ListMatchesItems`, `OrderedByUse`, `OnlyOldestLost`, `HitIsLatest` | 3 keys, capacity 2, lifetime 1, clock to 3, 7 calls |
| `profile_service` | `OneFetchPerKey`, `NoRedundantFetch`, `RightProfile`, `CachedFlagTruthful`, `FlightsAreLive`, refinement `KeepsPromise` | 3 requests, 2 members, with and without contact, contact allowed, capacity 1, lifetime 1, clock to 2 (about 859,000 states) |
| `profile_service_case` | `OneFetchPerProfile` is violated | 2 spellings of one member, otherwise the same |
| `linkedin_client` | `BudgetKept`, `OnlyFaultsRetried`, `NoWorkerOutlivesCall`, `PrimaryIsTheProfile`, `SectionsAccounted`, `ErrorExplained`, refinement `KeepsPromise`, and under `FairSpec` `CallReturns` | 3 sections, 2 slots, budget 5, 2 retries, 7 answers; sections and contact on or off (about 520,000 states) |
| `credentials` | `LoadsAreNeeded`, `ClearHeals`, `RotationTakesEffect`, under fairness `EveryoneGetsThrough` | 2 calls, 1 rotation, lifetime 2, loads up to 1, clock to 5; every kind of environment |
| `http_api` | `OneResponse`, `OnlyAdmittedAreFetched`, `StatusTellsOutcome`, `RefusedForCause`, `ErrorsNameTheRequest` | every request of 3 methods, 4 targets, 4 bodies, 2 ids; the canonical URL with at most one departure, and 12 paths with and without scheme (about 35,000 states) |
| `http_api_docs` | `AdvertisedAreServed` is violated | the same |
| `parser` | `ServedIsRequested`, `SectionsOwned`, `ProfileComplete`, `RefusalsExplained` | 3 identifiers, two of them spellings of one; 2 members; every primary document of a legacy profile, up to two entities, or a legacy profile with one entity, with and without roots; candidates with a miniProfile of their own, another's or none that is a string; up to 3 documents, 3 entities (about 165,000 states) |
| `deployment` | `RefusalsHeal`, `RightProfile`, and under `FairDeployment` `EveryoneAnswered` | 2 requests, 2 members, contact asked for and not allowed, 1 rotation, 1 refusal per call, all lifetimes 1, clock to 1; empty environment, with and without an ARN (about 177,000 states) |
| `session_cookies` | `CredentialsAgree`, `AcceptedExactly` | 2 values of either cookie beside blank, short, malformed and padded ones; every header of up to two segments, every one of three and four for a well-formed `li_at`, or every map; unsafe and overlong values, an unsafe foreign cookie, headers too long as a whole (about 738,000 states) |

`TypeOK` of the cache is checked as well; of the limiter, the service, the client,
the provider and the HTTP chain it is proved (section 5) and not run.
Deadlock is checked in every run; where a behaviour is over (all requests
answered, the call returned, the parser done) a named disjunct says so.

**Why the bounds are enough.** They are the smallest at which every interesting
case occurs. Limiter: a stall of one tick reorders stamps, one place in the
table makes strangers compete, limit 2 lets a list lose its first stamp and keep
its second. Cache: three keys at a capacity of two evict, seven calls reorder,
expire, replace and evict in one behaviour. Service: three requests are a
leader, a follower and a latecomer; capacity one makes two keys displace each
other; two ticks let an entry expire during a flight. Client: three sections
for two slots queue; five requests run out in any phase, during the decorations
too, with two retries; the answer `bad` differs from a last `fault` in nothing
but its name and is left out of the instance. Provider: two calls, one loading
while the other clears; a clock of five passes lifetime and load. HTTP: the
checks of a URL are independent, so one departure shows each of them, and the
paths have empty segments in every place, too few, too many and in the wrong
order, and `in` in capitals too. Parser: two entities are two candidates for the profile, in either order,
or a profile and an item; two members an owner and a stranger; three documents
the primary, a section and the contact; a fourth entity is one too many.
Process: two requests are leader and follower, or leaders of two keys of which
one clears while the other loads; one tick outlives the cached secret's
freshness (`now < expires`). No entry of the profile cache expires there, for
with a lifetime of one and the clock at one `now > expires` is never true: that
is what `profile_service` is for. Contact information is not allowed there, and
is in `profile_service`, so that `RightProfile` sees both. Cookies: with four segments a header holds both
required cookies twice, or both, a repetition and a foreign one, in every order;
the foreign one may hold the unsafe byte for which the whole header is refused.
The symmetry sets permute requests or keys, none of which any definition names;
liveness is checked without symmetry.

**Fairness.** `LinkedInClient` assumes weak fairness of every goroutine (the Go
scheduler is preemptive) and that an exchange ends: the HTTP client has a
timeout and the context a deadline (`linkedin.go` 99-101, 111). `Credentials`
assumes strong fairness of the steps that take the mutex, because a `sync.Mutex`
is handed to its longest waiter once that has waited for a millisecond, and weak
fairness of a load, which the context ends. `Deployment` assumes the same of the
whole process: strong fairness of a request's steps that need the provider's
mutex (`NeedsMutex`), weak fairness of all others (`RunsAlone`). Calls need not
arrive, LinkedIn need not refuse, and the operator need not rotate.

## 4. What disagrees with its documentation

* **The limit is not per minute** (`ratelimit.go` 27). A goroutine that waits
  between the clock and the mutex uses an old cutoff and appends an old stamp;
  `prune`, which looks at the last stamp only, then forgets a client too early.
  `rate_limiter_stall` shows three admissions within a minute at a limit of
  two. What holds is `WindowLimit`, and without a stall the whole minute.
* **The key is not lowered** (`service.go` 42-43). Two spellings of a profile
  are two keys: two fetches at once, two entries (`profile_service_case`).
* **`/docs` is not served** (`api.go` 353, `README.md` 16) (`http_api_docs`).

Observed without a sentence in the repository that says otherwise, and so not
runs:

* *HTTP*: security headers are set after the response was written. An overlong
  URL with the demonstration's identifier is refused by GET and served by POST,
  and the identifier is found anywhere in the text.
* *URLs*: a URL without a scheme is refused if `://` occurs in its query.
  `CanonicalURL` is used nowhere.
* *Service*: a follower gets the error of a leader whose client went away, and
  if that happens after the primary document, a response without its sections,
  which is then cached for its full lifetime. A request that comes after a
  `Clear` may join a flight that still uses the session cleared.
* *Client*: a section whose body is JSON `null` is missing without a warning.
  Contact information is fetched and never returned. The client takes a
  normalized document if any of its profiles matches, and lets a `miniProfile`
  tell who it is; the parser wants all to match, by `publicIdentifier` alone. So a
  profile whose `miniProfile` names another member is served, and one that only
  its `miniProfile` identifies is fetched and then refused.
* *Parser*: the legacy view leaves lists without items `nil`, which is `null` in
  the response where the dash view has `[]`. `image` walks a map in random order
  (`parser.go` 219). An entity that is in the primary and in a section's document
  is listed twice. `dateRange` tells an end that is there but invalid as none: the item is present. The
  error of the second `loadEntities` is ignored. `legacyMemberID` gives up on a
  profile that tells its member twice, and the ownership check is then skipped.
* *Provider*: credentials of the environment that LinkedIn refused are handed out
  again. `Clear` does not say which credentials were refused. Waiting for the
  mutex ignores the deadline of who waits.
* *Cookies*: one unsafe byte in a cookie that is never sent makes the whole header
  invalid, and the credentials with it. A `JSESSIONID` with white space before it is accepted from the
  environment and refused from the secret. An empty `LINKEDIN_COOKIE_HEADER`
  makes valid credentials invalid.
* *Cache*: a negative `CACHE_MAX_ENTRIES` makes `Set` loop.

## 5. What is proved

For every number of goroutines, clients, requests, identifiers, sections,
documents and calls, every limit, budget, capacity, lifetime and clock bound that
the named assumptions admit:

**`RateLimiterProofs`** (from `RateLimiterAssumption`): `TypeOK`,
`MemoryBounded`, `WindowLimit`, `RefusalJustified`, and `RequestsPerMinute` if
`MaxStall = 0`. `WindowLimit` is not inductive. The argument needs that a stamp
carries a time at most one stall before it was appended (`StallBounded`), so
that the stamps of a client are out of order by at most a stall
(`NearlyOrdered`); `prune` thus drops a stamp at most a stall too young, and
every admitted stamp the table no longer holds is at least `Window - MaxStall`
old by the clock (`Forgotten`). `Admit` runs with a time at most one more stall
behind: whatever it does not see lies outside a window of
`Window - 2 * MaxStall`.

**`CacheUseProofs`** (from `ProfileCacheAssumption` and `CacheUseAssumption`):
`TypeOK`, `ListMatchesItems`, `OrderedByUse`, `OnlyOldestLost`, `HitIsLatest`,
for every set of keys, finite or not. The core is the order: a list that
decreases in last use holds no key twice, so what is moved or dropped is one
entry of the map. A hit is the latest value because every entry is what was
written last with its lifetime, and is never flagged (`Fresh`). A loss has a
reason: when a key goes, `MaxEntries` keys are before it in the list, all used
after it, and of the finitely many keys ever used they remain later until it is
set again.

**`DeploymentProofs`, first half: `ProfileService`** (from
`ProfileServiceAssumption` and `ProfileCacheAssumption`): `TypeOK`, `FlightsAreLive`, `OneFetchPerKey`,
`NoRedundantFetch`, `RightProfile`, `CachedFlagTruthful` and the refinement
`KeepsPromise`. The core is `LeadersOwn`: a request that runs `fn` is the one the
group's map names for its key. Hence fetches of a key exclude each other, and
only the leader of a key's flight fills the key's entry, which makes the
recheck's answer stay true during the fetch. `RightProfile` needs that entries,
results and replies are all about the key or request they belong to
(`AllAbout`), `CachedFlagTruthful` that whatever is not flagged came from the
leader's own fetch (`Truthful`); the refinement needs that every entry was
delivered by a fetch of its key (`EntriesDelivered`), and then goes action by
action: `LookupHit`, `Finish` and `WakeUp` are `Give`, `RecheckMiss` is
`BeginFetch`, `FetchOk` and `FetchFail` are `EndFetch`, the rest stutter or ask
or refuse. `Ttl = 0`, the cache switched off, is among its cases.

**`LinkedInClientProofs`** (from `LinkedInClientAssumption` and
`PathsAssumption`, that a section's path is none of the primary ones):
`TypeOK`, `BudgetKept`, `OnlyFaultsRetried`, `NoWorkerOutlivesCall`,
`PrimaryIsTheProfile`, `SectionsAccounted`, `ErrorExplained`, `KeepsPromise`. What a path has been through is a matter of
the path alone (`PathInv`: stage, attempt, result and answers agree), with one
lemma per step of `getJSON`'s loop. What the main goroutine knows follows the
order of its stages: `Search` while it looks for the profile, `Found` once it
has it, `Decorating` and `Ended`; the lemma `WorkersAreWaitedFor` says when
workers may run beside it. The budget is a sum over all goroutines: `Funds` says
that what remains and what was sent (`Requests`, a set of pairs of a path and a
number, so that its cardinality is the sum) make up the budget, and that a path
that was told "budget" found none left. The lists of documents and warnings are
subsequences of the sections, as `Lists` says for each stage; `SubsequenceOf`
shows that a subsequence has the elements kept, each once, in their order.
`TypeOK` follows with `Rest`. `KeepsPromise`, the refinement of `UpstreamCall`,
goes action by action: `Start` is `Open`, `Charge` is `Send`, an answer that
refuses is `Refuse`, `PrimaryFound` is `Find`, what returns is `Succeed` or
`Fail`, the rest stutters. It needs that nothing is exchanged before the call has
a session or after it returned, for which `ContactAtRest` adds the one goroutine
that `WorkersAreWaitedFor` leaves out.

**`CredentialsProofs`** (from `CredentialsAssumption`): `TypeOK`,
`LoadsAreNeeded`, `ClearHeals`, `RotationTakesEffect`. The strengthening `IInv`
says that who loads holds the mutex (`LoaderHolds`), that what it read is no
older than the last `Clear` and was replaced, if at all, after the load began
(`ReadIsRecent`), and the same of what is cached (`CachedIsRecent`).

**`SessionCookiesProofs`** (from `SessionCookiesAssumption`, which says what a
configuration is and that no value is both well-formed and blank; which values
are unsafe or too long is left open):
`CredentialsAgree` and `AcceptedExactly`, for headers of every length and maps
gone over in every order. The loops are followed by `HeaderRead` and `MapRead`:
what has been looked at was usable, is among the cookies in its normal form,
none of it twice, and nothing else is among them. When a loop ends, that is what
`AcceptedExactly` asks of an accepted configuration; when it breaks off, the
entry it broke off at is why the configuration is not good.

**`ParserProofs`** (from `DocumentsAssumption` and `ParserAssumption`):
`ServedIsRequested`, `SectionsOwned`, `ProfileComplete`, `RefusalsExplained`, for
any documents. The client lets the first document through only if it matches,
and nothing touches the documents once the parser has them (`DocumentsOk`): a
profile that was served is still the one `Parse` made of documents it had no
objection to (`ProfileMade`), and a refusal is still its first objection.

**`HttpApiProofs`** (from `HttpAssumption`, `IdentifiersAssumption` and
`MemberAssumption`, that neither an identifier nor a segment for `in` is empty): `TypeOK`, `OneResponse`, `OnlyAdmittedAreFetched`,
`StatusTellsOutcome`, `ErrorsNameTheRequest`, `RefusedForCause`, for any URLs. The invariant follows the request along the chain: nothing happens on the
way in, each middleware passed leaves its mark, and on the way out the response
tells which of the writers it comes from (`Origin`). `RefusedForCause` rests on
two facts about paths of any length: the parts of a path are two if and only if
exactly two segments are not empty (`PartsOfTwo`), and then they are these, in
their order (`PartsNameMember`); `Reasons` says that a request was asked for or
refused as its body and URL deserve.

**`DeploymentProofs`, second half: the process** (from `DeploymentAssumption`
and those of both components): every step of the process is a step of
`ProfileService` or leaves its variables alone, and the same of `Credentials`;
so the process implements both, and every theorem about either holds of it, the
promise of `ReadThrough` included (`PromiseKeptInProcess`, `ServiceInProcess`,
`ProviderInProcess`). `RefusalsHeal` follows with the provider's invariant: what
a request got from the provider is at least as recent as the last `Clear` when
it got it, hence when the request was accepted.

**Recursion.** What a fold or `SelectSeq` computes for every list is an induction
over data, which is out of the prover's reach. `Subsequences` therefore says what
the filtering loops return without recursion: the element at place `k` is the one
at the position kept that has rank `k`. That ranks grow and that each is taken
(`RankGrows`, `RanksAreTaken`) are facts about finite sets and injections. The
loops that are themselves steps of a specification (the cookies, the retries, the
evictions) need no such thing: their invariant is the induction.

**Model-checked only**: liveness (`CallReturns`, `EveryoneGetsThrough`,
`EveryoneAnswered`), which the prover cannot do under fairness. Every safety
property of the passing runs is a theorem.

## 6. What is not modelled

* **Settings and models**: no behaviour after the start; the settings are
  constants or initial choices. That `int()` truncates the float time-outs is
  listed as a hazard.
* **The fields of a parsed item** (`text`, `date`, `image`, `resolve` in
  `parser.go`): local conversions; no check of the parser depends on them.
* **Metadata and warnings** of a response (`service.go` 90-110): local to one
  call.
* **The strings themselves**: `url.Parse`, the regular expression for
  identifiers, `Split` and the character checks of cookies are given by their
  verdict.
* **The limiter and the HTTP chain inside `Deployment`**: they meet the service
  at the call of `GetProfile` only, and are modelled beside it. The composition
  sees of `FetchProfile` its session, its refusals and its end; retries and
  workers are `LinkedInClient`'s.
* **Senseless settings**: a negative `LINKEDIN_MAX_RETRIES`, budget or capacity is
  excluded by the assumptions on the constants. With negative retries the loop of
  `getJSON` never runs and every request ends as an upstream error without being
  sent.
* **Panics**: `gin.Recovery` answers 500; no path to a panic was found in the
  modelled code.
* **The demonstration profile** in `api.go`: data.

## 7. The plan

Done: the limiter, the cache, the service with its abstract specification, the
client with its own, the provider, the HTTP chain with the parsing of URLs, identity and
parser, session cookies, the process, and the proofs of section 5. The order was
that of the state shared by all requests first.

What is left:

1. The limiter and the HTTP chain inside `Deployment`, and `LinkedInClient` in
   place of its one-step `FetchProfile`.
