------------------------------ MODULE Credentials ------------------------------
(***************************************************************************)
(* config/config.go: the CredentialProvider that every FetchProfile asks   *)
(* for the LinkedIn session (Get) and tells that LinkedIn refused it       *)
(* (Clear).                                                                *)
(*                                                                         *)
(* Get holds the provider's mutex from its first line to its return, also  *)
(* while it waits for AWS Secrets Manager.  A Get that finds its answer in *)
(* the process is one step; one that loads the secret is BeginLoad, the    *)
(* moment ReadSecret at which Secrets Manager reads the value (external),  *)
(* and EndLoad or FailLoad, and whoever wants the mutex meanwhile waits.   *)
(*                                                                         *)
(* Credentials are told apart by their version: 0 are those of the         *)
(* environment, 1, 2, ... the values an operator gives the secret in turn. *)
(***************************************************************************)
EXTENDS Integers

CONSTANTS
  Calls,     \* calls of FetchProfile
  Ttl,       \* LinkedinSecretCacheTtlSeconds, in ticks
  MaxLoad,   \* longest time from BeginLoad to EndLoad (the call's deadline), in ticks
  Versions,  \* bound: the number of values the secret is given
  Horizon,   \* bound: the clock stops here
  None       \* no call, no credentials

ASSUME CredentialsAssumption ==
  /\ Ttl \in Nat
  /\ MaxLoad \in Nat
  /\ Versions \in Nat \ {0}
  /\ Horizon \in Nat
  /\ None \notin Calls
  /\ None \notin [version : 0..Versions, expiresAt : Nat]
  /\ None \notin 0..Versions

VARIABLES
  clock,        \* time.Now
  environment,  \* what fromEnvironment makes of the process's environment
  arn,          \* whether LinkedinSecretArn is set
  secret,       \* the version of the secret
  cached,       \* CredentialProvider.cached and cacheExpiresAt
  holder,       \* the call that holds the mutex across steps
  pc,           \* where each call is
  creds,        \* the credentials it has got or is about to return
  began,        \* when its load began
  retired,      \* history: when each version of the secret was replaced
  floor         \* history: the version of the secret when Clear last ran

setup == <<environment, arn>>
history == <<retired, floor>>
vars == <<clock, setup, secret, cached, holder, pc, creds, began, history>>

\* What fromEnvironment returns: nothing, an error of validate, credentials.
Environments == {"absent", "invalid", "valid"}

Cached == [version : 0..Versions, expiresAt : Nat]

TypeOK ==
  /\ clock \in 0..Horizon
  /\ environment \in Environments
  /\ arn \in BOOLEAN
  /\ secret \in 1..Versions
  /\ cached \in Cached \cup {None}
  /\ holder \in Calls \cup {None}
  /\ pc \in [Calls -> {"idle", "get", "load", "loaded", "using", "clear"}]
  /\ creds \in [Calls -> 0..Versions \cup {None}]
  /\ began \in [Calls -> 0..Horizon]
  /\ retired \in [1..Versions -> 0..Horizon]
  /\ floor \in 0..Versions

Init ==
  /\ clock = 0
  /\ environment \in Environments
  /\ arn \in BOOLEAN
  /\ secret = 1
  /\ cached = None
  /\ holder = None
  /\ pc = [c \in Calls |-> "idle"]
  /\ creds = [c \in Calls |-> None]
  /\ began = [c \in Calls |-> 0]
  /\ retired = [v \in 1..Versions |-> 0]
  /\ floor = 0

-----------------------------------------------------------------------------
Go(c, stage) == pc' = [pc EXCEPT ![c] = stage]
Obtain(c, version) == creds' = [creds EXCEPT ![c] = version]

CachedAtAll == cached # None
Live == cached # None /\ clock < cached.expiresAt

\* The credentials of the environment last for 876000 hours.
Forever == Horizon + 1
Expiry == clock + Ttl

Call(c) ==
  /\ pc[c] = "idle"
  /\ Go(c, "get")
  /\ UNCHANGED <<clock, setup, secret, cached, holder, creds, began, history>>

GetCached(c) ==
  /\ pc[c] = "get" /\ holder = None /\ Live
  /\ Obtain(c, cached.version)
  /\ Go(c, "using")
  /\ UNCHANGED <<clock, setup, secret, cached, holder, began, history>>

GetFromEnvironment(c) ==
  /\ pc[c] = "get" /\ holder = None /\ ~ Live
  /\ environment = "valid"
  /\ cached' = [version |-> 0, expiresAt |-> Forever]
  /\ Obtain(c, 0)
  /\ Go(c, "using")
  /\ UNCHANGED <<clock, setup, secret, holder, began, history>>

\* No credentials are configured, or those of the environment are invalid.
GetNothing(c) ==
  /\ pc[c] = "get" /\ holder = None /\ ~ Live
  /\ environment # "valid" /\ ~ arn
  /\ Go(c, "idle")
  /\ UNCHANGED <<clock, setup, secret, cached, holder, creds, began, history>>

BeginLoadUnlocked(c) ==
  /\ pc[c] = "get" /\ holder = None /\ ~ Live
  /\ environment # "valid" /\ arn
  /\ began' = [began EXCEPT ![c] = clock]
  /\ Go(c, "load")
  /\ UNCHANGED <<clock, setup, secret, cached, holder, creds, history>>
BeginLoad(c) ==
  /\ pc[c] = "get" /\ holder = None /\ ~ Live
  /\ environment # "valid" /\ arn
  /\ holder' = c
  /\ began' = [began EXCEPT ![c] = clock]
  /\ Go(c, "load")
  /\ UNCHANGED <<clock, setup, secret, cached, creds, history>>

ReadSecret(c) ==
  /\ pc[c] = "load"
  /\ Obtain(c, secret)
  /\ Go(c, "loaded")
  /\ UNCHANGED <<clock, setup, secret, cached, holder, began, history>>

EndLoad(c) ==
  /\ pc[c] = "loaded"
  /\ cached' = [version |-> creds[c], expiresAt |-> Expiry]
  /\ holder' = None
  /\ Go(c, "using")
  /\ UNCHANGED <<clock, setup, secret, creds, began, history>>

\* Secrets Manager fails, the context ends, or the value is not valid.
FailLoadKeepingLock(c) ==
  /\ pc[c] \in {"load", "loaded"}
  /\ Obtain(c, None)
  /\ Go(c, "idle")
  /\ UNCHANGED <<clock, setup, secret, cached, holder, began, history>>
FailLoad(c) ==
  /\ pc[c] \in {"load", "loaded"}
  /\ holder' = None
  /\ Obtain(c, None)
  /\ Go(c, "idle")
  /\ UNCHANGED <<clock, setup, secret, cached, began, history>>

\* One of the call's requests is refused; getJSON calls Clear.
Deny(c) ==
  /\ pc[c] = "using"
  /\ Go(c, "clear")
  /\ UNCHANGED <<clock, setup, secret, cached, holder, creds, began, history>>

ClearTooLate(c) ==
  /\ pc[c] = "clear" /\ holder = None
  /\ cached' = IF Live THEN cached ELSE None
  /\ floor' = secret
  /\ Go(c, "using")
  /\ UNCHANGED <<clock, setup, secret, holder, creds, began, retired>>
Clear(c) ==
  /\ pc[c] = "clear" /\ holder = None
  /\ cached' = None
  /\ floor' = secret
  /\ Go(c, "using")
  /\ UNCHANGED <<clock, setup, secret, holder, creds, began, retired>>

EndCall(c) ==
  /\ pc[c] = "using"
  /\ Obtain(c, None)
  /\ Go(c, "idle")
  /\ UNCHANGED <<clock, setup, secret, cached, holder, began, history>>

\* The operator gives the secret a new value.
Rotate ==
  /\ secret < Versions
  /\ secret' = secret + 1
  /\ retired' = [retired EXCEPT ![secret] = clock]
  /\ UNCHANGED <<clock, setup, cached, holder, pc, creds, began, floor>>

Tick ==
  /\ clock < Horizon
  /\ \A c \in Calls : pc[c] \in {"load", "loaded"} => clock < began[c] + MaxLoad
  /\ clock' = clock + 1
  /\ UNCHANGED <<setup, secret, cached, holder, pc, creds, began, history>>

-----------------------------------------------------------------------------
\* The steps that need the mutex, and those of the call that holds it.
Locking(c) == GetCached(c) \/ GetFromEnvironment(c) \/ GetNothing(c) \/ BeginLoad(c) \/ Clear(c)
Loading(c) == ReadSecret(c) \/ EndLoad(c) \/ FailLoad(c)

Next ==
  \/ Rotate \/ Tick
  \/ \E c \in Calls : Call(c) \/ Locking(c) \/ Loading(c) \/ Deny(c) \/ EndCall(c)

Spec == Init /\ [][Next]_vars

\* A sync.Mutex is handed to the waiter that waited longest once it waited
\* for a millisecond, so a call is not passed over forever; and a load ends,
\* because its context has a deadline.
FairSpec ==
  /\ Spec
  /\ \A c \in Calls : SF_vars(Locking(c)) /\ WF_vars(Loading(c))

-----------------------------------------------------------------------------
\* Secrets Manager is asked by one call at a time and only when there are no
\* live credentials, however many calls find them expired or cleared at once
\* (Get looks at the cache under the mutex it then holds during the load).
LoadsAreNeeded ==
  \A c \in Calls : pc[c] \in {"load", "loaded"} =>
    /\ ~ Live
    /\ \A d \in Calls : pc[d] \in {"load", "loaded"} => d = c

\* A Get returns a version of the secret.
GetsSecret(c) ==
  pc[c] \in {"get", "loaded"} /\ pc'[c] = "using" /\ creds'[c] # 0

\* What Clear is for: a Get that returns after a Clear returns the value the
\* secret had when Clear ran, or a later one, also if its load was under way
\* or its caller was waiting for the mutex when the session was refused.
ClearHeals ==
  [][\A c \in Calls : GetsSecret(c) => creds'[c] >= floor]_vars

\* A rotation takes effect without a refusal too: a value is handed out for
\* no longer than the cache's lifetime and one load after it was replaced.
RotationTakesEffect ==
  [][\A c \in Calls : GetsSecret(c) /\ creds'[c] < secret =>
       clock <= retired[creds'[c]] + MaxLoad + Ttl]_vars

\* Every Get and every Clear gets through, although the mutex is held while
\* Secrets Manager is asked.
EveryoneGetsThrough ==
  \A c \in Calls :
    /\ pc[c] = "get" ~> pc[c] \in {"using", "idle"}
    /\ pc[c] = "clear" ~> pc[c] # "clear"
=============================================================================
