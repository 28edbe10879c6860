------------------------------ MODULE Deployment ------------------------------
(***************************************************************************)
(* The process main.go wires together: requests run GetProfile             *)
(* (ProfileService) over one cache and one singleflight group, and those   *)
(* that fetch share one CredentialProvider (Credentials).                  *)
(*                                                                         *)
(* A request that leads a flight is a call of the provider from the        *)
(* recheck's miss to FetchProfile's return.  Its service stage is "fetch"  *)
(* meanwhile; the step that ends FetchProfile ends both.                   *)
(***************************************************************************)
EXTENDS ProfileService

CONSTANTS
  SecretTtl,       \* lifetime of the cached secret, in ticks
  MaxLoad,         \* longest load of the secret, in ticks
  Versions,        \* bound: the number of values the secret is given
  MaxDenials,      \* bound: responses of one call that refuse its session
  Configurations   \* bound: the environments and ARN settings considered

VARIABLES
  environment, arn, secret, cached, holder, creds, began, retired, floor,
                 \* as in Credentials
  session,       \* where each request is in its use of the provider
  denials,       \* how often its session was refused
  asked          \* history: floor when the request was accepted

providerVars == <<environment, arn, secret, cached, holder, session, creds, began, retired, floor>>
serviceVars == <<items, evictList, requestVars>>
blameVars == <<denials, asked>>
allVars == <<vars, providerVars, blameVars>>

Provider == INSTANCE Credentials WITH Calls <- Requests, Ttl <- SecretTtl, pc <- session

ASSUME DeploymentAssumption ==
  /\ SecretTtl \in Nat
  /\ MaxLoad \in Nat
  /\ MaxDenials \in Nat
  /\ Versions \in Nat \ {0}
  /\ None \notin [version : 0..Versions, expiresAt : Nat]
  /\ None \notin 0..Versions
  /\ Configurations \subseteq Provider!Environments \X BOOLEAN
  /\ Failures = {"credentials", "authentication", "upstream"}

DeploymentInit ==
  /\ Init /\ Provider!Init
  /\ <<environment, arn>> \in Configurations
  /\ denials = [r \in Requests |-> <<>>]
  /\ asked = [r \in Requests |-> 0]

-----------------------------------------------------------------------------
\* What a request does before and after FetchProfile.
Arrive(r) ==
  /\ \/ Refuse(r)
     \/ \E id \in Ids, contact \in BOOLEAN : Accept(r, id, contact)
  /\ asked' = [asked EXCEPT ![r] = floor]
  /\ UNCHANGED <<providerVars, denials>>

Serve(r) ==
  /\ \/ LookupHit(r) \/ LookupMiss(r)
     \/ Lead(r) \/ Follow(r) \/ RecheckHit(r)
     \/ Fill(r) \/ Finish(r) \/ WakeUp(r)
  /\ UNCHANGED <<providerVars, blameVars>>

\* FetchProfile: it begins with Get ...
CallFetchProfile(r) ==
  /\ RecheckMiss(r) /\ Provider!Call(r)
  /\ UNCHANGED blameVars

\* ... whose error is its own.
NoSession(r) ==
  /\ Provider!GetNothing(r) \/ Provider!FailLoad(r)
  /\ FetchFail(r, "credentials")
  /\ UNCHANGED blameVars

GetSession(r) ==
  /\ \/ Provider!GetCached(r) \/ Provider!GetFromEnvironment(r)
     \/ Provider!BeginLoad(r) \/ Provider!ReadSecret(r) \/ Provider!EndLoad(r)
  /\ UNCHANGED <<serviceVars, blameVars>>

\* A response refuses the session, or is not JSON; getJSON calls Clear and
\* FetchProfile goes on with the session it has.
SessionRefused(r) ==
  /\ Len(denials[r]) < MaxDenials
  /\ Provider!Deny(r)
  /\ denials' = [denials EXCEPT ![r] = Append(@, creds[r])]
  /\ UNCHANGED <<serviceVars, asked>>

Clear(r) ==
  /\ Provider!Clear(r)
  /\ UNCHANGED <<serviceVars, blameVars>>

FetchProfileReturns(r) ==
  /\ \/ FetchOk(r) \/ FetchFail(r, "upstream")
     \/ denials[r] # <<>> /\ FetchFail(r, "authentication")
  /\ Provider!EndCall(r)
  /\ UNCHANGED blameVars

RotateSecret ==
  /\ Provider!Rotate
  /\ UNCHANGED <<serviceVars, blameVars>>

ClockTicks ==
  /\ TimePasses /\ Provider!Tick
  /\ UNCHANGED blameVars

AllDone == AllAnswered /\ UNCHANGED <<providerVars, blameVars>>

NeedsMutex(r) == Provider!Locking(r) /\ (NoSession(r) \/ GetSession(r) \/ Clear(r))
RunsAlone(r) ==
  \/ Serve(r) \/ CallFetchProfile(r) \/ FetchProfileReturns(r)
  \/ Provider!Loading(r) /\ (NoSession(r) \/ GetSession(r))

DeploymentNext ==
  \/ RotateSecret \/ ClockTicks
  \/ \E r \in Requests :
       \/ Arrive(r) \/ Serve(r)
       \/ CallFetchProfile(r) \/ NoSession(r) \/ GetSession(r)
       \/ SessionRefused(r) \/ Clear(r) \/ FetchProfileReturns(r)
  \/ AllDone

DeploymentSpec == DeploymentInit /\ [][DeploymentNext]_allVars

\* The provider's mutex is fair to its waiters (Credentials); whatever else a
\* request does it does when it is scheduled, and FetchProfile and a load end
\* because their context has a deadline.
FairDeployment ==
  /\ DeploymentSpec
  /\ \A r \in Requests : SF_allVars(NeedsMutex(r)) /\ WF_allVars(RunsAlone(r))

-----------------------------------------------------------------------------
\* A refusal heals across the whole process: a request that fetches by itself
\* is refused by LinkedIn only for a session at least as recent as the secret
\* was when any request that came before it cleared the credentials (Clear,
\* Get and GetProfile together).  Credentials of the environment (version 0)
\* cannot heal, and whoever joins a flight gets what its leader gets.
RefusalsHeal ==
  \A r \in Requests : \A i \in DOMAIN denials[r] :
    denials[r][i] # 0 => denials[r][i] >= asked[r]

\* Every request is answered although its flight's leader may wait for the
\* provider's mutex, and the call that holds it for Secrets Manager.
EveryoneAnswered ==
  \A r \in Requests : At(r, "lookup") ~> At(r, "done")
=============================================================================
