--------------------------- MODULE CredentialsProofs ---------------------------
(***************************************************************************)
(* What the credential provider guarantees for any number of calls, any    *)
(* number of rotations, any lifetime of its cache and any load time.       *)
(*                                                                         *)
(* The argument.  The call that loads holds the mutex, so neither the      *)
(* cache nor the version at the last Clear changes until its load ends:    *)
(* what it read after BeginLoad is at least that version.  The version it  *)
(* read can be replaced meanwhile, but not before its load began, which    *)
(* bounds the age of everything that is ever cached.                       *)
(***************************************************************************)
EXTENDS Credentials, TLAPS

InLoad(c) == pc[c] \in {"load", "loaded"}

\* The call that loads holds the mutex and found nothing live.
LoaderHolds ==
  \A c \in Calls : InLoad(c) =>
    /\ holder = c
    /\ ~ Live
    /\ began[c] <= clock /\ clock <= began[c] + MaxLoad

\* What was read is a value of the secret no older than the last Clear, and
\* if it was replaced, then after the load began.
ReadIsRecent ==
  \A c \in Calls : pc[c] = "loaded" =>
    /\ creds[c] \in 1..secret
    /\ floor <= creds[c]
    /\ creds[c] < secret => began[c] <= retired[creds[c]]

\* The same of what is cached.
CachedIsRecent ==
  cached # None /\ cached.version # 0 =>
    /\ cached.version <= secret
    /\ floor <= cached.version
    /\ cached.expiresAt <= clock + Ttl
    /\ cached.version < secret =>
         cached.expiresAt <= retired[cached.version] + MaxLoad + Ttl

FloorIsPast == floor <= secret

IInv == TypeOK /\ FloorIsPast /\ LoaderHolds /\ ReadIsRecent /\ CachedIsRecent

-----------------------------------------------------------------------------
\* The type of the provider's state is kept by every step.
LEMMA Typing == TypeOK /\ ReadIsRecent /\ [Next]_vars => TypeOK'
<1> USE CredentialsAssumption
<1> SUFFICES ASSUME TypeOK, ReadIsRecent, [Next]_vars PROVE TypeOK'
  OBVIOUS
<1> USE DEF TypeOK, Environments, setup, history
<1>1. CASE Rotate
  BY <1>1 DEF Rotate
<1>2. CASE Tick
  BY <1>2 DEF Tick
<1>3. ASSUME NEW c \in Calls, Call(c) \/ Deny(c) \/ EndCall(c)
      PROVE  TypeOK'
  BY <1>3 DEF Call, Deny, EndCall, Go, Obtain
<1>4. ASSUME NEW c \in Calls, Locking(c)
      PROVE  TypeOK'
  <2>1. CASE GetCached(c)
    BY <2>1 DEF GetCached, Go, Obtain, Live, Cached
  <2>2. CASE GetFromEnvironment(c)
    BY <2>2 DEF GetFromEnvironment, Go, Obtain, Cached, Forever
  <2>3. CASE GetNothing(c)
    BY <2>3 DEF GetNothing, Go
  <2>4. CASE BeginLoad(c)
    BY <2>4 DEF BeginLoad, Go
  <2>5. CASE Clear(c)
    BY <2>5 DEF Clear, Go
  <2> QED BY <1>4, <2>1, <2>2, <2>3, <2>4, <2>5 DEF Locking
<1>5. ASSUME NEW c \in Calls, Loading(c)
      PROVE  TypeOK'
  <2>1. CASE ReadSecret(c)
    BY <2>1 DEF ReadSecret, Go, Obtain
  <2>2. CASE EndLoad(c)
    <3>1. creds[c] \in 0..Versions
      BY <2>2 DEF EndLoad, ReadIsRecent
    <3> QED BY <2>2, <3>1 DEF EndLoad, Go, Expiry, Cached
  <2>3. CASE FailLoad(c)
    BY <2>3 DEF FailLoad, Go, Obtain
  <2> QED BY <1>5, <2>1, <2>2, <2>3 DEF Loading
<1>6. CASE UNCHANGED vars
  BY <1>6 DEF vars
<1> QED BY <1>1, <1>2, <1>3, <1>4, <1>5, <1>6 DEF Next

-----------------------------------------------------------------------------
\* The strengthening of the properties below holds in every state.
LEMMA Recency == Spec => []IInv
<1> USE CredentialsAssumption DEF Environments, setup, history
<1>1. Init => IInv
  BY DEF Init, IInv, TypeOK, FloorIsPast, LoaderHolds, InLoad, ReadIsRecent, CachedIsRecent
<1>2. IInv /\ [Next]_vars => IInv'
  <2> SUFFICES ASSUME IInv, [Next]_vars PROVE IInv'
    OBVIOUS
  <2>t. TypeOK /\ TypeOK'
    BY Typing DEF IInv
  <2> USE <2>t DEF TypeOK, InLoad, Live, Cached
  <2>i. FloorIsPast /\ LoaderHolds /\ ReadIsRecent /\ CachedIsRecent
    BY DEF IInv
  <2>1. FloorIsPast'
    <3>1. CASE Rotate
      BY <2>i, <3>1 DEF Rotate, FloorIsPast
    <3>2. CASE ~ Rotate
      BY <2>i, <3>2 DEF Next, vars, Tick, Call, Deny, EndCall, Locking, Loading, GetCached,
         GetFromEnvironment, GetNothing, BeginLoad, Clear, ReadSecret, EndLoad, FailLoad, FloorIsPast
    <3> QED BY <3>1, <3>2
  <2>2. LoaderHolds'
    <3>1. CASE Rotate
      BY <2>i, <3>1 DEF Rotate, LoaderHolds
    <3>2. CASE Tick
      BY <2>i, <3>2 DEF Tick, LoaderHolds
    <3>3. ASSUME NEW c \in Calls, Call(c) \/ Deny(c) \/ EndCall(c)
          PROVE  LoaderHolds'
      BY <2>i, <3>3 DEF Call, Deny, EndCall, Go, LoaderHolds
    <3>4. ASSUME NEW c \in Calls, Locking(c)
          PROVE  LoaderHolds'
      <4>1. \A d \in Calls : ~ InLoad(d)
        BY <2>i, <3>4 DEF LoaderHolds, Locking, GetCached, GetFromEnvironment, GetNothing,
           BeginLoad, Clear
      <4> QED BY <3>4, <4>1 DEF LoaderHolds, Locking, GetCached, GetFromEnvironment,
         GetNothing, BeginLoad, Clear, Go
    <3>5. ASSUME NEW c \in Calls, Loading(c)
          PROVE  LoaderHolds'
      <4>1. \A d \in Calls : InLoad(d) => d = c
        BY <2>i, <3>5 DEF LoaderHolds, Loading, ReadSecret, EndLoad, FailLoad
      <4> QED BY <2>i, <3>5, <4>1 DEF LoaderHolds, Loading, ReadSecret, EndLoad, FailLoad, Go
    <3>6. CASE UNCHANGED vars
      BY <2>i, <3>6 DEF vars, LoaderHolds
    <3> QED BY <3>1, <3>2, <3>3, <3>4, <3>5, <3>6 DEF Next
  <2>3. ReadIsRecent'
    <3>1. CASE Rotate
      BY <2>i, <3>1 DEF Rotate, LoaderHolds, ReadIsRecent
    <3>2. CASE Tick
      BY <2>i, <3>2 DEF Tick, ReadIsRecent
    <3>3. ASSUME NEW c \in Calls, Call(c) \/ Deny(c) \/ EndCall(c)
          PROVE  ReadIsRecent'
      BY <2>i, <3>3 DEF Call, Deny, EndCall, Go, Obtain, ReadIsRecent
    <3>4. ASSUME NEW c \in Calls, Locking(c)
          PROVE  ReadIsRecent'
      <4>1. \A d \in Calls : ~ InLoad(d)
        BY <2>i, <3>4 DEF LoaderHolds, Locking, GetCached, GetFromEnvironment, GetNothing,
           BeginLoad, Clear
      <4> QED BY <3>4, <4>1 DEF ReadIsRecent, Locking, GetCached, GetFromEnvironment,
         GetNothing, BeginLoad, Clear, Go
    <3>5. ASSUME NEW c \in Calls, ReadSecret(c)
          PROVE  ReadIsRecent'
      BY <2>i, <3>5 DEF ReadSecret, Go, Obtain, FloorIsPast, ReadIsRecent
    <3>6. ASSUME NEW c \in Calls, EndLoad(c) \/ FailLoad(c)
          PROVE  ReadIsRecent'
      BY <2>i, <3>6 DEF EndLoad, FailLoad, Go, Obtain, ReadIsRecent
    <3>7. CASE UNCHANGED vars
      BY <2>i, <3>7 DEF vars, ReadIsRecent
    <3> QED BY <3>1, <3>2, <3>3, <3>4, <3>5, <3>6, <3>7 DEF Next, Loading
  <2>4. CachedIsRecent'
    <3>1. ASSUME Rotate, cached # None, cached.version # 0
          PROVE  CachedIsRecent'
      <4> DEFINE v == cached.version
      <4>0. cached \in Cached
        BY <3>1
      <4>1. /\ v \in 1..Versions /\ v <= secret /\ floor <= v
            /\ cached.expiresAt \in Nat /\ cached.expiresAt <= clock + Ttl
            /\ v < secret => cached.expiresAt <= retired[v] + MaxLoad + Ttl
        <5>1. v \in 0..Versions /\ cached.expiresAt \in Nat
          BY <4>0 DEF Cached
        <5>2. v <= secret /\ floor <= v /\ cached.expiresAt <= clock + Ttl
          BY <2>i, <3>1 DEF CachedIsRecent
        <5>3. v < secret => cached.expiresAt <= retired[v] + MaxLoad + Ttl
          BY <2>i, <3>1 DEF CachedIsRecent
        <5> QED BY <3>1, <5>1, <5>2, <5>3
      <4>2. /\ secret' = secret + 1 /\ UNCHANGED <<clock, cached, floor>>
            /\ retired' = [retired EXCEPT ![secret] = clock]
        BY <3>1 DEF Rotate
      <4>3. cached.expiresAt <= retired'[v] + MaxLoad + Ttl
        BY <4>1, <4>2
      <4> QED BY <4>1, <4>2, <4>3 DEF CachedIsRecent
    <3>n. CASE Rotate /\ ~ (cached # None /\ cached.version # 0)
      BY <3>n DEF Rotate, CachedIsRecent
    <3>2. CASE Tick
      BY <2>i, <3>2 DEF Tick, CachedIsRecent
    <3>3. ASSUME NEW c \in Calls, EndLoad(c)
          PROVE  CachedIsRecent'
      <4>1. cached' = [version |-> creds[c], expiresAt |-> clock + Ttl]
        BY <3>3 DEF EndLoad, Expiry
      <4>2. UNCHANGED <<clock, secret, retired, floor>>
        BY <3>3 DEF EndLoad
      <4>3. /\ creds[c] \in 1..secret /\ floor <= creds[c]
            /\ creds[c] < secret => clock <= retired[creds[c]] + MaxLoad
        BY <2>i, <3>3 DEF EndLoad, LoaderHolds, ReadIsRecent
      <4> QED BY <4>1, <4>2, <4>3 DEF CachedIsRecent
    <3>4. ASSUME NEW c \in Calls, GetFromEnvironment(c) \/ Clear(c)
          PROVE  CachedIsRecent'
      BY <3>4 DEF GetFromEnvironment, Clear, CachedIsRecent
    <3>5. CASE UNCHANGED <<clock, secret, cached, retired, floor>>
      BY <2>i, <3>5 DEF CachedIsRecent
    <3> QED BY <3>1, <3>n, <3>2, <3>3, <3>4, <3>5 DEF Next, vars, Call, Deny, EndCall, Locking, Loading,
         GetCached, GetNothing, BeginLoad, ReadSecret, FailLoad
  <2> QED BY <2>1, <2>2, <2>3, <2>4 DEF IInv
<1> QED BY <1>1, <1>2, PTL DEF Spec

\* A Get returns a version of the secret from the cache, where it is live, or
\* from its own load.
LEMMA WhereItIsFrom ==
  ASSUME TypeOK, [Next]_vars, NEW c \in Calls, GetsSecret(c)
  PROVE  GetCached(c) \/ EndLoad(c)
<1> USE CredentialsAssumption DEF TypeOK, GetsSecret, Go, Obtain, setup, history
<1>1. ASSUME NEW d \in Calls, Call(d) \/ Locking(d) \/ Loading(d) \/ Deny(d) \/ EndCall(d)
      PROVE  d = c /\ (GetCached(c) \/ EndLoad(c))
  BY <1>1 DEF Call, Deny, EndCall, Locking, Loading, GetCached, GetFromEnvironment, GetNothing,
     BeginLoad, Clear, ReadSecret, EndLoad, FailLoad
<1>2. ~ Rotate /\ ~ Tick /\ ~ UNCHANGED vars
  BY DEF Rotate, Tick, vars
<1> QED BY <1>1, <1>2 DEF Next

-----------------------------------------------------------------------------
\* The state of the provider always has its type.
THEOREM TypeCorrect == Spec => []TypeOK
BY Recency, PTL DEF IInv

\* Secrets Manager is asked by one call at a time, and only when there are no
\* live credentials (Get's mutex).
THEOREM LoadsAreExclusive == Spec => []LoadsAreNeeded
<1>1. IInv => LoadsAreNeeded
  BY DEF IInv, LoaderHolds, InLoad, LoadsAreNeeded
<1> QED BY <1>1, Recency, PTL

\* After a Clear nobody is given a value older than the secret had then.
THEOREM ClearTakesEffect == Spec => ClearHeals
<1>1. IInv /\ [Next]_vars => [\A c \in Calls : GetsSecret(c) => creds'[c] >= floor]_vars
  <2> SUFFICES ASSUME IInv, [Next]_vars, NEW c \in Calls, GetsSecret(c)
               PROVE  creds'[c] >= floor
    OBVIOUS
  <2>1. GetCached(c) \/ EndLoad(c)
    BY WhereItIsFrom DEF IInv
  <2> QED BY <2>1 DEF IInv, TypeOK, Cached, GetsSecret, GetCached, EndLoad, Live, Obtain,
       ReadIsRecent, CachedIsRecent
<1> QED BY <1>1, Recency, PTL DEF Spec, ClearHeals

\* A value that was replaced is handed out no longer than one lifetime of the
\* cache and one load after that.
THEOREM RotationsTakeEffect == Spec => RotationTakesEffect
<1> USE CredentialsAssumption
<1>1. IInv /\ [Next]_vars =>
        [\A c \in Calls : GetsSecret(c) /\ creds'[c] < secret =>
           clock <= retired[creds'[c]] + MaxLoad + Ttl]_vars
  <2> SUFFICES ASSUME IInv, [Next]_vars, NEW c \in Calls, GetsSecret(c), creds'[c] < secret
               PROVE  clock <= retired[creds'[c]] + MaxLoad + Ttl
    OBVIOUS
  <2> USE DEF IInv, TypeOK, GetsSecret
  <2>1. CASE GetCached(c)
    BY <2>1 DEF GetCached, Live, Cached, Obtain, CachedIsRecent
  <2>2. CASE EndLoad(c)
    BY <2>2 DEF EndLoad, LoaderHolds, InLoad, ReadIsRecent
  <2> QED BY <2>1, <2>2, WhereItIsFrom
<1> QED BY <1>1, Recency, PTL DEF Spec, RotationTakesEffect
=============================================================================
