-------------------------- MODULE RateLimiterProofs --------------------------
(***************************************************************************)
(* What the limiter guarantees for any number of clients, goroutines and   *)
(* requests per minute, any window and any stall.                          *)
(*                                                                         *)
(* The argument.  A stamp is appended no later than MaxStall after the     *)
(* time it carries, so the stamps of a client, in the order in which they  *)
(* were appended, are out of order by at most MaxStall.  prune looks only  *)
(* at the last one: a stamp it drops is at most MaxStall younger than the  *)
(* cutoff of the call that drops it.  A dropped stamp is therefore at most *)
(* MaxStall too young to be dropped (Forgotten below), and a later call    *)
(* that does not see it carries a time at least Window - 2 * MaxStall      *)
(* after it.                                                               *)
(***************************************************************************)
EXTENDS RateLimiter, FiniteSetTheorems, TLAPS

Stored(k) == IF k \in DOMAIN requests THEN requests[k] ELSE {}

\* A new stamp gets a larger number than every stamp of the client.
Numbered ==
  \A k \in Clients :
    /\ IsFiniteSet(admitted[k])
    /\ \A s \in admitted[k] : s.seq <= Cardinality(admitted[k])

\* A goroutine inside Allow read the clock at most MaxStall ago.
StallBounded ==
  \A c \in Callers : call[c] # NoCall =>
    call[c].now <= clock /\ clock <= call[c].now + MaxStall

\* Stamps carry times that have passed and are out of order by at most MaxStall.
NearlyOrdered ==
  \A k \in Clients : \A s, t \in admitted[k] :
    /\ s.at <= clock
    /\ s.seq <= t.seq => s.at <= t.at + MaxStall

\* The table holds admitted stamps only, and every stamp it lost is old.
Forgotten ==
  /\ \A k \in DOMAIN requests : requests[k] \subseteq admitted[k]
  /\ \A k \in Clients : \A s \in admitted[k] :
       s \notin Stored(k) => s.at <= clock - Window + MaxStall

-----------------------------------------------------------------------------
\* Facts about the locked part of Allow that hold of every call.

\* A finite non-empty set of stamps has a last one.
LEMMA LastExists ==
  ASSUME NEW S, S \subseteq Stamp, S # {}, IsFiniteSet(S)
  PROVE  \E s \in S : IsLast(s, S)
<1> DEFINE After(s) == {t \in S : t.seq > s.seq}
           T == {After(s) : s \in S}
<1>1. T \subseteq FiniteSubsetsOf(S) /\ T # {}
  <2>1. \A s \in S : After(s) \in SUBSET S
    OBVIOUS
  <2>2. \A s \in S : IsFiniteSet(After(s))
    BY <2>1, FS_Subset
  <2> QED BY <2>1, <2>2 DEF FiniteSubsetsOf
<1>2. PICK X \in T : \A Y \in T : ~ (<<Y, X>> \in StrictSubsetOrdering(S))
  <2> HIDE DEF T
  <2> QED BY <1>1, FS_StrictSubsetOrderingWellFounded, WFMin
<1>3. PICK s \in S : X = After(s)
  OBVIOUS
<1>4. \A t \in S : t.seq \in Nat
  BY DEF Stamp
<1>5. ASSUME NEW t \in S, t.seq > s.seq PROVE FALSE
  <2>1. After(t) \subseteq After(s) /\ t \in After(s) /\ t \notin After(t)
    BY <1>4, <1>5
  <2>2. <<After(t), After(s)>> \in StrictSubsetOrdering(S)
    BY <2>1 DEF StrictSubsetOrdering
  <2> QED BY <1>2, <1>3, <2>2
<1> QED BY <1>4, <1>5 DEF IsLast

\* One more element stays within a limit that was not reached.
LEMMA RoomForOne ==
  ASSUME NEW S, NEW x, NEW L \in Nat, IsFiniteSet(S), Cardinality(S) < L
  PROVE  /\ IsFiniteSet(S \cup {x})
         /\ Cardinality(S \cup {x}) \in Nat
         /\ Cardinality(S \cup {x}) <= L
BY FS_AddElement, FS_CardinalityType

\* After prune the table holds the old lists of the clients it kept; the list
\* it hands on holds what the client had, less what is as old as the cutoff.
LEMMA LockedPart ==
  ASSUME TypeOK, Numbered, NearlyOrdered, Forgotten,
         NEW c \in Callers, call[c] # NoCall
  PROVE  /\ call[c].key \in Clients /\ call[c].now \in 0..Horizon
         /\ DOMAIN Table(c) \subseteq DOMAIN requests
         /\ \A k \in DOMAIN Table(c) : Table(c)[k] = requests[k]
         /\ \A k \in DOMAIN requests \ DOMAIN Table(c) : \A s \in requests[k] :
              s.at <= Cutoff(c) + MaxStall
         /\ Recent(c) \subseteq Stored(call[c].key)
         /\ \A s \in Stored(call[c].key) \ Recent(c) : s.at <= Cutoff(c) + MaxStall
         /\ \A s \in Recent(c) : s.at > Cutoff(c)
<1> USE RateLimiterAssumption
<1>1. call[c].key \in Clients /\ call[c].now \in 0..Horizon /\ Cutoff(c) \in Int
  BY DEF TypeOK, Cutoff
<1>2. /\ DOMAIN Table(c) \subseteq DOMAIN requests
      /\ \A k \in DOMAIN Table(c) : Table(c)[k] = requests[k]
  BY DEF Table, Pruned, Restrict
<1>3. ASSUME NEW k \in DOMAIN requests, k \notin DOMAIN Table(c), NEW s \in requests[k]
      PROVE  s.at <= Cutoff(c) + MaxStall
  <2>1. PICK t \in requests[k] : IsLast(t, requests[k]) /\ t.at <= Cutoff(c)
    BY <1>3 DEF Table, Pruned, Restrict, Stale
  <2>2. s.seq <= t.seq
    BY <2>1 DEF IsLast
  <2>3. k \in Clients /\ s \in admitted[k] /\ t \in admitted[k] /\ s \in Stamp /\ t \in Stamp
    BY DEF TypeOK, Forgotten
  <2>4. s.at <= t.at + MaxStall
    BY <2>2, <2>3 DEF NearlyOrdered
  <2> QED BY <1>1, <2>1, <2>3, <2>4 DEF Stamp
<1>4. /\ Recent(c) \subseteq Stored(call[c].key)
      /\ \A s \in Recent(c) : s.at > Cutoff(c)
  BY <1>2 DEF Recent, Known, Active, Stored
<1>5. ASSUME NEW s \in Stored(call[c].key), s \notin Recent(c)
      PROVE  s.at <= Cutoff(c) + MaxStall
  <2>1. call[c].key \in DOMAIN requests /\ s \in requests[call[c].key] /\ s \in Stamp
    BY DEF Stored, TypeOK
  <2>2. CASE call[c].key \in DOMAIN Table(c)
    BY <1>1, <1>2, <1>5, <2>1, <2>2 DEF Recent, Known, Active, Stamp
  <2>3. CASE call[c].key \notin DOMAIN Table(c)
    BY <1>3, <2>1, <2>3
  <2> QED BY <2>2, <2>3
<1> QED BY <1>1, <1>2, <1>3, <1>4, <1>5

-----------------------------------------------------------------------------
\* The type of the limiter's state is kept by every step; the numbering of
\* the stamps is what makes the number of a new stamp well defined.
LEMMA TypingAndNumbering == Spec => [](TypeOK /\ Numbered)
<1> USE RateLimiterAssumption
<1>1. Init => TypeOK /\ Numbered
  BY FS_EmptySet DEF Init, TypeOK, Numbered
<1>2. TypeOK /\ Numbered /\ [Next]_vars => TypeOK' /\ Numbered'
  <2> SUFFICES ASSUME TypeOK, Numbered, [Next]_vars PROVE TypeOK' /\ Numbered'
    OBVIOUS
  <2>1. CASE Tick
    BY <2>1 DEF Tick, TypeOK, Numbered
  <2>2. ASSUME NEW c \in Callers, NEW k \in Clients, ReadClock(c, k)
        PROVE  TypeOK' /\ Numbered'
    BY <2>2 DEF ReadClock, TypeOK, Numbered
  <2>3. ASSUME NEW c \in Callers, RefuseUnknown(c)
        PROVE  TypeOK' /\ Numbered'
    BY <2>3 DEF RefuseUnknown, Return, Table, Pruned, Restrict, TypeOK, Numbered
  <2>4. ASSUME NEW c \in Callers, RefuseOverLimit(c)
        PROVE  TypeOK' /\ Numbered'
    <3>1. call[c].key \in Clients /\ Recent(c) \subseteq Stamp
      BY <2>4 DEF RefuseOverLimit, Recent, Known, Active, Table, Pruned, Restrict, TypeOK
    <3>2. DOMAIN requests' \subseteq Clients
          /\ \A k \in DOMAIN requests' : requests'[k] \subseteq Stamp
      BY <2>4, <3>1 DEF RefuseOverLimit, Store, Table, Pruned, Restrict, TypeOK
    <3> QED
      BY <2>4, <3>2 DEF RefuseOverLimit, Return, TypeOK, Numbered
  <2>5. ASSUME NEW c \in Callers, Admit(c)
        PROVE  TypeOK' /\ Numbered'
    <3> DEFINE k == call[c].key
               n == NewStamp(k, call[c].now)
    <3>1. k \in Clients /\ call[c].now \in 0..Horizon /\ Recent(c) \subseteq Stamp
      BY <2>5 DEF Admit, Recent, Known, Active, Table, Pruned, Restrict, TypeOK
    <3>2. IsFiniteSet(admitted[k]) /\ Cardinality(admitted[k]) \in Nat
      BY <3>1, FS_CardinalityType DEF Numbered
    <3>3. n \in Stamp /\ n.seq = Cardinality(admitted[k]) + 1
      BY <3>1, <3>2 DEF NewStamp, Stamp
    <3>4. DOMAIN requests' \subseteq Clients
          /\ \A j \in DOMAIN requests' : requests'[j] \subseteq Stamp
      BY <2>5, <3>1, <3>3 DEF Admit, Store, Table, Pruned, Restrict, TypeOK
    <3>5. admitted' = [admitted EXCEPT ![k] = @ \cup {n}]
      BY <2>5 DEF Admit
    <3>6. TypeOK'
      <4>1. call' = [call EXCEPT ![c] = NoCall] /\ clock' = clock
            /\ verdict' = [verdict EXCEPT ![c] = "allowed"]
        BY <2>5 DEF Admit, Return
      <4>2. admitted' \in [Clients -> SUBSET Stamp]
        <5> HIDE DEF k, n
        <5> QED BY <3>1, <3>3, <3>5 DEF TypeOK
      <4> QED BY <3>4, <4>1, <4>2 DEF TypeOK
    <3>7. n \notin admitted[k]
      BY <3>1, <3>2, <3>3 DEF Numbered
    <3>8. IsFiniteSet(admitted'[k]) /\ Cardinality(admitted'[k]) = Cardinality(admitted[k]) + 1
      <4>1. admitted'[k] = admitted[k] \cup {n}
        BY <3>1, <3>5 DEF TypeOK
      <4> QED BY <4>1, <3>2, <3>7, FS_AddElement
    <3>9. Numbered'
      <4> SUFFICES ASSUME NEW j \in Clients
                   PROVE  /\ IsFiniteSet(admitted'[j])
                          /\ \A s \in admitted'[j] : s.seq <= Cardinality(admitted'[j])
        BY DEF Numbered
      <4>1. CASE j # k
        BY <4>1, <3>5 DEF TypeOK, Numbered
      <4>2. CASE j = k
        <5>1. \A s \in admitted[k] : s.seq \in Nat /\ s.seq <= Cardinality(admitted[k])
          BY <3>1 DEF TypeOK, Numbered, Stamp
        <5>2. \A s \in admitted'[k] : s \in admitted[k] \/ s = n
          BY <3>1, <3>5 DEF TypeOK
        <5> QED BY <4>2, <5>1, <5>2, <3>2, <3>3, <3>8
      <4> QED BY <4>1, <4>2
    <3> QED BY <3>6, <3>9
  <2> QED
    BY <2>1, <2>2, <2>3, <2>4, <2>5 DEF Next, vars, TypeOK, Numbered
<1> QED
  BY <1>1, <1>2, PTL DEF Spec

\* The limiter's state keeps its type (ratelimit.go, the map of slices).
THEOREM TypeCorrect == Spec => []TypeOK
BY TypingAndNumbering, PTL

-----------------------------------------------------------------------------
\* Stamps are out of order by at most the longest stall.
LEMMA Ordering == Spec => [](StallBounded /\ NearlyOrdered)
<1> USE RateLimiterAssumption
<1>1. Init => StallBounded /\ NearlyOrdered
  BY DEF Init, StallBounded, NearlyOrdered
<1>2. TypeOK /\ Numbered /\ StallBounded /\ NearlyOrdered /\ [Next]_vars
        => StallBounded' /\ NearlyOrdered'
  <2> SUFFICES ASSUME TypeOK, Numbered, StallBounded, NearlyOrdered, [Next]_vars
               PROVE  StallBounded' /\ NearlyOrdered'
    OBVIOUS
  <2> DEFINE Times == [key : Clients, now : 0..Horizon]
  <2>0. /\ \A c \in Callers : call[c] # NoCall => call[c].now \in Int
        /\ \A k \in Clients : \A s \in admitted[k] : s.at \in Int /\ s.seq \in Nat
        /\ clock \in Int
    BY DEF TypeOK, Stamp
  <2>1. CASE Tick
    BY <2>0, <2>1 DEF Tick, StallBounded, NearlyOrdered
  <2>2. ASSUME NEW c \in Callers, NEW k \in Clients, ReadClock(c, k)
        PROVE  StallBounded' /\ NearlyOrdered'
    BY <2>0, <2>2 DEF ReadClock, StallBounded, NearlyOrdered, TypeOK
  <2>3. ASSUME NEW c \in Callers, RefuseUnknown(c) \/ RefuseOverLimit(c)
        PROVE  StallBounded' /\ NearlyOrdered'
    BY <2>3 DEF RefuseUnknown, RefuseOverLimit, Return, StallBounded, NearlyOrdered, TypeOK
  <2>4. ASSUME NEW c \in Callers, Admit(c)
        PROVE  StallBounded' /\ NearlyOrdered'
    <3> DEFINE k == call[c].key
               n == NewStamp(k, call[c].now)
    <3>1. StallBounded'
      BY <2>4 DEF Admit, Return, StallBounded, TypeOK
    <3>2. k \in Clients /\ clock' = clock
      BY <2>4 DEF Admit, Return, TypeOK
    <3>3. /\ n.at \in Int /\ n.at <= clock /\ clock <= n.at + MaxStall
          /\ \A s \in admitted[k] : s.seq < n.seq
      <4>1. Cardinality(admitted[k]) \in Nat
        BY <3>2, FS_CardinalityType DEF Numbered
      <4>2. \A s \in admitted[k] : s.seq <= Cardinality(admitted[k]) /\ s.seq \in Nat
        BY <3>2, <2>0 DEF Numbered
      <4>3. n.at = call[c].now /\ n.seq = Cardinality(admitted[k]) + 1
        BY DEF NewStamp
      <4>4. call[c].now <= clock /\ clock <= call[c].now + MaxStall
        BY <2>4 DEF Admit, StallBounded
      <4> QED BY <2>0, <2>4, <4>1, <4>2, <4>3, <4>4 DEF Admit
    <3>4. \A j \in Clients : \A s \in admitted'[j] : s \in admitted[j] \/ (j = k /\ s = n)
      BY <2>4 DEF Admit, TypeOK
    <3>5. NearlyOrdered'
      <4> SUFFICES ASSUME NEW j \in Clients, NEW s \in admitted'[j], NEW t \in admitted'[j]
                   PROVE  s.at <= clock /\ (s.seq <= t.seq => s.at <= t.at + MaxStall)
        BY <3>2 DEF NearlyOrdered
      <4> HIDE DEF n, k
      <4>1. CASE s \in admitted[j] /\ t \in admitted[j]
        BY <4>1 DEF NearlyOrdered
      <4>2. CASE s \in admitted[j] /\ j = k /\ t = n
        <5>1. s.at <= clock
          BY <4>2 DEF NearlyOrdered
        <5> QED BY <4>2, <5>1, <2>0, <3>3
      <4>3. CASE j = k /\ s = n
        <5>1. t \in admitted[k] => s.seq \in Int /\ t.seq \in Int /\ ~ (s.seq <= t.seq)
          <6> HAVE t \in admitted[k]
          <6>1. n.seq \in Int
            <7>1. Cardinality(admitted[k]) \in Nat
              BY <3>2, FS_CardinalityType DEF Numbered
            <7> QED BY <7>1 DEF n, NewStamp
          <6> QED BY <4>3, <6>1, <3>2, <3>3, <2>0
        <5>2. t = n => s.at <= t.at + MaxStall
          BY <4>3, <3>3
        <5> QED BY <4>3, <5>1, <5>2, <3>3, <3>4
      <4> QED BY <4>1, <4>2, <4>3, <3>4
    <3> QED BY <3>1, <3>5
  <2>5. CASE UNCHANGED vars
    BY <2>5 DEF vars, StallBounded, NearlyOrdered
  <2> QED BY <2>1, <2>2, <2>3, <2>4, <2>5 DEF Next
<1> QED BY <1>1, <1>2, TypingAndNumbering, PTL DEF Spec

\* A stamp that is no longer stored is old.
LEMMA Forgetting == Spec => []Forgotten
<1> USE RateLimiterAssumption
<1>1. Init => Forgotten
  BY DEF Init, Forgotten
<1>2. TypeOK /\ Numbered /\ StallBounded /\ NearlyOrdered /\ Forgotten /\ [Next]_vars
        => Forgotten'
  <2> SUFFICES ASSUME TypeOK, Numbered, StallBounded, NearlyOrdered, Forgotten, [Next]_vars
               PROVE  Forgotten'
    OBVIOUS
  <2>0. \A k \in Clients : \A s \in admitted[k] : s.at \in Int
    BY DEF TypeOK, Stamp
  <2>1. CASE Tick
    BY <2>0, <2>1 DEF Tick, Forgotten, Stored, TypeOK
  <2>2. ASSUME NEW c \in Callers, NEW k \in Clients, ReadClock(c, k) PROVE Forgotten'
    BY <2>2 DEF ReadClock, Forgotten, Stored
  <2>3. ASSUME NEW c \in Callers, call[c] # NoCall
        PROVE  Cutoff(c) + MaxStall <= clock - Window + MaxStall /\ Cutoff(c) \in Int
    BY <2>3 DEF Cutoff, StallBounded, TypeOK
  <2>4. ASSUME NEW c \in Callers, RefuseUnknown(c) PROVE Forgotten'
    <3>1. call[c] # NoCall /\ requests' = Table(c) /\ admitted' = admitted /\ clock' = clock
      BY <2>4 DEF RefuseUnknown, Return
    <3>2. \A k \in DOMAIN requests' : requests'[k] \subseteq admitted'[k]
      BY <3>1, LockedPart DEF Forgotten
    <3>3. ASSUME NEW k \in Clients, NEW s \in admitted[k], s \notin Stored(k)'
          PROVE  s.at <= clock - Window + MaxStall
      <4>1. CASE s \in Stored(k)
        <5>1. k \in DOMAIN requests \ DOMAIN Table(c) /\ s \in requests[k]
          BY <3>1, <3>3, <4>1, LockedPart DEF Stored
        <5>2. s.at <= Cutoff(c) + MaxStall
          BY <3>1, <5>1, LockedPart
        <5> QED BY <5>2, <3>1, <2>3, <2>0, clock \in Int DEF TypeOK
      <4>2. CASE s \notin Stored(k)
        BY <4>2 DEF Forgotten
      <4> QED BY <4>1, <4>2
    <3> QED BY <3>1, <3>2, <3>3 DEF Forgotten
  <2>5. ASSUME NEW c \in Callers, NEW new, new \subseteq Stamp, call[c] # NoCall,
               requests' = Store(Table(c), call[c].key, Recent(c) \cup new),
               new \subseteq admitted'[call[c].key],
               \A k \in Clients : admitted[k] \subseteq admitted'[k],
               \A k \in Clients : \A s \in admitted'[k] :
                  s \in admitted[k] \/ (k = call[c].key /\ s \in new),
               clock' = clock
        PROVE  Forgotten'
    <3>1. call[c].key \in Clients /\ DOMAIN requests' = DOMAIN Table(c) \cup {call[c].key}
          /\ requests'[call[c].key] = Recent(c) \cup new
          /\ \A k \in DOMAIN Table(c) \ {call[c].key} : requests'[k] = Table(c)[k]
      BY <2>5, LockedPart DEF Store
    <3>2. \A k \in DOMAIN requests' : requests'[k] \subseteq admitted'[k]
      <4> SUFFICES ASSUME NEW k \in DOMAIN requests' PROVE requests'[k] \subseteq admitted'[k]
        OBVIOUS
      <4>1. CASE k = call[c].key
        <5>1. Recent(c) \subseteq admitted[k]
          BY <2>5, <4>1, LockedPart DEF Forgotten, Stored
        <5> QED BY <2>5, <3>1, <4>1, <5>1
      <4>2. CASE k # call[c].key
        <5>1. k \in DOMAIN Table(c) /\ k \in DOMAIN requests /\ requests'[k] = requests[k]
          BY <2>5, <3>1, <4>2, LockedPart
        <5> QED BY <2>5, <5>1 DEF Forgotten, TypeOK
      <4> QED BY <4>1, <4>2
    <3>3. ASSUME NEW k \in Clients, NEW s \in admitted'[k], s \notin Stored(k)'
          PROVE  s.at <= clock - Window + MaxStall
      <4>1. s \in admitted[k]
        BY <2>5, <3>1, <3>3 DEF Stored
      <4>2. CASE s \notin Stored(k)
        BY <4>1, <4>2 DEF Forgotten
      <4>3. CASE s \in Stored(k) /\ k = call[c].key
        <5>1. s \notin Recent(c)
          BY <3>1, <3>3, <4>3 DEF Stored
        <5>2. s.at <= Cutoff(c) + MaxStall
          BY <2>5, <4>3, <5>1, LockedPart
        <5> QED BY <5>2, <4>1, <2>5, <2>3, <2>0, clock \in Int DEF TypeOK
      <4>4. CASE s \in Stored(k) /\ k # call[c].key
        <5>1. k \in DOMAIN requests \ DOMAIN Table(c) /\ s \in requests[k]
          BY <2>5, <3>1, <3>3, <4>4, LockedPart DEF Stored
        <5>2. s.at <= Cutoff(c) + MaxStall
          BY <2>5, <5>1, LockedPart
        <5> QED BY <5>2, <4>1, <2>5, <2>3, <2>0, clock \in Int DEF TypeOK
      <4> QED BY <4>2, <4>3, <4>4
    <3> QED BY <2>5, <3>2, <3>3 DEF Forgotten
  <2>6. ASSUME NEW c \in Callers, RefuseOverLimit(c) PROVE Forgotten'
    <3> DEFINE none == {}
    <3>1. call[c] # NoCall /\ admitted' = admitted /\ clock' = clock
          /\ requests' = Store(Table(c), call[c].key, Recent(c) \cup none)
      BY <2>6 DEF RefuseOverLimit, Return, Store
    <3>2. /\ none \subseteq Stamp /\ none \subseteq admitted'[call[c].key]
          /\ \A k \in Clients : admitted[k] \subseteq admitted'[k]
          /\ \A k \in Clients : \A s \in admitted'[k] :
               s \in admitted[k] \/ (k = call[c].key /\ s \in none)
      BY <3>1
    <3> HIDE DEF none
    <3> QED BY <2>5, <3>1, <3>2
  <2>7. ASSUME NEW c \in Callers, Admit(c) PROVE Forgotten'
    <3> DEFINE n == NewStamp(call[c].key, call[c].now)
    <3>1. call[c] # NoCall /\ clock' = clock /\ call[c].key \in Clients
          /\ requests' = Store(Table(c), call[c].key, Recent(c) \cup {n})
          /\ admitted' = [admitted EXCEPT ![call[c].key] = @ \cup {n}]
      BY <2>7 DEF Admit, Return, TypeOK
    <3>2. n \in Stamp
      <4>1. Cardinality(admitted[call[c].key]) \in Nat
        BY <3>1, FS_CardinalityType DEF Numbered
      <4>2. call[c].now \in 0..Horizon
        BY <3>1 DEF TypeOK
      <4> QED BY <4>1, <4>2 DEF NewStamp, Stamp
    <3> HIDE DEF n
    <3>3. /\ {n} \subseteq admitted'[call[c].key]
          /\ \A k \in Clients : admitted[k] \subseteq admitted'[k]
          /\ \A k \in Clients : \A s \in admitted'[k] :
               s \in admitted[k] \/ (k = call[c].key /\ s \in {n})
      BY <3>1 DEF TypeOK
    <3> QED BY <2>5, <3>1, <3>2, <3>3
  <2>8. CASE UNCHANGED vars
    BY <2>8 DEF vars, Forgotten, Stored
  <2> QED BY <2>1, <2>2, <2>4, <2>6, <2>7, <2>8 DEF Next
<1> QED BY <1>1, <1>2, TypingAndNumbering, Ordering, PTL DEF Spec

-----------------------------------------------------------------------------
\* The table stays within MaxClients clients and Limit stamps a client
\* (ratelimit.go, the len(l.requests) and len(timestamps) tests).
THEOREM MemoryIsBounded == Spec => []MemoryBounded
<1> USE RateLimiterAssumption
<1>1. Init => MemoryBounded
  BY FS_EmptySet DEF Init, MemoryBounded
<1>2. TypeOK /\ Numbered /\ NearlyOrdered /\ Forgotten /\ MemoryBounded /\ [Next]_vars
        => MemoryBounded'
  <2> SUFFICES ASSUME TypeOK, Numbered, NearlyOrdered, Forgotten, MemoryBounded, [Next]_vars
               PROVE  MemoryBounded'
    OBVIOUS
  <2>1. \A k \in DOMAIN requests : IsFiniteSet(requests[k]) /\ Cardinality(requests[k]) \in Nat
    <3> SUFFICES ASSUME NEW k \in DOMAIN requests
                 PROVE  IsFiniteSet(requests[k]) /\ Cardinality(requests[k]) \in Nat
      OBVIOUS
    <3>1. IsFiniteSet(admitted[k]) /\ requests[k] \in SUBSET admitted[k]
      BY DEF TypeOK, Numbered, Forgotten
    <3> QED BY <3>1, FS_Subset, FS_CardinalityType
  <2>2. IsFiniteSet(DOMAIN requests) /\ Cardinality(DOMAIN requests) \in Nat
    <3>1. DOMAIN requests \in SUBSET Clients
      BY DEF TypeOK
    <3> QED BY <3>1, FS_Subset, FS_CardinalityType
  <2>3. ASSUME NEW c \in Callers, call[c] # NoCall
        PROVE  /\ IsFiniteSet(DOMAIN Table(c)) /\ Cardinality(DOMAIN Table(c)) \in Nat
               /\ Cardinality(DOMAIN Table(c)) <= MaxClients
               /\ IsFiniteSet(Recent(c)) /\ Cardinality(Recent(c)) \in Nat
               /\ Cardinality(Recent(c)) <= Limit
    <3>1. DOMAIN Table(c) \in SUBSET DOMAIN requests
      BY <2>3, LockedPart
    <3>2. /\ IsFiniteSet(DOMAIN Table(c)) /\ Cardinality(DOMAIN Table(c)) \in Nat
          /\ Cardinality(DOMAIN Table(c)) <= Cardinality(DOMAIN requests)
      BY <3>1, <2>2, FS_Subset, FS_CardinalityType
    <3>3. Recent(c) \in SUBSET Stored(call[c].key)
      BY <2>3, LockedPart
    <3>4. CASE call[c].key \in DOMAIN requests
      <4>1. Stored(call[c].key) = requests[call[c].key]
        BY <3>4 DEF Stored
      <4>2. IsFiniteSet(Recent(c)) /\ Cardinality(Recent(c)) \in Nat
            /\ Cardinality(Recent(c)) <= Cardinality(requests[call[c].key])
        BY <4>1, <3>3, <3>4, <2>1, FS_Subset, FS_CardinalityType
      <4> QED BY <4>2, <3>2, <3>4, <2>1, <2>2 DEF MemoryBounded
    <3>5. CASE call[c].key \notin DOMAIN requests
      <4>1. Recent(c) = {}
        BY <3>3, <3>5 DEF Stored
      <4>2. IsFiniteSet(Recent(c)) /\ Cardinality(Recent(c)) = 0
        BY <4>1, FS_EmptySet
      <4> QED BY <4>2, <3>2, <2>2 DEF MemoryBounded
    <3> QED BY <3>4, <3>5
  <2>4. ASSUME NEW c \in Callers, NEW list, call[c] # NoCall,
               Known(c) \/ HasRoom(Table(c)),
               requests' = Store(Table(c), call[c].key, list),
               Cardinality(list) <= Limit
        PROVE  MemoryBounded'
    <3>1. DOMAIN requests' = DOMAIN Table(c) \cup {call[c].key}
      BY <2>4 DEF Store
    <3>2. Cardinality(DOMAIN requests') <= MaxClients
      <4>1. Cardinality(DOMAIN requests') =
              IF call[c].key \in DOMAIN Table(c) THEN Cardinality(DOMAIN Table(c))
                                                 ELSE Cardinality(DOMAIN Table(c)) + 1
        BY <3>1, <2>3, <2>4, FS_AddElement
      <4> QED BY <4>1, <2>3, <2>4 DEF Known, HasRoom
    <3>3. ASSUME NEW k \in DOMAIN requests' PROVE Cardinality(requests'[k]) <= Limit
      <4>1. CASE k = call[c].key
        BY <4>1, <2>4, <3>1 DEF Store
      <4>2. CASE k # call[c].key
        <5>1. k \in DOMAIN requests /\ requests'[k] = requests[k]
          BY <4>2, <2>4, <3>1, LockedPart DEF Store
        <5> QED BY <5>1 DEF MemoryBounded
      <4> QED BY <4>1, <4>2
    <3> QED BY <3>2, <3>3 DEF MemoryBounded
  <2>5. ASSUME NEW c \in Callers, RefuseUnknown(c) PROVE MemoryBounded'
    <3>1. call[c] # NoCall /\ requests' = Table(c)
      BY <2>5 DEF RefuseUnknown
    <3>2. \A k \in DOMAIN requests' : Cardinality(requests'[k]) <= Limit
      BY <3>1, LockedPart DEF MemoryBounded
    <3> QED BY <3>1, <3>2, <2>3 DEF MemoryBounded
  <2>6. ASSUME NEW c \in Callers, RefuseOverLimit(c) PROVE MemoryBounded'
    BY <2>3, <2>4, <2>6 DEF RefuseOverLimit
  <2>7. ASSUME NEW c \in Callers, Admit(c) PROVE MemoryBounded'
    <3> DEFINE n == NewStamp(call[c].key, call[c].now)
    <3>1. /\ call[c] # NoCall /\ (Known(c) \/ HasRoom(Table(c)))
          /\ Cardinality(Recent(c)) < Limit
          /\ requests' = Store(Table(c), call[c].key, Recent(c) \cup {n})
      BY <2>7 DEF Admit
    <3> HIDE DEF n
    <3>2. Cardinality(Recent(c) \cup {n}) <= Limit
      BY <3>1, <2>3, RoomForOne
    <3> QED BY <3>1, <3>2, <2>4
  <2>8. CASE requests' = requests
    BY <2>8 DEF MemoryBounded
  <2> QED BY <2>5, <2>6, <2>7, <2>8 DEF Next, vars, Tick, ReadClock
<1> QED BY <1>1, <1>2, TypingAndNumbering, Ordering, Forgetting, PTL DEF Spec

\* No client is admitted more than Limit times in a window shorter than the
\* minute by two stalls (Allow).  The step that matters is Admit: every stamp
\* in such a window before the new one is among those Allow counted.
THEOREM WindowLimitHolds == Spec => []WindowLimit
<1> USE RateLimiterAssumption
<1> DEFINE D == Window - 2 * MaxStall
<1>1. Init => WindowLimit
  BY FS_EmptySet, \A k \in Clients : \A t \in 0..Horizon : Init => AdmittedWithin(k, t, D) = {}
  DEF Init, WindowLimit, AtMostLimitIn, AdmittedWithin
<1>2. TypeOK /\ Numbered /\ StallBounded /\ NearlyOrdered /\ Forgotten /\ WindowLimit
        /\ [Next]_vars => WindowLimit'
  <2> SUFFICES ASSUME TypeOK, Numbered, StallBounded, NearlyOrdered, Forgotten, WindowLimit,
                      NEW c \in Callers, Admit(c)
               PROVE  WindowLimit'
    BY DEF Next, vars, Tick, ReadClock, RefuseUnknown, RefuseOverLimit,
           WindowLimit, AtMostLimitIn, AdmittedWithin
  <2> DEFINE key == call[c].key
             n == NewStamp(key, call[c].now)
  <2>1. /\ call[c] # NoCall /\ key \in Clients /\ call[c].now \in 0..Horizon
        /\ clock \in Int /\ clock <= call[c].now + MaxStall
        /\ Cardinality(Recent(c)) < Limit
        /\ admitted' = [admitted EXCEPT ![key] = @ \cup {n}]
        /\ n.at = call[c].now
    BY DEF Admit, TypeOK, StallBounded, NewStamp
  <2> SUFFICES ASSUME NEW k \in Clients, NEW t \in 0..Horizon
               PROVE  Cardinality(AdmittedWithin(k, t, D)') <= Limit
    BY DEF WindowLimit, AtMostLimitIn, AdmittedWithin
  <2>2. CASE k # key \/ ~ (t - D < n.at /\ n.at <= t)
    <3>1. AdmittedWithin(k, t, D)' = AdmittedWithin(k, t, D)
      <4> HIDE DEF n, key
      <4> QED BY <2>1, <2>2 DEF AdmittedWithin, TypeOK
    <3> QED BY <3>1 DEF WindowLimit, AtMostLimitIn
  <2>3. CASE k = key /\ t - D < n.at /\ n.at <= t
    <3>1. AdmittedWithin(k, t, D)' \subseteq Recent(c) \cup {n}
      <4> SUFFICES ASSUME NEW s \in admitted[key], t - D < s.at PROVE s \in Recent(c)
        <5> HIDE DEF n, key
        <5> QED BY <2>1, <2>3 DEF AdmittedWithin, TypeOK
      <4>1. s.at \in Int
        BY <2>1 DEF TypeOK, Stamp
      <4>2. s.at > call[c].now - Window + 2 * MaxStall
        BY <2>1, <2>3, <4>1
      <4>3. s \in Stored(key)
        <5>1. ~ (s.at <= clock - Window + MaxStall)
          BY <2>1, <4>1, <4>2
        <5> QED BY <2>1, <5>1 DEF Forgotten
      <4>4. ~ (s.at <= Cutoff(c) + MaxStall)
        BY <2>1, <4>1, <4>2 DEF Cutoff
      <4> QED BY <2>1, <4>3, <4>4, LockedPart
    <3>2. IsFiniteSet(Recent(c)) /\ Cardinality(Recent(c)) \in Nat
      <4>1. Recent(c) \in SUBSET admitted[key]
        BY <2>1, LockedPart DEF Stored, Forgotten
      <4> QED BY <4>1, <2>1, FS_Subset, FS_CardinalityType DEF Numbered
    <3> HIDE DEF n
    <3>3. /\ IsFiniteSet(Recent(c) \cup {n})
          /\ Cardinality(Recent(c) \cup {n}) <= Limit
          /\ Cardinality(Recent(c) \cup {n}) \in Nat
      BY <3>2, <2>1, RoomForOne
    <3>4. Cardinality(AdmittedWithin(k, t, D)') <= Cardinality(Recent(c) \cup {n})
          /\ Cardinality(AdmittedWithin(k, t, D)') \in Nat
      <4>1. AdmittedWithin(k, t, D)' \in SUBSET (Recent(c) \cup {n})
        BY <3>1
      <4> QED BY <3>3, <4>1, FS_Subset, FS_CardinalityType
    <3> QED BY <3>3, <3>4
  <2> QED BY <2>2, <2>3
<1> QED BY <1>1, <1>2, TypingAndNumbering, Ordering, Forgetting, PTL DEF Spec

\* With no stall the limit is the one the constructor's parameter names:
\* Limit admissions in any minute.
COROLLARY PromptLimit ==
  ASSUME MaxStall = 0
  PROVE  Spec => []RequestsPerMinute
<1>1. WindowLimit => RequestsPerMinute
  BY RateLimiterAssumption DEF WindowLimit, RequestsPerMinute
<1> QED BY <1>1, WindowLimitHolds, PTL

\* A refused client was admitted Limit times within the minute, or the table
\* was full of other clients who were admitted within it (Allow, api.go).
THEOREM RefusalsAreJustified == Spec => RefusalJustified
<1> USE RateLimiterAssumption
<1>1. TypeOK /\ Numbered /\ NearlyOrdered /\ Forgotten /\ [Next]_vars =>
        [\A c \in Callers :
           call[c] # NoCall /\ call'[c] = NoCall /\ verdict'[c] = "refused" =>
             LET Live(k) == {s \in admitted[k] : s.at > Cutoff(c)}
             IN  \/ Cardinality(Live(call[c].key)) >= Limit
                 \/ Cardinality({k \in Clients \ {call[c].key} : Live(k) # {}})
                      >= MaxClients]_vars
  <2> SUFFICES ASSUME TypeOK, Numbered, NearlyOrdered, Forgotten, Next,
                      NEW c \in Callers,
                      call[c] # NoCall, call'[c] = NoCall, verdict'[c] = "refused"
               PROVE  LET Live(k) == {s \in admitted[k] : s.at > Cutoff(c)}
                      IN  \/ Cardinality(Live(call[c].key)) >= Limit
                          \/ Cardinality({k \in Clients \ {call[c].key} : Live(k) # {}})
                               >= MaxClients
    OBVIOUS
  <2> DEFINE Live(k) == {s \in admitted[k] : s.at > Cutoff(c)}
             Others == {k \in Clients \ {call[c].key} : Live(k) # {}}
  <2>1. RefuseUnknown(c) \/ RefuseOverLimit(c)
    BY DEF Next, Tick, ReadClock, RefuseUnknown, RefuseOverLimit, Admit, Return, TypeOK
  <2>2. CASE RefuseOverLimit(c)
    <3>1. Recent(c) \in SUBSET Live(call[c].key)
      BY LockedPart DEF Stored, Forgotten
    <3>2. IsFiniteSet(Live(call[c].key))
      <4>1. IsFiniteSet(admitted[call[c].key]) /\ Live(call[c].key) \in SUBSET admitted[call[c].key]
        BY LockedPart DEF Numbered
      <4> QED BY <4>1, FS_Subset
    <3>3. Cardinality(Recent(c)) <= Cardinality(Live(call[c].key))
          /\ Cardinality(Recent(c)) \in Nat /\ Cardinality(Live(call[c].key)) \in Nat
      <4> HIDE DEF Live
      <4> QED BY <3>1, <3>2, FS_Subset, FS_CardinalityType
    <3> QED BY <2>2, <3>3 DEF RefuseOverLimit
  <2>3. CASE RefuseUnknown(c)
    <3>1. DOMAIN Table(c) \in SUBSET Others
      <4> SUFFICES ASSUME NEW k \in DOMAIN Table(c) PROVE k \in Others
        OBVIOUS
      <4>1. k \in DOMAIN requests /\ requests[k] \subseteq admitted[k] /\ k \in Clients
        BY LockedPart DEF Forgotten, TypeOK
      <4>2. k # call[c].key
        BY <2>3 DEF RefuseUnknown, Known
      <4>3. ~ Stale(requests[k], Cutoff(c))
        BY DEF Table, Pruned, Restrict
      <4>4. requests[k] # {} /\ requests[k] \subseteq Stamp /\ IsFiniteSet(requests[k])
        <5>1. IsFiniteSet(admitted[k]) /\ requests[k] \in SUBSET admitted[k]
          BY <4>1 DEF Numbered
        <5> QED BY <4>1, <4>3, <5>1, FS_Subset DEF Stale, TypeOK
      <4>5. PICK s \in requests[k] : IsLast(s, requests[k])
        BY <4>4, LastExists
      <4>6. s.at > Cutoff(c)
        <5>1. ~ (s.at <= Cutoff(c))
          BY <4>3, <4>5 DEF Stale
        <5>2. s.at \in Int /\ Cutoff(c) \in Int
          BY <4>4, LockedPart DEF Stamp, Cutoff
        <5> QED BY <5>1, <5>2
      <4> QED BY <4>1, <4>2, <4>6
    <3>2. IsFiniteSet(Others)
      <4>1. Others \in SUBSET Clients
        OBVIOUS
      <4> QED BY <4>1, FS_Subset
    <3>3. Cardinality(DOMAIN Table(c)) <= Cardinality(Others)
          /\ Cardinality(DOMAIN Table(c)) \in Nat /\ Cardinality(Others) \in Nat
      <4> HIDE DEF Others
      <4> QED BY <3>1, <3>2, FS_Subset, FS_CardinalityType
    <3> QED BY <2>3, <3>3 DEF RefuseUnknown, HasRoom
  <2> QED BY <2>1, <2>2, <2>3
<1> QED BY <1>1, TypingAndNumbering, Ordering, Forgetting, PTL DEF Spec, RefusalJustified
=============================================================================
