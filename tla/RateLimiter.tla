----------------------------- MODULE RateLimiter -----------------------------
(***************************************************************************)
(* ratelimit/ratelimit.go: the sliding-window limiter the middleware asks  *)
(* before every request to /v1/profiles.                                   *)
(*                                                                         *)
(* Allow reads the wall clock BEFORE it takes the mutex; everything after  *)
(* that runs under the mutex.  A call is therefore two steps, ReadClock    *)
(* and one of the three ways Allow ends, and calls may run their second    *)
(* steps in another order than their first.                                *)
(*                                                                         *)
(* The slice of timestamps of a client is a set of numbered stamps: the    *)
(* number is the position at which the stamp was appended, which filtering *)
(* keeps in order, so the last element is the one with the largest number. *)
(***************************************************************************)
EXTENDS Integers, FiniteSets, Functions

CONSTANTS
  Clients,     \* client keys (IP addresses)
  Callers,     \* goroutines that call Allow
  Limit,       \* requestsPerMinute
  MaxClients,  \* size of the table of clients, after 0 became 2048
  Window,      \* the 60 seconds, in ticks
  MaxStall,    \* longest wait of a goroutine from ReadClock to the mutex, in ticks
  Horizon,     \* bound: the clock stops here
  NoCall       \* a goroutine that is not inside Allow

ASSUME RateLimiterAssumption ==
  /\ Limit \in Nat
  /\ MaxClients \in Nat \ {0}
  /\ Window \in Nat \ {0}
  /\ MaxStall \in Nat
  /\ Horizon \in Nat
  /\ IsFiniteSet(Clients)
  /\ NoCall \notin [key : Clients, now : 0..Horizon]

VARIABLES
  clock,     \* time.Now
  requests,  \* the map from client key to its timestamps
  call,      \* per goroutine: the client it asks for and the time it read
  verdict,   \* per goroutine: what its last call of Allow returned
  admitted   \* history: every stamp ever appended, per client

vars == <<clock, requests, call, verdict, admitted>>

Stamp == [seq : Nat, at : 0..Horizon]

TypeOK ==
  /\ clock \in 0..Horizon
  /\ DOMAIN requests \subseteq Clients
  /\ \A k \in DOMAIN requests : requests[k] \subseteq Stamp
  /\ call \in [Callers -> [key : Clients, now : 0..Horizon] \cup {NoCall}]
  /\ verdict \in [Callers -> {"none", "allowed", "refused"}]
  /\ admitted \in [Clients -> SUBSET Stamp]

Init ==
  /\ clock = 0
  /\ requests = [k \in {} |-> {}]
  /\ call = [c \in Callers |-> NoCall]
  /\ verdict = [c \in Callers |-> "none"]
  /\ admitted = [k \in Clients |-> {}]

-----------------------------------------------------------------------------
IsLast(s, stamps) == s \in stamps /\ \A t \in stamps : t.seq <= s.seq
IsFirst(s, stamps) == s \in stamps /\ \A t \in stamps : s.seq <= t.seq

\* prune: a client goes when it has no stamp or its last one has expired.
StaleByFirst(stamps, cutoff) ==
  stamps = {} \/ \E s \in stamps : IsFirst(s, stamps) /\ s.at <= cutoff
Stale(stamps, cutoff) ==
  stamps = {} \/ \E s \in stamps : IsLast(s, stamps) /\ s.at <= cutoff

Pruned(cutoff) ==
  Restrict(requests, {k \in DOMAIN requests : ~ Stale(requests[k], cutoff)})

ActiveOrEqual(stamps, cutoff) == {s \in stamps : s.at >= cutoff}
Active(stamps, cutoff) == {s \in stamps : s.at > cutoff}

NewStamp(k, now) == [seq |-> Cardinality(admitted[k]) + 1, at |-> now]

HasRoomForOneMore(table) == Cardinality(DOMAIN table) <= MaxClients
HasRoom(table) == Cardinality(DOMAIN table) < MaxClients

Store(table, k, stamps) ==
  [j \in DOMAIN table \cup {k} |-> IF j = k THEN stamps ELSE table[j]]

-----------------------------------------------------------------------------
Tick ==
  /\ clock < Horizon
  /\ \A c \in Callers : call[c] # NoCall => clock < call[c].now + MaxStall
  /\ clock' = clock + 1
  /\ UNCHANGED <<requests, call, verdict, admitted>>

ReadClock(c, k) ==
  /\ call[c] = NoCall
  /\ call' = [call EXCEPT ![c] = [key |-> k, now |-> clock]]
  /\ UNCHANGED <<clock, requests, verdict, admitted>>

Return(c, answer) ==
  /\ call' = [call EXCEPT ![c] = NoCall]
  /\ verdict' = [verdict EXCEPT ![c] = answer]
  /\ UNCHANGED clock

\* What the locked part of c's call works with once prune has run.
Cutoff(c) == call[c].now - Window
Table(c) == Pruned(Cutoff(c))
Known(c) == call[c].key \in DOMAIN Table(c)
Recent(c) == IF Known(c) THEN Active(Table(c)[call[c].key], Cutoff(c)) ELSE {}

RefuseUnknown(c) ==
  /\ call[c] # NoCall
  /\ ~ Known(c) /\ ~ HasRoom(Table(c))
  /\ requests' = Table(c)
  /\ Return(c, "refused")
  /\ UNCHANGED admitted

RefuseOverLimit(c) ==
  /\ call[c] # NoCall
  /\ Known(c) \/ HasRoom(Table(c))
  /\ Cardinality(Recent(c)) >= Limit
  /\ requests' = Store(Table(c), call[c].key, Recent(c))
  /\ Return(c, "refused")
  /\ UNCHANGED admitted

Admit(c) ==
  /\ call[c] # NoCall
  /\ Known(c) \/ HasRoom(Table(c))
  /\ Cardinality(Recent(c)) < Limit
  /\ LET k == call[c].key
         s == NewStamp(k, call[c].now)
     IN  /\ requests' = Store(Table(c), k, Recent(c) \cup {s})
         /\ admitted' = [admitted EXCEPT ![k] = @ \cup {s}]
  /\ Return(c, "allowed")

Next ==
  \/ Tick
  \/ \E c \in Callers :
       \/ \E k \in Clients : ReadClock(c, k)
       \/ RefuseUnknown(c)
       \/ RefuseOverLimit(c)
       \/ Admit(c)

Spec == Init /\ [][Next]_vars

-----------------------------------------------------------------------------
\* The table never holds more clients than MaxClients, nor more stamps of a
\* client than Limit: Allow's memory is bounded whatever the order of calls
\* (ratelimit.go, the len(l.requests) and len(timestamps) tests).
MemoryBounded ==
  /\ Cardinality(DOMAIN requests) <= MaxClients
  /\ \A k \in DOMAIN requests : Cardinality(requests[k]) <= Limit

AdmittedWithin(k, t, length) ==
  {s \in admitted[k] : t - length < s.at /\ s.at <= t}

AtMostLimitIn(length) ==
  \A k \in Clients : \A t \in 0..Horizon :
    Cardinality(AdmittedWithin(k, t, length)) <= Limit

\* What the limiter does guarantee: no client is admitted more than Limit
\* times in any window shorter than a minute by twice the longest stall
\* between reading the clock and running under the mutex.  With no stall
\* this is the whole minute.
WindowLimit == AtMostLimitIn(Window - 2 * MaxStall)

\* What the constructor's parameter "requestsPerMinute" says: at most Limit
\* admissions of a client in any minute.
RequestsPerMinute == AtMostLimitIn(Window)

\* A refusal always has a cause within the last minute, so "try again in one
\* minute" (api.go) is true of the client's own requests: either the client
\* itself was admitted Limit times, or MaxClients other clients were admitted
\* at least once, less than a minute before the call.
RefusalJustified ==
  [][\A c \in Callers :
       call[c] # NoCall /\ call'[c] = NoCall /\ verdict'[c] = "refused" =>
         LET Live(k) == {s \in admitted[k] : s.at > Cutoff(c)}
         IN  \/ Cardinality(Live(call[c].key)) >= Limit
             \/ Cardinality({k \in Clients \ {call[c].key} : Live(k) # {}})
                  >= MaxClients]_vars
=============================================================================
