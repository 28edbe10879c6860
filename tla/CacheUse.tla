------------------------------- MODULE CacheUse -------------------------------
(***************************************************************************)
(* The cache under any sequence of calls of Get and Set from any number of *)
(* goroutines (each call is one step, so the callers need no identity).    *)
(* The history variables record what a caller of the cache could know.     *)
(***************************************************************************)
EXTENDS ProfileCache, FiniteSets

CONSTANTS MaxCalls   \* bound: the number of calls

ASSUME CacheUseAssumption == MaxCalls \in Nat

VARIABLES
  calls,    \* number of calls so far
  lastUse,  \* per key: the call that last hit or set it
  written,  \* per key: payload and time of its last Set, 0 and no payload before
  outcome   \* what the last call was: a call of Set, a miss or a hit of Get

vars == <<clock, items, evictList, calls, lastUse, written, outcome>>

NoOutcome == [kind |-> "none"]

TypeOK ==
  /\ CacheTypeOK
  /\ calls \in 0..MaxCalls
  /\ lastUse \in [Keys -> 0..MaxCalls]
  /\ \A k \in Keys : written[k] = {} \/ \E p \in Payloads, t \in 0..Horizon : written[k] = {<<p, t>>}
  /\ outcome.kind \in {"none", "set", "miss", "hit"}

Init ==
  /\ CacheInit
  /\ calls = 0
  /\ lastUse = [k \in Keys |-> 0]
  /\ written = [k \in Keys |-> {}]
  /\ outcome = NoOutcome

Call ==
  /\ calls < MaxCalls
  /\ calls' = calls + 1
  /\ UNCHANGED clock

Hit(k) ==
  /\ Call
  /\ GetHit(k)
  /\ lastUse' = [lastUse EXCEPT ![k] = calls']
  /\ outcome' = [kind |-> "hit", key |-> k, response |-> Found(k)]
  /\ UNCHANGED written

Miss(k) ==
  /\ Call
  /\ GetMiss(k)
  /\ outcome' = [kind |-> "miss", key |-> k]
  /\ UNCHANGED <<lastUse, written>>

Write(k, p) ==
  /\ Call
  /\ Set(k, [payload |-> p, cached |-> FALSE])
  /\ lastUse' = [lastUse EXCEPT ![k] = calls']
  /\ written' = [written EXCEPT ![k] = {<<p, clock>>}]
  /\ outcome' = [kind |-> "set", key |-> k]

\* The bound on the calls is reached.
Done == calls = MaxCalls /\ UNCHANGED vars

Next ==
  \/ Done
  \/ Tick /\ UNCHANGED <<calls, lastUse, written, outcome>>
  \/ \E k \in Keys : Hit(k) \/ Miss(k) \/ (\E p \in Payloads : Write(k, p))

Spec == Init /\ [][Next]_vars

-----------------------------------------------------------------------------
\* The map and the list describe the same entries (cache.go updates them in
\* four places): every resident key is in the list exactly once, no other is,
\* and there are at most MaxEntries of them.
ListMatchesItems ==
  /\ ToSet(evictList) = DOMAIN items
  /\ IsInjective(evictList)
  /\ Len(evictList) <= MaxEntries

\* The list is in order of last use, so what removeOldest takes is the entry
\* nobody hit or set for the longest time.
OrderedByUse ==
  \A i, j \in 1..Len(evictList) : i < j => lastUse[evictList[j]] < lastUse[evictList[i]]

\* The cache keeps the MaxEntries most recently used entries: a key that was
\* set less than Ttl ago and of which no entry is left has been displaced, by
\* MaxEntries resident keys all used after it (Set's eviction loop).
OnlyOldestLost ==
  Enabled =>
    \A k \in Keys \ DOMAIN items : \A w \in written[k] :
      clock <= w[2] + Ttl =>
        Cardinality({j \in Keys : lastUse[j] > lastUse[k]}) >= MaxEntries

\* A hit returns the payload of the last Set of that key, at most Ttl old,
\* flagged as cached, although the entry itself is shared with whoever made
\* the response (Get's shallow copy).
HitIsLatest ==
  [][calls' > calls /\ outcome'.kind = "hit" =>
       /\ \E w \in written[outcome'.key] :
            outcome'.response.payload = w[1] /\ clock <= w[2] + Ttl
       /\ outcome'.response.cached
       /\ \A k \in DOMAIN items' : ~ items'[k].response.cached]_vars
=============================================================================
