----------------------------- MODULE ReadThrough -----------------------------
(***************************************************************************)
(* What service.ProfileService promises its callers, without cache, group  *)
(* or locks: every answer is what some upstream fetch for exactly the      *)
(* request's key delivered, a key is never fetched twice at the same time, *)
(* a fetch is begun only for a request that still waits, and an answer is  *)
(* final.  ProfileService implements it.                                   *)
(***************************************************************************)
CONSTANTS
  Requests,      \* calls of GetProfile
  Keys,          \* what can be asked for
  Forbidden,     \* the keys the deployment answers no request for
  Outcomes,      \* what an upstream fetch can deliver, a profile or an error
  OutcomesOf,    \* the outcomes a fetch of a key can have
  Refusals,      \* answers to requests that ask for nothing admissible
  None           \* nothing asked, nothing answered

VARIABLES
  want,      \* the key each request asked for
  got,       \* its answer
  fetching,  \* the keys being fetched
  delivered  \* pairs of a key and an outcome of one of its fetches

vars == <<want, got, fetching, delivered>>

Init ==
  /\ want = [r \in Requests |-> None]
  /\ got = [r \in Requests |-> None]
  /\ fetching = {}
  /\ delivered = {}

Pending(r) == want[r] # None /\ got[r] = None

Refuse(r) ==
  /\ want[r] = None /\ got[r] = None
  /\ \E a \in Refusals : got' = [got EXCEPT ![r] = a]
  /\ UNCHANGED <<want, fetching, delivered>>

Ask(r, k) ==
  /\ want[r] = None /\ got[r] = None /\ k \notin Forbidden
  /\ want' = [want EXCEPT ![r] = k]
  /\ UNCHANGED <<got, fetching, delivered>>

BeginFetch(k) ==
  /\ k \notin fetching
  /\ \E r \in Requests : Pending(r) /\ want[r] = k
  /\ fetching' = fetching \cup {k}
  /\ UNCHANGED <<want, got, delivered>>

EndFetch(k, o) ==
  /\ k \in fetching
  /\ fetching' = fetching \ {k}
  /\ delivered' = delivered \cup {<<k, o>>}
  /\ UNCHANGED <<want, got>>

Give(r, o) ==
  /\ Pending(r)
  /\ <<want[r], o>> \in delivered
  /\ got' = [got EXCEPT ![r] = o]
  /\ UNCHANGED <<want, fetching, delivered>>

Next ==
  \/ \E r \in Requests :
       \/ Refuse(r)
       \/ \E k \in Keys : Ask(r, k)
       \/ \E o \in Outcomes : Give(r, o)
  \/ \E k \in Keys :
       \/ BeginFetch(k)
       \/ \E o \in OutcomesOf[k] : EndFetch(k, o)

Spec == Init /\ [][Next]_vars
=============================================================================
