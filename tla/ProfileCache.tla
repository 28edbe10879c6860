----------------------------- MODULE ProfileCache -----------------------------
(***************************************************************************)
(* cache/cache.go: the in-memory LRU cache of profile responses.           *)
(*                                                                         *)
(* Get and Set run under the cache's mutex from the first look at the map  *)
(* to their return and read the clock under it, so each call is one step.  *)
(* The linked list of entries, front to back, is the sequence of their     *)
(* keys; what an entry holds is in items.                                  *)
(***************************************************************************)
EXTENDS Integers, Sequences, SequencesExt, Functions

CONSTANTS
  Keys,        \* cache keys
  Payloads,    \* what a response carries besides its cached flag
  Ttl,         \* lifetime of an entry, in ticks; 0 turns the cache off
  MaxEntries,  \* most entries the cache may hold
  Horizon      \* bound: the clock stops here

ASSUME ProfileCacheAssumption ==
  /\ Ttl \in Nat
  /\ MaxEntries \in Nat
  /\ Horizon \in Nat

VARIABLES
  clock,     \* time.Now
  items,     \* the map from key to entry
  evictList  \* the keys, most recently used first

cacheVars == <<items, evictList>>

Response == [payload : Payloads, cached : BOOLEAN]
Entry == [response : Response, expiresAt : Nat]

CacheTypeOK ==
  /\ clock \in 0..Horizon
  /\ DOMAIN items \subseteq Keys
  /\ \A k \in DOMAIN items : items[k] \in Entry
  /\ evictList \in Seq(Keys)

CacheInit ==
  /\ clock = 0
  /\ items = [k \in {} |-> {}]
  /\ evictList = <<>>

Enabled == Ttl # 0

-----------------------------------------------------------------------------
\* list.MoveToFront and list.Remove on the element the map holds for k.
KeepInPlace(k) == UNCHANGED evictList
MoveToFront(k) ==
  \E i \in DOMAIN evictList :
    /\ evictList[i] = k
    /\ evictList' = <<k>> \o RemoveAt(evictList, i)

RemoveElement(k) ==
  \E i \in DOMAIN evictList :
    /\ evictList[i] = k
    /\ evictList' = RemoveAt(evictList, i)

\* Get hands out a copy of the stored response with the flag set.
SameFlag(response) == response
AsCached(response) == [response EXCEPT !.cached = TRUE]

Expired(k) == clock > items[k].expiresAt

\* Get, the three ways it ends.
GetHitInPlace(k) ==
  /\ Enabled /\ k \in DOMAIN items /\ ~ Expired(k)
  /\ MoveToFront(k)
  /\ items' = [items EXCEPT ![k].response = AsCached(@)]
GetHit(k) ==
  /\ Enabled /\ k \in DOMAIN items /\ ~ Expired(k)
  /\ MoveToFront(k)
  /\ UNCHANGED items

GetExpired(k) ==
  /\ Enabled /\ k \in DOMAIN items /\ Expired(k)
  /\ items' = Restrict(items, DOMAIN items \ {k})
  /\ RemoveElement(k)

GetAbsent(k) ==
  /\ ~ Enabled \/ k \notin DOMAIN items
  /\ UNCHANGED cacheVars

GetMiss(k) == GetExpired(k) \/ GetAbsent(k)

Found(k) == AsCached(items[k].response)

EntryInThePast(response) == [response |-> response, expiresAt |-> clock - Ttl]
NewEntry(response) == [response |-> response, expiresAt |-> clock + Ttl]

\* Set, the three ways it ends.
SetDisabled == ~ Enabled /\ UNCHANGED cacheVars

Replace(k, response) ==
  /\ Enabled /\ k \in DOMAIN items
  /\ items' = [items EXCEPT ![k] = NewEntry(response)]
  /\ MoveToFront(k)

\* The loop of Set: while the list is too long its last element goes, from
\* the list and from the map.
EvictOneTooFew(list) == {list[i] : i \in (MaxEntries + 2)..Len(list)}
EvictNewest(list) == {list[i] : i \in 1..(Len(list) - MaxEntries)}
Evicted(list) == {list[i] : i \in (MaxEntries + 1)..Len(list)}

Kept(list) == IF Len(list) <= MaxEntries THEN list ELSE SubSeq(list, 1, MaxEntries)

Insert(k, response) ==
  /\ Enabled /\ k \notin DOMAIN items
  /\ LET list == <<k>> \o evictList
     IN  /\ evictList' = Kept(list)
         /\ items' = [j \in (DOMAIN items \cup {k}) \ Evicted(list) |->
                        IF j = k THEN NewEntry(response) ELSE items[j]]

Set(k, response) == SetDisabled \/ Replace(k, response) \/ Insert(k, response)

Tick ==
  /\ clock < Horizon
  /\ clock' = clock + 1
  /\ UNCHANGED cacheVars
=============================================================================
