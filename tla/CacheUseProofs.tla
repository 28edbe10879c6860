----------------------------- MODULE CacheUseProofs -----------------------------
(***************************************************************************)
(* What the cache keeps for every set of keys, capacity and lifetime.      *)
(*                                                                         *)
(* The list is in order of last use (OrderedByUse), so no key is in it     *)
(* twice, and it names the keys of the map.  An entry is what was set last *)
(* (Fresh).  A key that was set and is gone has expired or was displaced,  *)
(* at a moment at which MaxEntries keys, all used after it, were in the    *)
(* list; they stay used after it as long as it is gone.                    *)
(***************************************************************************)
EXTENDS CacheUse, FiniteSetTheorems, TLAPS

Typed ==
  /\ clock \in Nat /\ calls \in Nat
  /\ DOMAIN items \subseteq Keys
  /\ \A k \in DOMAIN items : items[k] \in Entry
  /\ evictList \in Seq(Keys)
  /\ lastUse \in [Keys -> Nat]
  /\ DOMAIN written = Keys
  /\ \A k \in Keys : \A w \in written[k] : w[2] \in Nat
  /\ \A k \in Keys : lastUse[k] <= calls

\* The entry of a key is what its last Set was given, with its lifetime.
Fresh ==
  \A k \in DOMAIN items :
    /\ ~ items[k].response.cached
    /\ \E p, t : written[k] = {<<p, t>>} /\ t \in Nat
                 /\ items[k].response.payload = p /\ items[k].expiresAt = t + Ttl

Agree == ToSet(evictList) = DOMAIN items /\ Len(evictList) <= MaxEntries
EmptyIfDisabled == ~ Enabled => DOMAIN items = {}

Used == {k \in Keys : lastUse[k] > 0}
Later(k) == {j \in Keys : lastUse[j] > lastUse[k]}

IInv ==
  /\ Typed /\ Fresh /\ Agree /\ OrderedByUse /\ EmptyIfDisabled
  /\ IsFiniteSet(Used) /\ OnlyOldestLost

-----------------------------------------------------------------------------
\* The list, as a sequence of keys.

Decreasing(list, use) ==
  \A i, j \in 1..Len(list) : i < j => use[list[j]] < use[list[i]]

LEMMA InOrderOnce ==
  ASSUME NEW list \in Seq(Keys), NEW use \in [Keys -> Nat], Decreasing(list, use),
         NEW i \in 1..Len(list), NEW j \in 1..Len(list), list[i] = list[j]
  PROVE  i = j
<1>1. list[i] \in Keys /\ list[j] \in Keys OBVIOUS
<1>2. use[list[i]] \in Nat BY <1>1
<1>3. ~ (i < j) /\ ~ (j < i) BY <1>2 DEF Decreasing
<1> QED BY <1>3

\* The list without its i-th element.
LEMMA Removed ==
  ASSUME NEW list \in Seq(Keys), NEW i \in 1..Len(list)
  PROVE  /\ RemoveAt(list, i) \in Seq(Keys)
         /\ Len(RemoveAt(list, i)) = Len(list) - 1
         /\ \A a \in 1..(Len(list) - 1) :
              RemoveAt(list, i)[a] = IF a < i THEN list[a] ELSE list[a + 1]
<1> DEFINE front == SubSeq(list, 1, i - 1)
           back == SubSeq(list, i + 1, Len(list))
<1>1. /\ front \in Seq(Keys) /\ Len(front) = i - 1
      /\ \A a \in 1..(i - 1) : front[a] = list[a]
  OBVIOUS
<1>2. /\ back \in Seq(Keys) /\ Len(back) = Len(list) - i
      /\ \A a \in 1..(Len(list) - i) : back[a] = list[a + i]
  OBVIOUS
<1>3. RemoveAt(list, i) = front \o back BY DEF RemoveAt
<1> HIDE DEF front, back
<1>4. front \o back \in Seq(Keys) /\ Len(front \o back) = Len(list) - 1
  BY <1>1, <1>2
<1>5. ASSUME NEW a \in 1..(Len(list) - 1)
      PROVE  (front \o back)[a] = IF a < i THEN list[a] ELSE list[a + 1]
  <2>1. CASE a < i BY <1>1, <1>2, <2>1
  <2>2. CASE ~ (a < i)
    <3>1. (front \o back)[a] = back[a - (i - 1)] BY <1>1, <1>2, <2>2
    <3>2. a - (i - 1) \in 1..(Len(list) - i) BY <2>2
    <3>3. (a - (i - 1)) + i = a + 1 OBVIOUS
    <3> QED BY <1>2, <2>2, <3>1, <3>2, <3>3
  <2> QED BY <2>1, <2>2
<1> QED BY <1>3, <1>4, <1>5

\* What is left is the other elements, in their order.
LEMMA RemovedKeys ==
  ASSUME NEW list \in Seq(Keys), NEW use \in [Keys -> Nat], Decreasing(list, use),
         NEW i \in 1..Len(list)
  PROVE  /\ Decreasing(RemoveAt(list, i), use)
         /\ ToSet(RemoveAt(list, i)) = ToSet(list) \ {list[i]}
<1> DEFINE rest == RemoveAt(list, i)
<1>1. rest \in Seq(Keys) /\ Len(rest) = Len(list) - 1 BY Removed
<1>2. \A a \in 1..(Len(list) - 1) : rest[a] = IF a < i THEN list[a] ELSE list[a + 1]
  BY Removed
<1> HIDE DEF rest
<1>3. Decreasing(rest, use)
  <2> SUFFICES ASSUME NEW a \in 1..Len(rest), NEW b \in 1..Len(rest), a < b
               PROVE  use[rest[b]] < use[rest[a]]
    BY DEF Decreasing
  <2> DEFINE x == IF a < i THEN a ELSE a + 1
             y == IF b < i THEN b ELSE b + 1
  <2>1. rest[a] = list[x] /\ rest[b] = list[y] BY <1>1, <1>2
  <2>2. x \in 1..Len(list) /\ y \in 1..Len(list) /\ x < y BY <1>1
  <2> HIDE DEF x, y
  <2> QED BY <2>1, <2>2 DEF Decreasing
<1>4. ToSet(rest) = ToSet(list) \ {list[i]}
  <2>1. ASSUME NEW k \in ToSet(rest) PROVE k \in ToSet(list) /\ k # list[i]
    <3>1. PICK a \in 1..Len(rest) : k = rest[a] BY <1>1, <2>1 DEF ToSet
    <3> DEFINE x == IF a < i THEN a ELSE a + 1
    <3>2. k = list[x] BY <1>1, <1>2, <3>1
    <3>3. x \in 1..Len(list) /\ x # i BY <1>1
    <3> HIDE DEF x
    <3>4. k \in ToSet(list) BY <3>2, <3>3 DEF ToSet
    <3> QED BY <3>2, <3>3, <3>4, InOrderOnce
  <2>2. ASSUME NEW k \in ToSet(list), k # list[i] PROVE k \in ToSet(rest)
    <3>1. PICK x \in 1..Len(list) : k = list[x] BY <2>2 DEF ToSet
    <3>2. x # i BY <2>2, <3>1
    <3> DEFINE a == IF x < i THEN x ELSE x - 1
    <3>3. a \in 1..Len(rest) /\ x = (IF a < i THEN a ELSE a + 1) BY <1>1, <3>2
    <3>4. rest[a] = k BY <1>1, <1>2, <3>1, <3>3
    <3> HIDE DEF a
    <3> QED BY <1>1, <3>3, <3>4 DEF ToSet
  <2> QED BY <2>1, <2>2
<1> QED BY <1>3, <1>4 DEF rest

\* A key in front of the list.
LEMMA Pushed ==
  ASSUME NEW list \in Seq(Keys), NEW k \in Keys
  PROVE  /\ <<k>> \o list \in Seq(Keys)
         /\ Len(<<k>> \o list) = Len(list) + 1
         /\ (<<k>> \o list)[1] = k
         /\ \A a \in 2..(Len(list) + 1) : (<<k>> \o list)[a] = list[a - 1]
         /\ ToSet(<<k>> \o list) = ToSet(list) \cup {k}
<1> DEFINE all == <<k>> \o list
<1>1. all \in Seq(Keys) /\ Len(all) = Len(list) + 1 /\ all[1] = k
      /\ \A a \in 2..(Len(list) + 1) : all[a] = list[a - 1]
  OBVIOUS
<1> HIDE DEF all
<1>2. ToSet(all) = ToSet(list) \cup {k}
  <2>1. ASSUME NEW x \in ToSet(all) PROVE x \in ToSet(list) \cup {k}
    <3>1. PICK a \in 1..Len(all) : x = all[a] BY <1>1 DEF ToSet
    <3>2. CASE a = 1 BY <1>1, <3>1, <3>2
    <3>3. CASE a # 1
      <4>1. a \in 2..(Len(list) + 1) /\ a - 1 \in 1..Len(list) BY <1>1, <3>3
      <4> QED BY <1>1, <3>1, <4>1 DEF ToSet
    <3> QED BY <3>2, <3>3
  <2>2. ASSUME NEW x \in ToSet(list) PROVE x \in ToSet(all)
    <3>1. PICK a \in 1..Len(list) : x = list[a] BY DEF ToSet
    <3>2. a + 1 \in 2..(Len(list) + 1) /\ (a + 1) - 1 = a OBVIOUS
    <3>3. all[a + 1] = x BY <1>1, <3>1, <3>2
    <3>4. a + 1 \in 1..Len(all) BY <1>1
    <3> QED BY <1>1, <3>3, <3>4 DEF ToSet
  <2>3. k \in ToSet(all)
    <3>1. 1 \in 1..Len(all) BY <1>1
    <3> QED BY <1>1, <3>1 DEF ToSet
  <2> QED BY <2>1, <2>2, <2>3
<1> QED BY <1>1, <1>2 DEF all

\* A key that was just used is in order in front of a list without it.
LEMMA PushedInOrder ==
  ASSUME NEW list \in Seq(Keys), NEW use \in [Keys -> Nat], Decreasing(list, use),
         NEW k \in Keys, k \notin ToSet(list),
         NEW n \in Nat, \A j \in Keys : use[j] < n
  PROVE  Decreasing(<<k>> \o list, [use EXCEPT ![k] = n])
<1> DEFINE all == <<k>> \o list
           now == [use EXCEPT ![k] = n]
<1>1. all \in Seq(Keys) /\ Len(all) = Len(list) + 1 /\ all[1] = k
      /\ \A a \in 2..(Len(list) + 1) : all[a] = list[a - 1]
  BY Pushed
<1>2. now[k] = n /\ \A j \in Keys \ {k} : now[j] = use[j] OBVIOUS
<1> HIDE DEF all, now
<1>3. \A a \in 1..Len(list) : list[a] \in Keys \ {k} BY DEF ToSet
<1> SUFFICES ASSUME NEW a \in 1..Len(all), NEW b \in 1..Len(all), a < b
             PROVE  now[all[b]] < now[all[a]]
  BY DEF Decreasing, all, now
<1>4. b \in 2..(Len(list) + 1) /\ b - 1 \in 1..Len(list) BY <1>1
<1>5. now[all[b]] = use[list[b - 1]] BY <1>1, <1>2, <1>3, <1>4
<1>6. CASE a = 1
  <2>1. now[all[a]] = n BY <1>1, <1>2, <1>6
  <2>2. use[list[b - 1]] < n BY <1>3, <1>4
  <2> QED BY <1>5, <2>1, <2>2
<1>7. CASE a # 1
  <2>1. a \in 2..(Len(list) + 1) /\ a - 1 \in 1..Len(list) /\ a - 1 < b - 1 BY <1>1, <1>4, <1>7
  <2>2. now[all[a]] = use[list[a - 1]] BY <1>1, <1>2, <1>3, <2>1
  <2>3. use[list[b - 1]] < use[list[a - 1]] BY <1>4, <2>1 DEF Decreasing
  <2> QED BY <1>5, <2>2, <2>3
<1> QED BY <1>6, <1>7

-----------------------------------------------------------------------------
\* What a use of a key does to the order and to what is used later.

LEMMA UseCounts ==
  ASSUME Typed, IsFiniteSet(Used), NEW k \in Keys, calls' = calls + 1,
         lastUse' = [lastUse EXCEPT ![k] = calls']
  PROVE  /\ lastUse' \in [Keys -> Nat] /\ \A j \in Keys : lastUse'[j] <= calls'
         /\ lastUse'[k] = calls' /\ \A j \in Keys \ {k} : lastUse'[j] = lastUse[j]
         /\ IsFiniteSet(Used')
<1>1. lastUse \in [Keys -> Nat] /\ calls \in Nat /\ \A j \in Keys : lastUse[j] <= calls
  BY DEF Typed
<1>2. lastUse'[k] = calls' /\ \A j \in Keys \ {k} : lastUse'[j] = lastUse[j] BY <1>1
<1>3. lastUse' \in [Keys -> Nat] BY <1>1
<1>4. \A j \in Keys : lastUse'[j] <= calls' BY <1>1, <1>2
<1>5. Used' = Used \cup {k} BY <1>1, <1>2 DEF Used
<1>6. IsFiniteSet(Used') BY <1>5, FS_AddElement
<1> QED BY <1>2, <1>3, <1>4, <1>6

LEMMA LaterIsFinite ==
  ASSUME NEW use \in [Keys -> Nat], IsFiniteSet({k \in Keys : use[k] > 0}), NEW q \in Keys
  PROVE  IsFiniteSet({k \in Keys : use[k] > use[q]})
<1>1. {k \in Keys : use[k] > use[q]} \subseteq {k \in Keys : use[k] > 0} OBVIOUS
<1> QED BY <1>1, FS_Subset

\* A key that is not used itself is only ever passed by more.
LEMMA LaterGrows ==
  ASSUME Typed, IsFiniteSet(Used), NEW k \in Keys, calls' = calls + 1,
         lastUse' = [lastUse EXCEPT ![k] = calls'],
         NEW q \in Keys, q # k
  PROVE  Cardinality(Later(q)) <= Cardinality(Later(q)')
<1>1. lastUse \in [Keys -> Nat] /\ calls \in Nat /\ \A j \in Keys : lastUse[j] <= calls
  BY DEF Typed
<1>2. Later(q) \subseteq Later(q)' BY <1>1, UseCounts DEF Later
<1>3. IsFiniteSet(Later(q)')
  <2>1. lastUse' \in [Keys -> Nat] /\ IsFiniteSet(Used') BY UseCounts
  <2> QED BY <2>1, LaterIsFinite DEF Later, Used
<1> QED BY <1>2, <1>3, FS_Subset

\* A key that was lost before, and not set since, stays lost for a reason.
Reason(k) ==
  \A w \in written[k] : clock <= w[2] + Ttl => Cardinality(Later(k)) >= MaxEntries

LEMMA ReasonStays ==
  ASSUME IInv, Enabled, NEW k \in Keys, calls' = calls + 1,
         lastUse' = [lastUse EXCEPT ![k] = calls'], clock' = clock,
         NEW q \in Keys, q # k, q \notin DOMAIN items, written'[q] = written[q]
  PROVE  Reason(q)'
<1>1. Reason(q) BY DEF IInv, OnlyOldestLost, Reason, Later
<1>2. Cardinality(Later(q)) <= Cardinality(Later(q)') BY LaterGrows DEF IInv
<1>3. Cardinality(Later(q)) \in Nat /\ Cardinality(Later(q)') \in Nat
  <2>1. IsFiniteSet(Later(q)) BY LaterIsFinite DEF IInv, Typed, Used, Later
  <2>2. IsFiniteSet(Later(q)')
    <3>1. lastUse' \in [Keys -> Nat] /\ IsFiniteSet(Used') BY UseCounts DEF IInv
    <3> QED BY <3>1, LaterIsFinite DEF Later, Used
  <2> QED BY <2>1, <2>2, FS_CardinalityType
<1>4. MaxEntries \in Nat BY ProfileCacheAssumption
<1>5. Cardinality(Later(q)) >= MaxEntries => Cardinality(Later(q)') >= MaxEntries
  BY <1>2, <1>3, <1>4
<1> QED BY <1>1, <1>5 DEF Reason

\* MoveToFront and the count of the use.
LEMMA Moved ==
  ASSUME IInv, NEW k \in DOMAIN items, MoveToFront(k), calls' = calls + 1,
         lastUse' = [lastUse EXCEPT ![k] = calls']
  PROVE  /\ evictList' \in Seq(Keys) /\ Decreasing(evictList', lastUse')
         /\ ToSet(evictList') = ToSet(evictList) /\ Len(evictList') = Len(evictList)
<1>0. /\ evictList \in Seq(Keys) /\ k \in Keys /\ lastUse \in [Keys -> Nat] /\ calls \in Nat
      /\ \A j \in Keys : lastUse[j] <= calls
  BY DEF IInv, Typed
<1>10. DOMAIN evictList = 1..Len(evictList) BY <1>0
<1>1. PICK i \in 1..Len(evictList) :
        evictList[i] = k /\ evictList' = <<k>> \o RemoveAt(evictList, i)
  BY <1>10, Zenon DEF MoveToFront
<1> DEFINE rest == RemoveAt(evictList, i)
<1>2. rest \in Seq(Keys) /\ Len(rest) = Len(evictList) - 1 BY <1>0, Removed
<1>3. Decreasing(evictList, lastUse) BY DEF IInv, OrderedByUse, Decreasing
<1>4. Decreasing(rest, lastUse) /\ ToSet(rest) = ToSet(evictList) \ {k}
  BY <1>0, <1>1, <1>3, RemovedKeys
<1>5. evictList' = <<k>> \o rest BY <1>1
<1> HIDE DEF rest
<1>6. /\ evictList' \in Seq(Keys) /\ Len(evictList') = Len(rest) + 1
      /\ ToSet(evictList') = ToSet(rest) \cup {k}
  BY <1>0, <1>2, <1>5, Pushed
<1>7. Decreasing(evictList', lastUse')
  <2>1. calls' \in Nat /\ \A j \in Keys : lastUse[j] < calls' BY <1>0
  <2>2. k \notin ToSet(rest) BY <1>4
  <2> QED BY <1>0, <1>2, <1>4, <1>5, <2>1, <2>2, PushedInOrder
<1>8. k \in ToSet(evictList) BY <1>0, <1>1 DEF ToSet
<1>9. Len(evictList') = Len(evictList)
  <2>1. Len(evictList) \in Nat BY <1>0
  <2> QED BY <1>2, <1>6, <2>1
<1> QED BY <1>4, <1>6, <1>7, <1>8, <1>9

\* removeElement of an expired entry.
LEMMA Dropped ==
  ASSUME IInv, NEW k \in DOMAIN items, RemoveElement(k)
  PROVE  /\ evictList' \in Seq(Keys) /\ Decreasing(evictList', lastUse)
         /\ ToSet(evictList') = ToSet(evictList) \ {k} /\ Len(evictList') = Len(evictList) - 1
<1>0. evictList \in Seq(Keys) /\ lastUse \in [Keys -> Nat] BY DEF IInv, Typed
<1>1. PICK i \in 1..Len(evictList) : evictList[i] = k /\ evictList' = RemoveAt(evictList, i)
  BY <1>0 DEF RemoveElement
<1>2. Decreasing(evictList, lastUse) BY DEF IInv, OrderedByUse, Decreasing
<1> QED BY <1>0, <1>1, <1>2, Removed, RemovedKeys

\* The list without its last element, if it is too long by one.
LEMMA KeptOrShortened ==
  ASSUME NEW list \in Seq(Keys), NEW use \in [Keys -> Nat], Decreasing(list, use),
         Len(list) <= MaxEntries + 1
  PROVE  /\ Kept(list) \in Seq(Keys) /\ Decreasing(Kept(list), use)
         /\ ToSet(Kept(list)) = ToSet(list) \ Evicted(list) /\ Len(Kept(list)) <= MaxEntries
         /\ \A e \in Evicted(list) :
              Len(list) = MaxEntries + 1 /\ e = list[MaxEntries + 1]
<1>0. MaxEntries \in Nat /\ Len(list) \in Nat BY ProfileCacheAssumption
<1>1. CASE Len(list) <= MaxEntries
  <2>1. Evicted(list) = {} BY <1>0, <1>1 DEF Evicted
  <2> QED BY <1>1, <2>1 DEF Kept
<1>2. CASE Len(list) = MaxEntries + 1
  <2> DEFINE n == MaxEntries + 1
  <2>1. n \in 1..Len(list) /\ Len(list) = n BY <1>0, <1>2
  <2>2. Evicted(list) = {list[n]}
    <3>1. (MaxEntries + 1)..Len(list) = {n} BY <1>0, <1>2
    <3> QED BY <3>1 DEF Evicted
  <2>3. Kept(list) = SubSeq(list, 1, MaxEntries) BY <1>0, <1>2 DEF Kept
  <2>4. Kept(list) \in Seq(Keys) /\ Len(Kept(list)) = MaxEntries
        /\ \A a \in 1..MaxEntries : Kept(list)[a] = list[a]
    BY <1>0, <1>2, <2>3
  <2>5. Decreasing(Kept(list), use)
    <3>1. \A a \in 1..MaxEntries : a \in 1..Len(list) BY <1>0, <1>2
    <3> QED BY <2>4, <3>1 DEF Decreasing
  <2>6. ToSet(Kept(list)) = ToSet(list) \ {list[n]}
    <3>1. ASSUME NEW k \in ToSet(Kept(list)) PROVE k \in ToSet(list) /\ k # list[n]
      <4>1. PICK a \in 1..MaxEntries : k = Kept(list)[a] BY <2>4 DEF ToSet
      <4>2. k = list[a] /\ a \in 1..Len(list) /\ a # n BY <1>0, <1>2, <2>4, <4>1
      <4> QED BY <2>1, <4>2, InOrderOnce DEF ToSet
    <3>2. ASSUME NEW k \in ToSet(list), k # list[n] PROVE k \in ToSet(Kept(list))
      <4>1. PICK a \in 1..Len(list) : k = list[a] BY DEF ToSet
      <4>2. a \in 1..MaxEntries BY <1>0, <1>2, <3>2, <4>1
      <4> QED BY <2>4, <4>1, <4>2 DEF ToSet
    <3> QED BY <3>1, <3>2
  <2> QED BY <1>0, <1>2, <2>1, <2>2, <2>4, <2>5, <2>6
<1> QED BY <1>0, <1>1, <1>2

\* Whoever is displaced was used before all of the MaxEntries keys that stay.
LEMMA DisplacedByLater ==
  ASSUME NEW list \in Seq(Keys), NEW use \in [Keys -> Nat], Decreasing(list, use),
         Len(list) = MaxEntries + 1, NEW e, e = list[MaxEntries + 1],
         IsFiniteSet({j \in Keys : use[j] > use[e]})
  PROVE  Cardinality({j \in Keys : use[j] > use[e]}) >= MaxEntries
<1>0. MaxEntries \in Nat BY ProfileCacheAssumption
<1> DEFINE later == {j \in Keys : use[j] > use[e]}
           f == [a \in 1..MaxEntries |-> list[a]]
<1>1. \A a \in 1..MaxEntries : a \in 1..Len(list) /\ list[a] \in Keys BY <1>0
<1>2. \A a \in 1..MaxEntries : use[list[a]] > use[e]
  <2> SUFFICES ASSUME NEW a \in 1..MaxEntries PROVE use[list[a]] > use[e] OBVIOUS
  <2>1. MaxEntries + 1 \in 1..Len(list) /\ a \in 1..Len(list) /\ a < MaxEntries + 1 BY <1>0
  <2>2. use[list[MaxEntries + 1]] < use[list[a]] BY <2>1 DEF Decreasing
  <2>3. use[list[a]] \in Nat /\ use[e] \in Nat BY <2>1
  <2> QED BY <2>2, <2>3
<1>3. f \in [1..MaxEntries -> later] BY <1>1, <1>2
<1>4. \A a, b \in 1..MaxEntries : f[a] = f[b] => a = b BY <1>1, InOrderOnce
<1> HIDE DEF later
<1>5. f \in Injection(1..MaxEntries, later) BY <1>3, <1>4 DEF Injection, IsInjective
<1>6. Cardinality(1..MaxEntries) = MaxEntries
  <2>1. 1 \in Int /\ MaxEntries \in Int BY <1>0
  <2>2. Cardinality(1..MaxEntries) = IF 1 > MaxEntries THEN 0 ELSE MaxEntries - 1 + 1
    BY <2>1, FS_Interval, Zenon
  <2> QED BY <1>0, <2>2
<1> HIDE DEF f
<1>7. IsFiniteSet(later) BY DEF later
<1>8. Cardinality(1..MaxEntries) <= Cardinality(later) BY <1>5, <1>7, FS_Injection
<1>9. Cardinality(later) \in Nat BY <1>7, FS_CardinalityType
<1>10. Cardinality(later) >= MaxEntries BY <1>0, <1>6, <1>8, <1>9
<1> QED BY <1>10 DEF later

-----------------------------------------------------------------------------
\* The calls keep the invariant.

LEMMA CallUse ==
  ASSUME IInv, NEW k \in Keys, calls' = calls + 1, lastUse' = [lastUse EXCEPT ![k] = calls']
  PROVE  /\ calls' \in Nat /\ lastUse' \in [Keys -> Nat] /\ \A j \in Keys : lastUse'[j] <= calls'
         /\ IsFiniteSet(Used')
BY UseCounts DEF IInv, Typed

LEMMA HitKeeps ==
  ASSUME IInv, NEW k \in Keys, Hit(k)
  PROVE  IInv'
<1>1. /\ calls' = calls + 1 /\ lastUse' = [lastUse EXCEPT ![k] = calls']
      /\ Enabled /\ k \in DOMAIN items /\ MoveToFront(k)
      /\ UNCHANGED <<clock, items, written>>
  BY DEF Hit, Call, GetHit
<1>2. /\ evictList' \in Seq(Keys) /\ Decreasing(evictList', lastUse')
      /\ ToSet(evictList') = ToSet(evictList) /\ Len(evictList') = Len(evictList)
  BY <1>1, Moved
<1>3. Typed' BY <1>1, <1>2, CallUse DEF IInv, Typed
<1>4. Fresh' BY <1>1 DEF IInv, Fresh
<1>5. Agree' BY <1>1, <1>2 DEF IInv, Agree
<1>6. OrderedByUse' BY <1>2 DEF Decreasing, OrderedByUse
<1>7. EmptyIfDisabled' BY <1>1 DEF EmptyIfDisabled, Enabled
<1>8. OnlyOldestLost'
  <2> SUFFICES ASSUME NEW q \in Keys \ DOMAIN items' PROVE Reason(q)'
    BY DEF OnlyOldestLost, Reason, Later
  <2>1. q # k /\ q \notin DOMAIN items /\ written'[q] = written[q] BY <1>1
  <2> QED BY <1>1, <2>1, ReasonStays
<1> QED BY <1>1, <1>3, <1>4, <1>5, <1>6, <1>7, <1>8, CallUse DEF IInv

LEMMA MissKeeps ==
  ASSUME IInv, NEW k \in Keys, Miss(k)
  PROVE  IInv'
<1>1. calls' = calls + 1 /\ UNCHANGED <<clock, lastUse, written>> /\ GetMiss(k)
  BY DEF Miss, Call
<1>2. calls' \in Nat /\ \A j \in Keys : lastUse'[j] <= calls' BY <1>1 DEF IInv, Typed
<1>3. IsFiniteSet(Used') BY <1>1 DEF IInv, Used
<1>4. CASE GetAbsent(k)
  <2>1. UNCHANGED <<items, evictList>> BY <1>4 DEF GetAbsent, cacheVars
  <2>2. Typed' BY <1>1, <1>2, <2>1 DEF IInv, Typed
  <2>3. Fresh' /\ Agree' /\ EmptyIfDisabled'
    BY <1>1, <2>1 DEF IInv, Fresh, Agree, EmptyIfDisabled, Enabled
  <2>4. OrderedByUse' BY <1>1, <2>1 DEF IInv, OrderedByUse
  <2>5. OnlyOldestLost' BY <1>1, <2>1 DEF IInv, OnlyOldestLost, Enabled
  <2> QED BY <1>3, <2>2, <2>3, <2>4, <2>5 DEF IInv
<1>5. CASE GetExpired(k)
  <2>1. /\ Enabled /\ k \in DOMAIN items /\ clock > items[k].expiresAt /\ RemoveElement(k)
        /\ DOMAIN items' = DOMAIN items \ {k}
        /\ \A j \in DOMAIN items' : items'[j] = items[j]
    BY <1>5 DEF GetExpired, Expired, Restrict
  <2>2. /\ evictList' \in Seq(Keys) /\ Decreasing(evictList', lastUse)
        /\ ToSet(evictList') = ToSet(evictList) \ {k} /\ Len(evictList') = Len(evictList) - 1
    BY <2>1, Dropped
  <2>3. Typed' BY <1>1, <1>2, <2>1, <2>2 DEF IInv, Typed
  <2>4. Fresh'
    <3> SUFFICES ASSUME NEW j \in DOMAIN items'
                 PROVE  /\ ~ items'[j].response.cached
                        /\ \E p, t : written'[j] = {<<p, t>>} /\ t \in Nat
                             /\ items'[j].response.payload = p /\ items'[j].expiresAt = t + Ttl
      BY DEF Fresh
    <3>1. j \in DOMAIN items /\ items'[j] = items[j] /\ written'[j] = written[j] BY <1>1, <2>1
    <3> QED BY <3>1 DEF IInv, Fresh
  <2>5. Agree'
    <3>1. Len(evictList) \in Nat /\ MaxEntries \in Nat
      BY ProfileCacheAssumption DEF IInv, Typed
    <3>2. Len(evictList') <= MaxEntries BY <2>2, <3>1 DEF IInv, Agree
    <3> QED BY <2>1, <2>2, <3>2 DEF IInv, Agree
  <2>6. OrderedByUse' BY <1>1, <2>2 DEF Decreasing, OrderedByUse
  <2>7. EmptyIfDisabled' BY <2>1 DEF EmptyIfDisabled, Enabled
  <2>8. OnlyOldestLost'
    <3> SUFFICES ASSUME NEW q \in Keys \ DOMAIN items' PROVE Reason(q)'
      BY DEF OnlyOldestLost, Reason, Later
    <3>1. CASE q = k
      <4>1. PICK p, t : written[k] = {<<p, t>>} /\ t \in Nat /\ items[k].expiresAt = t + Ttl
        BY <2>1 DEF IInv, Fresh
      <4>2. ~ (clock <= t + Ttl)
        <5>1. clock \in Nat /\ Ttl \in Nat BY ProfileCacheAssumption DEF IInv, Typed
        <5> QED BY <2>1, <4>1, <5>1
      <4>3. \A w \in written'[q] : w[2] = t BY <1>1, <3>1, <4>1
      <4> QED BY <1>1, <4>2, <4>3 DEF Reason
    <3>2. CASE q # k
      <4>1. q \notin DOMAIN items BY <2>1, <3>2
      <4> QED BY <1>1, <2>1, <4>1 DEF IInv, OnlyOldestLost, Reason, Later
    <3> QED BY <3>1, <3>2
  <2> QED BY <1>3, <2>3, <2>4, <2>5, <2>6, <2>7, <2>8 DEF IInv
<1> QED BY <1>1, <1>4, <1>5 DEF GetMiss

\* What every call of Set records.
Recorded(k, p) ==
  /\ calls' = calls + 1 /\ lastUse' = [lastUse EXCEPT ![k] = calls']
  /\ written' = [written EXCEPT ![k] = {<<p, clock>>}]
  /\ clock' = clock

LEMMA RecordedFacts ==
  ASSUME IInv, NEW k \in Keys, NEW p, Recorded(k, p)
  PROVE  /\ written'[k] = {<<p, clock>>} /\ DOMAIN written' = Keys
         /\ \A q \in Keys \ {k} : written'[q] = written[q]
         /\ clock \in Nat /\ clock' \in Nat
         /\ \A q \in Keys : \A w \in written'[q] : w[2] \in Nat
<1>1. /\ written'[k] = {<<p, clock>>} /\ DOMAIN written' = Keys
      /\ \A q \in Keys \ {k} : written'[q] = written[q]
      /\ clock \in Nat /\ clock' \in Nat
  BY DEF IInv, Typed, Recorded
<1>2. \A q \in Keys \ {k} : \A w \in written'[q] : w[2] \in Nat
  BY <1>1 DEF IInv, Typed
<1>3. \A w \in written'[k] : w[2] \in Nat BY <1>1
<1> QED BY <1>1, <1>2, <1>3

LEMMA NewEntryIsFresh ==
  ASSUME IInv, NEW p \in Payloads
  PROVE  LET e == NewEntry([payload |-> p, cached |-> FALSE])
         IN  e \in Entry /\ ~ e.response.cached /\ e.response.payload = p
             /\ e.expiresAt = clock + Ttl
<1>1. clock + Ttl \in Nat BY ProfileCacheAssumption DEF IInv, Typed
<1> QED BY <1>1 DEF NewEntry, Entry, Response

\* The entries after a Set of k: its new one, and others that were there.
LEMMA FreshAfterSet ==
  ASSUME IInv, NEW k \in Keys, NEW p \in Payloads, Recorded(k, p),
         \A j \in DOMAIN items' :
           IF j = k THEN items'[j] = NewEntry([payload |-> p, cached |-> FALSE])
                    ELSE j \in DOMAIN items /\ items'[j] = items[j]
  PROVE  Fresh' /\ (\A j \in DOMAIN items' : items'[j] \in Entry) /\ DOMAIN items' \subseteq Keys
<1>1. ASSUME NEW j \in DOMAIN items'
      PROVE  /\ items'[j] \in Entry /\ j \in Keys
             /\ ~ items'[j].response.cached
             /\ \E q, t : written'[j] = {<<q, t>>} /\ t \in Nat
                  /\ items'[j].response.payload = q /\ items'[j].expiresAt = t + Ttl
  <2>1. CASE j = k
    <3> DEFINE e == NewEntry([payload |-> p, cached |-> FALSE])
    <3>1. e \in Entry /\ ~ e.response.cached /\ e.response.payload = p
          /\ e.expiresAt = clock + Ttl
      BY NewEntryIsFresh
    <3>2. items'[j] = e BY <2>1
    <3>3. written'[j] = {<<p, clock>>} /\ clock \in Nat BY <2>1, RecordedFacts
    <3> HIDE DEF e
    <3> QED BY <2>1, <3>1, <3>2, <3>3
  <2>2. CASE j # k
    <3>1. j \in DOMAIN items /\ items'[j] = items[j] BY <2>2
    <3>2. j \in Keys BY <3>1 DEF IInv, Typed
    <3>3. written'[j] = written[j] BY <2>2, <3>2, RecordedFacts
    <3>4. items[j] \in Entry BY <3>1 DEF IInv, Typed
    <3>5. /\ ~ items[j].response.cached
          /\ \E q, t : written[j] = {<<q, t>>} /\ t \in Nat
               /\ items[j].response.payload = q /\ items[j].expiresAt = t + Ttl
      BY <3>1 DEF IInv, Fresh
    <3> QED BY <3>1, <3>2, <3>3, <3>4, <3>5
  <2> QED BY <2>1, <2>2
<1> QED BY <1>1 DEF Fresh

LEMMA SetDisabledKeeps ==
  ASSUME IInv, NEW k \in Keys, NEW p \in Payloads, Recorded(k, p), SetDisabled
  PROVE  IInv'
<1>1. ~ Enabled /\ UNCHANGED <<items, evictList>> /\ DOMAIN items = {}
  BY DEF SetDisabled, cacheVars, IInv, EmptyIfDisabled
<1>2. evictList \in Seq(Keys) /\ Len(evictList) = 0
  <2>1. evictList \in Seq(Keys) /\ ToSet(evictList) = {} BY <1>1 DEF IInv, Typed, Agree
  <2>2. ~ \E i \in DOMAIN evictList : TRUE BY <2>1 DEF ToSet
  <2> QED BY <2>1, <2>2
<1>3. Typed' BY <1>1, CallUse, RecordedFacts DEF IInv, Typed, Recorded
<1>4. Fresh' BY <1>1 DEF Fresh
<1>5. Agree' /\ EmptyIfDisabled' BY <1>1 DEF IInv, Agree, EmptyIfDisabled
<1>6. OrderedByUse' BY <1>1, <1>2 DEF OrderedByUse
<1>7. OnlyOldestLost' BY <1>1 DEF OnlyOldestLost, Enabled
<1> QED BY <1>3, <1>4, <1>5, <1>6, <1>7, CallUse DEF IInv, Recorded

LEMMA ReplaceKeeps ==
  ASSUME IInv, NEW k \in Keys, NEW p \in Payloads, Recorded(k, p),
         Replace(k, [payload |-> p, cached |-> FALSE])
  PROVE  IInv'
<1> DEFINE e == NewEntry([payload |-> p, cached |-> FALSE])
<1>1. Enabled /\ k \in DOMAIN items /\ MoveToFront(k) /\ items' = [items EXCEPT ![k] = e]
  BY DEF Replace
<1> HIDE DEF e
<1>2. DOMAIN items' = DOMAIN items /\ items'[k] = e
      /\ \A j \in DOMAIN items \ {k} : items'[j] = items[j]
  BY <1>1
<1>3. Fresh' /\ \A j \in DOMAIN items' : items'[j] \in Entry
  BY <1>2, FreshAfterSet DEF e
<1>4. /\ evictList' \in Seq(Keys) /\ Decreasing(evictList', lastUse')
      /\ ToSet(evictList') = ToSet(evictList) /\ Len(evictList') = Len(evictList)
  BY <1>1, Moved DEF Recorded
<1>5. Typed' BY <1>2, <1>3, <1>4, CallUse, RecordedFacts DEF IInv, Typed, Recorded
<1>6. Agree' BY <1>2, <1>4 DEF IInv, Agree
<1>7. OrderedByUse' BY <1>4 DEF Decreasing, OrderedByUse
<1>8. EmptyIfDisabled' BY <1>1 DEF EmptyIfDisabled, Enabled
<1>9. OnlyOldestLost'
  <2> SUFFICES ASSUME NEW q \in Keys \ DOMAIN items' PROVE Reason(q)'
    BY DEF OnlyOldestLost, Reason, Later
  <2>1. q # k /\ q \notin DOMAIN items BY <1>1, <1>2
  <2>2. written'[q] = written[q] BY <2>1, RecordedFacts
  <2> QED BY <1>1, <2>1, <2>2, ReasonStays DEF Recorded
<1> QED BY <1>3, <1>5, <1>6, <1>7, <1>8, <1>9, CallUse DEF IInv, Recorded

LEMMA InsertKeeps ==
  ASSUME IInv, NEW k \in Keys, NEW p \in Payloads, Recorded(k, p),
         Insert(k, [payload |-> p, cached |-> FALSE])
  PROVE  IInv'
<1> DEFINE e == NewEntry([payload |-> p, cached |-> FALSE])
           list == <<k>> \o evictList
<1>1. /\ Enabled /\ k \notin DOMAIN items /\ evictList' = Kept(list)
      /\ DOMAIN items' = (DOMAIN items \cup {k}) \ Evicted(list)
      /\ \A j \in DOMAIN items' : items'[j] = IF j = k THEN e ELSE items[j]
  BY DEF Insert
<1>2. Fresh' /\ (\A j \in DOMAIN items' : items'[j] \in Entry) /\ DOMAIN items' \subseteq Keys
  <2>1. \A j \in DOMAIN items' : j # k => j \in DOMAIN items BY <1>1
  <2> QED BY <1>1, <2>1, FreshAfterSet
<1> HIDE DEF e
<1>3. /\ evictList \in Seq(Keys) /\ lastUse \in [Keys -> Nat] /\ calls \in Nat
      /\ \A j \in Keys : lastUse[j] <= calls
      /\ ToSet(evictList) = DOMAIN items /\ Len(evictList) <= MaxEntries
      /\ Decreasing(evictList, lastUse) /\ MaxEntries \in Nat
  BY ProfileCacheAssumption DEF IInv, Typed, Agree, OrderedByUse, Decreasing
<1>4. /\ lastUse' \in [Keys -> Nat] /\ IsFiniteSet(Used') BY CallUse DEF Recorded
<1>5. list \in Seq(Keys) /\ Len(list) = Len(evictList) + 1 /\ ToSet(list) = DOMAIN items \cup {k}
  BY <1>3, Pushed
<1>6. Decreasing(list, lastUse')
  <2>1. lastUse' = [lastUse EXCEPT ![k] = calls + 1] BY DEF Recorded
  <2>2. calls + 1 \in Nat /\ \A j \in Keys : lastUse[j] < calls + 1 BY <1>3
  <2>3. k \notin ToSet(evictList) BY <1>1, <1>3
  <2> QED BY <1>3, <2>1, <2>2, <2>3, PushedInOrder
<1> HIDE DEF list
<1>7. Len(list) <= MaxEntries + 1
  <2>1. Len(evictList) \in Nat BY <1>3
  <2> QED BY <1>3, <1>5, <2>1
<1>8. /\ evictList' \in Seq(Keys) /\ Decreasing(evictList', lastUse')
      /\ ToSet(evictList') = ToSet(list) \ Evicted(list) /\ Len(evictList') <= MaxEntries
      /\ \A x \in Evicted(list) : Len(list) = MaxEntries + 1 /\ x = list[MaxEntries + 1]
  BY <1>1, <1>4, <1>5, <1>6, <1>7, KeptOrShortened
<1>9. Typed' BY <1>2, <1>8, CallUse, RecordedFacts DEF IInv, Typed, Recorded
<1>10. Agree' BY <1>1, <1>5, <1>8 DEF Agree
<1>11. OrderedByUse' BY <1>8 DEF Decreasing, OrderedByUse
<1>12. EmptyIfDisabled' BY <1>1 DEF EmptyIfDisabled, Enabled
<1>13. OnlyOldestLost'
  <2> SUFFICES ASSUME NEW q \in Keys \ DOMAIN items' PROVE Reason(q)'
    BY DEF OnlyOldestLost, Reason, Later
  <2>1. CASE q \in Evicted(list)
    <3>1. Len(list) = MaxEntries + 1 /\ q = list[MaxEntries + 1] BY <1>8, <2>1
    <3>2. IsFiniteSet({j \in Keys : lastUse'[j] > lastUse'[q]})
      BY <1>4, LaterIsFinite DEF Used
    <3>3. Cardinality({j \in Keys : lastUse'[j] > lastUse'[q]}) >= MaxEntries
      BY <1>4, <1>5, <1>6, <3>1, <3>2, DisplacedByLater
    <3> QED BY <3>3 DEF Reason, Later
  <2>2. CASE q \notin Evicted(list)
    <3>1. q # k /\ q \notin DOMAIN items BY <1>1, <2>2
    <3>2. written'[q] = written[q] BY <3>1, RecordedFacts
    <3> QED BY <1>1, <3>1, <3>2, ReasonStays DEF Recorded
  <2> QED BY <2>1, <2>2
<1> QED BY <1>2, <1>4, <1>9, <1>10, <1>11, <1>12, <1>13 DEF IInv

LEMMA WriteKeeps ==
  ASSUME IInv, NEW k \in Keys, NEW p \in Payloads, Write(k, p)
  PROVE  IInv'
<1>1. Recorded(k, p) /\ Set(k, [payload |-> p, cached |-> FALSE])
  BY DEF Write, Call, Recorded
<1> QED BY <1>1, SetDisabledKeeps, ReplaceKeeps, InsertKeeps DEF Set

LEMMA TickKeeps ==
  ASSUME IInv, Tick, UNCHANGED <<calls, lastUse, written, outcome>>
  PROVE  IInv'
<1>1. clock' = clock + 1 /\ UNCHANGED <<items, evictList, calls, lastUse, written>>
  BY DEF Tick, cacheVars
<1>2. Typed' BY <1>1 DEF IInv, Typed
<1>3. Fresh' /\ Agree' /\ EmptyIfDisabled' /\ IsFiniteSet(Used')
  BY <1>1 DEF IInv, Fresh, Agree, EmptyIfDisabled, Enabled, Used
<1>4. OrderedByUse' BY <1>1 DEF IInv, OrderedByUse
<1>5. OnlyOldestLost'
  <2> SUFFICES ASSUME Enabled, NEW q \in Keys \ DOMAIN items PROVE Reason(q)'
    BY <1>1 DEF OnlyOldestLost, Reason, Later, Enabled
  <2>1. Reason(q) BY DEF IInv, OnlyOldestLost, Reason, Later
  <2>2. ASSUME NEW w \in written[q], clock' <= w[2] + Ttl PROVE clock <= w[2] + Ttl
    <3>1. clock \in Nat /\ w[2] \in Nat /\ Ttl \in Nat
      BY ProfileCacheAssumption DEF IInv, Typed
    <3> QED BY <1>1, <2>2, <3>1
  <2>3. Later(q)' = Later(q) BY <1>1 DEF Later
  <2> QED BY <1>1, <2>1, <2>2, <2>3 DEF Reason
<1> QED BY <1>2, <1>3, <1>4, <1>5 DEF IInv

-----------------------------------------------------------------------------
LEMMA InitInv ==
  ASSUME Init
  PROVE  IInv
<1>1. /\ clock = 0 /\ DOMAIN items = {} /\ evictList = <<>> /\ calls = 0
      /\ lastUse = [k \in Keys |-> 0] /\ written = [k \in Keys |-> {}]
  BY DEF Init, CacheInit
<1>2. Typed BY <1>1 DEF Typed
<1>3. Fresh /\ EmptyIfDisabled BY <1>1 DEF Fresh, EmptyIfDisabled
<1>4. Agree
  <2>1. ToSet(evictList) = {} BY <1>1 DEF ToSet
  <2>2. Len(evictList) = 0 BY <1>1
  <2> QED BY <1>1, <2>1, <2>2, ProfileCacheAssumption DEF Agree
<1>5. OrderedByUse BY <1>1 DEF OrderedByUse
<1>6. IsFiniteSet(Used)
  <2>1. Used = {} BY <1>1 DEF Used
  <2> QED BY <2>1, FS_EmptySet
<1>7. OnlyOldestLost BY <1>1 DEF OnlyOldestLost
<1> QED BY <1>2, <1>3, <1>4, <1>5, <1>6, <1>7 DEF IInv

LEMMA NextInv ==
  ASSUME IInv, [Next]_vars
  PROVE  IInv'
<1>1. CASE UNCHANGED vars
  <2>1. UNCHANGED <<clock, items, evictList, calls, lastUse, written>> BY <1>1 DEF vars
  <2>2. Typed' BY <2>1 DEF IInv, Typed
  <2>3. Fresh' /\ Agree' /\ EmptyIfDisabled' /\ IsFiniteSet(Used')
    BY <2>1 DEF IInv, Fresh, Agree, EmptyIfDisabled, Enabled, Used
  <2>4. OrderedByUse' BY <2>1 DEF IInv, OrderedByUse
  <2>5. OnlyOldestLost' BY <2>1 DEF IInv, OnlyOldestLost, Enabled
  <2> QED BY <2>2, <2>3, <2>4, <2>5 DEF IInv
<1> QED BY <1>1, TickKeeps, HitKeeps, MissKeeps, WriteKeeps DEF Next, Done

THEOREM Invariance == Spec => []IInv
<1>1. Init => IInv BY InitInv
<1>2. IInv /\ [Next]_vars => IInv' BY NextInv
<1> QED BY <1>1, <1>2, PTL DEF Spec

-----------------------------------------------------------------------------
\* Map and list of the cache describe the same entries after any sequence of
\* calls, and never more than MaxEntries (Get, Set, removeElement,
\* removeOldest).
THEOREM MapAndListAgree == Spec => []ListMatchesItems
<1>1. IInv => ListMatchesItems
  <2> SUFFICES ASSUME IInv PROVE IsInjective(evictList)
    BY DEF IInv, Agree, ListMatchesItems
  <2>1. evictList \in Seq(Keys) /\ lastUse \in [Keys -> Nat] BY DEF IInv, Typed
  <2>2. Decreasing(evictList, lastUse) BY DEF IInv, OrderedByUse, Decreasing
  <2>3. DOMAIN evictList = 1..Len(evictList) BY <2>1
  <2> QED BY <2>1, <2>2, <2>3, InOrderOnce DEF IsInjective
<1> QED BY <1>1, Invariance, PTL

\* The list is in order of last use, so that removeOldest takes the entry that
\* nobody used for the longest time (MoveToFront, PushFront).
THEOREM OrderIsThatOfUse == Spec => []OrderedByUse
<1>1. IInv => OrderedByUse BY DEF IInv
<1> QED BY <1>1, Invariance, PTL

\* A live value is lost only to MaxEntries keys that were all used after it
\* (the eviction loop of Set).
THEOREM LossesAreDue == Spec => []OnlyOldestLost
<1>1. IInv => OnlyOldestLost BY DEF IInv
<1> QED BY <1>1, Invariance, PTL

\* A hit is the payload of the last Set, within its lifetime, and the flag it
\* carries never reaches the entry (Get's copy).
THEOREM HitsAreLatest == Spec => HitIsLatest
<1> DEFINE Act == calls' > calls /\ outcome'.kind = "hit" =>
       /\ \E w \in written[outcome'.key] :
            outcome'.response.payload = w[1] /\ clock <= w[2] + Ttl
       /\ outcome'.response.cached
       /\ \A k \in DOMAIN items' : ~ items'[k].response.cached
<1>1. IInv /\ [Next]_vars => [Act]_vars
  <2> SUFFICES ASSUME IInv, Next, calls' > calls, outcome'.kind = "hit"
               PROVE  /\ \E w \in written[outcome'.key] :
                           outcome'.response.payload = w[1] /\ clock <= w[2] + Ttl
                      /\ outcome'.response.cached
                      /\ \A k \in DOMAIN items' : ~ items'[k].response.cached
    OBVIOUS
  <2>0. IInv' BY NextInv
  <2>1. PICK k \in Keys : Hit(k)
    <3>1. ~ (calls > calls) BY DEF IInv, Typed
    <3>2. ~ Done /\ ~ (Tick /\ UNCHANGED <<calls, lastUse, written, outcome>>)
      BY <3>1 DEF Done, vars
    <3>3. \A k \in Keys : ~ Miss(k) BY DEF Miss
    <3>4. \A k \in Keys, p \in Payloads : ~ Write(k, p) BY DEF Write
    <3> QED BY <3>2, <3>3, <3>4 DEF Next
  <2>2. k \in DOMAIN items /\ ~ (clock > items[k].expiresAt)
        /\ outcome' = [kind |-> "hit", key |-> k, response |-> Found(k)]
    BY <2>1 DEF Hit, GetHit, Expired
  <2>3. outcome'.key = k /\ outcome'.response = Found(k) BY <2>2
  <2>4. items[k] \in Entry BY <2>2 DEF IInv, Typed
  <2>5. Found(k).cached /\ Found(k).payload = items[k].response.payload
    BY <2>4 DEF Found, AsCached, Entry, Response
  <2>6. PICK p, t : written[k] = {<<p, t>>} /\ t \in Nat
                    /\ items[k].response.payload = p /\ items[k].expiresAt = t + Ttl
    BY <2>2 DEF IInv, Fresh
  <2>7. clock <= t + Ttl
    <3>1. clock \in Nat /\ Ttl \in Nat BY ProfileCacheAssumption DEF IInv, Typed
    <3> QED BY <2>2, <2>6, <3>1
  <2>8. \A j \in DOMAIN items' : ~ items'[j].response.cached BY <2>0 DEF IInv, Fresh
  <2> QED BY <2>3, <2>5, <2>6, <2>7, <2>8
<1> QED BY <1>1, Invariance, PTL DEF Spec, HitIsLatest

-----------------------------------------------------------------------------
\* The cache's variables and its history keep their types (TypeOK): the map is
\* one of entries and the list one of keys whatever calls meet.
THEOREM TypeCorrect == Spec => []TypeOK
<1>1. Init => TypeOK
  <2> SUFFICES ASSUME Init PROVE TypeOK OBVIOUS
  <2>1. /\ clock = 0 /\ DOMAIN items = {} /\ evictList = <<>> /\ calls = 0
        /\ lastUse = [k \in Keys |-> 0] /\ written = [k \in Keys |-> {}]
        /\ outcome.kind = "none"
    BY DEF Init, CacheInit, NoOutcome
  <2>2. Horizon \in Nat /\ MaxCalls \in Nat BY ProfileCacheAssumption, CacheUseAssumption
  <2>3. CacheTypeOK BY <2>1, <2>2 DEF CacheTypeOK
  <2> QED BY <2>1, <2>2, <2>3 DEF TypeOK
<1>2. IInv /\ TypeOK /\ [Next]_vars => TypeOK'
  <2> SUFFICES ASSUME IInv, TypeOK, [Next]_vars PROVE TypeOK' OBVIOUS
  <2>0. Typed' BY NextInv DEF IInv
  <2>1. Horizon \in Nat /\ MaxCalls \in Nat /\ clock \in 0..Horizon /\ calls \in 0..MaxCalls
    BY ProfileCacheAssumption, CacheUseAssumption DEF TypeOK, CacheTypeOK
  <2>2. clock' \in 0..Horizon /\ calls' \in 0..MaxCalls
    <3>1. \/ clock' = clock /\ calls' = calls
          \/ clock < Horizon /\ clock' = clock + 1 /\ calls' = calls
          \/ calls < MaxCalls /\ calls' = calls + 1 /\ clock' = clock
      BY DEF Next, vars, Done, Tick, Hit, Miss, Write, Call
    <3> QED BY <2>1, <3>1
  <2>3. CacheTypeOK' BY <2>0, <2>2 DEF Typed, CacheTypeOK
  <2>4. lastUse' \in [Keys -> 0..MaxCalls]
    <3>1. lastUse' \in [Keys -> Nat] /\ \A k \in Keys : lastUse'[k] <= calls'
      BY <2>0 DEF Typed
    <3> QED BY <2>1, <2>2, <3>1
  <2>5. \A k \in Keys :
          written'[k] = {} \/ \E p \in Payloads, t \in 0..Horizon : written'[k] = {<<p, t>>}
    <3>1. CASE UNCHANGED written BY <3>1 DEF TypeOK
    <3>2. ASSUME NEW k \in Keys, NEW p \in Payloads, Write(k, p)
          PROVE  \A q \in Keys :
                   written'[q] = {} \/ \E r \in Payloads, t \in 0..Horizon : written'[q] = {<<r, t>>}
      <4>1. Recorded(k, p) BY <3>2 DEF Write, Call, Recorded
      <4>2. written'[k] = {<<p, clock>>} /\ \A q \in Keys \ {k} : written'[q] = written[q]
        BY <4>1, RecordedFacts
      <4>3. SUFFICES ASSUME NEW q \in Keys
                     PROVE  written'[q] = {} \/ \E r \in Payloads, t \in 0..Horizon :
                              written'[q] = {<<r, t>>}
        OBVIOUS
      <4>4. CASE q = k BY <2>1, <4>2, <4>4
      <4>5. CASE q # k
        <5>1. written'[q] = written[q] BY <4>2, <4>5
        <5> QED BY <5>1 DEF TypeOK
      <4> QED BY <4>4, <4>5
    <3>3. UNCHANGED written \/ \E k \in Keys, p \in Payloads : Write(k, p)
      BY DEF Next, vars, Done, Hit, Miss
    <3> QED BY <3>1, <3>2, <3>3
  <2>6. outcome'.kind \in {"none", "set", "miss", "hit"}
    <3>1. CASE outcome' = outcome BY <3>1 DEF TypeOK
    <3>2. ASSUME NEW k \in Keys, Hit(k) PROVE outcome'.kind = "hit" BY <3>2 DEF Hit
    <3>3. ASSUME NEW k \in Keys, Miss(k) PROVE outcome'.kind = "miss" BY <3>3 DEF Miss
    <3>4. ASSUME NEW k \in Keys, NEW p \in Payloads, Write(k, p) PROVE outcome'.kind = "set"
      BY <3>4 DEF Write
    <3>5. \/ outcome' = outcome
          \/ \E k \in Keys : Hit(k) \/ Miss(k) \/ \E p \in Payloads : Write(k, p)
      BY DEF Next, vars, Done
    <3> QED BY <3>1, <3>2, <3>3, <3>4, <3>5
  <2> QED BY <2>2, <2>3, <2>4, <2>5, <2>6 DEF TypeOK
<1> QED BY <1>1, <1>2, Invariance, PTL DEF Spec
=============================================================================
