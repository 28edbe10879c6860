--------------------------- MODULE DeploymentProofs ---------------------------
(***************************************************************************)
(* What GetProfile guarantees for any number of requests, identifiers and  *)
(* cache entries, any lifetime and any failures of the upstream service;   *)
(* then that the composition implements both of its components, so that    *)
(* what is proved of each holds of the process; and that a refusal heals   *)
(* for every number of requests, rotations and denials.                    *)
(*                                                                         *)
(* The argument for GetProfile.  A request that runs fn is the one the     *)
(* group's map names for its key (LeadersOwn below), so two requests that  *)
(* run fn at the same time have two keys: fetches of one key exclude each  *)
(* other, and nobody but the leader of a key's flight can fill the key's   *)
(* cache entry.                                                            *)
(*                                                                         *)
(* The argument for the composition.  The components share no variable but *)
(* the clock, and every step is a step of each or leaves it alone.         *)
(* Whatever a request got from the provider is at least as recent as the   *)
(* last Clear when it got it, hence as the last Clear when it was accepted.*)
(***************************************************************************)
EXTENDS Deployment, TLAPS

\* GetProfile.

\* What is known of a request at each stage of GetProfile.
StageFacts ==
  \A r \in Requests :
    /\ At(r, "idle") => ask[r] = None /\ reply[r] = None
    /\ pc[r] \in {"idle", "lookup", "join", "wait", "recheck", "fetch"} => result[r] = None
    /\ ask[r] = None => result[r] = None
    /\ pc[r] \notin {"idle", "done"} => ask[r] \in Payload /\ reply[r] = None
    /\ At(r, "wait") => leader[r] \in Requests
    /\ At(r, "fill") => result[r] \in Response
    /\ At(r, "finish") => result[r] # None
    /\ ask[r] = None => reply[r] \in Refusal \cup {None}

\* A request that runs fn is the one the group's map names for its key.
LeadersOwn ==
  \A r \in Requests : pc[r] \in Leading =>
    leader[r] = r /\ flight[KeyOf(r)] = r

-----------------------------------------------------------------------------
\* A response is no error.
LEMMA ResponsesAreNoErrors ==
  ASSUME NEW x \in Response
  PROVE  x \notin Failure \cup Refusal
BY DEF Response, Failure, Refusal

\* Get changes no entry it keeps, adds none, and hands out the stored payload.
LEMMA GetKeeps ==
  ASSUME CacheTypeOK, NEW k, GetHit(k) \/ GetMiss(k), clock' = clock
  PROVE  /\ CacheTypeOK'
         /\ DOMAIN items' \subseteq DOMAIN items
         /\ \A j \in DOMAIN items' : items'[j] = items[j]
<1>1. CASE GetHit(k)
  BY <1>1 DEF GetHit, MoveToFront, RemoveAt, CacheTypeOK
<1>2. CASE GetExpired(k)
  BY <1>2 DEF GetExpired, RemoveElement, RemoveAt, Restrict, CacheTypeOK
<1>3. CASE GetAbsent(k)
  BY <1>3 DEF GetAbsent, cacheVars, CacheTypeOK
<1> QED BY <1>1, <1>2, <1>3 DEF GetMiss

\* A hit hands out what the entry holds, flagged as cached.
LEMMA FoundIsStored ==
  ASSUME CacheTypeOK, NEW k, GetHit(k)
  PROVE  /\ k \in DOMAIN items
         /\ Found(k) \in Response
         /\ Found(k).payload = items[k].response.payload
         /\ Found(k).cached
BY DEF CacheTypeOK, GetHit, Found, AsCached, Entry, Response

\* Set changes no entry but its own, which gets the response.
LEMMA SetKeeps ==
  ASSUME CacheTypeOK, NEW k \in Keys, NEW response \in Response,
         Set(k, response), clock' = clock
  PROVE  /\ CacheTypeOK'
         /\ \A j \in DOMAIN items' :
              \/ j = k /\ items'[j].response = response
              \/ j \in DOMAIN items /\ items'[j] = items[j]
<1> USE ProfileCacheAssumption
<1>0. NewEntry(response) \in Entry /\ NewEntry(response).response = response
  BY DEF CacheTypeOK, NewEntry, Entry
<1>1. CASE SetDisabled
  BY <1>1 DEF SetDisabled, cacheVars, CacheTypeOK
<1>2. CASE Replace(k, response)
  <2>1. items' = [items EXCEPT ![k] = NewEntry(response)]
    BY <1>2 DEF Replace
  <2>2. evictList' \in Seq(Keys)
    BY <1>2 DEF Replace, MoveToFront, RemoveAt, CacheTypeOK
  <2> HIDE DEF NewEntry
  <2>3. CacheTypeOK'
    BY <1>0, <2>1, <2>2 DEF CacheTypeOK
  <2> QED BY <1>0, <2>1, <2>3
<1>3. CASE Insert(k, response)
  <2> DEFINE list == <<k>> \o evictList
  <2>1. list \in Seq(Keys)
    BY DEF CacheTypeOK
  <2>2. Kept(list) \in Seq(Keys)
    BY <2>1 DEF Kept
  <2>3. /\ items' = [j \in (DOMAIN items \cup {k}) \ Evicted(list) |->
                       IF j = k THEN NewEntry(response) ELSE items[j]]
        /\ evictList' = Kept(list)
    BY <1>3 DEF Insert
  <2> HIDE DEF list
  <2>4. CacheTypeOK'
    BY <1>0, <2>2, <2>3 DEF CacheTypeOK
  <2>5. ASSUME NEW j \in DOMAIN items'
        PROVE  \/ j = k /\ items'[j].response = response
               \/ j \in DOMAIN items /\ items'[j] = items[j]
    <3>1. j \in DOMAIN items \cup {k}
          /\ items'[j] = IF j = k THEN NewEntry(response) ELSE items[j]
      BY <2>3
    <3> HIDE DEF NewEntry
    <3> QED BY <1>0, <3>1
  <2> QED BY <2>4, <2>5
<1> QED BY <1>1, <1>2, <1>3 DEF Set

-----------------------------------------------------------------------------
\* Every step keeps the type of the state and what is known of a request at
\* each stage of GetProfile.
LEMMA TypingAndStages == Spec => [](TypeOK /\ StageFacts)
<1> USE ProfileServiceAssumption, ProfileCacheAssumption
<1>1. Init => TypeOK /\ StageFacts
  BY DEF Init, CacheInit, TypeOK, CacheTypeOK, StageFacts, At, Result, Failure
<1>2. TypeOK /\ StageFacts /\ [Next]_vars => TypeOK' /\ StageFacts'
  <2> SUFFICES ASSUME TypeOK, StageFacts, [Next]_vars PROVE TypeOK' /\ StageFacts'
    OBVIOUS
  <2> USE DEF At, Go, Answer
  <2>1. CASE TimePasses
    BY <2>1 DEF TimePasses, Tick, cacheVars, requestVars, TypeOK, CacheTypeOK, StageFacts
  <2>2. ASSUME NEW r \in Requests, Refuse(r) PROVE TypeOK' /\ StageFacts'
    <3>11. TypeOK'
      BY <2>2 DEF Refuse, cacheVars, Refusal, Leading, TypeOK, CacheTypeOK
    <3>12. StageFacts'
      BY <2>2 DEF Refuse, cacheVars, Refusal, Leading, TypeOK, StageFacts
    <3> QED BY <3>11, <3>12
  <2>3. ASSUME NEW r \in Requests, NEW id \in Ids, NEW contact \in BOOLEAN, Accept(r, id, contact)
        PROVE  TypeOK' /\ StageFacts'
    BY <2>3 DEF Accept, cacheVars, TypeOK, CacheTypeOK, StageFacts, Payload, Leading
  <2>4. ASSUME NEW r \in Requests, LookupHit(r) PROVE TypeOK' /\ StageFacts'
    <3>1. CacheTypeOK' /\ Found(KeyOf(r)) \in Response
      BY <2>4, GetKeeps, FoundIsStored DEF LookupHit, TypeOK
    <3>11. TypeOK'
      BY <2>4, <3>1 DEF LookupHit, Result, Leading, TypeOK, CacheTypeOK
    <3>12. StageFacts'
      BY <2>4, <3>1 DEF LookupHit, Result, Leading, TypeOK, StageFacts
    <3> QED BY <3>11, <3>12
  <2>5. ASSUME NEW r \in Requests, LookupMiss(r) PROVE TypeOK' /\ StageFacts'
    <3>1. CacheTypeOK'
      BY <2>5, GetKeeps DEF LookupMiss, TypeOK
    <3>11. TypeOK'
      BY <2>5, <3>1 DEF LookupMiss, Leading, TypeOK, CacheTypeOK
    <3>12. StageFacts'
      BY <2>5, <3>1 DEF LookupMiss, Leading, TypeOK, StageFacts
    <3> QED BY <3>11, <3>12
  <2>6. ASSUME NEW r \in Requests, Lead(r) PROVE TypeOK' /\ StageFacts'
    BY <2>6 DEF Lead, cacheVars, TypeOK, CacheTypeOK, StageFacts, Leading
  <2>7. ASSUME NEW r \in Requests, Follow(r) PROVE TypeOK' /\ StageFacts'
    <3>1. KeyOf(r) \in Key
      BY <2>7 DEF Follow, StageFacts, KeyOf, KeyIn, CacheKey, Payload, Key
    <3>2. flight[KeyOf(r)] \in Requests
      BY <2>7, <3>1 DEF Follow, TypeOK
    <3> QED BY <2>7, <3>2 DEF Follow, cacheVars, TypeOK, CacheTypeOK, StageFacts, Leading
  <2>8. ASSUME NEW r \in Requests, RecheckHit(r) PROVE TypeOK' /\ StageFacts'
    <3>1. CacheTypeOK' /\ Found(KeyOf(r)) \in Response
      BY <2>8, GetKeeps, FoundIsStored DEF RecheckHit, TypeOK
    <3> QED BY <2>8, <3>1 DEF RecheckHit, TypeOK, StageFacts, Result, Leading
  <2>9. ASSUME NEW r \in Requests, RecheckMiss(r) PROVE TypeOK' /\ StageFacts'
    BY <2>9, GetKeeps DEF RecheckMiss, TypeOK, StageFacts, Leading
  <2>10. ASSUME NEW r \in Requests, FetchOk(r) PROVE TypeOK' /\ StageFacts'
    BY <2>10 DEF FetchOk, cacheVars, TypeOK, CacheTypeOK, StageFacts, Leading, Result, Response, Payload
  <2>11. ASSUME NEW r \in Requests, NEW e \in Failures, FetchFail(r, e) PROVE TypeOK' /\ StageFacts'
    BY <2>11 DEF FetchFail, cacheVars, TypeOK, CacheTypeOK, StageFacts, Leading, Result, Failure
  <2>12. ASSUME NEW r \in Requests, Fill(r) PROVE TypeOK' /\ StageFacts'
    <3>1. KeyOf(r) \in Keys /\ result[r] \in Response
      BY <2>12 DEF Fill, StageFacts, KeyOf, KeyIn, CacheKey, Payload, Key
    <3> QED BY <2>12, <3>1, SetKeeps DEF Fill, TypeOK, StageFacts, Leading
  <2>13. ASSUME NEW r \in Requests, Finish(r) PROVE TypeOK' /\ StageFacts'
    BY <2>13 DEF Finish, cacheVars, TypeOK, CacheTypeOK, StageFacts, Leading
  <2>14. ASSUME NEW r \in Requests, WakeUp(r) PROVE TypeOK' /\ StageFacts'
    BY <2>14 DEF WakeUp, cacheVars, TypeOK, CacheTypeOK, StageFacts, Leading
  <2>15. CASE UNCHANGED vars
    BY <2>15 DEF vars, cacheVars, TypeOK, CacheTypeOK, StageFacts
  <2> QED
    BY <2>1, <2>2, <2>3, <2>4, <2>5, <2>6, <2>7, <2>8, <2>9, <2>10, <2>11, <2>12, <2>13, <2>14,
       <2>15 DEF Next, Step, AllAnswered
<1> QED BY <1>1, <1>2, PTL DEF Spec

\* The service's state keeps its type (service.go, GetProfile).
THEOREM TypeCorrect == Spec => []TypeOK
BY TypingAndStages, PTL

-----------------------------------------------------------------------------
\* The key of a request stays what it is once it was accepted.
LEMMA KeysInKey ==
  ASSUME NEW r \in Requests, ask[r] \in Payload
  PROVE  KeyOf(r) \in Key /\ KeyOf(r).id = ask[r].id /\ KeyOf(r).contact = ask[r].contact
BY DEF KeyOf, KeyIn, CacheKey, Payload, Key

\* The group's map and the stages of the requests agree.
LEMMA Flights == Spec => [](LeadersOwn /\ FlightsAreLive)
<1> USE ProfileServiceAssumption DEF KeyOf
<1>1. Init => LeadersOwn /\ FlightsAreLive
  BY DEF Init, LeadersOwn, FlightsAreLive, Leading, At
<1>2. TypeOK /\ StageFacts /\ LeadersOwn /\ FlightsAreLive /\ [Next]_vars
        => LeadersOwn' /\ FlightsAreLive'
  <2> SUFFICES ASSUME TypeOK, StageFacts, LeadersOwn, FlightsAreLive, [Next]_vars
               PROVE  LeadersOwn' /\ FlightsAreLive'
    OBVIOUS
  <2>0. \A r \in Requests : pc[r] \notin {"idle", "done"} => KeyIn(ask[r]) \in Key
    BY KeysInKey DEF StageFacts
  <2>1. CASE UNCHANGED <<pc, ask, flight, leader, result>>
    BY <2>1 DEF LeadersOwn, FlightsAreLive, At
  \* A step of r that starts, joins or ends no flight and leaves r in the
  \* same half of it, or outside.
  <2>2. ASSUME NEW r \in Requests, NEW stage,
               pc' = [pc EXCEPT ![r] = stage],
               UNCHANGED <<flight, leader>>,
               ask' = ask \/ (At(r, "idle") /\ \A s \in Requests \ {r} : ask'[s] = ask[s]),
               \A s \in Requests \ {r} : result'[s] = result[s],
               \/ pc[r] \in Leading /\ stage \in Leading
               \/ At(r, "idle") /\ stage = "lookup"
               \/ At(r, "lookup") /\ stage \in {"join", "done"}
               \/ At(r, "idle") /\ stage = "done"
               \/ At(r, "wait") /\ stage = "done"
        PROVE  LeadersOwn' /\ FlightsAreLive'
    <3>1. stage # "wait" /\ (stage \in Leading => pc[r] \in Leading)
          /\ (pc[r] \in Leading => stage \in Leading) /\ ~ At(r, "done")
      BY <2>2 DEF Leading, At
    <3>2. pc'[r] = stage /\ \A s \in Requests \ {r} : pc'[s] = pc[s]
      BY <2>2 DEF TypeOK
    <3>3. \A s \in Requests : (s # r \/ ~ At(r, "idle")) => KeyIn(ask'[s]) = KeyIn(ask[s])
      BY <2>2
    <3>4. LeadersOwn'
      <4>1. \A s \in Requests : pc'[s] \in Leading => pc[s] \in Leading
        BY <3>1, <3>2
      <4>2. \A s \in Requests : pc[s] \in Leading => KeyIn(ask'[s]) = KeyIn(ask[s])
        BY <3>3 DEF At, Leading
      <4> QED BY <2>2, <4>1, <4>2 DEF LeadersOwn
    <3>5. \A k \in Key : flight'[k] # None => pc'[flight'[k]] \in Leading /\ KeyIn(ask'[flight'[k]]) = k
      <4> SUFFICES ASSUME NEW k \in Key, flight[k] # None
                   PROVE  pc'[flight[k]] \in Leading /\ KeyIn(ask'[flight[k]]) = k
        BY <2>2
      <4>1. flight[k] \in Requests /\ pc[flight[k]] \in Leading /\ KeyIn(ask[flight[k]]) = k
        BY DEF FlightsAreLive, TypeOK
      <4> QED BY <4>1, <3>1, <3>2, <3>3 DEF At, Leading
    <3>6. ASSUME NEW s \in Requests, pc'[s] = "wait"
          PROVE  /\ KeyIn(ask'[leader'[s]]) = KeyIn(ask'[s])
                 /\ \/ flight'[KeyIn(ask'[s])] = leader'[s]
                    \/ pc'[leader'[s]] = "done" /\ result'[leader'[s]] # None
      <4>1. s # r /\ At(s, "wait") /\ leader[s] \in Requests
        BY <3>1, <3>2, <3>6 DEF At, StageFacts
      <4>2. KeyIn(ask[leader[s]]) = KeyIn(ask[s]) /\ KeyIn(ask[s]) \in Key
            /\ \/ flight[KeyIn(ask[s])] = leader[s]
               \/ At(leader[s], "done") /\ result[leader[s]] # None
        BY <4>1, <2>0 DEF FlightsAreLive, At
      <4>3. ~ At(leader[s], "idle")
        BY <4>1, <4>2 DEF FlightsAreLive, At, Leading
      <4>4. KeyIn(ask'[leader[s]]) = KeyIn(ask[leader[s]]) /\ KeyIn(ask'[s]) = KeyIn(ask[s])
        BY <3>3, <4>1, <4>3
      <4>5. At(leader[s], "done") => leader[s] # r /\ pc'[leader[s]] = "done"
                                     /\ result'[leader[s]] = result[leader[s]]
        BY <2>2, <3>1, <3>2, <4>1 DEF At
      <4> QED BY <2>2, <4>2, <4>4, <4>5
    <3> QED BY <3>4, <3>5, <3>6 DEF FlightsAreLive, At
  <2>3. ASSUME NEW r \in Requests, Lead(r) PROVE LeadersOwn' /\ FlightsAreLive'
    <3>1. /\ pc' = [pc EXCEPT ![r] = "recheck"] /\ pc[r] = "join"
          /\ flight' = [flight EXCEPT ![KeyIn(ask[r])] = r] /\ flight[KeyIn(ask[r])] = None
          /\ leader' = [leader EXCEPT ![r] = r]
          /\ ask' = ask /\ result' = result /\ KeyIn(ask[r]) \in Key
      BY <2>3, <2>0 DEF Lead, At, Go
    <3>2. \A s \in Requests : KeyIn(ask'[s]) = KeyIn(ask[s])
      BY <3>1 
    <3>3. LeadersOwn'
      BY <3>1, <3>2, <2>0 DEF LeadersOwn, TypeOK, Leading
    <3>4. \A k \in Key : flight'[k] # None => pc'[flight'[k]] \in Leading /\ KeyIn(ask'[flight'[k]]) = k
      BY <3>1, <3>2 DEF FlightsAreLive, TypeOK, Leading
    <3>5. ASSUME NEW s \in Requests, pc'[s] = "wait"
          PROVE  /\ KeyIn(ask'[leader'[s]]) = KeyIn(ask'[s])
                 /\ \/ flight'[KeyIn(ask'[s])] = leader'[s]
                    \/ pc'[leader'[s]] = "done" /\ result'[leader'[s]] # None
      <4>1. s # r /\ At(s, "wait") /\ leader[s] \in Requests /\ leader'[s] = leader[s]
        BY <3>1, <3>5 DEF At, StageFacts, TypeOK
      <4>2. KeyIn(ask[leader[s]]) = KeyIn(ask[s]) /\ KeyIn(ask[s]) \in Key
            /\ \/ flight[KeyIn(ask[s])] = leader[s]
               \/ At(leader[s], "done") /\ result[leader[s]] # None
        BY <4>1, <2>0 DEF FlightsAreLive, At
      <4> QED BY <3>1, <3>2, <4>1, <4>2, None \notin Requests DEF TypeOK, At
    <3> QED BY <3>3, <3>4, <3>5 DEF FlightsAreLive, At
  <2>4. ASSUME NEW r \in Requests, Follow(r) PROVE LeadersOwn' /\ FlightsAreLive'
    <3>1. /\ pc' = [pc EXCEPT ![r] = "wait"] /\ pc[r] = "join"
          /\ leader' = [leader EXCEPT ![r] = flight[KeyIn(ask[r])]] /\ flight[KeyIn(ask[r])] \in Requests
          /\ flight' = flight /\ ask' = ask /\ result' = result /\ KeyIn(ask[r]) \in Key
      BY <2>4, <2>0 DEF Follow, At, Go, TypeOK
    <3>2. \A s \in Requests : KeyIn(ask'[s]) = KeyIn(ask[s])
      BY <3>1 
    <3>3. LeadersOwn'
      BY <3>1, <3>2 DEF LeadersOwn, TypeOK, Leading
    <3>4. \A k \in Key : flight'[k] # None => pc'[flight'[k]] \in Leading /\ KeyIn(ask'[flight'[k]]) = k
      BY <3>1, <3>2 DEF FlightsAreLive, TypeOK, Leading
    <3>5. ASSUME NEW s \in Requests, pc'[s] = "wait"
          PROVE  /\ KeyIn(ask'[leader'[s]]) = KeyIn(ask'[s])
                 /\ \/ flight'[KeyIn(ask'[s])] = leader'[s]
                    \/ pc'[leader'[s]] = "done" /\ result'[leader'[s]] # None
      <4>1. CASE s = r
        BY <4>1, <3>1, <3>2, None \notin Requests DEF FlightsAreLive, TypeOK
      <4>2. CASE s # r
        <5>1. At(s, "wait") /\ leader[s] \in Requests /\ leader'[s] = leader[s]
          BY <4>2, <3>1, <3>5 DEF At, StageFacts, TypeOK
        <5>2. KeyIn(ask[leader[s]]) = KeyIn(ask[s])
              /\ \/ flight[KeyIn(ask[s])] = leader[s]
                 \/ At(leader[s], "done") /\ result[leader[s]] # None
          BY <5>1 DEF FlightsAreLive
        <5> QED BY <3>1, <3>2, <5>1, <5>2 DEF TypeOK, At
      <4> QED BY <4>1, <4>2
    <3> QED BY <3>3, <3>4, <3>5 DEF FlightsAreLive, At
  <2>5. ASSUME NEW r \in Requests, Finish(r) PROVE LeadersOwn' /\ FlightsAreLive'
    <3>1. /\ pc' = [pc EXCEPT ![r] = "done"] /\ pc[r] = "finish"
          /\ flight' = [flight EXCEPT ![KeyIn(ask[r])] = None] /\ flight[KeyIn(ask[r])] = r
          /\ leader' = leader /\ ask' = ask /\ result' = result /\ KeyIn(ask[r]) \in Key
          /\ result[r] # None
      BY <2>5, <2>0 DEF Finish, Answer, At, Go, LeadersOwn, Leading, StageFacts
    <3>2. \A s \in Requests : KeyIn(ask'[s]) = KeyIn(ask[s])
      BY <3>1 
    <3>3. LeadersOwn'
      <4> SUFFICES ASSUME NEW s \in Requests, pc'[s] \in Leading
                   PROVE  leader'[s] = s /\ flight'[KeyIn(ask'[s])] = s
        BY DEF LeadersOwn
      <4>1. s # r /\ pc[s] \in Leading /\ leader[s] = s /\ flight[KeyIn(ask[s])] = s /\ KeyIn(ask[s]) \in Key
        BY <3>1, <2>0 DEF LeadersOwn, TypeOK, Leading
      <4> QED BY <3>1, <3>2, <4>1 DEF TypeOK
    <3>4. \A k \in Key : flight'[k] # None => pc'[flight'[k]] \in Leading /\ KeyIn(ask'[flight'[k]]) = k
      <4> SUFFICES ASSUME NEW k \in Key, flight'[k] # None
                   PROVE  pc'[flight'[k]] \in Leading /\ KeyIn(ask'[flight'[k]]) = k
        OBVIOUS
      <4>1. k # KeyIn(ask[r]) /\ flight'[k] = flight[k] /\ flight[k] \in Requests
        BY <3>1 DEF TypeOK
      <4>2. pc[flight[k]] \in Leading /\ KeyIn(ask[flight[k]]) = k /\ flight[k] # r
        BY <4>1 DEF FlightsAreLive
      <4> QED BY <3>1, <3>2, <4>1, <4>2 DEF TypeOK
    <3>5. ASSUME NEW s \in Requests, pc'[s] = "wait"
          PROVE  /\ KeyIn(ask'[leader'[s]]) = KeyIn(ask'[s])
                 /\ \/ flight'[KeyIn(ask'[s])] = leader'[s]
                    \/ pc'[leader'[s]] = "done" /\ result'[leader'[s]] # None
      <4>1. s # r /\ At(s, "wait") /\ leader[s] \in Requests
        BY <3>1, <3>5 DEF At, StageFacts, TypeOK
      <4>2. KeyIn(ask[leader[s]]) = KeyIn(ask[s]) /\ KeyIn(ask[s]) \in Key
            /\ \/ flight[KeyIn(ask[s])] = leader[s]
               \/ At(leader[s], "done") /\ result[leader[s]] # None
        BY <4>1, <2>0 DEF FlightsAreLive, At
      <4> QED BY <3>1, <3>2, <4>1, <4>2 DEF TypeOK, At
    <3> QED BY <3>3, <3>4, <3>5 DEF FlightsAreLive, At
  <2>6. ASSUME NEW r \in Requests, Refuse(r) PROVE LeadersOwn' /\ FlightsAreLive'
    BY <2>2, <2>6 DEF Refuse, Answer, Go, At
  <2>7. ASSUME NEW r \in Requests, NEW id \in Ids, NEW contact \in BOOLEAN, Accept(r, id, contact)
        PROVE  LeadersOwn' /\ FlightsAreLive'
    <3>1. \A s \in Requests \ {r} : ask'[s] = ask[s]
      BY <2>7 DEF Accept, TypeOK
    <3> QED BY <2>2, <2>7, <3>1 DEF Accept, Go, At
  <2>8. ASSUME NEW r \in Requests, LookupHit(r) \/ LookupMiss(r) PROVE LeadersOwn' /\ FlightsAreLive'
    BY <2>2, <2>8 DEF LookupHit, LookupMiss, Answer, Go, At
  <2>9. ASSUME NEW r \in Requests, RecheckHit(r) \/ RecheckMiss(r) \/ FetchOk(r) \/ Fill(r)
        PROVE  LeadersOwn' /\ FlightsAreLive'
    <3>1. /\ ask' = ask /\ UNCHANGED <<flight, leader>> /\ pc[r] \in Leading
          /\ \A s \in Requests \ {r} : result'[s] = result[s]
          /\ \E stage \in Leading : pc' = [pc EXCEPT ![r] = stage]
      BY <2>9 DEF RecheckHit, RecheckMiss, FetchOk, Fill, Go, At, Leading, TypeOK
    <3> QED BY <2>2, <3>1
  <2>10. ASSUME NEW r \in Requests, NEW e \in Failures, FetchFail(r, e)
         PROVE  LeadersOwn' /\ FlightsAreLive'
    <3>1. /\ ask' = ask /\ UNCHANGED <<flight, leader>> /\ pc[r] \in Leading
          /\ \A s \in Requests \ {r} : result'[s] = result[s]
          /\ pc' = [pc EXCEPT ![r] = "finish"] /\ "finish" \in Leading
      BY <2>10 DEF FetchFail, Go, At, Leading, TypeOK
    <3> QED BY <2>2, <3>1
  <2>11. ASSUME NEW r \in Requests, WakeUp(r) PROVE LeadersOwn' /\ FlightsAreLive'
    BY <2>2, <2>11 DEF WakeUp, Answer, Go, At
  <2> QED
    BY <2>1, <2>3, <2>4, <2>5, <2>6, <2>7, <2>8, <2>9, <2>10, <2>11
    DEF Next, Step, AllAnswered, TimePasses, requestVars, vars
<1> QED BY <1>1, <1>2, TypingAndStages, PTL DEF Spec

\* A newcomer never joins a flight that is over, and nobody waits in vain
\* (singleflight's map, service.go).
THEOREM FlightsStayLive == Spec => []FlightsAreLive
BY Flights, PTL

\* Concurrent requests for a key share one upstream fetch (service.go, the
\* singleflight comment): the map of the group names one leader for a key.
THEOREM FetchesAreExclusive == Spec => []OneFetchPerKey
<1>1. LeadersOwn => OneFetchPerKey
  BY DEF LeadersOwn, OneFetchPerKey, At, Leading
<1> QED BY <1>1, Flights, PTL

-----------------------------------------------------------------------------
\* Nobody fetches what the cache could answer ("Double check cache",
\* service.go): only the leader of a key's flight fills the key's entry.
THEOREM NoFetchIsRedundant == Spec => []NoRedundantFetch
<1> USE ProfileServiceAssumption, ProfileCacheAssumption DEF At
<1>1. Init => NoRedundantFetch
  BY DEF Init, NoRedundantFetch
<1>2. TypeOK /\ StageFacts /\ LeadersOwn /\ NoRedundantFetch /\ [Next]_vars => NoRedundantFetch'
  <2> SUFFICES ASSUME TypeOK, StageFacts, LeadersOwn, NoRedundantFetch, [Next]_vars,
                      NEW r \in Requests, pc'[r] = "fetch"
               PROVE  ~ Fresh(KeyOf(r))'
    BY DEF NoRedundantFetch
  <2>0. Fresh(KeyOf(r))' <=> Enabled /\ KeyIn(ask'[r]) \in DOMAIN items'
                             /\ ~ (clock' > items'[KeyIn(ask'[r])].expiresAt)
    BY DEF Fresh, Expired, Enabled, KeyOf
  <2>1. CASE pc[r] = "fetch"
    <3>1. ~ Fresh(KeyIn(ask[r]))
      BY <2>1 DEF NoRedundantFetch, KeyOf
    <3>2. ask'[r] = ask[r]
      BY <2>1 DEF Next, Step, AllAnswered, TimePasses, requestVars, vars, Refuse,
         Accept, LookupHit, LookupMiss, Lead, Follow, RecheckHit, RecheckMiss, FetchOk, FetchFail,
         Fill, Finish, WakeUp, TypeOK
    <3> DEFINE k == KeyIn(ask[r])
    <3>3. CASE Tick
      BY <2>0, <3>1, <3>2, <3>3 DEF Tick, cacheVars, Fresh, Expired, TypeOK, CacheTypeOK, Entry
    <3>4. CASE UNCHANGED <<clock, cacheVars>>
      BY <2>0, <3>1, <3>2, <3>4 DEF cacheVars, Fresh, Expired
    <3>5. ASSUME NEW j, GetHit(j) \/ GetMiss(j), clock' = clock
          PROVE  ~ Fresh(KeyOf(r))'
      <4>1. DOMAIN items' \subseteq DOMAIN items /\ \A i \in DOMAIN items' : items'[i] = items[i]
        BY <3>5, GetKeeps DEF TypeOK
      <4> QED BY <2>0, <3>1, <3>2, <3>5, <4>1 DEF Fresh, Expired
    <3>6. ASSUME NEW s \in Requests, Fill(s) PROVE ~ Fresh(KeyOf(r))'
      <4>1. pc[s] = "fill" /\ s # r
        BY <2>1, <3>6 DEF Fill
      <4>2. flight[KeyOf(s)] = s /\ flight[KeyOf(r)] = r
        BY <2>1, <4>1 DEF LeadersOwn, Leading
      <4>3. KeyIn(ask[s]) # k /\ KeyOf(s) \in Keys /\ result[s] \in Response
        BY <4>1, <4>2, KeysInKey DEF StageFacts, KeyOf
      <4>4. \A j \in DOMAIN items' : j # KeyIn(ask[s]) => j \in DOMAIN items /\ items'[j] = items[j]
        BY <3>6, <4>3, SetKeeps DEF Fill, TypeOK, KeyOf
      <4>5. clock' = clock
        BY <3>6 DEF Fill
      <4> QED BY <2>0, <3>1, <3>2, <4>3, <4>4, <4>5 DEF Fresh, Expired
    <3>7. ASSUME NEW s \in Requests, LookupHit(s) \/ LookupMiss(s) \/ RecheckHit(s) \/ RecheckMiss(s)
          PROVE  ~ Fresh(KeyOf(r))'
      BY <3>5, <3>7 DEF LookupHit, LookupMiss, RecheckHit, RecheckMiss
    <3> QED
      BY <3>3, <3>4, <3>6, <3>7 DEF Next, Step, AllAnswered, TimePasses, vars, cacheVars, Refuse, Accept, Lead, Follow, FetchOk, FetchFail, Finish, WakeUp
  <2>2. CASE pc[r] # "fetch"
    <3>1. RecheckMiss(r)
      BY <2>2 DEF Next, Step, AllAnswered, TimePasses, requestVars, vars, Go, Answer, Refuse, Accept, LookupHit, LookupMiss, Lead, Follow, RecheckHit, RecheckMiss, FetchOk,
         FetchFail, Fill, Finish, WakeUp, TypeOK
    <3>2. ask' = ask /\ GetMiss(KeyIn(ask[r]))
      BY <3>1 DEF RecheckMiss, KeyOf
    <3>3. ~ Enabled \/ KeyIn(ask[r]) \notin DOMAIN items'
      BY <3>2 DEF GetMiss, GetExpired, GetAbsent, Restrict, cacheVars
    <3> QED BY <2>0, <3>2, <3>3
  <2> QED BY <2>1, <2>2
<1> QED BY <1>1, <1>2, TypingAndStages, Flights, PTL DEF Spec

-----------------------------------------------------------------------------
\* A response is about what was asked for.
About(response, a) ==
  response.payload.id = a.id /\ response.payload.contact = a.contact

\* Entries, results and replies are about the key or request they belong to.
AllAbout ==
  /\ \A k \in DOMAIN items : About(items[k].response, k)
  /\ \A r \in Requests :
       /\ result[r] \in Response => About(result[r], ask[r])
       /\ reply[r] \in Response => About(reply[r], ask[r])
       /\ ask[r] \in Payload => (ask[r].contact => AllowContact)

\* A cache key spells out both things a request asks for (CacheKey).
LEMMA SameKey ==
  ASSUME NEW a, NEW b, KeyIn(a) = KeyIn(b)
  PROVE  a.id = b.id /\ a.contact = b.contact
<1>1. KeyIn(a).id = a.id /\ KeyIn(b).id = b.id
      /\ KeyIn(a).contact = a.contact /\ KeyIn(b).contact = b.contact
  BY DEF KeyIn, CacheKey
<1> QED BY <1>1

\* No step puts an answer where it is not about what was asked for.
LEMMA Attribution == Spec => []AllAbout
<1> USE ProfileServiceAssumption DEF At, Go, Answer
<1>1. Init => AllAbout
  BY DEF Init, CacheInit, AllAbout
<1>2. TypeOK /\ StageFacts /\ FlightsAreLive /\ AllAbout /\ [Next]_vars => AllAbout'
  <2> SUFFICES ASSUME TypeOK, StageFacts, FlightsAreLive, AllAbout, [Next]_vars PROVE AllAbout'
    OBVIOUS
  <2>1. CASE UNCHANGED <<items, ask, result, reply>>
    BY <2>1 DEF AllAbout
  <2>2. ASSUME NEW r \in Requests, Refuse(r) PROVE AllAbout'
    <3>1. PICK x \in Refusal : reply' = [reply EXCEPT ![r] = x]
      BY <2>2 DEF Refuse, Refusal
    <3>2. x \notin Response
      BY ResponsesAreNoErrors
    <3> QED BY <2>2, <3>1, <3>2 DEF Refuse, AllAbout, TypeOK, cacheVars
  <2>3. ASSUME NEW r \in Requests, NEW id \in Ids, NEW contact \in BOOLEAN, Accept(r, id, contact)
        PROVE  AllAbout'
    <3>1. /\ result[r] \notin Response /\ reply[r] \notin Response
          /\ ask' = [ask EXCEPT ![r] = [id |-> id, contact |-> contact, at |-> clock]]
          /\ (contact => AllowContact)
          /\ UNCHANGED <<items, result, reply>>
      BY <2>3 DEF Accept, StageFacts, cacheVars
    <3> QED BY <3>1 DEF AllAbout, TypeOK
  <2>4. ASSUME NEW r \in Requests, LookupHit(r) \/ RecheckHit(r)
        PROVE  AllAbout'
    <3> DEFINE x == Found(KeyOf(r))
    <3>1. /\ items' = items /\ ask' = ask
          /\ \/ reply' = [reply EXCEPT ![r] = x] /\ result' = result
             \/ result' = [result EXCEPT ![r] = x] /\ reply' = reply
          /\ ask[r] \in Payload
      BY <2>4 DEF LookupHit, RecheckHit, GetHit, StageFacts
    <3>2. About(x, ask[r])
      <4>1. KeyOf(r) \in DOMAIN items /\ x.payload = items[KeyOf(r)].response.payload
        BY <2>4, FoundIsStored DEF LookupHit, RecheckHit, TypeOK
      <4>2. KeyOf(r).id = ask[r].id /\ KeyOf(r).contact = ask[r].contact
        BY <3>1, KeysInKey
      <4> QED BY <4>1, <4>2 DEF AllAbout, About
    <3> HIDE DEF x
    <3> QED BY <3>1, <3>2 DEF AllAbout, TypeOK
  <2>5. ASSUME NEW r \in Requests, LookupMiss(r) \/ RecheckMiss(r) PROVE AllAbout'
    <3>1. DOMAIN items' \subseteq DOMAIN items /\ \A j \in DOMAIN items' : items'[j] = items[j]
      BY <2>5, GetKeeps DEF LookupMiss, RecheckMiss, TypeOK
    <3> QED BY <2>5, <3>1 DEF LookupMiss, RecheckMiss, AllAbout
  <2>6. ASSUME NEW r \in Requests, FetchOk(r) PROVE AllAbout'
    <3> DEFINE p == [id |-> ask[r].id, contact |-> ask[r].contact, at |-> clock]
               x == [payload |-> p, cached |-> FALSE]
    <3>1. result' = [result EXCEPT ![r] = x] /\ UNCHANGED <<items, ask, reply>>
      BY <2>6 DEF FetchOk, cacheVars
    <3>2. About(x, ask[r])
      BY DEF About
    <3> HIDE DEF x
    <3> QED BY <3>1, <3>2 DEF AllAbout, TypeOK
  <2>7. ASSUME NEW r \in Requests, NEW e \in Failures, FetchFail(r, e) PROVE AllAbout'
    <3> DEFINE x == [error |-> e]
    <3>1. result' = [result EXCEPT ![r] = x] /\ UNCHANGED <<items, ask, reply>>
      BY <2>7 DEF FetchFail, cacheVars
    <3>2. x \notin Response
      BY ResponsesAreNoErrors DEF Failure
    <3> HIDE DEF x
    <3> QED BY <3>1, <3>2 DEF AllAbout, TypeOK
  <2>8. ASSUME NEW r \in Requests, Fill(r) PROVE AllAbout'
    <3>1. /\ pc[r] = "fill" /\ ask[r] \in Payload /\ result[r] \in Response
          /\ UNCHANGED <<ask, result, reply>>
      BY <2>8 DEF Fill, StageFacts
    <3>2. KeyOf(r) \in Keys /\ KeyOf(r).id = ask[r].id /\ KeyOf(r).contact = ask[r].contact
      BY <3>1, KeysInKey
    <3>3. \A j \in DOMAIN items' :
            \/ j = KeyOf(r) /\ items'[j].response = result[r]
            \/ j \in DOMAIN items /\ items'[j] = items[j]
      BY <2>8, <3>1, <3>2, SetKeeps DEF Fill, TypeOK
    <3>4. About(result[r], KeyOf(r))
      BY <3>1, <3>2 DEF AllAbout, About
    <3>5. \A j \in DOMAIN items' : About(items'[j].response, j)
      BY <3>3, <3>4 DEF AllAbout
    <3> QED BY <3>1, <3>5 DEF AllAbout
  <2>9. ASSUME NEW r \in Requests, Finish(r) PROVE AllAbout'
    BY <2>9 DEF Finish, AllAbout, TypeOK, cacheVars
  <2>10. ASSUME NEW r \in Requests, WakeUp(r) PROVE AllAbout'
    <3>1. pc[r] = "wait" /\ leader[r] \in Requests /\ KeyIn(ask[leader[r]]) = KeyIn(ask[r])
          /\ reply' = [reply EXCEPT ![r] = result[leader[r]]]
          /\ UNCHANGED <<items, ask, result>>
      BY <2>10 DEF WakeUp, StageFacts, FlightsAreLive, KeyOf, cacheVars
    <3>2. result[leader[r]] \in Response => About(result[leader[r]], ask[r])
      BY <3>1, SameKey DEF AllAbout, About
    <3> QED BY <3>1, <3>2 DEF AllAbout, TypeOK
  <2> QED
    BY <2>1, <2>2, <2>3, <2>4, <2>5, <2>6, <2>7, <2>8, <2>9, <2>10
    DEF Next, Step, AllAnswered, TimePasses, Tick, requestVars, cacheVars, vars, Lead, Follow
<1> QED BY <1>1, <1>2, TypingAndStages, Flights, PTL DEF Spec

\* Whoever answers, the profile is the one asked for, with contact
\* information only for who may and did ask for it (service.go, GetProfile).
THEOREM ProfilesAreRight == Spec => []RightProfile
<1>1. TypeOK /\ StageFacts /\ AllAbout => RightProfile
  <2> SUFFICES ASSUME TypeOK, StageFacts, AllAbout, NEW r \in Requests, Served(r)
               PROVE  /\ Fold[reply[r].payload.id] = Fold[ask[r].id]
                      /\ reply[r].payload.contact = ask[r].contact
                      /\ ask[r].contact => AllowContact
    BY DEF RightProfile
  <2>1. reply[r] \in Response /\ reply[r] \notin Refusal /\ reply[r] # None
    BY ResponsesAreNoErrors, ProfileServiceAssumption DEF Served
  <2>2. ask[r] \in Payload
    BY <2>1 DEF StageFacts, TypeOK
  <2> QED BY <2>1, <2>2 DEF AllAbout, About
<1> QED BY <1>1, TypingAndStages, Attribution, PTL

-----------------------------------------------------------------------------
\* Who leads was accepted, and whatever is not flagged as cached was
\* retrieved after the request that leads its flight was accepted.
Truthful ==
  \A r \in Requests :
    /\ leader[r] # None => leader[r] \in Requests /\ ask[leader[r]] \in Payload
    /\ ask[r] \in Payload => ask[r].at <= clock
    /\ result[r] \in Response /\ ~ result[r].cached =>
         leader[r] = r /\ ask[r].at <= result[r].payload.at
    /\ reply[r] \in Response /\ ~ reply[r].cached =>
         leader[r] # None /\ ask[leader[r]].at <= reply[r].payload.at

\* No step hands out an old response without the flag.
LEMMA Flags == Spec => []Truthful
<1> USE ProfileServiceAssumption DEF At, Go, Answer
<1>1. Init => Truthful
  BY DEF Init, Truthful
<1>2. TypeOK /\ StageFacts /\ LeadersOwn /\ FlightsAreLive /\ Truthful /\ [Next]_vars => Truthful'
  <2> SUFFICES ASSUME TypeOK, StageFacts, LeadersOwn, FlightsAreLive, Truthful, [Next]_vars
               PROVE  Truthful'
    OBVIOUS
  <2>1. CASE UNCHANGED <<clock, ask, leader, result, reply>>
    BY <2>1 DEF Truthful
  <2>2. CASE TimePasses
    <3>1. clock \in Nat /\ clock' = clock + 1 /\ UNCHANGED <<ask, leader, result, reply>>
      BY <2>2, ProfileCacheAssumption DEF TimePasses, Tick, requestVars, TypeOK, CacheTypeOK
    <3>2. \A r \in Requests : ask[r] \in Payload => ask[r].at \in Int
      BY ProfileCacheAssumption DEF Payload
    <3> QED BY <3>1, <3>2 DEF Truthful
  \* A step that gives r's result or reply something flagged, or no response.
  <2>3. ASSUME NEW r \in Requests, NEW x, ~ (x \in Response /\ ~ x.cached),
               UNCHANGED <<clock, ask, leader>>,
               \/ reply' = [reply EXCEPT ![r] = x] /\ result' = result
               \/ result' = [result EXCEPT ![r] = x] /\ reply' = reply
        PROVE  Truthful'
    BY <2>3 DEF Truthful, TypeOK
  <2>4. ASSUME NEW r \in Requests, Refuse(r) PROVE Truthful'
    <3>1. PICK x \in Refusal : reply' = [reply EXCEPT ![r] = x]
      BY <2>4 DEF Refuse, Refusal
    <3>2. x \notin Response
      BY ResponsesAreNoErrors
    <3> QED BY <2>3, <2>4, <3>1, <3>2 DEF Refuse
  <2>5. ASSUME NEW r \in Requests, NEW id \in Ids, NEW contact \in BOOLEAN, Accept(r, id, contact)
        PROVE  Truthful'
    <3> DEFINE a == [id |-> id, contact |-> contact, at |-> clock]
    <3>1. /\ ask[r] = None /\ result[r] = None /\ reply[r] = None
          /\ ask' = [ask EXCEPT ![r] = a] /\ UNCHANGED <<clock, leader, result, reply>>
      BY <2>5 DEF Accept, StageFacts
    <3>2. a \in Payload /\ a.at <= clock
      BY ProfileCacheAssumption DEF Payload, TypeOK, CacheTypeOK
    <3> HIDE DEF a
    <3>3. \A s \in Requests : leader[s] # r
      BY <3>1 DEF Truthful, StageFacts
    <3>4. ask'[r] = a /\ \A s \in Requests \ {r} : ask'[s] = ask[s]
      BY <3>1 DEF TypeOK
    <3> QED BY <3>1, <3>2, <3>3, <3>4, ResponsesAreNoErrors DEF Truthful
  <2>6. ASSUME NEW r \in Requests, LookupHit(r) \/ RecheckHit(r) PROVE Truthful'
    <3>1. Found(KeyOf(r)).cached
      BY <2>6, FoundIsStored DEF LookupHit, RecheckHit, TypeOK
    <3>2. /\ UNCHANGED <<clock, ask, leader>>
          /\ \/ reply' = [reply EXCEPT ![r] = Found(KeyOf(r))] /\ result' = result
             \/ result' = [result EXCEPT ![r] = Found(KeyOf(r))] /\ reply' = reply
      BY <2>6 DEF LookupHit, RecheckHit
    <3> QED BY <2>3, <3>1, <3>2
  <2>7. ASSUME NEW r \in Requests, Lead(r) \/ Follow(r) PROVE Truthful'
    <3>1. /\ ask[r] \in Payload /\ result[r] = None /\ reply[r] = None
          /\ UNCHANGED <<clock, ask, result, reply>>
      BY <2>7 DEF Lead, Follow, StageFacts
    <3>2. PICK q \in Requests : leader' = [leader EXCEPT ![r] = q] /\ ask[q] \in Payload
      <4>1. CASE Lead(r)
        BY <3>1, <4>1 DEF Lead
      <4>2. CASE Follow(r)
        <5>1. KeyOf(r) \in Key
          BY <3>1, KeysInKey
        <5>2. flight[KeyOf(r)] \in Requests /\ pc[flight[KeyOf(r)]] \in Leading
          BY <4>2, <5>1 DEF Follow, FlightsAreLive, TypeOK
        <5> QED BY <4>2, <5>2 DEF Follow, StageFacts, Leading
      <4> QED BY <2>7, <4>1, <4>2
    <3>3. leader'[r] = q /\ \A s \in Requests \ {r} : leader'[s] = leader[s]
      BY <3>2 DEF TypeOK
    <3> QED BY <3>1, <3>2, <3>3 DEF Truthful
  <2>8. ASSUME NEW r \in Requests, FetchOk(r) PROVE Truthful'
    <3> DEFINE p == [id |-> ask[r].id, contact |-> ask[r].contact, at |-> clock]
               x == [payload |-> p, cached |-> FALSE]
    <3>1. /\ leader[r] = r /\ ask[r] \in Payload
          /\ result' = [result EXCEPT ![r] = x] /\ UNCHANGED <<clock, ask, leader, reply>>
      BY <2>8 DEF FetchOk, LeadersOwn, Leading, StageFacts
    <3>2. ask[r].at <= x.payload.at
      BY <3>1 DEF Truthful
    <3> HIDE DEF p, x
    <3>3. result'[r] = x /\ \A s \in Requests \ {r} : result'[s] = result[s]
      BY <3>1 DEF TypeOK
    <3> QED BY <3>1, <3>2, <3>3 DEF Truthful
  <2>9. ASSUME NEW r \in Requests, NEW e \in Failures, FetchFail(r, e) PROVE Truthful'
    <3> DEFINE x == [error |-> e]
    <3>1. result' = [result EXCEPT ![r] = x] /\ UNCHANGED <<clock, ask, leader, reply>>
      BY <2>9 DEF FetchFail
    <3>2. x \notin Response
      BY ResponsesAreNoErrors DEF Failure
    <3> HIDE DEF x
    <3> QED BY <2>3, <3>1, <3>2
  \* What the leader of a flight, also of r's, has to hand out becomes r's reply.
  <2>10. ASSUME NEW r \in Requests, Finish(r) \/ WakeUp(r) PROVE Truthful'
    <3>1. PICK q \in Requests : /\ leader[r] = q
                                /\ reply' = [reply EXCEPT ![r] = result[q]]
                                /\ UNCHANGED <<clock, ask, leader, result>>
      BY <2>10 DEF Finish, WakeUp, LeadersOwn, Leading, StageFacts
    <3>2. reply'[r] = result[q] /\ \A s \in Requests \ {r} : reply'[s] = reply[s]
      BY <3>1 DEF TypeOK
    <3>3. result[q] \in Response /\ ~ result[q].cached =>
            leader[r] # None /\ ask[leader[r]].at <= result[q].payload.at
      BY <3>1 DEF Truthful
    <3> QED BY <3>1, <3>2, <3>3 DEF Truthful
  <2> QED
    BY <2>1, <2>2, <2>4, <2>5, <2>6, <2>7, <2>8, <2>9, <2>10
    DEF Next, Step, AllAnswered, vars, LookupMiss, RecheckMiss, Fill
<1> QED BY <1>1, <1>2, TypingAndStages, Flights, PTL DEF Spec

\* What is not flagged as cached was retrieved after its flight began
\* (cache.go, the copy Get hands out; service.go, GetProfile).
THEOREM FlagsAreTruthful == Spec => []CachedFlagTruthful
<1>1. Truthful => CachedFlagTruthful
  BY DEF Truthful, CachedFlagTruthful, Served
<1> QED BY <1>1, Flags, PTL

-----------------------------------------------------------------------------
\* What an entry holds was delivered by a fetch of its key.
EntriesDelivered ==
  \A k \in DOMAIN items : <<k, items[k].response.payload>> \in Delivered

Fetched == {Wanted(r) : r \in {s \in Requests : At(s, "fetch")}}

\* What an accepted request wants, in the terms of the promise, is its key.
LEMMA WantedIsKey ==
  ASSUME StageFacts, NEW r \in Requests, ask[r] \in Payload
  PROVE  Wanted(r) = KeyOf(r) /\ Wanted(r) \in Key /\ Wanted(r) # None
BY ProfileServiceAssumption DEF Wanted, KeyOf, KeyIn, CacheKey, Key, Payload

\* A result that is already there is delivered.
LEMMA ResultsDelivered ==
  ASSUME NEW r \in Requests, result[r] # None
  PROVE  <<Wanted(r), Outcome(result[r])>> \in Delivered
BY DEF Delivered

\* The step of a request that puts its first result there.
LEMMA DeliveredGrows ==
  ASSUME TypeOK, NEW r \in Requests, NEW x, x # None, result[r] = None,
         result' = [result EXCEPT ![r] = x], ask' = ask
  PROVE  Delivered' = Delivered \cup {<<Wanted(r), Outcome(x)>>}
<1>1. \A s \in Requests : Wanted(s)' = Wanted(s)
  BY DEF Wanted
<1>2. result'[r] = x /\ \A s \in Requests \ {r} : result'[s] = result[s]
  BY DEF TypeOK
<1>3. Delivered' = {<<Wanted(s), Outcome(result'[s])>> : s \in {t \in Requests : result'[t] # None}}
  BY <1>1 DEF Delivered, Outcome
<1> QED BY <1>2, <1>3 DEF Delivered

\* The outcome of a response is its payload, cached or not.
LEMMA OutcomeOfResponse ==
  ASSUME NEW x \in Response
  PROVE  Outcome(x) = x.payload
BY DEF Outcome

\* The outcome of anything else is itself.
LEMMA OutcomeOfError ==
  ASSUME NEW x \in Failure \cup Refusal \cup {None}
  PROVE  Outcome(x) = x
BY ResponsesAreNoErrors, ProfileServiceAssumption DEF Outcome

\* Every entry of the cache is what some fetch of its key delivered.
LEMMA CachedWasDelivered == Spec => []EntriesDelivered
<1> USE ProfileServiceAssumption
<1>1. Init => EntriesDelivered
  BY DEF Init, CacheInit, EntriesDelivered
<1>2. TypeOK /\ StageFacts /\ EntriesDelivered /\ [Next]_vars => EntriesDelivered'
  <2> SUFFICES ASSUME TypeOK, StageFacts, EntriesDelivered, [Next]_vars PROVE EntriesDelivered'
    OBVIOUS
  <2>1. Delivered \subseteq Delivered'
    <3> SUFFICES ASSUME NEW r \in Requests, result[r] # None
                 PROVE  <<Wanted(r), Outcome(result[r])>> \in Delivered'
      BY DEF Delivered
    <3>1. result'[r] = result[r] /\ ask'[r] = ask[r]
      BY DEF Next, Step, AllAnswered, TimePasses, requestVars, vars, At, Refuse,
         Accept, LookupHit, LookupMiss, Lead, Follow, RecheckHit, RecheckMiss, FetchOk, FetchFail,
         Fill, Finish, WakeUp, TypeOK, StageFacts
    <3> QED BY <3>1 DEF Delivered, Wanted, Outcome
  <2>2. CASE \A j \in DOMAIN items' : j \in DOMAIN items /\ items'[j] = items[j]
    BY <2>1, <2>2 DEF EntriesDelivered
  <2>3. ASSUME NEW r \in Requests, Fill(r) PROVE EntriesDelivered'
    <3>1. /\ ask[r] \in Payload /\ result[r] \in Response /\ KeyOf(r) \in Keys
      BY <2>3, KeysInKey DEF Fill, StageFacts, At
    <3>2. \A j \in DOMAIN items' :
            \/ j = KeyOf(r) /\ items'[j].response = result[r]
            \/ j \in DOMAIN items /\ items'[j] = items[j]
      BY <2>3, <3>1, SetKeeps DEF Fill, TypeOK
    <3>3. <<KeyOf(r), result[r].payload>> \in Delivered
      BY <3>1, WantedIsKey, ResultsDelivered, OutcomeOfResponse
    <3> QED BY <2>1, <3>2, <3>3 DEF EntriesDelivered
  <2>4. ASSUME NEW r \in Requests, LookupHit(r) \/ LookupMiss(r) \/ RecheckHit(r) \/ RecheckMiss(r)
        PROVE  EntriesDelivered'
    <3>1. DOMAIN items' \subseteq DOMAIN items /\ \A j \in DOMAIN items' : items'[j] = items[j]
      BY <2>4, GetKeeps DEF LookupHit, LookupMiss, RecheckHit, RecheckMiss, TypeOK
    <3> QED BY <2>2, <3>1
  <2> QED
    BY <2>2, <2>3, <2>4 DEF Next, Step, AllAnswered, TimePasses, Tick, requestVars, cacheVars, vars,
       Refuse, Accept, Lead, Follow, FetchOk, FetchFail, Finish, WakeUp
<1> QED BY <1>1, <1>2, TypingAndStages, PTL DEF Spec

\* The service with its cache, its group and its locks implements what
\* ReadThrough promises (service.go, GetProfile and fetchAndCache).
THEOREM PromiseIsKept == Spec => KeepsPromise
<1> USE ProfileServiceAssumption DEF At, Go, Answer
<1> DEFINE want == [r \in Requests |-> Wanted(r)]
           got == [r \in Requests |-> Outcome(reply[r])]
<1>1. Init => Promise!Init
  <2> SUFFICES ASSUME Init PROVE Promise!Init
    OBVIOUS
  <2>1. \A r \in Requests : Wanted(r) = None /\ Outcome(reply[r]) = None
    BY OutcomeOfError DEF Init, Wanted
  <2>2. Fetched = {} /\ Delivered = {}
    BY DEF Init, Fetched, Delivered
  <2> QED BY <2>1, <2>2 DEF Promise!Init, Fetched
<1>2. TypeOK /\ StageFacts /\ LeadersOwn /\ FlightsAreLive /\ AllAbout /\ EntriesDelivered /\ [Next]_vars
        => [Promise!Next]_Promise!vars
  <2> SUFFICES ASSUME TypeOK, StageFacts, LeadersOwn, FlightsAreLive, AllAbout, EntriesDelivered,
                      [Next]_vars
               PROVE  Promise!Next \/ UNCHANGED <<want, got, Fetched, Delivered>>
    BY DEF Promise!vars, Fetched
  <2> HIDE DEF want, got
  <2>1. ASSUME ask' = ask PROVE want' = want /\ \A r \in Requests : Wanted(r)' = Wanted(r)
    BY <2>1 DEF want, Wanted
  <2>2. ASSUME reply' = reply PROVE got' = got
    BY <2>2 DEF got, Outcome
  <2>3. ASSUME NEW r \in Requests, NEW x, reply' = [reply EXCEPT ![r] = x]
        PROVE  got' = [got EXCEPT ![r] = Outcome(x)]
    BY <2>3 DEF got, Outcome, TypeOK
  <2>4. ASSUME ask' = ask, result' = result PROVE Delivered' = Delivered
    BY <2>4 DEF Delivered, Wanted, Outcome
  <2>5. ASSUME ask' = ask, NEW r \in Requests, NEW stage, pc' = [pc EXCEPT ![r] = stage],
               pc[r] # "fetch", stage # "fetch"
        PROVE  Fetched' = Fetched
    BY <2>1, <2>5 DEF Fetched, TypeOK
  <2>6. \A r \in Requests : want[r] = Wanted(r) /\ got[r] = Outcome(reply[r])
    BY DEF want, got
  <2>7. ASSUME NEW r \in Requests, ask[r] \in Payload, reply[r] = None
        PROVE  want[r] = KeyOf(r) /\ KeyOf(r) \in Key /\ want[r] # None /\ got[r] = None
    BY <2>6, <2>7, WantedIsKey, OutcomeOfError
  <2>8. ASSUME UNCHANGED <<pc, ask, result, reply>>
        PROVE  UNCHANGED <<want, got, Fetched, Delivered>>
    BY <2>1, <2>2, <2>4, <2>8 DEF Fetched
  \* An answer that was delivered before.
  <2>9. ASSUME NEW r \in Requests, NEW x \in Response \cup Failure, ask[r] \in Payload,
               pc[r] \notin {"idle", "done", "fetch"},
               pc' = [pc EXCEPT ![r] = "done"], reply' = [reply EXCEPT ![r] = x],
               <<KeyOf(r), Outcome(x)>> \in Delivered, UNCHANGED <<ask, result>>
        PROVE  Promise!Next
    <3>1. reply[r] = None
      BY <2>9 DEF StageFacts
    <3>2. Outcome(x) \in Payload \cup Failure
      BY <2>9, OutcomeOfResponse, OutcomeOfError DEF Response
    <3>3. want[r] # None /\ got[r] = None /\ <<want[r], Outcome(x)>> \in Delivered
      BY <2>7, <2>9, <3>1
    <3>4. want' = want /\ got' = [got EXCEPT ![r] = Outcome(x)] /\ Fetched' = Fetched
          /\ Delivered' = Delivered
      BY <2>1, <2>3, <2>4, <2>5, <2>9
    <3>5. Promise!Give(r, Outcome(x))
      BY <3>3, <3>4 DEF Promise!Give, Promise!Pending, want, got, Fetched
    <3> QED BY <3>2, <3>5 DEF Promise!Next
  <2>10. ASSUME NEW r \in Requests, Refuse(r) PROVE Promise!Next
    <3>1. PICK x \in Refusal : reply' = [reply EXCEPT ![r] = x]
      BY <2>10 DEF Refuse, Refusal
    <3> Outcome(x) = x
      BY OutcomeOfError
    <3>2. pc[r] = "idle" /\ pc' = [pc EXCEPT ![r] = "done"] /\ UNCHANGED <<ask, result>>
      BY <2>10 DEF Refuse
    <3>3. want[r] = None /\ got[r] = None
      BY <2>6, <3>2, OutcomeOfError DEF StageFacts, Wanted
    <3>4. want' = want /\ got' = [got EXCEPT ![r] = x] /\ Fetched' = Fetched /\ Delivered' = Delivered
      BY <2>1, <2>3, <2>4, <2>5, <3>1, <3>2
    <3>5. Promise!Refuse(r)
      BY <3>1, <3>3, <3>4 DEF Promise!Refuse, want, got, Fetched
    <3> QED BY <3>5 DEF Promise!Next
  <2>11. ASSUME NEW r \in Requests, NEW id \in Ids, NEW contact \in BOOLEAN, Accept(r, id, contact)
         PROVE  Promise!Next
    <3> DEFINE k == [id |-> id, contact |-> contact]
               a == [id |-> id, contact |-> contact, at |-> clock]
    <3>1. /\ pc[r] = "idle" /\ pc' = [pc EXCEPT ![r] = "lookup"] /\ ask' = [ask EXCEPT ![r] = a]
          /\ UNCHANGED <<result, reply>> /\ (contact => AllowContact)
      BY <2>11 DEF Accept
    <3>2. want[r] = None /\ got[r] = None
      BY <2>6, <3>1, OutcomeOfError DEF StageFacts, Wanted
    <3>3. a \in Payload /\ a # None /\ k \in Key /\ k = [id |-> a.id, contact |-> a.contact]
      BY DEF Payload, Key, TypeOK, CacheTypeOK
    <3>4. \A s \in Requests : s # r => Wanted(s)' = Wanted(s)
      BY <3>1 DEF Wanted, TypeOK
    <3>5. Wanted(r)' = k
      <4>1. ask'[r] = a
        BY <3>1 DEF TypeOK
      <4> HIDE DEF a, k
      <4> QED BY <3>3, <4>1 DEF Wanted
    <3>6. want' = [want EXCEPT ![r] = k]
      <4> HIDE DEF k
      <4> QED BY <3>4, <3>5 DEF want
    <3>7. got' = got
      BY <2>2, <3>1
    <3>8. \A s \in Requests : pc'[s] = "fetch" <=> pc[s] = "fetch" /\ s # r
      BY <3>1 DEF TypeOK
    <3>9. Fetched' = Fetched
      BY <3>1, <3>4, <3>8 DEF Fetched
    <3>10. Delivered' = Delivered
      <4>1. result[r] = None
        BY <3>1 DEF StageFacts
      <4> QED BY <3>1, <3>4, <4>1 DEF Delivered, Outcome
    <3>11. k \notin {j \in Key : j.contact /\ ~ AllowContact}
      BY <3>1
    <3> HIDE DEF k
    <3>12. Promise!Ask(r, k)
      BY <3>2, <3>6, <3>7, <3>9, <3>10, <3>11 DEF Promise!Ask, want, got, Fetched
    <3> QED BY <3>3, <3>12 DEF Promise!Next
  <2>12. ASSUME NEW r \in Requests, LookupHit(r) PROVE Promise!Next
    <3>1. KeyOf(r) \in DOMAIN items /\ Found(KeyOf(r)) \in Response
          /\ Found(KeyOf(r)).payload = items[KeyOf(r)].response.payload
      BY <2>12, FoundIsStored DEF LookupHit, TypeOK
    <3>2. <<KeyOf(r), Outcome(Found(KeyOf(r)))>> \in Delivered
      BY <3>1, OutcomeOfResponse DEF EntriesDelivered
    <3>3. pc[r] = "lookup" /\ ask[r] \in Payload
      BY <2>12 DEF LookupHit, StageFacts
    <3>4. /\ pc' = [pc EXCEPT ![r] = "done"] /\ reply' = [reply EXCEPT ![r] = Found(KeyOf(r))]
          /\ UNCHANGED <<ask, result>>
      BY <2>12 DEF LookupHit
    <3> QED BY <2>9, <3>1, <3>2, <3>3, <3>4
  <2>13. ASSUME NEW r \in Requests, LookupMiss(r) \/ Lead(r) \/ Follow(r) \/ Fill(r)
         PROVE  UNCHANGED <<want, got, Fetched, Delivered>>
    <3>1. UNCHANGED <<ask, result, reply>> /\ pc[r] # "fetch"
          /\ \E stage \in {"join", "recheck", "wait", "finish"} : pc' = [pc EXCEPT ![r] = stage]
      BY <2>13 DEF LookupMiss, Lead, Follow, Fill
    <3>2. Fetched' = Fetched
      BY <2>5, <3>1
    <3> QED BY <2>1, <2>2, <2>4, <3>1, <3>2
  <2>14. ASSUME NEW r \in Requests, RecheckHit(r)
         PROVE  UNCHANGED <<want, got, Fetched, Delivered>>
    <3> DEFINE x == Found(KeyOf(r))
    <3>1. KeyOf(r) \in DOMAIN items /\ x \in Response /\ x.payload = items[KeyOf(r)].response.payload
      BY <2>14, FoundIsStored DEF RecheckHit, TypeOK
    <3>2. /\ pc[r] = "recheck" /\ pc' = [pc EXCEPT ![r] = "finish"]
          /\ result' = [result EXCEPT ![r] = x] /\ UNCHANGED <<ask, reply>>
          /\ ask[r] \in Payload /\ result[r] = None
      BY <2>14 DEF RecheckHit, StageFacts
    <3> HIDE DEF x
    <3>3. <<Wanted(r), Outcome(x)>> \in Delivered
      BY <3>1, <3>2, OutcomeOfResponse, WantedIsKey DEF EntriesDelivered
    <3>4. Delivered' = Delivered
      <4>1. x # None
        BY <3>1
      <4>2. Delivered' = Delivered \cup {<<Wanted(r), Outcome(x)>>}
        BY <3>2, <4>1, DeliveredGrows
      <4> QED BY <3>3, <4>2
    <3>5. Fetched' = Fetched
      BY <2>5, <3>2
    <3> QED BY <2>1, <2>2, <3>2, <3>4, <3>5
  <2>15. ASSUME NEW r \in Requests, RecheckMiss(r) PROVE Promise!Next
    <3>1. /\ pc[r] = "recheck" /\ pc' = [pc EXCEPT ![r] = "fetch"] /\ UNCHANGED <<ask, result, reply>>
          /\ ask[r] \in Payload /\ reply[r] = None
      BY <2>15 DEF RecheckMiss, StageFacts
    <3>2. want[r] = Wanted(r) /\ Wanted(r) = KeyOf(r) /\ KeyOf(r) \in Key /\ want[r] # None /\ got[r] = None
      BY <2>6, <2>7, <3>1
    <3>3. Wanted(r) \notin Fetched
      <4> SUFFICES ASSUME NEW s \in Requests, pc[s] = "fetch", Wanted(s) = Wanted(r) PROVE FALSE
        BY DEF Fetched
      <4>1. Wanted(s) = KeyOf(s)
        BY WantedIsKey DEF StageFacts
      <4>2. flight[KeyOf(s)] = s /\ flight[KeyOf(r)] = r
        BY <3>1 DEF LeadersOwn, Leading
      <4> QED BY <3>1, <3>2, <4>1, <4>2
    <3>4. Fetched' = Fetched \cup {Wanted(r)}
      <4>1. \A s \in Requests : pc'[s] = "fetch" <=> pc[s] = "fetch" \/ s = r
        BY <3>1 DEF TypeOK
      <4> QED BY <2>1, <3>1, <4>1 DEF Fetched
    <3>5. want' = want /\ got' = got /\ Delivered' = Delivered
      BY <2>1, <2>2, <2>4, <3>1
    <3>6. PICK k \in Key : k = Wanted(r)
      BY <3>2
    <3>7. Promise!BeginFetch(k)
      BY <3>2, <3>3, <3>4, <3>5, <3>6 DEF Promise!BeginFetch, Promise!Pending, want, got, Fetched
    <3> QED BY <3>7 DEF Promise!Next
  <2>16. ASSUME NEW r \in Requests, NEW x \in Response \cup Failure, NEW stage \in {"fill", "finish"},
                pc[r] = "fetch", pc' = [pc EXCEPT ![r] = stage],
                result' = [result EXCEPT ![r] = x], UNCHANGED <<ask, reply>>,
                Outcome(x) \in OutcomesOfKey(KeyOf(r))
         PROVE  Promise!Next
    <3>1. ask[r] \in Payload /\ result[r] = None /\ x # None
      BY <2>16 DEF StageFacts
    <3>2. Wanted(r) = KeyOf(r) /\ KeyOf(r) \in Key
      BY <3>1, WantedIsKey
    <3>3. Wanted(r) \in Fetched
      BY <2>16 DEF Fetched
    <3>4. Fetched' = Fetched \ {Wanted(r)}
      <4>1. \A s \in Requests : pc'[s] = "fetch" <=> pc[s] = "fetch" /\ s # r
        BY <2>16 DEF TypeOK
      <4>2. ASSUME NEW s \in Requests, pc[s] = "fetch", s # r PROVE Wanted(s) # Wanted(r)
        <5>1. Wanted(s) = KeyOf(s)
          BY <4>2, WantedIsKey DEF StageFacts
        <5>2. flight[KeyOf(s)] = s /\ flight[KeyOf(r)] = r
          BY <2>16, <4>2 DEF LeadersOwn, Leading
        <5> QED BY <3>2, <4>2, <5>1, <5>2
      <4> QED BY <2>1, <2>16, <4>1, <4>2 DEF Fetched
    <3>5. Delivered' = Delivered \cup {<<Wanted(r), Outcome(x)>>}
      BY <2>16, <3>1, DeliveredGrows
    <3>6. want' = want /\ got' = got
      BY <2>1, <2>2, <2>16
    <3>7. Promise!EndFetch(Wanted(r), Outcome(x))
      BY <3>3, <3>4, <3>5, <3>6 DEF Promise!EndFetch, want, got, Fetched
    <3> QED BY <2>16, <3>2, <3>7 DEF Promise!Next
  <2>17. ASSUME NEW r \in Requests, FetchOk(r) PROVE Promise!Next
    <3> DEFINE p == [id |-> ask[r].id, contact |-> ask[r].contact, at |-> clock]
               x == [payload |-> p, cached |-> FALSE]
    <3>1. /\ pc[r] = "fetch" /\ pc' = [pc EXCEPT ![r] = "fill"] /\ UNCHANGED <<ask, reply>>
          /\ result' = [result EXCEPT ![r] = x] /\ ask[r] \in Payload
      BY <2>17 DEF FetchOk, StageFacts
    <3>2. p \in Payload /\ p.id = KeyOf(r).id /\ p.contact = KeyOf(r).contact
      BY <3>1, KeysInKey DEF Payload, TypeOK, CacheTypeOK
    <3>3. x \in Response /\ x.payload = p
      BY <3>2 DEF Response
    <3> HIDE DEF p, x
    <3>4. Outcome(x) \in OutcomesOfKey(KeyOf(r))
      BY <3>2, <3>3, OutcomeOfResponse DEF OutcomesOfKey
    <3> QED BY <2>16, <3>1, <3>3, <3>4
  <2>18. ASSUME NEW r \in Requests, NEW e \in Failures, FetchFail(r, e) PROVE Promise!Next
    <3> DEFINE x == [error |-> e]
    <3>1. /\ pc[r] = "fetch" /\ pc' = [pc EXCEPT ![r] = "finish"] /\ UNCHANGED <<ask, reply>>
          /\ result' = [result EXCEPT ![r] = x]
      BY <2>18 DEF FetchFail
    <3>2. x \in Failure
      BY DEF Failure
    <3> HIDE DEF x
    <3>3. Outcome(x) \in OutcomesOfKey(KeyOf(r))
      BY <3>2, OutcomeOfError DEF OutcomesOfKey
    <3> QED BY <2>16, <3>1, <3>2, <3>3
  <2>19. ASSUME NEW r \in Requests, Finish(r) PROVE Promise!Next
    <3>1. /\ pc[r] = "finish" /\ pc' = [pc EXCEPT ![r] = "done"] /\ UNCHANGED <<ask, result>>
          /\ reply' = [reply EXCEPT ![r] = result[r]] /\ ask[r] \in Payload /\ result[r] # None
      BY <2>19 DEF Finish, StageFacts
    <3>2. result[r] \in Response \cup Failure
      BY <3>1 DEF TypeOK, Result
    <3>3. <<KeyOf(r), Outcome(result[r])>> \in Delivered
      BY <3>1, WantedIsKey, ResultsDelivered
    <3> QED BY <2>9, <3>1, <3>2, <3>3
  <2>20. ASSUME NEW r \in Requests, WakeUp(r) PROVE Promise!Next
    <3> DEFINE l == leader[r]
    <3>1. /\ pc[r] = "wait" /\ pc' = [pc EXCEPT ![r] = "done"] /\ UNCHANGED <<ask, result>>
          /\ reply' = [reply EXCEPT ![r] = result[l]] /\ ask[r] \in Payload
          /\ l \in Requests /\ pc[l] = "done"
      BY <2>20 DEF WakeUp, StageFacts
    <3>2. KeyOf(l) = KeyOf(r) /\ KeyOf(r) \in Key /\ result[l] # None
      <4>1. KeyOf(l) = KeyOf(r) /\ (flight[KeyOf(r)] = l \/ result[l] # None)
        BY <3>1 DEF FlightsAreLive
      <4>2. KeyOf(r) \in Key
        BY <3>1, KeysInKey
      <4> QED BY <3>1, <4>1, <4>2 DEF FlightsAreLive, Leading
    <3>3. result[l] \in Response \cup Failure
      BY <3>1, <3>2 DEF TypeOK, Result
    <3>4. ask[l] \in Payload
      BY <3>1, <3>2 DEF StageFacts, TypeOK
    <3>5. <<KeyOf(r), Outcome(result[l])>> \in Delivered
      BY <3>1, <3>2, <3>4, WantedIsKey, ResultsDelivered
    <3> HIDE DEF l
    <3> QED BY <2>9, <3>1, <3>3, <3>5
  <2> QED
    BY <2>8, <2>10, <2>11, <2>12, <2>13, <2>14, <2>15, <2>17, <2>18, <2>19, <2>20
    DEF Next, Step, AllAnswered, TimePasses, requestVars, vars
<1> QED
  BY <1>1, <1>2, TypingAndStages, Flights, Attribution, CachedWasDelivered, PTL
  DEF Spec, KeepsPromise, Promise!Spec

-----------------------------------------------------------------------------
\* The composition.

\* The proofs about the provider, for the provider of the composition.
Proved == INSTANCE CredentialsProofs WITH Calls <- Requests, Ttl <- SecretTtl, pc <- session

LEMMA ProviderAssumptions == Proved!CredentialsAssumption
  BY DeploymentAssumption, ProfileServiceAssumption, ProfileCacheAssumption
  DEF DeploymentAssumption, Proved!CredentialsAssumption, ProfileServiceAssumption,
      ProfileCacheAssumption

-----------------------------------------------------------------------------
\* Every step of the process is a step of GetProfile's requests, or none.
LEMMA StepsOfService == [DeploymentNext]_allVars => [Next]_vars
<1>. SUFFICES ASSUME [DeploymentNext]_allVars PROVE [Next]_vars
  OBVIOUS
<1>1. ASSUME NEW r \in Requests, Arrive(r) PROVE Next
  BY <1>1 DEF Arrive, Next
<1>2. ASSUME NEW r \in Requests, Serve(r) PROVE Next
  BY <1>2 DEF Serve, Next, Step
<1>3. ASSUME NEW r \in Requests, CallFetchProfile(r) PROVE Next
  BY <1>3 DEF CallFetchProfile, Next, Step
<1>4. ASSUME NEW r \in Requests, NEW e \in Failures, FetchFail(r, e) PROVE Next
  BY <1>4 DEF Next, Step
<1>5. ASSUME NEW r \in Requests, NoSession(r) PROVE Next
  BY <1>5, <1>4, DeploymentAssumption DEF NoSession, DeploymentAssumption
<1>6. ASSUME NEW r \in Requests, FetchProfileReturns(r) PROVE Next
  BY <1>6, <1>4, DeploymentAssumption DEF FetchProfileReturns, DeploymentAssumption, Next, Step
<1>7. ASSUME NEW r \in Requests, GetSession(r) \/ SessionRefused(r) \/ Clear(r)
      PROVE  UNCHANGED vars
  BY <1>7 DEF GetSession, SessionRefused, Clear, serviceVars, requestVars, vars,
     Provider!GetCached, Provider!GetFromEnvironment, Provider!BeginLoad, Provider!ReadSecret,
     Provider!EndLoad, Provider!Deny, Provider!Clear
<1>8. CASE RotateSecret
  BY <1>8 DEF RotateSecret, Provider!Rotate, serviceVars, requestVars, vars
<1>9. CASE ClockTicks
  BY <1>9 DEF ClockTicks, Next
<1>10. CASE AllDone
  BY <1>10 DEF AllDone, Next
<1>11. CASE UNCHANGED allVars
  BY <1>11 DEF allVars
<1>. QED
  BY <1>1, <1>2, <1>3, <1>5, <1>6, <1>7, <1>8, <1>9, <1>10, <1>11 DEF DeploymentNext

\* The process implements the service: what is proved of ProfileService holds
\* in it, with a provider whose mutex and loads delay its fetches.
THEOREM ServiceImplemented == DeploymentSpec => Spec
<1>1. DeploymentInit => Init
  BY DEF DeploymentInit
<1>. QED
  BY <1>1, StepsOfService, PTL DEF DeploymentSpec, Spec

\* Whatever the provider does, a request of the process is answered as the
\* read-through cache of the service promises.
THEOREM PromiseKeptInProcess == DeploymentSpec => KeepsPromise
  BY ServiceImplemented, PromiseIsKept, PTL

\* The requests of the process share their fetches and get the right profile,
\* however long the provider's mutex or a load holds their leaders up.
THEOREM ServiceInProcess ==
  DeploymentSpec =>
    [](OneFetchPerKey /\ NoRedundantFetch /\ RightProfile /\ CachedFlagTruthful /\ FlightsAreLive)
  BY ServiceImplemented, FetchesAreExclusive, NoFetchIsRedundant, ProfilesAreRight,
     FlagsAreTruthful, FlightsStayLive, PTL

-----------------------------------------------------------------------------
\* Every step is a step of the provider, or none.
LEMMA SameProvider ==
  /\ Provider!Init => Proved!Init
  /\ Provider!Next => Proved!Next
  BY Zenon DEF Provider!Init, Proved!Init, Provider!Next, Proved!Next,
     Provider!Environments, Proved!Environments,
     Provider!setup, Proved!setup, Provider!history, Proved!history,
     Provider!Rotate, Proved!Rotate, Provider!Tick, Proved!Tick, Provider!Call, Proved!Call,
     Provider!Locking, Proved!Locking, Provider!Loading, Proved!Loading,
     Provider!GetCached, Proved!GetCached, Provider!GetFromEnvironment, Proved!GetFromEnvironment,
     Provider!GetNothing, Proved!GetNothing, Provider!BeginLoad, Proved!BeginLoad,
     Provider!ReadSecret, Proved!ReadSecret, Provider!EndLoad, Proved!EndLoad,
     Provider!FailLoad, Proved!FailLoad, Provider!Deny, Proved!Deny,
     Provider!Clear, Proved!Clear, Provider!EndCall, Proved!EndCall,
     Provider!Go, Proved!Go, Provider!Obtain, Proved!Obtain, Provider!Live, Proved!Live,
     Provider!Expiry, Proved!Expiry, Provider!Forever, Proved!Forever

LEMMA StepsOfProvider == [DeploymentNext]_allVars => [Proved!Next]_(Proved!vars)
<1>. SUFFICES ASSUME [DeploymentNext]_allVars PROVE Provider!Next \/ UNCHANGED Proved!vars
  BY SameProvider
<1>1. ASSUME NEW r \in Requests,
             CallFetchProfile(r) \/ NoSession(r) \/ GetSession(r) \/ SessionRefused(r)
               \/ Clear(r) \/ FetchProfileReturns(r)
      PROVE  Provider!Next
  BY <1>1 DEF CallFetchProfile, NoSession, GetSession, SessionRefused, Clear,
     FetchProfileReturns, Provider!Next, Provider!Locking, Provider!Loading
<1>2. CASE RotateSecret
  BY <1>2 DEF RotateSecret, Provider!Next
<1>3. CASE ClockTicks
  BY <1>3 DEF ClockTicks, Provider!Next
<1>. USE DEF providerVars, Proved!vars, Proved!setup, Proved!history
<1>4. ASSUME NEW r \in Requests, Arrive(r) PROVE UNCHANGED Proved!vars
  BY <1>4 DEF Arrive, Refuse, Accept
<1>5. ASSUME NEW r \in Requests, Serve(r) PROVE UNCHANGED Proved!vars
  BY <1>5 DEF Serve, LookupHit, LookupMiss, Lead, Follow, RecheckHit, Fill, Finish, WakeUp
<1>6. CASE AllDone
  BY <1>6 DEF AllDone, AllAnswered, vars
<1>7. CASE UNCHANGED allVars
  BY <1>7 DEF allVars, vars
<1>. QED
  BY <1>1, <1>2, <1>3, <1>4, <1>5, <1>6, <1>7 DEF DeploymentNext

\* The process implements the provider: what is proved of Credentials holds
\* in it, with calls that come one per flight.
THEOREM ProviderImplemented == DeploymentSpec => Proved!Spec
<1>1. DeploymentInit => Proved!Init
  BY SameProvider DEF DeploymentInit
<1>. QED
  BY <1>1, StepsOfProvider, PTL DEF DeploymentSpec, Proved!Spec

\* The process loads the secret for one leader at a time, and none of them gets
\* a session that was cleared or has long been replaced, whichever flights
\* their requests come from.
THEOREM ProviderInProcess ==
  DeploymentSpec =>
    []Proved!LoadsAreNeeded /\ Proved!ClearHeals /\ Proved!RotationTakesEffect
  BY ProviderImplemented, ProviderAssumptions, Proved!LoadsAreExclusive,
     Proved!ClearTakesEffect, Proved!RotationsTakeEffect, PTL

-----------------------------------------------------------------------------
\* What a request was refused for, and what it uses, is no older than the last
\* Clear before it was accepted.
Healing ==
  /\ asked \in [Requests -> 0..Versions] /\ \A r \in Requests : asked[r] <= floor
  /\ denials \in [Requests -> Seq(0..Versions)]
  /\ \A r \in Requests : pc[r] = "idle" => session[r] = "idle" /\ denials[r] = <<>>
  /\ \A r \in Requests : session[r] \in {"using", "clear"} =>
       creds[r] \in 0..Versions /\ (creds[r] # 0 => creds[r] >= asked[r])
  /\ RefusalsHeal

\* A session that a request obtains is the environment's or no older than the
\* last Clear.
LEMMA Obtained ==
  ASSUME Proved!IInv, [DeploymentNext]_allVars, NEW r \in Requests,
         Provider!GetCached(r) \/ Provider!GetFromEnvironment(r) \/ Provider!EndLoad(r)
  PROVE  /\ session' = [session EXCEPT ![r] = "using"]
         /\ creds'[r] \in 0..Versions /\ (creds'[r] # 0 => creds'[r] >= floor)
         /\ \A s \in Requests \ {r} : creds'[s] = creds[s]
         /\ UNCHANGED floor
<1>. USE DEF Proved!IInv, Proved!TypeOK, Proved!Cached, Provider!Obtain, Provider!Go,
             Provider!history
<1>1. CASE Provider!GetCached(r)
  BY <1>1, ProviderAssumptions
  DEF Provider!GetCached, Provider!Live, Proved!CachedIsRecent, Proved!CredentialsAssumption
<1>2. CASE Provider!GetFromEnvironment(r)
  BY <1>2, ProviderAssumptions DEF Provider!GetFromEnvironment, Proved!CredentialsAssumption
<1>3. CASE Provider!EndLoad(r)
  BY <1>3, ProviderAssumptions
  DEF Provider!EndLoad, Proved!ReadIsRecent, Proved!CredentialsAssumption
<1>. QED
  BY <1>1, <1>2, <1>3

LEMMA HealingKept ==
  ASSUME TypeOK, Proved!IInv, Healing, [DeploymentNext]_allVars
  PROVE  Healing'
<1>. USE DEF Healing, RefusalsHeal, TypeOK, Proved!IInv, Proved!TypeOK
<1>1. ASSUME NEW r \in Requests, Arrive(r) PROVE Healing'
  <2>1. /\ UNCHANGED <<session, creds, floor, denials>>
        /\ asked' = [asked EXCEPT ![r] = floor]
    BY <1>1 DEF Arrive, providerVars
  <2>2. pc[r] = "idle" /\ \A s \in Requests : pc'[s] = "idle" => pc[s] = "idle"
    BY <1>1 DEF Arrive, Refuse, Accept, Go, Answer, At
  <2>3. session[r] = "idle" /\ denials[r] = <<>>
    BY <2>2
  <2>. QED
    BY <2>1, <2>2, <2>3
<1>2. ASSUME NEW r \in Requests, Serve(r) PROVE Healing'
  <2>1. UNCHANGED <<session, creds, floor, denials, asked>>
    BY <1>2 DEF Serve, providerVars, blameVars
  <2>2. \A s \in Requests : pc'[s] = "idle" => pc[s] = "idle"
    BY <1>2 DEF Serve, LookupHit, LookupMiss, Lead, Follow, RecheckHit, Fill, Finish, WakeUp,
       Go, Answer, At
  <2>. QED
    BY <2>1, <2>2
<1>3. ASSUME NEW r \in Requests, CallFetchProfile(r) PROVE Healing'
  <2>1. /\ UNCHANGED <<creds, floor, denials, asked>>
        /\ session' = [session EXCEPT ![r] = "get"]
        /\ pc[r] # "idle" /\ pc' = [pc EXCEPT ![r] = "fetch"]
    BY <1>3 DEF CallFetchProfile, RecheckMiss, Provider!Call, Provider!Go, Provider!history,
       blameVars, At, Go
  <2>. QED
    BY <2>1
<1>4. ASSUME NEW r \in Requests, NoSession(r) \/ FetchProfileReturns(r) PROVE Healing'
  <2>1. /\ UNCHANGED <<floor, denials, asked>>
        /\ session' = [session EXCEPT ![r] = "idle"]
        /\ \A s \in Requests \ {r} : creds'[s] = creds[s]
    BY <1>4 DEF NoSession, FetchProfileReturns, Provider!GetNothing, Provider!FailLoad,
       Provider!EndCall, Provider!Go, Provider!Obtain, Provider!history, blameVars
  <2>2. pc[r] # "idle" /\ \A s \in Requests : pc'[s] = "idle" => pc[s] = "idle"
    BY <1>4 DEF NoSession, FetchProfileReturns, FetchOk, FetchFail, Go, At
  <2>. QED
    BY <2>1, <2>2
<1>5. ASSUME NEW r \in Requests, GetSession(r) PROVE Healing'
  <2>1. UNCHANGED <<pc, denials, asked>>
    BY <1>5 DEF GetSession, serviceVars, requestVars, blameVars
  <2>2. CASE Provider!BeginLoad(r) \/ Provider!ReadSecret(r)
    <3>1. /\ UNCHANGED floor
          /\ session[r] # "idle"
          /\ session' \in {[session EXCEPT ![r] = "load"], [session EXCEPT ![r] = "loaded"]}
          /\ \A s \in Requests \ {r} : creds'[s] = creds[s]
      BY <2>2 DEF Provider!BeginLoad, Provider!ReadSecret, Provider!Go, Provider!Obtain,
         Provider!history
    <3>. QED
      BY <2>1, <3>1
  <2>3. CASE Provider!GetCached(r) \/ Provider!GetFromEnvironment(r) \/ Provider!EndLoad(r)
    <3>1. /\ session' = [session EXCEPT ![r] = "using"]
          /\ creds'[r] \in 0..Versions /\ (creds'[r] # 0 => creds'[r] >= floor)
          /\ \A s \in Requests \ {r} : creds'[s] = creds[s]
          /\ UNCHANGED floor
      BY <2>3, Obtained
    <3>2. session[r] # "idle"
      BY <2>3 DEF Provider!GetCached, Provider!GetFromEnvironment, Provider!EndLoad
    <3>3. creds'[r] # 0 => creds'[r] >= asked[r]
      BY <3>1
    <3>. QED
      BY <2>1, <3>1, <3>2, <3>3
  <2>. QED
    BY <1>5, <2>2, <2>3 DEF GetSession
<1>6. ASSUME NEW r \in Requests, SessionRefused(r) PROVE Healing'
  <2>1. /\ UNCHANGED <<pc, creds, floor, asked>>
        /\ session[r] = "using" /\ session' = [session EXCEPT ![r] = "clear"]
        /\ denials' = [denials EXCEPT ![r] = Append(denials[r], creds[r])]
    BY <1>6 DEF SessionRefused, serviceVars, requestVars, Provider!Deny, Provider!Go,
       Provider!history
  <2>2. pc[r] # "idle" /\ creds[r] \in 0..Versions /\ denials[r] \in Seq(0..Versions)
    BY <2>1
  <2>3. denials' \in [Requests -> Seq(0..Versions)]
    BY <2>1, <2>2
  <2>4. ASSUME NEW s \in Requests, NEW i \in DOMAIN denials'[s], denials'[s][i] # 0
        PROVE  denials'[s][i] >= asked'[s]
    <3>1. CASE s = r
      <4>1. CASE i = Len(denials[r]) + 1
        BY <2>1, <2>2, <2>4, <3>1, <4>1
      <4>2. CASE i # Len(denials[r]) + 1
        <5>1. i \in DOMAIN denials[r] /\ denials'[r][i] = denials[r][i]
          BY <2>1, <2>2, <2>4, <3>1, <4>2
        <5>. QED
          BY <5>1, <2>1, <2>4, <3>1
      <4>. QED
        BY <4>1, <4>2
    <3>2. CASE s # r
      BY <2>1, <2>4, <3>2
    <3>. QED
      BY <3>1, <3>2
  <2>5. \A s \in Requests : pc'[s] = "idle" => session'[s] = "idle" /\ denials'[s] = <<>>
    BY <2>1, <2>2
  <2>6. \A s \in Requests : session'[s] \in {"using", "clear"} =>
          creds'[s] \in 0..Versions /\ (creds'[s] # 0 => creds'[s] >= asked'[s])
    BY <2>1, <2>2
  <2>. QED
    BY <2>1, <2>3, <2>4, <2>5, <2>6
<1>7. ASSUME NEW r \in Requests, Clear(r) PROVE Healing'
  <2>1. /\ UNCHANGED <<pc, creds, denials, asked>>
        /\ session[r] = "clear" /\ session' = [session EXCEPT ![r] = "using"]
        /\ floor' = secret
    BY <1>7 DEF Clear, serviceVars, requestVars, blameVars, Provider!Clear, Provider!Go
  <2>2. floor <= secret
    BY DEF Proved!FloorIsPast
  <2>3. \A s \in Requests : asked[s] <= floor'
    BY <2>1, <2>2, ProviderAssumptions DEF Proved!CredentialsAssumption
  <2>. QED
    BY <2>1, <2>3
<1>8. CASE RotateSecret \/ ClockTicks
  BY <1>8 DEF RotateSecret, ClockTicks, TimePasses, Provider!Rotate, Provider!Tick,
     Provider!history, serviceVars, requestVars, blameVars
<1>9. CASE AllDone \/ UNCHANGED allVars
  BY <1>9 DEF AllDone, AllAnswered, allVars, vars, providerVars, blameVars
<1>. QED
  BY <1>1, <1>2, <1>3, <1>4, <1>5, <1>6, <1>7, <1>8, <1>9 DEF DeploymentNext

\* A request that fetches by itself is refused by LinkedIn only for a session
\* at least as recent as the secret was at any Clear before it was accepted
\* (GetProfile, Get and Clear together).
THEOREM RefusalsAlwaysHeal == DeploymentSpec => []RefusalsHeal
<1>1. DeploymentInit => Healing
  BY ProviderAssumptions DEF DeploymentInit, Init, Provider!Init, Healing, RefusalsHeal,
     Proved!CredentialsAssumption
<1>2. Healing => RefusalsHeal
  BY DEF Healing
<1>. QED
  BY <1>1, <1>2, HealingKept, ServiceImplemented, TypeCorrect, ProviderImplemented,
     Proved!Recency, ProviderAssumptions, PTL DEF DeploymentSpec
=============================================================================
