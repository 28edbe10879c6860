------------------------- MODULE LinkedInClientProofs -------------------------
(***************************************************************************)
(* What one FetchProfile keeps for every number of sections and slots,     *)
(* every budget and every number of retries.                               *)
(*                                                                         *)
(* What a path has been through is a matter of the path alone: PathInv     *)
(* relates where its getJSON is, its attempt, its result and its answers,  *)
(* and a lemma per step of the loop says that it is kept.  What the main   *)
(* goroutine knows is the order of its stages: Search says what holds of   *)
(* the primary paths while it looks for the profile, Found once it has it, *)
(* Ended when it has returned.  With that, Funds and ContactAtRest every   *)
(* step of the goroutines is a step of UpstreamCall or a stutter.          *)
(***************************************************************************)
EXTENDS LinkedInClient, TLAPS, FiniteSetTheorems

D1 == "decoration 1"
D2 == "decoration 2"

Stages == {"unused", "queued", "charge", "flying", "backoff", "ended", "left"}
Active == {"charge", "flying", "backoff", "ended"}
AllAnswers == {"match", "other", "null", "denied", "missing", "limited", "bad", "fault"}

Typed ==
  /\ main \in {"start", "sections", "contact", "returned"} \cup PrimaryPaths
  /\ stage \in [Paths -> Stages]
  /\ attempt \in [Paths -> 0..MaxRetries]
  /\ got \in [Paths -> Documents \cup Errors \cup {"none", "null"}]
  /\ cleared \in BOOLEAN
  /\ sent \in [Paths -> Seq(AllAnswers)]

-----------------------------------------------------------------------------
\* One path: its stage, attempt, result and answers.
Counted(st, at, se) ==
  /\ Len(se) <= at + 1
  /\ st \in {"unused", "queued", "charge", "flying"} => Len(se) <= at
  /\ st = "backoff" => at < MaxRetries

OnlyFaults(st, se) ==
  \A i \in 1..Len(se) :
    i < Len(se) \/ st \in {"charge", "flying", "backoff"} => se[i] = "fault"

Silent(st, se) == st \in {"unused", "queued"} => se = <<>>

Settled(st, go, se) ==
  IF st \in {"ended", "left"}
  THEN go = "budget" \/ (se # <<>> /\ go = Verdict(Last(se)))
  ELSE go = "none"

PathInv(st, at, go, se) ==
  Counted(st, at, se) /\ OnlyFaults(st, se) /\ Silent(st, se) /\ Settled(st, go, se)

PathsInv == \A p \in Paths : PathInv(stage[p], attempt[p], got[p], sent[p])

-----------------------------------------------------------------------------
\* The main goroutine.
Failed(p) == stage[p] = "ended" /\ ~ Matches(p) /\ got[p] # "budget"
Unused(p) == stage[p] = "unused"

\* What came before p failed, and what comes after it was not asked.
Reached(p) ==
  /\ p # D1 => Failed(D1)
  /\ p = D1 => Unused(D2)
  /\ p = "view" => Failed(D2)
  /\ p # "view" => Unused("view")

OthersUnused == \A p \in Paths \ PrimaryPaths : Unused(p)
PrimaryAtRest == \A p \in PrimaryPaths : stage[p] \in {"unused", "ended"}
SectionsAtRest == \A s \in Sections : stage[s] \in {"unused", "left"}

LastErrIs(p) ==
  /\ p = D2 => lastErr = Complaint(D1)
  /\ p = "view" => lastErr = Complaint(D2)

Start0 == main = "start" => (\A p \in Paths : Unused(p)) /\ documents = <<>> /\ outcome = "none"

Search ==
  main \in PrimaryPaths =>
    /\ Reached(main) /\ stage[main] \in Active /\ LastErrIs(main)
    /\ OthersUnused /\ documents = <<>> /\ outcome = "none"

Found ==
  documents # <<>> =>
    \E p \in PrimaryPaths : documents[1] = p /\ stage[p] = "ended" /\ Matches(p) /\ Reached(p)

Decorating ==
  /\ main \in {"sections", "contact"} =>
       Len(documents) \in Nat \ {0} /\ documents # <<>> /\ outcome = "none"
  /\ main \in {"contact", "returned"} => SectionsAtRest
  /\ main = "sections" => Unused("contact")
  /\ main = "sections" /\ ~ fallbacks => SectionsAtRest

Ended ==
  /\ main \notin PrimaryPaths => PrimaryAtRest
  /\ ErrorExplained

Denied(p) == "denied" \in ToSet(sent[p])
ClearedIfDenied == cleared <=> \E p \in Paths : Denied(p)

IInv ==
  /\ Typed /\ PathsInv /\ Start0 /\ Search /\ Found /\ Decorating /\ Ended /\ ClearedIfDenied

-----------------------------------------------------------------------------
\* The loop of getJSON, step by step, for one path.

LEMMA VerdictOfDocument ==
  ASSUME NEW answer \in AllAnswers
  PROVE  /\ Verdict(answer) = "match" <=> answer = "match"
         /\ Verdict(answer) # "budget" /\ Verdict(answer) # "none"
         /\ Verdict(answer) \in Documents \cup Errors \cup {"null"}
BY DEF Verdict, AllAnswers, Documents, Errors

\* A path that is called, or queued to be, has sent nothing.
LEMMA PathQueued ==
  ASSUME NEW at \in 0..MaxRetries, NEW go, NEW se \in Seq(AllAnswers),
         PathInv("unused", at, go, se)
  PROVE  PathInv("queued", at, go, se) /\ PathInv("charge", at, go, se)
<1>1. se = <<>> BY DEF PathInv, Silent
<1>2. Counted("queued", at, se) /\ Counted("charge", at, se)
  BY <1>1 DEF PathInv, Counted
<1>3. OnlyFaults("queued", se) /\ OnlyFaults("charge", se) BY <1>1 DEF OnlyFaults
<1>4. Silent("queued", se) /\ Silent("charge", se) BY <1>1 DEF Silent
<1>5. Settled("queued", go, se) /\ Settled("charge", go, se) BY DEF PathInv, Settled
<1> QED BY <1>2, <1>3, <1>4, <1>5 DEF PathInv

LEMMA PathAcquired ==
  ASSUME NEW at \in 0..MaxRetries, NEW go, NEW se \in Seq(AllAnswers),
         PathInv("queued", at, go, se)
  PROVE  PathInv("charge", at, go, se)
<1>1. se = <<>> BY DEF PathInv, Silent
<1>2. Counted("charge", at, se) BY <1>1 DEF PathInv, Counted
<1>3. OnlyFaults("charge", se) BY <1>1 DEF OnlyFaults
<1>4. Silent("charge", se) BY <1>1 DEF Silent
<1>5. Settled("charge", go, se) BY DEF PathInv, Settled
<1> QED BY <1>2, <1>3, <1>4, <1>5 DEF PathInv

LEMMA PathCharged ==
  ASSUME NEW at \in 0..MaxRetries, NEW go, NEW se \in Seq(AllAnswers),
         PathInv("charge", at, go, se)
  PROVE  PathInv("flying", at, go, se) /\ PathInv("ended", at, "budget", se)
<1>1. Counted("flying", at, se) /\ Counted("ended", at, se) BY DEF PathInv, Counted
<1>2. OnlyFaults("flying", se) /\ OnlyFaults("ended", se) BY DEF PathInv, OnlyFaults
<1>3. Silent("flying", se) /\ Silent("ended", se) BY DEF Silent
<1>4. Settled("flying", go, se) /\ Settled("ended", "budget", se) BY DEF PathInv, Settled
<1> QED BY <1>1, <1>2, <1>3, <1>4 DEF PathInv

\* An answer to the request in flight: those before it are faults, and it is
\* within the count of the attempt.
LEMMA PathAnswered ==
  ASSUME NEW at \in 0..MaxRetries, NEW go, NEW se \in Seq(AllAnswers),
         PathInv("flying", at, go, se), NEW answer \in AllAnswers
  PROVE  /\ Counted("ended", at, Append(se, answer))
         /\ OnlyFaults("ended", Append(se, answer))
         /\ Last(Append(se, answer)) = answer
         /\ Append(se, answer) # <<>>
<1>1. Len(Append(se, answer)) = Len(se) + 1 /\ Len(se) \in Nat
  OBVIOUS
<1>2. Len(se) <= at BY DEF PathInv, Counted
<1>3. Counted("ended", at, Append(se, answer)) BY <1>1, <1>2 DEF Counted
<1>4. \A i \in 1..Len(se) : se[i] = "fault" BY DEF PathInv, OnlyFaults
<1>5. \A i \in 1..Len(se) : Append(se, answer)[i] = se[i] BY <1>1
<1>6. \A i \in 1..Len(Append(se, answer)) : i < Len(Append(se, answer)) => i \in 1..Len(se)
  BY <1>1
<1>7. OnlyFaults("ended", Append(se, answer)) BY <1>4, <1>5, <1>6 DEF OnlyFaults
<1>8. Last(Append(se, answer)) = answer BY <1>1 DEF Last
<1>9. Append(se, answer) # <<>> BY <1>1
<1> QED BY <1>3, <1>7, <1>8, <1>9

LEMMA PathResponded ==
  ASSUME NEW at \in 0..MaxRetries, NEW go, NEW se \in Seq(AllAnswers),
         PathInv("flying", at, go, se), NEW answer \in AllAnswers
  PROVE  PathInv("ended", at, Verdict(answer), Append(se, answer))
<1>1. Silent("ended", Append(se, answer)) BY DEF Silent
<1>2. Settled("ended", Verdict(answer), Append(se, answer)) BY PathAnswered DEF Settled
<1> QED BY <1>1, <1>2, PathAnswered DEF PathInv

LEMMA PathAskedAgain ==
  ASSUME NEW at \in 0..MaxRetries, NEW go, NEW se \in Seq(AllAnswers),
         PathInv("flying", at, go, se), at < MaxRetries
  PROVE  PathInv("backoff", at, go, Append(se, "fault"))
<1>0. "fault" \in AllAnswers BY DEF AllAnswers
<1>1. Counted("backoff", at, Append(se, "fault"))
  <2>1. Counted("ended", at, Append(se, "fault")) BY <1>0, PathAnswered
  <2> QED BY <2>1 DEF Counted
<1>2. OnlyFaults("backoff", Append(se, "fault"))
  <2>1. Len(Append(se, "fault")) = Len(se) + 1 /\ Len(se) \in Nat BY <1>0
  <2>2. \A i \in 1..Len(se) : se[i] = "fault" BY DEF PathInv, OnlyFaults
  <2>3. \A i \in 1..Len(se) : Append(se, "fault")[i] = se[i] BY <1>0
  <2>4. Append(se, "fault")[Len(se) + 1] = "fault" BY <1>0
  <2>5. \A i \in 1..Len(Append(se, "fault")) : i \in 1..Len(se) \/ i = Len(se) + 1 BY <2>1
  <2> QED BY <2>2, <2>3, <2>4, <2>5 DEF OnlyFaults
<1>3. Silent("backoff", Append(se, "fault")) BY DEF Silent
<1>4. Settled("backoff", go, Append(se, "fault")) BY DEF PathInv, Settled
<1> QED BY <1>1, <1>2, <1>3, <1>4 DEF PathInv

LEMMA PathRetried ==
  ASSUME NEW at \in 0..MaxRetries, NEW go, NEW se \in Seq(AllAnswers),
         PathInv("backoff", at, go, se), MaxRetries \in Nat
  PROVE  PathInv("charge", at + 1, go, se) /\ at + 1 \in 0..MaxRetries
<1>1. Len(se) <= at + 1 /\ at < MaxRetries BY DEF PathInv, Counted
<1>2. at + 1 \in 0..MaxRetries BY <1>1
<1>3. Counted("charge", at + 1, se)
  <2>1. Len(se) <= (at + 1) + 1 BY <1>1
  <2> QED BY <1>1, <2>1 DEF Counted
<1>4. OnlyFaults("charge", se) BY DEF PathInv, OnlyFaults
<1>5. Silent("charge", se) BY DEF Silent
<1>6. Settled("charge", go, se) BY DEF PathInv, Settled
<1> QED BY <1>2, <1>3, <1>4, <1>5, <1>6 DEF PathInv

LEMMA PathLeft ==
  ASSUME NEW at \in 0..MaxRetries, NEW go, NEW se \in Seq(AllAnswers),
         PathInv("ended", at, go, se)
  PROVE  PathInv("left", at, go, se)
<1>1. Counted("left", at, se) BY DEF PathInv, Counted
<1>2. OnlyFaults("left", se) BY DEF PathInv, OnlyFaults
<1>3. Silent("left", se) BY DEF Silent
<1>4. Settled("left", go, se) BY DEF PathInv, Settled
<1> QED BY <1>1, <1>2, <1>3, <1>4 DEF PathInv

-----------------------------------------------------------------------------
\* The two kinds of step, as far as the main goroutine's invariants see them.

LEMMA PathNames ==
  /\ PrimaryPaths = {D1, D2, "view"}
  /\ Primary[1] = D1 /\ Primary[2] = D2 /\ Primary[3] = "view" /\ Len(Primary) = 3
  /\ D1 # D2 /\ D1 # "view" /\ D2 # "view"
  /\ Paths = PrimaryPaths \cup Sections \cup {"contact"}
<1>1. Len(Primary) = 3 /\ Primary[1] = D1 /\ Primary[2] = D2 /\ Primary[3] = "view"
  BY DEF Primary, D1, D2
<1>2. DOMAIN Primary = 1..3 BY DEF Primary
<1>3. PrimaryPaths = {D1, D2, "view"}
  <2>1. PrimaryPaths = {Primary[i] : i \in 1..3} BY <1>2 DEF PrimaryPaths, ToSet
  <2>2. 1..3 = {1, 2, 3} OBVIOUS
  <2> QED BY <1>1, <2>1, <2>2
<1> QED BY <1>1, <1>3 DEF D1, D2, Paths

LEMMA Disjoint ==
  /\ D1 \notin Sections /\ D2 \notin Sections /\ "view" \notin Sections
  /\ "contact" \notin Sections /\ "contact" \notin PrimaryPaths
BY PathNames, PathsAssumption DEF D1, D2

\* A step of one path leaves the others as they are.
LEMMA PathStep ==
  ASSUME PathsInv, NEW p \in Paths,
         PathInv(stage'[p], attempt'[p], got'[p], sent'[p]),
         \A q \in Paths \ {p} :
           /\ stage'[q] = stage[q] /\ attempt'[q] = attempt[q]
           /\ got'[q] = got[q] /\ sent'[q] = sent[q]
  PROVE  PathsInv'
<1> SUFFICES ASSUME NEW q \in Paths
             PROVE  PathInv(stage'[q], attempt'[q], got'[q], sent'[q])
  BY DEF PathsInv
<1>1. CASE q = p BY <1>1
<1>2. CASE q # p
  <2>1. PathInv(stage[q], attempt[q], got[q], sent[q]) BY DEF PathsInv
  <2> QED BY <1>2, <2>1
<1> QED BY <1>1, <1>2

\* A step of getJSON on a path, whatever it is, disturbs nothing the main
\* goroutine relies on.
LEMMA ExchangeStep ==
  ASSUME IInv, NEW p \in Paths, stage[p] \in {"charge", "flying", "backoff"},
         NEW st \in Active, NEW g,
         stage' = [stage EXCEPT ![p] = st], got' = [got EXCEPT ![p] = g],
         UNCHANGED <<setup, main, lastErr, documents, outcome>>
  PROVE  Start0' /\ Search' /\ Found' /\ Decorating' /\ Ended'
<1> USE DEF Matches
<1>0. /\ stage \in [Paths -> Stages] /\ DOMAIN got = Paths
      /\ \A q \in Paths : q # p => stage'[q] = stage[q] /\ got'[q] = got[q]
      /\ stage'[p] = st
      /\ stage[p] # "unused" /\ stage[p] # "ended" /\ stage[p] # "left"
      /\ D1 \in Paths /\ D2 \in Paths /\ "view" \in Paths /\ "contact" \in Paths
  BY PathNames DEF IInv, Typed
<1>1. Start0'
  BY <1>0 DEF IInv, Start0, Unused
<1>2. ASSUME NEW q \in Paths, Failed(q) PROVE Failed(q)' /\ Complaint(q)' = Complaint(q)
  BY <1>0, <1>2 DEF Failed, Complaint
<1>3. ASSUME NEW q \in Paths, Unused(q) PROVE Unused(q)'
  BY <1>0, <1>3 DEF Unused
<1>4. ASSUME NEW q \in PrimaryPaths, Reached(q) PROVE Reached(q)'
  BY <1>0, <1>2, <1>3, <1>4 DEF Reached
<1>5. Search'
  <2> SUFFICES ASSUME main \in PrimaryPaths
               PROVE  /\ Reached(main)' /\ stage'[main] \in Active /\ LastErrIs(main)'
                      /\ OthersUnused' /\ documents = <<>> /\ outcome = "none"
    BY DEF Search
  <2>1. /\ Reached(main) /\ stage[main] \in Active /\ LastErrIs(main)
        /\ OthersUnused /\ documents = <<>> /\ outcome = "none"
    BY DEF IInv, Search
  <2>2. Reached(main)' BY <1>4, <2>1
  <2>3. stage'[main] \in Active BY <1>0, <2>1, PathNames
  <2>4. LastErrIs(main)'
    <3>1. main = D2 => Failed(D1) /\ lastErr = Complaint(D1)
      BY <2>1, PathNames DEF LastErrIs, Reached
    <3>2. main = "view" => Failed(D2) /\ lastErr = Complaint(D2)
      BY <2>1, PathNames DEF LastErrIs, Reached
    <3> QED BY <1>0, <1>2, <3>1, <3>2 DEF LastErrIs
  <2>5. OthersUnused' BY <1>3, <2>1 DEF OthersUnused
  <2> QED BY <2>1, <2>2, <2>3, <2>4, <2>5
<1>6. Found'
  <2> SUFFICES ASSUME documents # <<>>
               PROVE  \E q \in PrimaryPaths :
                        documents[1] = q /\ stage'[q] = "ended" /\ got'[q] = "match" /\ Reached(q)'
    BY DEF Found
  <2>1. PICK q \in PrimaryPaths :
          documents[1] = q /\ stage[q] = "ended" /\ got[q] = "match" /\ Reached(q)
    BY DEF IInv, Found
  <2>2. stage'[q] = "ended" /\ got'[q] = "match" BY <1>0, <2>1, PathNames
  <2> QED BY <1>4, <2>1, <2>2
<1>7. SectionsAtRest => SectionsAtRest'
  BY <1>0, PathNames DEF SectionsAtRest
<1>8. Decorating'
  BY <1>0, <1>3, <1>7 DEF IInv, Decorating, setup
<1>9. main \notin PrimaryPaths => PrimaryAtRest'
  BY <1>0, PathNames DEF IInv, Ended, PrimaryAtRest
<1>10. ErrorExplained'
  <2> SUFFICES ASSUME outcome \in Errors \ {"credentials"}
               PROVE  ErrorExplained'
    BY DEF ErrorExplained
  <2>1. main \notin PrimaryPaths
    BY DEF IInv, Search, Errors
  <2>2. PrimaryAtRest BY <2>1 DEF IInv, Ended
  <2>3. \A q \in PrimaryPaths : q # p BY <1>0, <2>2 DEF PrimaryAtRest
  <2>4. \A q \in PrimaryPaths : stage'[q] = stage[q] /\ got'[q] = got[q]
    BY <1>0, <2>3, PathNames
  <2>5. ErrorExplained BY DEF IInv, Ended
  <2>6. /\ "view" \in PrimaryPaths /\ D2 \in PrimaryPaths /\ Primary[2] = D2
        /\ Complaint(D2)' = Complaint(D2)
    BY <2>4, PathNames DEF Complaint
  <2> QED BY <2>4, <2>5, <2>6 DEF ErrorExplained
<1> QED BY <1>1, <1>5, <1>6, <1>8, <1>9, <1>10 DEF Ended

\* A step of the main goroutine that calls at most one path.
LEMMA UntouchedPaths ==
  ASSUME PathsInv, UNCHANGED <<attempt, got, sent>>,
         \A p \in Paths :
           PathInv(stage[p], attempt[p], got[p], sent[p]) =>
             PathInv(stage'[p], attempt[p], got[p], sent[p])
  PROVE  PathsInv'
BY DEF PathsInv

LEMMA CallOnPath ==
  ASSUME Typed, PathsInv, NEW p \in Paths, stage[p] \in {"unused", "queued"}, Call(p),
         UNCHANGED <<attempt, got, sent>>
  PROVE  PathsInv' /\ stage' \in [Paths -> Stages]
<1>1. stage'[p] = "charge" /\ \A q \in Paths \ {p} : stage'[q] = stage[q]
  BY DEF Call, Typed
<1>2. PathInv(stage[p], attempt[p], got[p], sent[p]) BY DEF PathsInv
<1>3. PathInv("charge", attempt[p], got[p], sent[p])
  BY <1>2, PathQueued, PathAcquired DEF Typed
<1>4. PathsInv' BY <1>1, <1>3, PathStep
<1> QED BY <1>4 DEF Call, Typed, Stages

LEMMA DeniedStays ==
  ASSUME ClearedIfDenied, UNCHANGED <<cleared, sent>>
  PROVE  ClearedIfDenied'
BY DEF ClearedIfDenied, Denied

\* An answer joins those of its path.
LEMMA DeniedWith ==
  ASSUME Typed, NEW p \in Paths, NEW answer \in AllAnswers,
         sent' = [sent EXCEPT ![p] = Append(@, answer)]
  PROVE  (\E q \in Paths : Denied(q)') <=> answer = "denied" \/ \E q \in Paths : Denied(q)
<1>1. sent[p] \in Seq(AllAnswers) /\ DOMAIN sent = Paths BY DEF Typed
<1>2. ToSet(Append(sent[p], answer)) = ToSet(sent[p]) \cup {answer}
  <2> DEFINE s == sent[p]
             t == Append(s, answer)
  <2>1. s \in Seq(AllAnswers) /\ Len(t) = Len(s) + 1 /\ Len(s) \in Nat
        /\ DOMAIN t = 1..Len(t) /\ DOMAIN s = 1..Len(s)
    BY <1>1
  <2>2. \A i \in 1..Len(s) : t[i] = s[i] BY <1>1
  <2>3. t[Len(s) + 1] = answer BY <1>1
  <2>4. 1..Len(t) = (1..Len(s)) \cup {Len(s) + 1} BY <2>1
  <2> HIDE DEF s, t
  <2>5. {t[i] : i \in 1..Len(t)} = {s[i] : i \in 1..Len(s)} \cup {answer}
    BY <2>2, <2>3, <2>4
  <2>6. ToSet(t) = ToSet(s) \cup {answer} BY <2>1, <2>5 DEF ToSet
  <2> QED BY <2>6 DEF s, t
<1>3. ToSet(sent'[p]) = ToSet(sent[p]) \cup {answer} BY <1>1, <1>2
<1>4. \A q \in Paths \ {p} : sent'[q] = sent[q] BY <1>1
<1> QED BY <1>3, <1>4 DEF Denied

-----------------------------------------------------------------------------
\* getJSON's steps keep the invariant.

LEMMA AnswersAreKnown ==
  ASSUME NEW p \in Paths, NEW answer \in AnswersTo(p)
  PROVE  answer \in AllAnswers
BY LinkedInClientAssumption DEF AnswersTo, AllAnswers

LEMMA ChargeFailsKeeps ==
  ASSUME IInv, NEW p \in Paths, ChargeFails(p)
  PROVE  IInv'
<1>1. stage[p] = "charge" /\ stage' = [stage EXCEPT ![p] = "ended"]
      /\ got' = [got EXCEPT ![p] = "budget"]
      /\ UNCHANGED <<setup, main, attempt, lastErr, documents, outcome, cleared, sent>>
  BY DEF ChargeFails, End
<1>2. Typed'
  BY <1>1 DEF IInv, Typed, Stages, Errors
<1>3. PathInv("ended", attempt[p], "budget", sent[p])
  <2>1. PathInv("charge", attempt[p], got[p], sent[p]) BY <1>1 DEF IInv, PathsInv
  <2> QED BY <2>1, PathCharged DEF IInv, Typed
<1>4. PathsInv'
  <2>1. stage'[p] = "ended" /\ got'[p] = "budget" /\ attempt'[p] = attempt[p] /\ sent'[p] = sent[p]
    BY <1>1 DEF IInv, Typed
  <2>2. \A q \in Paths \ {p} :
          /\ stage'[q] = stage[q] /\ attempt'[q] = attempt[q]
          /\ got'[q] = got[q] /\ sent'[q] = sent[q]
    BY <1>1 DEF IInv, Typed
  <2> QED BY <1>3, <2>1, <2>2, PathStep DEF IInv
<1>5. Start0' /\ Search' /\ Found' /\ Decorating' /\ Ended'
  BY <1>1, ExchangeStep DEF Active
<1>6. ClearedIfDenied' BY <1>1, DeniedStays DEF IInv
<1> QED BY <1>2, <1>4, <1>5, <1>6 DEF IInv

\* A step that does not return: the result of the path is what it was.
LEMMA ExchangeStepOn ==
  ASSUME IInv, NEW p \in Paths, stage[p] \in {"charge", "flying", "backoff"},
         NEW st \in Active, stage' = [stage EXCEPT ![p] = st],
         UNCHANGED <<setup, main, lastErr, documents, outcome, got>>
  PROVE  Start0' /\ Search' /\ Found' /\ Decorating' /\ Ended'
<1> DEFINE g == got[p]
<1>1. got' = [got EXCEPT ![p] = g] BY DEF IInv, Typed
<1> HIDE DEF g
<1>2. UNCHANGED <<setup, main, lastErr, documents, outcome>> OBVIOUS
<1> QED BY <1>1, <1>2, ExchangeStep

LEMMA ChargeKeeps ==
  ASSUME IInv, NEW p \in Paths, Charge(p)
  PROVE  IInv'
<1>1. stage[p] = "charge" /\ stage' = [stage EXCEPT ![p] = "flying"]
      /\ UNCHANGED <<setup, main, attempt, got, lastErr, documents, outcome, cleared, sent>>
  BY DEF Charge
<1>2. Typed'
  BY <1>1 DEF IInv, Typed, Stages
<1>3. PathInv("flying", attempt[p], got[p], sent[p])
  <2>1. PathInv("charge", attempt[p], got[p], sent[p]) BY <1>1 DEF IInv, PathsInv
  <2> QED BY <2>1, PathCharged DEF IInv, Typed
<1>4. PathsInv'
  <2>1. stage'[p] = "flying" /\ \A q \in Paths \ {p} : stage'[q] = stage[q]
    BY <1>1 DEF IInv, Typed
  <2> QED BY <1>1, <1>3, <2>1, PathStep DEF IInv
<1>5. Start0' /\ Search' /\ Found' /\ Decorating' /\ Ended'
  BY <1>1, ExchangeStepOn DEF Active
<1>6. ClearedIfDenied' BY <1>1, DeniedStays DEF IInv
<1> QED BY <1>2, <1>4, <1>5, <1>6 DEF IInv

LEMMA RetryKeeps ==
  ASSUME IInv, NEW p \in Paths, Retry(p)
  PROVE  IInv'
<1>1. stage[p] = "backoff" /\ stage' = [stage EXCEPT ![p] = "charge"]
      /\ attempt' = [attempt EXCEPT ![p] = @ + 1]
      /\ UNCHANGED <<setup, main, got, lastErr, documents, outcome, cleared, sent>>
  BY DEF Retry, Call
<1>3. PathInv("charge", attempt[p] + 1, got[p], sent[p]) /\ attempt[p] + 1 \in 0..MaxRetries
  <2>1. PathInv("backoff", attempt[p], got[p], sent[p]) BY <1>1 DEF IInv, PathsInv
  <2> QED BY <2>1, PathRetried, LinkedInClientAssumption DEF IInv, Typed
<1>2. Typed'
  BY <1>1, <1>3 DEF IInv, Typed, Stages
<1>4. PathsInv'
  <2>1. stage'[p] = "charge" /\ attempt'[p] = attempt[p] + 1
    BY <1>1 DEF IInv, Typed
  <2>2. \A q \in Paths \ {p} : stage'[q] = stage[q] /\ attempt'[q] = attempt[q]
    BY <1>1 DEF IInv, Typed
  <2> QED BY <1>1, <1>3, <2>1, <2>2, PathStep DEF IInv
<1>5. Start0' /\ Search' /\ Found' /\ Decorating' /\ Ended'
  BY <1>1, ExchangeStepOn DEF Active
<1>6. ClearedIfDenied' BY <1>1, DeniedStays DEF IInv
<1> QED BY <1>2, <1>4, <1>5, <1>6 DEF IInv

LEMMA AskAgainKeeps ==
  ASSUME IInv, NEW p \in Paths, NEW answer \in AnswersTo(p), AskAgain(p, answer)
  PROVE  IInv'
<1>1. stage[p] = "flying" /\ answer = "fault" /\ attempt[p] < MaxRetries
      /\ sent' = [sent EXCEPT ![p] = Append(@, "fault")]
      /\ stage' = [stage EXCEPT ![p] = "backoff"]
      /\ UNCHANGED <<setup, main, attempt, got, lastErr, documents, outcome, cleared>>
  BY DEF AskAgain, Retried
<1>0. "fault" \in AllAnswers BY DEF AllAnswers
<1>2. Typed'
  <2>1. sent' \in [Paths -> Seq(AllAnswers)] BY <1>0, <1>1 DEF IInv, Typed
  <2> QED BY <1>1, <2>1 DEF IInv, Typed, Stages
<1>3. PathInv("backoff", attempt[p], got[p], Append(sent[p], "fault"))
  <2>1. PathInv("flying", attempt[p], got[p], sent[p]) BY <1>1 DEF IInv, PathsInv
  <2> QED BY <1>1, <2>1, PathAskedAgain DEF IInv, Typed
<1>4. PathsInv'
  <2>1. stage'[p] = "backoff" /\ sent'[p] = Append(sent[p], "fault")
    BY <1>1 DEF IInv, Typed
  <2>2. \A q \in Paths \ {p} : stage'[q] = stage[q] /\ sent'[q] = sent[q]
    BY <1>1 DEF IInv, Typed
  <2> QED BY <1>1, <1>3, <2>1, <2>2, PathStep DEF IInv
<1>5. Start0' /\ Search' /\ Found' /\ Decorating' /\ Ended'
  BY <1>1, ExchangeStepOn DEF Active
<1>6. ClearedIfDenied'
  BY <1>0, <1>1, DeniedWith DEF IInv, ClearedIfDenied
<1> QED BY <1>2, <1>4, <1>5, <1>6 DEF IInv

LEMMA RespondKeeps ==
  ASSUME IInv, NEW p \in Paths, NEW answer \in AnswersTo(p), Respond(p, answer)
  PROVE  IInv'
<1> DEFINE verdict == Verdict(answer)
<1>1. stage[p] = "flying"
      /\ sent' = [sent EXCEPT ![p] = Append(@, answer)]
      /\ cleared' = (cleared \/ answer = "denied")
      /\ stage' = [stage EXCEPT ![p] = "ended"]
      /\ got' = [got EXCEPT ![p] = verdict]
      /\ UNCHANGED <<setup, main, attempt, lastErr, documents, outcome>>
  BY DEF Respond, Clears, End
<1>0. answer \in AllAnswers BY AnswersAreKnown
<1>2. Typed'
  <2>1. sent' \in [Paths -> Seq(AllAnswers)] BY <1>0, <1>1 DEF IInv, Typed
  <2>2. verdict \in Documents \cup Errors \cup {"none", "null"} BY <1>0, VerdictOfDocument
  <2>3. got' \in [Paths -> Documents \cup Errors \cup {"none", "null"}]
    BY <1>1, <2>2 DEF IInv, Typed
  <2>4. cleared' \in BOOLEAN BY <1>1 DEF IInv, Typed
  <2>5. stage' \in [Paths -> Stages] BY <1>1 DEF IInv, Typed, Stages
  <2> QED BY <1>1, <2>1, <2>3, <2>4, <2>5 DEF IInv, Typed
<1>3. PathInv("ended", attempt[p], verdict, Append(sent[p], answer))
  <2>1. PathInv("flying", attempt[p], got[p], sent[p]) BY <1>1 DEF IInv, PathsInv
  <2> QED BY <1>0, <2>1, PathResponded DEF IInv, Typed
<1> HIDE DEF verdict
<1>4. PathsInv'
  <2>1. stage'[p] = "ended" /\ sent'[p] = Append(sent[p], answer) /\ got'[p] = verdict
    BY <1>1 DEF IInv, Typed
  <2>2. \A q \in Paths \ {p} : stage'[q] = stage[q] /\ sent'[q] = sent[q] /\ got'[q] = got[q]
    BY <1>1 DEF IInv, Typed
  <2> QED BY <1>1, <1>3, <2>1, <2>2, PathStep DEF IInv
<1>5. Start0' /\ Search' /\ Found' /\ Decorating' /\ Ended'
  BY <1>1, ExchangeStep DEF Active
<1>6. ClearedIfDenied'
  <2>1. (\E q \in Paths : Denied(q)') <=> answer = "denied" \/ \E q \in Paths : Denied(q)
    BY <1>0, <1>1, DeniedWith DEF IInv
  <2>2. cleared <=> \E q \in Paths : Denied(q) BY DEF IInv, ClearedIfDenied
  <2>3. cleared' <=> cleared \/ answer = "denied" BY <1>1
  <2> QED BY <2>1, <2>2, <2>3 DEF ClearedIfDenied
<1> QED BY <1>2, <1>4, <1>5, <1>6 DEF IInv

-----------------------------------------------------------------------------
\* The main goroutine's steps keep the invariant.

LEMMA PathsUntouched ==
  ASSUME PathsInv, UNCHANGED <<stage, attempt, got, sent>>
  PROVE  PathsInv'
BY DEF PathsInv

LEMMA NoErrors ==
  "ok" \notin Errors /\ "none" \notin Errors
BY DEF Errors

\* While the primary document is looked for and none is being fetched, every
\* path is at rest.
LEMMA RestWhileSearching ==
  ASSUME IInv, main \in PrimaryPaths, stage[main] = "ended"
  PROVE  PrimaryAtRest /\ SectionsAtRest
<1>1. Reached(main) /\ OthersUnused BY DEF IInv, Search
<1>2. \A q \in {D1, D2, "view"} : stage[q] \in {"unused", "ended"}
  <2>1. CASE main = D1 BY <1>1, <2>1, PathNames DEF Reached, Unused
  <2>2. CASE main = D2 BY <1>1, <2>2, PathNames DEF Reached, Unused, Failed
  <2>3. CASE main = "view" BY <1>1, <2>3, PathNames DEF Reached, Failed
  <2> QED BY <2>1, <2>2, <2>3, PathNames
<1>3. PrimaryAtRest BY <1>2, PathNames DEF PrimaryAtRest
<1>4. SectionsAtRest
  BY <1>1, Disjoint, PathNames DEF OthersUnused, Unused, SectionsAtRest
<1> QED BY <1>3, <1>4

\* The call ends with an error before there is a document.
LEMMA ErrorKeeps ==
  ASSUME IInv, NEW result \in Errors, Return(result), documents = <<>>,
         UNCHANGED <<setup, stage, attempt, got, lastErr, documents, cleared, sent>>,
         PrimaryAtRest, SectionsAtRest, ErrorExplained'
  PROVE  IInv'
<1>1. main' = "returned" /\ "returned" \notin PrimaryPaths
  BY PathNames DEF Return, D1, D2
<1>2. Typed' BY <1>1 DEF IInv, Typed
<1>3. PathsInv' BY PathsUntouched DEF IInv
<1>4. Start0' /\ Search' /\ Found' BY <1>1 DEF Start0, Search, Found
<1>5. Decorating' BY <1>1 DEF Decorating, SectionsAtRest
<1>6. Ended' BY <1>1 DEF Ended, PrimaryAtRest
<1>7. ClearedIfDenied' BY DeniedStays DEF IInv
<1> QED BY <1>2, <1>3, <1>4, <1>5, <1>6, <1>7 DEF IInv

LEMMA NoCredentialsKeeps ==
  ASSUME IInv, NoCredentials
  PROVE  IInv'
<1>1. main = "start" /\ Return("credentials")
      /\ UNCHANGED <<setup, stage, attempt, got, lastErr, documents, cleared, sent>>
  BY DEF NoCredentials
<1>2. (\A p \in Paths : Unused(p)) /\ documents = <<>> BY <1>1 DEF IInv, Start0
<1>3. PrimaryAtRest /\ SectionsAtRest
  BY <1>2, PathNames DEF PrimaryAtRest, SectionsAtRest, Unused
<1>4. ErrorExplained' BY <1>1 DEF ErrorExplained, Return
<1> QED BY <1>1, <1>2, <1>3, <1>4, ErrorKeeps DEF Errors

LEMMA DecorationExhaustedKeeps ==
  ASSUME IInv, NEW i \in 1..Len(Primary), DecorationExhausted(i)
  PROVE  IInv'
<1> DEFINE p == Primary[i]
<1>0. p \in PrimaryPaths BY PathNames
<1>1. main = p /\ stage[p] = "ended" /\ got[p] = "budget" /\ Return("budget")
      /\ UNCHANGED <<setup, stage, attempt, got, lastErr, documents, cleared, sent>>
  BY DEF DecorationExhausted, Answered
<1> HIDE DEF p
<1>2. PrimaryAtRest /\ SectionsAtRest /\ documents = <<>>
  BY <1>0, <1>1, RestWhileSearching DEF IInv, Search
<1>3. got'[p] = "budget" /\ outcome' = "budget"
  BY <1>1 DEF Return
<1>4. ErrorExplained' BY <1>0, <1>1, <1>3 DEF ErrorExplained
<1> QED BY <1>1, <1>2, <1>4, ErrorKeeps DEF Errors

LEMMA ViewFailsKeeps ==
  ASSUME IInv, ViewFails
  PROVE  IInv'
<1>1. main = "view" /\ stage["view"] = "ended" /\ ~ Matches("view") /\ Return(ViewError)
      /\ UNCHANGED <<setup, stage, attempt, got, lastErr, documents, cleared, sent>>
  BY DEF ViewFails, Answered
<1>2. PrimaryAtRest /\ SectionsAtRest /\ documents = <<>>
  BY <1>1, PathNames, RestWhileSearching DEF IInv, Search
<1>3. Failed(D1) /\ Failed(D2) /\ lastErr = Complaint(D2)
  BY <1>1, PathNames DEF IInv, Search, Reached, LastErrIs
<1>4. Complaint(D2) \in Errors /\ Complaint("view") \in Errors
  BY DEF Complaint, Errors
<1>5. /\ ViewError \in {Complaint("view"), Complaint(D2)}
      /\ got["view"] = "budget" => ViewError = "budget"
      /\ got["view"] \in Errors /\ got["view"] # "budget" => ViewError = Complaint(D2)
      /\ got["view"] \notin Errors => ViewError = "upstream"
  BY <1>3, <1>4 DEF ViewError, Complaint, Errors
<1>6. ErrorExplained'
  <2>1. outcome' = ViewError /\ Complaint(D2)' = Complaint(D2) BY <1>1 DEF Return, Complaint
  <2>2. \A p \in PrimaryPaths : stage'[p] = "ended" /\ ~ Matches(p)' BY <1>1, <1>3, PathNames DEF Failed, Matches
  <2>3. (\E p \in PrimaryPaths : got[p] = "budget") <=> got["view"] = "budget"
    BY <1>3, PathNames DEF Failed
  <2>4. got' = got /\ Primary[2] = D2 BY <1>1, PathNames
  <2> QED BY <1>5, <2>1, <2>2, <2>3, <2>4 DEF ErrorExplained
<1>7. ViewError \in Errors BY <1>4, <1>5
<1> QED BY <1>1, <1>2, <1>6, <1>7, ErrorKeeps

LEMMA StartKeeps ==
  ASSUME IInv, Start
  PROVE  IInv'
<1>1. main = "start" /\ main' = D1 /\ Call(D1)
      /\ UNCHANGED <<setup, attempt, got, lastErr, documents, outcome, cleared, sent>>
  BY PathNames DEF Start
<1>2. (\A p \in Paths : Unused(p)) /\ documents = <<>> /\ outcome = "none"
  BY <1>1 DEF IInv, Start0
<1>3. D1 \in Paths /\ D1 \in PrimaryPaths BY PathNames
<1>4. PathsInv' /\ stage' \in [Paths -> Stages]
  BY <1>1, <1>2, <1>3, CallOnPath DEF IInv, Unused
<1>5. stage'[D1] = "charge" /\ \A p \in Paths \ {D1} : stage'[p] = "unused"
  BY <1>1, <1>2, <1>3 DEF Call, IInv, Typed, Unused
<1>6. Typed' BY <1>1, <1>3, <1>4 DEF IInv, Typed
<1>7. Start0' BY <1>1 DEF Start0, D1
<1>8. Search'
  <2>1. Reached(D1)' BY <1>5, PathNames DEF Reached, Unused
  <2>2. OthersUnused' BY <1>3, <1>5 DEF OthersUnused, Unused
  <2>3. LastErrIs(D1)' BY PathNames DEF LastErrIs
  <2> QED BY <1>1, <1>2, <1>5, <2>1, <2>2, <2>3 DEF Search, Active
<1>9. Found' BY <1>1, <1>2 DEF Found
<1>10. Decorating' BY <1>1 DEF Decorating, D1
<1>11. Ended' BY <1>1, <1>2, <1>3, NoErrors DEF Ended, ErrorExplained
<1>12. ClearedIfDenied' BY <1>1, DeniedStays DEF IInv
<1> QED BY <1>4, <1>6, <1>7, <1>8, <1>9, <1>10, <1>11, <1>12 DEF IInv

\* From a decoration that failed to the path after it.
LEMMA NextPathKeeps ==
  ASSUME IInv, NEW i \in 1..Len(Primary), NextPath(i)
  PROVE  IInv'
<1> DEFINE p == Primary[i]
           q == Primary[i + 1]
<1>0. (p = D1 /\ q = D2) \/ (p = D2 /\ q = "view")
  <2>1. i < Len(Primary) BY DEF NextPath
  <2>2. i = 1 \/ i = 2 BY <2>1, PathNames
  <2>3. CASE i = 1 BY <2>3, PathNames
  <2>4. CASE i = 2 BY <2>4, PathNames
  <2> QED BY <2>2, <2>3, <2>4
<1>1. main = p /\ Failed(p) /\ lastErr' = Complaint(p) /\ main' = q /\ Call(q)
      /\ UNCHANGED <<setup, attempt, got, documents, outcome, cleared, sent>>
  BY DEF NextPath, Answered, Failed
<1> HIDE DEF p, q
<1>2. p \in PrimaryPaths /\ q \in PrimaryPaths /\ p \in Paths /\ q \in Paths /\ p # q
  BY <1>0, PathNames
<1>3. Reached(p) /\ OthersUnused /\ documents = <<>> /\ outcome = "none"
  BY <1>1, <1>2 DEF IInv, Search
<1>4. Unused(q) BY <1>0, <1>3, PathNames DEF Reached
<1>5. PathsInv' /\ stage' \in [Paths -> Stages]
  BY <1>1, <1>2, <1>4, CallOnPath DEF IInv, Unused
<1>6. stage'[q] = "charge" /\ \A r \in Paths \ {q} : stage'[r] = stage[r] /\ got'[r] = got[r]
  BY <1>1, <1>2 DEF Call, IInv, Typed
<1>7. Typed' BY <1>1, <1>2, <1>5 DEF IInv, Typed
<1>8. Search'
  <2>1. \A r \in Paths \ {q} : (Failed(r) => Failed(r)') /\ (Unused(r) => Unused(r)')
    BY <1>6 DEF Failed, Unused, Matches
  <2>2. Complaint(p)' = Complaint(p) BY <1>1 DEF Complaint
  <2>3. Reached(q)'
    <3>1. CASE p = D1 /\ q = D2
      <4>1. Failed(D1)' BY <1>1, <1>2, <2>1, <3>1
      <4>2. Unused("view")' BY <1>3, <2>1, <3>1, PathNames DEF Reached
      <4> QED BY <3>1, <4>1, <4>2, PathNames DEF Reached
    <3>2. CASE p = D2 /\ q = "view"
      <4>1. Failed(D2)' BY <1>1, <1>2, <2>1, <3>2
      <4>2. Failed(D1)' BY <1>3, <2>1, <3>2, PathNames DEF Reached
      <4> QED BY <3>2, <4>1, <4>2, PathNames DEF Reached
    <3> QED BY <1>0, <3>1, <3>2
  <2>4. LastErrIs(q)' BY <1>0, <1>1, <2>2, PathNames DEF LastErrIs
  <2>5. OthersUnused' BY <1>2, <1>3, <2>1 DEF OthersUnused
  <2> QED BY <1>1, <1>3, <1>6, <2>3, <2>4, <2>5 DEF Search, Active
<1>9. main' # "start" /\ main' \notin {"sections", "contact", "returned"}
  BY <1>0, <1>1, PathNames DEF D1, D2
<1>10. Start0' /\ Decorating' BY <1>9 DEF Start0, Decorating
<1>11. Found' BY <1>1, <1>3 DEF Found
<1>12. Ended' BY <1>1, <1>2, <1>3, NoErrors DEF Ended, ErrorExplained
<1>13. ClearedIfDenied' BY <1>1, DeniedStays DEF IInv
<1> QED BY <1>5, <1>7, <1>8, <1>10, <1>11, <1>12, <1>13 DEF IInv

LEMMA PrimaryFoundKeeps ==
  ASSUME IInv, NEW p \in PrimaryPaths, PrimaryFound(p)
  PROVE  IInv'
<1>1. main = p /\ stage[p] = "ended" /\ Matches(p) /\ documents' = <<p>> /\ main' = "sections"
      /\ UNCHANGED <<setup, attempt, got, lastErr, outcome, cleared, sent>>
  BY DEF PrimaryFound, Answered
<1>2. Reached(p) /\ OthersUnused /\ outcome = "none" /\ PrimaryAtRest
  BY <1>1, RestWhileSearching DEF IInv, Search
<1>3. /\ stage' \in [Paths -> Stages]
      /\ \A q \in Paths \ Sections : stage'[q] = stage[q]
      /\ \A s \in Sections : stage[s] = "unused" /\ stage'[s] \in {"unused", "queued"}
      /\ ~ fallbacks => stage' = stage
  <2>1. \A s \in Sections : s \in Paths \ PrimaryPaths BY Disjoint, PathNames
  <2>2. \A s \in Sections : stage[s] = "unused" BY <1>2, <2>1 DEF OthersUnused, Unused
  <2>3. CASE fallbacks
    <3>1. stage' = [q \in Paths |-> IF q \in Sections THEN "queued" ELSE stage[q]]
      BY <2>3 DEF PrimaryFound
    <3> QED BY <2>1, <2>2, <2>3, <3>1 DEF IInv, Typed, Stages
  <2>4. CASE ~ fallbacks
    <3>1. stage' = stage BY <2>4 DEF PrimaryFound
    <3> QED BY <2>1, <2>2, <3>1 DEF IInv, Typed, Stages
  <2> QED BY <2>3, <2>4
<1>4. Typed' BY <1>1, <1>3 DEF IInv, Typed
<1>5. PathsInv'
  <2> SUFFICES ASSUME NEW q \in Paths
               PROVE  PathInv(stage'[q], attempt'[q], got'[q], sent'[q])
    BY DEF PathsInv
  <2>1. PathInv(stage[q], attempt[q], got[q], sent[q])
        /\ attempt[q] \in 0..MaxRetries /\ sent[q] \in Seq(AllAnswers)
    BY DEF IInv, PathsInv, Typed
  <2>2. CASE stage'[q] = stage[q] BY <1>1, <2>1, <2>2
  <2>3. CASE stage[q] = "unused" /\ stage'[q] = "queued"
    BY <1>1, <2>1, <2>3, PathQueued
  <2> QED BY <1>3, <2>2, <2>3
<1>6. \A q \in PrimaryPaths : stage'[q] = stage[q] /\ q \in Paths
  BY <1>3, Disjoint, PathNames
<1>7. main' \notin PrimaryPaths BY <1>1, PathNames DEF D1, D2
<1>8. Start0' /\ Search' BY <1>1, <1>7 DEF Start0, Search
<1>9. Found'
  <2>1. Reached(p)'
    BY <1>1, <1>2, <1>6, PathNames DEF Reached, Failed, Unused, Matches
  <2>2. documents'[1] = p BY <1>1
  <2>3. stage'[p] = "ended" /\ Matches(p)' BY <1>1, <1>6 DEF Matches
  <2> QED BY <2>1, <2>2, <2>3 DEF Found
<1>10. Decorating'
  <2>1. Len(documents') = 1 /\ documents' # <<>> BY <1>1
  <2>2. Unused("contact")'
    BY <1>2, <1>3, Disjoint, PathNames DEF OthersUnused, Unused
  <2>3. ~ fallbacks => SectionsAtRest' BY <1>3 DEF SectionsAtRest
  <2>4. 1 \in Nat \ {0} OBVIOUS
  <2> QED BY <1>1, <1>2, <2>1, <2>2, <2>3, <2>4 DEF Decorating, setup
<1>11. Ended'
  BY <1>1, <1>2, <1>6, NoErrors DEF Ended, ErrorExplained, PrimaryAtRest
<1>12. ClearedIfDenied' BY <1>1, DeniedStays DEF IInv
<1> QED BY <1>4, <1>5, <1>8, <1>9, <1>10, <1>11, <1>12 DEF IInv

-----------------------------------------------------------------------------
\* The workers' steps keep the invariant: a worker moves only while the main
\* goroutine waits for it.

LEMMA WorkersAreWaitedFor ==
  ASSUME IInv, NEW s \in Sections, stage[s] \notin {"unused", "left"}
  PROVE  main = "sections" /\ fallbacks
<1>1. s \in Paths /\ s \in Paths \ PrimaryPaths BY Disjoint, PathNames
<1>2. main # "start" BY <1>1 DEF IInv, Start0, Unused
<1>3. main \notin PrimaryPaths BY <1>1 DEF IInv, Search, OthersUnused, Unused
<1>4. main \notin {"contact", "returned"} BY DEF IInv, Decorating, SectionsAtRest
<1>5. main = "sections" BY <1>2, <1>3, <1>4 DEF IInv, Typed
<1> QED BY <1>5 DEF IInv, Decorating, SectionsAtRest

LEMMA WorkerStep ==
  ASSUME IInv, NEW s \in Sections, stage[s] \notin {"unused", "left"},
         NEW st, stage' = [stage EXCEPT ![s] = st],
         UNCHANGED <<setup, main, got, lastErr, documents, outcome>>
  PROVE  Start0' /\ Search' /\ Found' /\ Decorating' /\ Ended'
<1>1. main = "sections" /\ fallbacks BY WorkersAreWaitedFor
<1>2. \A q \in PrimaryPaths \cup {"contact"} : stage'[q] = stage[q] /\ q \in Paths
  BY Disjoint, PathNames DEF IInv, Typed
<1>3. main' \notin PrimaryPaths /\ main' = "sections" BY <1>1, PathNames DEF D1, D2
<1>4. Start0' /\ Search' BY <1>3 DEF Start0, Search
<1>5. Found'
  <2> SUFFICES ASSUME documents # <<>>
               PROVE  \E q \in PrimaryPaths :
                        documents[1] = q /\ stage'[q] = "ended" /\ Matches(q)' /\ Reached(q)'
    BY DEF Found
  <2>1. PICK q \in PrimaryPaths :
          documents[1] = q /\ stage[q] = "ended" /\ Matches(q) /\ Reached(q)
    BY DEF IInv, Found
  <2>2. Reached(q)'
    BY <1>2, <2>1, PathNames DEF Reached, Failed, Unused, Matches
  <2> QED BY <1>2, <2>1, <2>2 DEF Matches
<1>6. Decorating' BY <1>1, <1>2, <1>3 DEF IInv, Decorating, Unused, setup
<1>7. Ended'
  <2>1. outcome' = "none" BY <1>1 DEF IInv, Decorating
  <2>2. PrimaryAtRest BY <1>3 DEF IInv, Ended
  <2> QED BY <1>2, <2>1, <2>2, NoErrors DEF Ended, ErrorExplained, PrimaryAtRest
<1> QED BY <1>4, <1>5, <1>6, <1>7

LEMMA AcquireKeeps ==
  ASSUME IInv, NEW s \in Sections, Acquire(s)
  PROVE  IInv'
<1>1. stage[s] = "queued" /\ Call(s)
      /\ UNCHANGED <<setup, main, attempt, got, lastErr, documents, outcome, cleared, sent>>
  BY DEF Acquire
<1>2. s \in Paths BY PathNames
<1>3. PathsInv' /\ stage' \in [Paths -> Stages] BY <1>1, <1>2, CallOnPath DEF IInv
<1>4. Typed' BY <1>1, <1>3 DEF IInv, Typed
<1>5. Start0' /\ Search' /\ Found' /\ Decorating' /\ Ended' BY <1>1, WorkerStep DEF Call
<1>6. ClearedIfDenied' BY <1>1, DeniedStays DEF IInv
<1> QED BY <1>3, <1>4, <1>5, <1>6 DEF IInv

LEMMA LeaveKeeps ==
  ASSUME IInv, NEW s \in Sections, Leave(s)
  PROVE  IInv'
<1>1. stage[s] = "ended" /\ stage' = [stage EXCEPT ![s] = "left"]
      /\ UNCHANGED <<setup, main, attempt, got, lastErr, documents, outcome, cleared, sent>>
  BY DEF Leave
<1>2. s \in Paths BY PathNames
<1>3. stage'[s] = "left" /\ \A q \in Paths \ {s} : stage'[q] = stage[q]
  BY <1>1, <1>2 DEF IInv, Typed
<1>4. PathsInv'
  <2>1. PathInv("left", attempt[s], got[s], sent[s])
    BY <1>1, <1>2, PathLeft DEF IInv, Typed, PathsInv
  <2> QED BY <1>1, <1>2, <1>3, <2>1, PathStep DEF IInv
<1>5. Typed' BY <1>1 DEF IInv, Typed, Stages
<1>6. Start0' /\ Search' /\ Found' /\ Decorating' /\ Ended' BY <1>1, WorkerStep
<1>7. ClearedIfDenied' BY <1>1, DeniedStays DEF IInv
<1> QED BY <1>4, <1>5, <1>6, <1>7 DEF IInv

-----------------------------------------------------------------------------
\* The loops that append: what they keep is there, in its order, and nothing
\* else.  The rank of a position kept grows with it, so that no two have the
\* same, and all ranks up to the number of positions are taken.

LEMMA RankGrows ==
  ASSUME NEW kept \in SUBSET Nat, IsFiniteSet(kept), NEW i \in kept
  PROVE  /\ Rank(kept, i) \in 1..Cardinality(kept)
         /\ \A j \in kept : i < j => Rank(kept, i) < Rank(kept, j)
<1> DEFINE Below(j) == {k \in kept : k <= j}
<1>1. \A j \in kept : IsFiniteSet(Below(j)) /\ Cardinality(Below(j)) \in Nat
                      /\ Cardinality(Below(j)) <= Cardinality(kept)
  <2> TAKE j \in kept
  <2>1. Below(j) \in SUBSET kept OBVIOUS
  <2>2. IsFiniteSet(Below(j)) /\ Cardinality(Below(j)) <= Cardinality(kept)
    BY <2>1, FS_Subset
  <2> QED BY <2>2, FS_CardinalityType
<1>2. Cardinality(Below(i)) # 0
  <2>1. i \in Below(i) OBVIOUS
  <2> QED BY <1>1, <2>1, FS_EmptySet
<1>3. ASSUME NEW j \in kept, i < j PROVE Cardinality(Below(i)) < Cardinality(Below(j))
  <2>0. i \in Nat /\ j \in Nat /\ \A k \in kept : k \in Nat OBVIOUS
  <2>1. \A k \in kept : k <= i => k <= j BY <1>3, <2>0
  <2>2. j \in Below(j) /\ j \notin Below(i) BY <1>3
  <2>3. /\ Cardinality(Below(i)) <= Cardinality(Below(j))
        /\ Cardinality(Below(j)) = Cardinality(Below(i)) => Below(j) = Below(i)
    <3>1. Below(i) \in SUBSET Below(j) BY <2>1
    <3> HIDE DEF Below
    <3> QED BY <1>1, <3>1, FS_Subset
  <2>4. Cardinality(Below(i)) # Cardinality(Below(j)) BY <2>2, <2>3
  <2>5. Cardinality(Below(i)) \in Nat /\ Cardinality(Below(j)) \in Nat BY <1>1
  <2> HIDE DEF Below
  <2> QED BY <2>3, <2>4, <2>5
<1>4. Cardinality(kept) \in Nat BY FS_CardinalityType
<1>5. \A j \in kept : Rank(kept, j) = Cardinality(Below(j)) BY DEF Rank
<1> HIDE DEF Below
<1>6. Cardinality(Below(i)) \in 1..Cardinality(kept) BY <1>1, <1>2, <1>4
<1> QED BY <1>3, <1>5, <1>6

LEMMA RanksAreTaken ==
  ASSUME NEW kept \in SUBSET Nat, IsFiniteSet(kept), NEW k \in 1..Cardinality(kept)
  PROVE  \E i \in kept : Rank(kept, i) = k
<1> DEFINE n == Cardinality(kept)
           rank == [i \in kept |-> Rank(kept, i)]
<1>1. n \in Nat BY FS_CardinalityType
<1>2. rank \in [kept -> 1..n] BY RankGrows
<1>3. \A i, j \in kept : rank[i] = rank[j] => i = j
  <2> SUFFICES ASSUME NEW i \in kept, NEW j \in kept, i < j PROVE Rank(kept, i) # Rank(kept, j)
    OBVIOUS
  <2>1. Rank(kept, i) < Rank(kept, j) BY RankGrows
  <2>2. Rank(kept, i) \in 1..n /\ Rank(kept, j) \in 1..n BY RankGrows
  <2> HIDE DEF n
  <2> QED BY <1>1, <2>1, <2>2
<1> HIDE DEF n
<1>4. rank \in Injection(kept, 1..n) 
  <2> HIDE DEF rank
  <2> QED BY <1>2, <1>3 DEF Injection, IsInjective
<1>5. IsFiniteSet(1..n) /\ Cardinality(1..n) = n
  BY <1>1, FS_Interval
<1>6. rank \in Surjection(kept, 1..n)
  BY <1>4, <1>5, FS_Injection DEF n
<1>7. \E i \in kept : rank[i] = k 
  <2> HIDE DEF rank
  <2> QED BY <1>6 DEF Surjection, n
<1> QED BY <1>7

\* "at" is where the elements of the subsequence come from.
LEMMA SubsequenceOf ==
  ASSUME NEW S, NEW list \in Seq(S), NEW kept \in SUBSET (1..Len(list))
  PROVE  /\ Subsequence(list, kept) \in Seq(S)
         /\ \E at \in [1..Len(Subsequence(list, kept)) -> kept] :
              /\ \A k \in 1..Len(Subsequence(list, kept)) : Subsequence(list, kept)[k] = list[at[k]]
              /\ \A i \in kept : \E k \in 1..Len(Subsequence(list, kept)) : at[k] = i
              /\ \A k, l \in 1..Len(Subsequence(list, kept)) : k < l <=> at[k] < at[l]
<1> DEFINE n == Cardinality(kept)
           at == [k \in 1..n |-> CHOOSE i \in kept : Rank(kept, i) = k]
           sub == Subsequence(list, kept)
<1>1. kept \in SUBSET Nat /\ IsFiniteSet(kept) /\ n \in Nat
  <2>1. IsFiniteSet(1..Len(list)) BY FS_Interval
  <2>2. IsFiniteSet(kept) BY <2>1, FS_Subset
  <2> QED BY <2>2, FS_CardinalityType
<1>2. \A k \in 1..n : at[k] \in kept /\ Rank(kept, at[k]) = k BY <1>1, RanksAreTaken
<1>3. sub = [k \in 1..n |-> list[at[k]]] BY DEF Subsequence
<1>4. at \in [1..n -> kept] BY <1>2
<1>5. \A i \in kept : Rank(kept, i) \in 1..n BY <1>1, RankGrows
<1>6. \A i \in kept : at[Rank(kept, i)] = i
  <2> TAKE i \in kept
  <2> DEFINE j == at[Rank(kept, i)]
  <2>1. j \in kept /\ Rank(kept, j) = Rank(kept, i) BY <1>2, <1>5
  <2> HIDE DEF j, at, n
  <2>2. ~ (i < j) /\ ~ (j < i)
    <3>1. i < j => Rank(kept, i) < Rank(kept, j) BY <1>1, <2>1, RankGrows
    <3>2. j < i => Rank(kept, j) < Rank(kept, i) BY <1>1, <2>1, RankGrows
    <3>3. Rank(kept, i) \in Nat BY <1>1, <1>5
    <3> QED BY <2>1, <3>1, <3>2, <3>3
  <2>3. i = j BY <1>1, <2>1, <2>2
  <2> QED BY <2>3 DEF j
<1>7. \A k, l \in 1..n : k < l <=> at[k] < at[l]
  <2> TAKE k, l \in 1..n
  <2> DEFINE i == at[k]
             j == at[l]
  <2>1. i \in kept /\ j \in kept /\ Rank(kept, i) = k /\ Rank(kept, j) = l BY <1>2
  <2> HIDE DEF at, n, i, j
  <2>2. (i < j => k < l) /\ (j < i => l < k) /\ (i = j => k = l)
    BY <1>1, <2>1, RankGrows
  <2>3. k \in Nat /\ l \in Nat /\ i \in Nat /\ j \in Nat BY <1>1, <2>1
  <2> QED BY <2>2, <2>3 DEF i, j
<1> HIDE DEF at, n
<1>8. sub \in Seq(S) /\ Len(sub) = n
  <2>1. \A k \in 1..n : list[at[k]] \in S
    <3>1. \A i \in 1..Len(list) : list[i] \in S OBVIOUS
    <3>2. \A k \in 1..n : at[k] \in 1..Len(list) BY <1>4
    <3> QED BY <3>1, <3>2
  <2>2. sub \in [1..n -> S] BY <1>3, <2>1
  <2> HIDE DEF sub
  <2> QED BY <1>1, <2>2
<1>9. \A k \in 1..n : sub[k] = list[at[k]] BY <1>3
<1>10. \A i \in kept : \E k \in 1..n : at[k] = i BY <1>5, <1>6
<1> HIDE DEF sub
<1>11. /\ at \in [1..Len(sub) -> kept]
       /\ \A k \in 1..Len(sub) : sub[k] = list[at[k]]
       /\ \A i \in kept : \E k \in 1..Len(sub) : at[k] = i
       /\ \A k, l \in 1..Len(sub) : k < l <=> at[k] < at[l]
  BY <1>4, <1>7, <1>8, <1>9, <1>10
<1> QED BY <1>8, <1>11 DEF sub
LEMMA SectionPathsKept ==
  /\ DOMAIN SectionPaths = 1..Len(SectionPaths)
  /\ SectionPaths \in Seq(Sections)
  /\ \A kept \in SUBSET (1..Len(SectionPaths)) : Subsequence(SectionPaths, kept) \in Seq(Sections)
<1>1. SectionPaths \in Seq(STRING) BY LinkedInClientAssumption
<1>2. DOMAIN SectionPaths = 1..Len(SectionPaths) BY <1>1
<1>3. SectionPaths \in Seq(Sections)
  <2>1. \A i \in 1..Len(SectionPaths) : SectionPaths[i] \in Sections
    BY <1>2 DEF Sections, ToSet
  <2> QED BY <1>1, <2>1
<1> QED BY <1>2, <1>3, SubsequenceOf

-----------------------------------------------------------------------------
\* What is collected comes behind the primary document.
LEMMA FirstStays ==
  ASSUME NEW list, NEW more, Len(list) \in Nat \ {0}, Len(more) \in Nat
  PROVE  /\ (list \o more)[1] = list[1]
         /\ Len(list \o more) \in Nat \ {0} /\ list \o more # <<>>
OBVIOUS

\* A step behind the primary document: documents grows at its end, a path that
\* is not a primary one may be called, or the call succeeds.
LEMMA DecorationStep ==
  ASSUME IInv, main \in {"sections", "contact"}, SectionsAtRest,
         documents' # <<>>, documents'[1] = documents[1],
         Len(documents') \in Nat \ {0},
         main' \in {"contact", "returned"},
         outcome' \in {"none", "ok"}, main' = "contact" => outcome' = "none",
         \A q \in Paths \ {"contact"} : stage'[q] = stage[q],
         UNCHANGED <<setup, got>>
  PROVE  Start0' /\ Search' /\ Found' /\ Decorating' /\ Ended'
<1>1. \A q \in PrimaryPaths \cup Sections : stage'[q] = stage[q]
  BY Disjoint, PathNames
<1>2. main' \notin PrimaryPaths /\ main' # "start" /\ main' # "sections" /\ main \notin PrimaryPaths
  BY PathNames DEF D1, D2
<1>3. Start0' /\ Search' BY <1>2 DEF Start0, Search
<1>4. Found'
  <2>1. PICK q \in PrimaryPaths :
          documents[1] = q /\ stage[q] = "ended" /\ Matches(q) /\ Reached(q)
    BY DEF IInv, Found, Decorating
  <2>2. Reached(q)'
    BY <1>1, <2>1, PathNames DEF Reached, Failed, Unused, Matches
  <2> QED BY <1>1, <2>1, <2>2 DEF Found, Matches
<1>5. Decorating' BY <1>1, <1>2 DEF Decorating, SectionsAtRest
<1>6. Ended'
  <2>1. PrimaryAtRest BY <1>2 DEF IInv, Ended
  <2> QED BY <1>1, <2>1, NoErrors DEF Ended, ErrorExplained, PrimaryAtRest
<1> QED BY <1>3, <1>4, <1>5, <1>6

LEMMA AfterSectionsKeeps ==
  ASSUME IInv, main = "sections", SectionsAtRest, AfterSections,
         documents' # <<>>, documents'[1] = documents[1], Len(documents') \in Nat \ {0},
         UNCHANGED <<setup, attempt, got, lastErr, cleared, sent>>
  PROVE  IInv'
<1>0. "contact" \in Paths /\ Unused("contact") /\ outcome = "none"
  BY PathNames DEF IInv, Decorating
<1>1. CASE withContact
  <2>1. main' = "contact" /\ Call("contact") /\ outcome' = outcome
    BY <1>1 DEF AfterSections
  <2>2. PathsInv' /\ stage' \in [Paths -> Stages]
    BY <1>0, <2>1, CallOnPath DEF IInv, Unused
  <2>3. \A q \in Paths \ {"contact"} : stage'[q] = stage[q]
    BY <2>1 DEF Call, IInv, Typed
  <2>4. Typed' BY <2>1, <2>2 DEF IInv, Typed
  <2>5. Start0' /\ Search' /\ Found' /\ Decorating' /\ Ended'
    BY <1>0, <2>1, <2>3, DecorationStep
  <2>6. ClearedIfDenied' BY DeniedStays DEF IInv
  <2> QED BY <2>2, <2>4, <2>5, <2>6 DEF IInv
<1>2. CASE ~ withContact
  <2>1. main' = "returned" /\ outcome' = "ok" /\ stage' = stage
    BY <1>2 DEF AfterSections, Return
  <2>2. PathsInv' BY <2>1, PathsUntouched DEF IInv
  <2>3. Typed' BY <2>1 DEF IInv, Typed
  <2>4. Start0' /\ Search' /\ Found' /\ Decorating' /\ Ended'
    BY <2>1, DecorationStep
  <2>5. ClearedIfDenied' BY DeniedStays DEF IInv
  <2> QED BY <2>2, <2>3, <2>4, <2>5 DEF IInv
<1> QED BY <1>1, <1>2

LEMMA SkipSectionsKeeps ==
  ASSUME IInv, SkipSections
  PROVE  IInv'
<1>1. main = "sections" /\ ~ fallbacks /\ AfterSections
      /\ UNCHANGED <<setup, attempt, got, lastErr, documents, cleared, sent>>
  BY DEF SkipSections
<1>2. SectionsAtRest /\ documents # <<>> /\ Len(documents) \in Nat \ {0}
  BY <1>1 DEF IInv, Decorating
<1> QED BY <1>1, <1>2, AfterSectionsKeeps

LEMMA CollectKeeps ==
  ASSUME IInv, Collect
  PROVE  IInv'
<1>1. main = "sections" /\ AllLeft /\ AfterSections
      /\ documents' = documents \o Filtered(SectionPaths, WithDocument)
      /\ UNCHANGED <<setup, attempt, got, lastErr, cleared, sent>>
  BY DEF Collect
<1>2. SectionsAtRest BY <1>1 DEF AllLeft, SectionsAtRest
<1>3. Len(documents) \in Nat \ {0} BY <1>1 DEF IInv, Decorating
<1> DEFINE more == Filtered(SectionPaths, WithDocument)
<1>4. documents' = documents \o more /\ Len(more) \in Nat
  <2>1. more = Subsequence(SectionPaths, {i \in 1..Len(SectionPaths) : WithDocument(SectionPaths[i])})
    BY SectionPathsKept DEF Filtered
  <2>2. more \in Seq(Sections) BY <2>1, SectionPathsKept
  <2> QED BY <1>1, <2>2
<1> HIDE DEF more
<1>5. documents' # <<>> /\ documents'[1] = documents[1] /\ Len(documents') \in Nat \ {0}
  BY <1>3, <1>4, FirstStays
<1> QED BY <1>1, <1>2, <1>5, AfterSectionsKeeps

LEMMA FinishKeeps ==
  ASSUME IInv, Finish
  PROVE  IInv'
<1> DEFINE more == IF WithDocument("contact") THEN <<"contact">> ELSE <<>>
<1>1. main = "contact" /\ main' = "returned" /\ outcome' = "ok"
      /\ documents' = documents \o more
      /\ UNCHANGED <<setup, stage, attempt, got, lastErr, cleared, sent>>
  BY DEF Finish, Return
<1>2. SectionsAtRest /\ Len(documents) \in Nat \ {0} BY <1>1 DEF IInv, Decorating
<1>8. Len(more) \in Nat OBVIOUS
<1> HIDE DEF more
<1>3. documents' # <<>> /\ documents'[1] = documents[1] /\ Len(documents') \in Nat \ {0}
  BY <1>1, <1>2, <1>8, FirstStays
<1>4. Start0' /\ Search' /\ Found' /\ Decorating' /\ Ended'
  BY <1>1, <1>2, <1>3, DecorationStep
<1>5. PathsInv' BY <1>1, PathsUntouched DEF IInv
<1>6. Typed' BY <1>1 DEF IInv, Typed
<1>7. ClearedIfDenied' BY <1>1, DeniedStays DEF IInv
<1> QED BY <1>4, <1>5, <1>6, <1>7 DEF IInv

-----------------------------------------------------------------------------
\* The invariant.

LEMMA InitInv ==
  ASSUME Init
  PROVE  IInv
<1>0. MaxRetries \in Nat BY LinkedInClientAssumption
<1>1. Typed
  <2>1. <<>> \in Seq(AllAnswers) OBVIOUS
  <2>2. 0 \in 0..MaxRetries BY <1>0
  <2> QED BY <2>1, <2>2 DEF Init, Typed, Stages
<1>2. PathInv("unused", 0, "none", <<>>)
  <2>1. Counted("unused", 0, <<>>) BY DEF Counted
  <2>2. OnlyFaults("unused", <<>>) BY DEF OnlyFaults
  <2>3. Silent("unused", <<>>) BY DEF Silent
  <2>4. Settled("unused", "none", <<>>) BY DEF Settled
  <2> QED BY <2>1, <2>2, <2>3, <2>4 DEF PathInv
<1>3. PathsInv BY <1>2 DEF PathsInv, Init
<1>4. Start0 BY DEF Start0, Init, Unused
<1>5. main \notin PrimaryPaths BY PathNames DEF Init, D1, D2
<1>6. Search /\ Found /\ Decorating BY <1>5 DEF Init, Search, Found, Decorating
<1>7. Ended
  BY PathNames, NoErrors DEF Init, Ended, PrimaryAtRest, ErrorExplained
<1>8. ClearedIfDenied
  <2>1. ToSet(<<>>) = {} BY DEF ToSet
  <2> QED BY <2>1 DEF Init, ClearedIfDenied, Denied
<1> QED BY <1>1, <1>3, <1>4, <1>6, <1>7, <1>8 DEF IInv

LEMMA NextInv ==
  ASSUME IInv, [Next]_vars
  PROVE  IInv'
<1>1. CASE Main
  <2>1. CASE NoCredentials BY <2>1, NoCredentialsKeeps
  <2>2. CASE Start BY <2>2, StartKeeps
  <2>3. ASSUME NEW i \in 1..Len(Primary), DecorationExhausted(i) PROVE IInv'
    BY <2>3, DecorationExhaustedKeeps
  <2>4. ASSUME NEW i \in 1..Len(Primary), NextPath(i) PROVE IInv'
    BY <2>4, NextPathKeeps
  <2>5. ASSUME NEW i \in 1..Len(Primary), PrimaryFound(Primary[i]) PROVE IInv'
    <3>1. Primary[i] \in PrimaryPaths BY PathNames
    <3> QED BY <2>5, <3>1, PrimaryFoundKeeps
  <2>6. CASE ViewFails BY <2>6, ViewFailsKeeps
  <2>7. CASE SkipSections BY <2>7, SkipSectionsKeeps
  <2>8. CASE Collect BY <2>8, CollectKeeps
  <2>9. CASE Finish BY <2>9, FinishKeeps
  <2> QED BY <1>1, <2>1, <2>2, <2>3, <2>4, <2>5, <2>6, <2>7, <2>8, <2>9 DEF Main
<1>2. ASSUME NEW p \in Paths, Exchange(p) PROVE IInv'
  <2>1. CASE ChargeFails(p) BY <2>1, ChargeFailsKeeps
  <2>2. CASE Charge(p) BY <2>2, ChargeKeeps
  <2>3. CASE Retry(p) BY <2>3, RetryKeeps
  <2>4. ASSUME NEW answer \in AnswersTo(p), AskAgain(p, answer) PROVE IInv'
    BY <2>4, AskAgainKeeps
  <2>5. ASSUME NEW answer \in AnswersTo(p), Respond(p, answer) PROVE IInv'
    BY <2>5, RespondKeeps
  <2> QED BY <1>2, <2>1, <2>2, <2>3, <2>4, <2>5 DEF Exchange
<1>3. ASSUME NEW s \in Sections, Work(s) PROVE IInv'
  BY <1>3, AcquireKeeps, LeaveKeeps DEF Work
<1>4. CASE UNCHANGED vars
  <2>1. UNCHANGED <<setup, main, stage, attempt, got, lastErr, documents, outcome, cleared, sent>>
    BY <1>4 DEF vars
  <2>2. PathsInv' BY <2>1, PathsUntouched DEF IInv
  <2>3. ClearedIfDenied' BY <2>1, DeniedStays DEF IInv
  <2>4. Typed' BY <2>1 DEF IInv, Typed
  <2>5. Start0' BY <2>1 DEF IInv, Start0, Unused
  <2>6. Search'
    BY <2>1 DEF IInv, Search, Reached, Failed, Unused, Matches, LastErrIs, Complaint, OthersUnused
  <2>7. Found' BY <2>1 DEF IInv, Found, Reached, Failed, Unused, Matches
  <2>8. Decorating' BY <2>1 DEF IInv, Decorating, SectionsAtRest, Unused, setup
  <2>9. Ended'
    <3>1. ErrorExplained' = ErrorExplained BY <2>1 DEF ErrorExplained, Complaint, Matches
    <3> QED BY <2>1, <3>1 DEF IInv, Ended, PrimaryAtRest
  <2> QED BY <2>2, <2>3, <2>4, <2>5, <2>6, <2>7, <2>8, <2>9 DEF IInv
<1> QED BY <1>1, <1>2, <1>3, <1>4 DEF Next, Returned

THEOREM Invariance == Spec => []IInv
<1>1. Init => IInv BY InitInv
<1>2. IInv /\ [Next]_vars => IInv' BY NextInv
<1> QED BY <1>1, <1>2, PTL DEF Spec

-----------------------------------------------------------------------------
\* Only faults are asked for again, and no path more than MaxRetries times
\* again, whatever the other paths do meanwhile (getJSON's loop).
THEOREM RefusalsAreFinal == Spec => []OnlyFaultsRetried
<1>1. IInv => OnlyFaultsRetried
  <2> SUFFICES ASSUME IInv, NEW p \in Paths
               PROVE  /\ Len(sent[p]) <= MaxRetries + 1
                      /\ \A i \in 1..Len(sent[p]) :
                           i < Len(sent[p]) \/ stage[p] = "flying" => sent[p][i] = "fault"
    BY DEF OnlyFaultsRetried
  <2>1. PathInv(stage[p], attempt[p], got[p], sent[p])
        /\ attempt[p] \in 0..MaxRetries /\ sent[p] \in Seq(AllAnswers)
    BY DEF IInv, PathsInv, Typed
  <2>2. Counted(stage[p], attempt[p], sent[p]) /\ OnlyFaults(stage[p], sent[p])
    BY <2>1 DEF PathInv
  <2>3. Len(sent[p]) <= attempt[p] + 1 BY <2>2 DEF Counted
  <2>4. Len(sent[p]) <= MaxRetries + 1
    <3>1. Len(sent[p]) \in Nat /\ MaxRetries \in Nat BY <2>1, LinkedInClientAssumption
    <3> QED BY <2>1, <2>3, <3>1
  <2> QED BY <2>2, <2>4 DEF OnlyFaults
<1> QED BY <1>1, Invariance, PTL

\* When FetchProfile goes on from its sections or returns, all its workers
\* have left (the wait group).
THEOREM WorkersAreGone == Spec => []NoWorkerOutlivesCall
<1>1. IInv => NoWorkerOutlivesCall
  BY DEF IInv, Decorating, SectionsAtRest, NoWorkerOutlivesCall
<1> QED BY <1>1, Invariance, PTL

\* The first document is the profile that was asked for, found on the first
\* path that has it (fetchPrimary).
THEOREM PrimaryIsFound == Spec => []PrimaryIsTheProfile
<1>1. IInv => PrimaryIsTheProfile
  <2> SUFFICES ASSUME IInv, documents # <<>>
               PROVE  \E i \in 1..Len(Primary) :
                        /\ documents[1] = Primary[i] /\ Last(sent[Primary[i]]) = "match"
                        /\ \A j \in 1..(i - 1) :
                             sent[Primary[j]] # <<>> /\ Last(sent[Primary[j]]) # "match"
                        /\ \A j \in (i + 1)..Len(Primary) : sent[Primary[j]] = <<>>
    BY DEF PrimaryIsTheProfile
  <2>1. PICK p \in PrimaryPaths :
          documents[1] = p /\ stage[p] = "ended" /\ Matches(p) /\ Reached(p)
    BY DEF IInv, Found
  <2>2. \A q \in Paths : Settled(stage[q], got[q], sent[q]) /\ Silent(stage[q], sent[q])
    BY DEF IInv, PathsInv, PathInv
  <2>3. \A q \in Paths : sent[q] # <<>> => Last(sent[q]) \in AllAnswers
    <3> SUFFICES ASSUME NEW q \in Paths, sent[q] # <<>> PROVE Last(sent[q]) \in AllAnswers
      OBVIOUS
    <3>1. sent[q] \in Seq(AllAnswers) BY DEF IInv, Typed
    <3>2. Len(sent[q]) \in 1..Len(sent[q]) BY <3>1
    <3> QED BY <3>1, <3>2 DEF Last
  <2>4. \A q \in Paths : Unused(q) => sent[q] = <<>>
    BY <2>2 DEF Unused, Silent
  <2>5. ASSUME NEW q \in Paths, stage[q] = "ended", got[q] # "budget"
        PROVE  sent[q] # <<>> /\ (Matches(q) <=> Last(sent[q]) = "match")
    <3>1. sent[q] # <<>> /\ got[q] = Verdict(Last(sent[q])) BY <2>2, <2>5 DEF Settled
    <3>2. Last(sent[q]) \in AllAnswers BY <2>3, <3>1
    <3> QED BY <3>1, <3>2, VerdictOfDocument DEF Matches
  <2>6. Last(sent[p]) = "match" BY <2>1, <2>5, PathNames DEF Matches
  <2>7. \A q \in Paths : Failed(q) => sent[q] # <<>> /\ Last(sent[q]) # "match"
    BY <2>5 DEF Failed
  <2>8. D1 \in Paths /\ D2 \in Paths /\ "view" \in Paths BY PathNames
  <2>9. CASE p = D1
    <3>1. sent[Primary[2]] = <<>> /\ sent[Primary[3]] = <<>>
      BY <2>1, <2>4, <2>8, <2>9, PathNames DEF Reached
    <3>2. 1 \in 1..Len(Primary) /\ 1..(1 - 1) = {} /\ (1 + 1)..Len(Primary) = {2, 3}
      BY PathNames
    <3> QED BY <2>1, <2>6, <2>9, <3>1, <3>2, PathNames
  <2>10. CASE p = D2
    <3>1. sent[Primary[1]] # <<>> /\ Last(sent[Primary[1]]) # "match" /\ sent[Primary[3]] = <<>>
      BY <2>1, <2>4, <2>7, <2>8, <2>10, PathNames DEF Reached
    <3>2. 2 \in 1..Len(Primary) /\ 1..(2 - 1) = {1} /\ (2 + 1)..Len(Primary) = {3}
      BY PathNames
    <3> QED BY <2>1, <2>6, <2>10, <3>1, <3>2, PathNames
  <2>11. CASE p = "view"
    <3>1. /\ sent[Primary[1]] # <<>> /\ Last(sent[Primary[1]]) # "match"
          /\ sent[Primary[2]] # <<>> /\ Last(sent[Primary[2]]) # "match"
      BY <2>1, <2>7, <2>8, <2>11, PathNames DEF Reached
    <3>2. 3 \in 1..Len(Primary) /\ 1..(3 - 1) = {1, 2} /\ (3 + 1)..Len(Primary) = {}
      BY PathNames
    <3> QED BY <2>1, <2>6, <2>11, <3>1, <3>2, PathNames
  <2> QED BY <2>9, <2>10, <2>11, PathNames
<1> QED BY <1>1, Invariance, PTL

\* Which error FetchProfile returns: the exhausted budget, if a primary path
\* was told so, and otherwise that of the last decoration, unless the legacy
\* view answered with somebody else's profile (fetchPrimary's lastErr).
THEOREM ErrorsAreExplained == Spec => []ErrorExplained
<1>1. IInv => ErrorExplained BY DEF IInv, Ended
<1> QED BY <1>1, Invariance, PTL

-----------------------------------------------------------------------------
\* The budget: a request is charged before it is sent, so that what is left
\* and what was sent add up to the budget, and "exhausted" is only heard when
\* nothing is left.
Funds ==
  /\ remaining \in 0..MaxRequests
  /\ IsFiniteSet(Requests) /\ Cardinality(Requests) = MaxRequests - remaining
  /\ \A p \in Paths : got[p] = "budget" => remaining = 0

LEMMA SameRequests ==
  ASSUME \A p \in Paths : SentOn(p)' = SentOn(p)
  PROVE  Requests' = Requests
BY DEF Requests

\* One more request on a path is one more request.
LEMMA OneMoreRequest ==
  ASSUME NEW p \in Paths, SentOn(p) \in Nat, SentOn(p)' = SentOn(p) + 1,
         \A q \in Paths \ {p} : SentOn(q)' = SentOn(q), IsFiniteSet(Requests)
  PROVE  IsFiniteSet(Requests') /\ Cardinality(Requests') = Cardinality(Requests) + 1
<1> DEFINE new == <<p, SentOn(p) + 1>>
<1>1. new \notin Requests BY DEF Requests
<1>2. Requests' = Requests \cup {new}
  <2>1. 1..(SentOn(p) + 1) = (1..SentOn(p)) \cup {SentOn(p) + 1} OBVIOUS
  <2>2. {p} \X (1..(SentOn(p) + 1)) = ({p} \X (1..SentOn(p))) \cup {new} BY <2>1
  <2> DEFINE of(q) == {q} \X (1..SentOn(q))
             ofNext(q) == {q} \X (1..SentOn(q)')
  <2>3. ofNext(p) = of(p) \cup {new} /\ \A q \in Paths \ {p} : ofNext(q) = of(q) BY <2>2
  <2>4. Requests = UNION {of(q) : q \in Paths} /\ Requests' = UNION {ofNext(q) : q \in Paths}
    BY DEF Requests
  <2> HIDE DEF of, ofNext, new
  <2> QED BY <2>3, <2>4
<1> HIDE DEF new
<1> QED BY <1>1, <1>2, FS_AddElement

LEMMA SentIsCounted ==
  ASSUME Typed, NEW p \in Paths
  PROVE  SentOn(p) \in Nat
BY DEF Typed, SentOn

\* An answer takes the place of the request in flight.
LEMMA AnswerIsCounted ==
  ASSUME Typed, NEW p \in Paths, NEW answer \in AllAnswers, stage[p] = "flying",
         sent' = [sent EXCEPT ![p] = Append(@, answer)],
         NEW st, st # "flying", stage' = [stage EXCEPT ![p] = st]
  PROVE  \A q \in Paths : SentOn(q)' = SentOn(q)
<1>1. sent[p] \in Seq(AllAnswers) BY DEF Typed
<1>2. Len(Append(sent[p], answer)) = Len(sent[p]) + 1 /\ Len(sent[p]) \in Nat BY <1>1
<1>3. sent'[p] = Append(sent[p], answer) /\ stage'[p] = st BY DEF Typed
<1>4. SentOn(p)' = SentOn(p)
  <2>1. SentOn(p) = Len(sent[p]) + 1 BY DEF SentOn
  <2>2. SentOn(p)' = Len(sent'[p]) + 0 BY <1>3 DEF SentOn
  <2> QED BY <1>2, <1>3, <2>1, <2>2
<1>5. \A q \in Paths \ {p} : sent'[q] = sent[q] /\ stage'[q] = stage[q] BY DEF Typed
<1> QED BY <1>4, <1>5 DEF SentOn

\* A step that sends nothing, and after which no more paths are told that the
\* budget is exhausted.
LEMMA FundsUntouched ==
  ASSUME Funds, UNCHANGED remaining, \A p \in Paths : SentOn(p)' = SentOn(p),
         \A p \in Paths : got'[p] = "budget" => got[p] = "budget"
  PROVE  Funds'
BY SameRequests DEF Funds

LEMMA FundsAtRest ==
  ASSUME Funds, UNCHANGED <<remaining, got, sent>>,
         \A p \in Paths : stage'[p] = "flying" <=> stage[p] = "flying"
  PROVE  Funds'
BY FundsUntouched DEF SentOn

LEMMA CallFliesNothing ==
  ASSUME Typed, NEW p \in Paths, stage[p] # "flying", Call(p)
  PROVE  \A q \in Paths : stage'[q] = "flying" <=> stage[q] = "flying"
BY DEF Typed, Call

LEMMA ExchangeKeepsFunds ==
  ASSUME IInv, Funds, NEW p \in Paths, Exchange(p)
  PROVE  Funds'
<1> USE DEF Typed
<1>0. Typed BY DEF IInv
<1>1. CASE ChargeFails(p)
  <2>1. stage[p] = "charge" /\ remaining <= 0 /\ stage' = [stage EXCEPT ![p] = "ended"]
        /\ got' = [got EXCEPT ![p] = "budget"] /\ UNCHANGED <<remaining, sent>>
    BY <1>1 DEF ChargeFails, End, Exhausted
  <2>2. \A q \in Paths : SentOn(q)' = SentOn(q) BY <1>0, <2>1 DEF SentOn
  <2>3. remaining = 0 BY <2>1 DEF Funds
  <2> QED BY <2>1, <2>2, <2>3, SameRequests DEF Funds
<1>2. CASE Charge(p)
  <2>1. stage[p] = "charge" /\ remaining' = remaining - 1 /\ ~ (remaining <= 0)
        /\ stage' = [stage EXCEPT ![p] = "flying"] /\ UNCHANGED <<got, sent>>
    BY <1>2 DEF Charge, Exhausted
  <2>2. SentOn(p)' = SentOn(p) + 1 /\ \A q \in Paths \ {p} : SentOn(q)' = SentOn(q)
    BY <1>0, <2>1 DEF SentOn
  <2>3. IsFiniteSet(Requests') /\ Cardinality(Requests') = Cardinality(Requests) + 1
    BY <1>0, <2>2, OneMoreRequest, SentIsCounted DEF Funds
  <2>4. remaining \in 0..MaxRequests /\ MaxRequests \in Nat
        /\ Cardinality(Requests) = MaxRequests - remaining
    BY LinkedInClientAssumption DEF Funds
  <2>5. remaining' \in 0..MaxRequests /\ Cardinality(Requests') = MaxRequests - remaining'
    BY <2>1, <2>3, <2>4
  <2>6. \A q \in Paths : got'[q] # "budget" BY <2>1, <2>4 DEF Funds
  <2> QED BY <2>3, <2>5, <2>6 DEF Funds
<1>3. CASE Retry(p)
  <2>1. stage[p] = "backoff" /\ Call(p) /\ UNCHANGED <<remaining, got, sent>>
    BY <1>3 DEF Retry
  <2> QED BY <1>0, <2>1, CallFliesNothing, FundsAtRest
<1>4. ASSUME NEW answer \in AnswersTo(p), AskAgain(p, answer) PROVE Funds'
  <2>1. stage[p] = "flying" /\ sent' = [sent EXCEPT ![p] = Append(@, answer)]
        /\ stage' = [stage EXCEPT ![p] = "backoff"] /\ UNCHANGED <<remaining, got>>
    BY <1>4 DEF AskAgain
  <2>2. \A q \in Paths : SentOn(q)' = SentOn(q)
    BY <1>0, <2>1, AnswersAreKnown, AnswerIsCounted
  <2> QED BY <2>1, <2>2, FundsUntouched
<1>5. ASSUME NEW answer \in AnswersTo(p), Respond(p, answer) PROVE Funds'
  <2>0. answer \in AllAnswers BY AnswersAreKnown
  <2> DEFINE verdict == Verdict(answer)
  <2>1. stage[p] = "flying" /\ sent' = [sent EXCEPT ![p] = Append(@, answer)]
        /\ stage' = [stage EXCEPT ![p] = "ended"] /\ got' = [got EXCEPT ![p] = verdict]
        /\ UNCHANGED remaining
    BY <1>5 DEF Respond, End
  <2>2. \A q \in Paths : SentOn(q)' = SentOn(q)
    BY <1>0, <2>0, <2>1, AnswerIsCounted
  <2>3. verdict # "budget" BY <2>0, VerdictOfDocument
  <2> HIDE DEF verdict
  <2>4. \A q \in Paths : got'[q] = "budget" => got[q] = "budget" BY <1>0, <2>1, <2>3
  <2> QED BY <2>1, <2>2, <2>4, FundsUntouched
<1> QED BY <1>1, <1>2, <1>3, <1>4, <1>5 DEF Exchange

LEMMA NextKeepsFunds ==
  ASSUME IInv, Funds, [Next]_vars
  PROVE  Funds'
<1>0. Typed BY DEF IInv
<1>1. ASSUME NEW p \in Paths, Exchange(p) PROVE Funds' BY <1>1, ExchangeKeepsFunds
<1>2. ASSUME UNCHANGED <<remaining, got, sent>>, NEW p \in Paths, Call(p), stage[p] # "flying"
      PROVE  Funds'
  BY <1>0, <1>2, CallFliesNothing, FundsAtRest
<1>3. ASSUME UNCHANGED <<remaining, stage, got, sent>> PROVE Funds' BY <1>3, FundsAtRest
<1>4. CASE Main
  <2>0. D1 \in Paths /\ D2 \in Paths /\ "view" \in Paths /\ "contact" \in Paths BY PathNames
  <2>1. CASE NoCredentials \/ ViewFails \/ Finish
    BY <1>3, <2>1 DEF NoCredentials, ViewFails, Finish
  <2>2. CASE Start
    <3>1. Call(D1) /\ stage[D1] # "flying" /\ UNCHANGED <<remaining, got, sent>>
      BY <2>0, <2>2, PathNames DEF Start, IInv, Start0, Unused
    <3> QED BY <1>2, <2>0, <3>1
  <2>3. ASSUME NEW i \in 1..Len(Primary), DecorationExhausted(i) PROVE Funds'
    BY <1>3, <2>3 DEF DecorationExhausted
  <2>4. ASSUME NEW i \in 1..Len(Primary), NextPath(i) PROVE Funds'
    <3>1. i = 1 \/ i = 2 BY <2>4, PathNames DEF NextPath
    <3>2. Call(Primary[i + 1]) /\ main = Primary[i] /\ UNCHANGED <<remaining, got, sent>>
      BY <2>4 DEF NextPath, Answered
    <3>3. CASE i = 1
      <4>1. Call(D2) /\ main = D1 BY <3>2, <3>3, PathNames
      <4>2. stage[D2] # "flying" BY <4>1, PathNames DEF IInv, Search, Reached, Unused
      <4> QED BY <1>2, <2>0, <3>2, <4>1, <4>2
    <3>4. CASE i = 2
      <4>1. Call("view") /\ main = D2 BY <3>2, <3>4, PathNames
      <4>2. stage["view"] # "flying" BY <4>1, PathNames DEF IInv, Search, Reached, Unused
      <4> QED BY <1>2, <2>0, <3>2, <4>1, <4>2
    <3> QED BY <3>1, <3>3, <3>4
  <2>5. ASSUME NEW i \in 1..Len(Primary), PrimaryFound(Primary[i]) PROVE Funds'
    <3> DEFINE p == Primary[i]
    <3>1. p \in PrimaryPaths /\ main = p /\ stage[p] = "ended" BY <2>5 DEF PrimaryFound, Answered
    <3> HIDE DEF p
    <3>2. \A s \in Sections : s \in Paths \ PrimaryPaths BY Disjoint, PathNames
    <3>3. \A s \in Sections : stage[s] # "flying"
      BY <3>1, <3>2 DEF IInv, Search, OthersUnused, Unused
    <3>4. \A q \in Paths : stage'[q] = "flying" <=> stage[q] = "flying"
      BY <2>5, <3>3 DEF PrimaryFound
    <3> QED BY <2>5, <3>4, FundsAtRest DEF PrimaryFound
  <2>6. ASSUME main = "sections", AfterSections, UNCHANGED <<remaining, got, sent>> PROVE Funds'
    <3>1. stage["contact"] # "flying" BY <2>6 DEF IInv, Decorating, Unused
    <3>2. Call("contact") \/ UNCHANGED stage BY <2>6 DEF AfterSections
    <3> QED BY <1>2, <1>3, <2>0, <2>6, <3>1, <3>2
  <2>7. CASE SkipSections \/ Collect BY <2>6, <2>7 DEF SkipSections, Collect
  <2> QED BY <1>4, <2>1, <2>2, <2>3, <2>4, <2>5, <2>7 DEF Main
<1>5. ASSUME NEW s \in Sections, Work(s) PROVE Funds'
  <2>1. s \in Paths BY PathNames
  <2>2. CASE Acquire(s) BY <1>2, <2>1, <2>2 DEF Acquire
  <2>3. CASE Leave(s)
    <3>1. \A q \in Paths : stage'[q] = "flying" <=> stage[q] = "flying"
      BY <1>0, <2>1, <2>3 DEF Leave, Typed
    <3> QED BY <2>3, <3>1, FundsAtRest DEF Leave
  <2> QED BY <1>5, <2>2, <2>3 DEF Work
<1>6. CASE UNCHANGED vars BY <1>3, <1>6 DEF vars
<1> QED BY <1>1, <1>4, <1>5, <1>6 DEF Next, Returned

LEMMA FundsAreKept == Spec => []Funds
<1>1. Init => Funds
  <2> SUFFICES ASSUME Init PROVE Funds
    OBVIOUS
  <2>1. \A p \in Paths : SentOn(p) = 0 BY DEF Init, SentOn
  <2>2. Requests = {} BY <2>1 DEF Requests
  <2>3. remaining = MaxRequests /\ MaxRequests \in Nat BY LinkedInClientAssumption DEF Init
  <2> QED BY <2>2, <2>3, FS_EmptySet DEF Funds, Init
<1>2. IInv /\ Funds /\ [Next]_vars => Funds' BY NextKeepsFunds
<1> QED BY <1>1, <1>2, Invariance, PTL DEF Spec

\* Whatever its workers do at the same time, a call sends no more requests
\* than its budget, retries included, and nobody hears that the budget is
\* exhausted before all of it was used (AttemptBudget.Charge).
THEOREM BudgetIsKept == Spec => []BudgetKept
<1>1. Funds => BudgetKept BY LinkedInClientAssumption DEF Funds, BudgetKept, Spent
<1> QED BY <1>1, FundsAreKept, PTL

-----------------------------------------------------------------------------
\* The lists that FetchProfile returns.  Until the sections are collected
\* there is at most the primary document; then come the sections that brought
\* one, then the contact document.
Fetched == Filtered(SectionPaths, WithDocument)
Warned == Filtered(SectionPaths, WithWarning)
ContactOrNone == {<<>>, <<"contact">>}

Listed(moreDocuments, moreWarnings) ==
  /\ AllLeft
  /\ \E p \in PrimaryPaths : documents = (<<p>> \o Fetched) \o moreDocuments
  /\ warnings = Warned \o moreWarnings

Lists ==
  /\ main \in {"start", "sections"} \cup PrimaryPaths => warnings = <<>>
  /\ main = "sections" => \E p \in PrimaryPaths : documents = <<p>>
  /\ fallbacks /\ main = "contact" => Listed(<<>>, <<>>)
  /\ fallbacks /\ outcome = "ok" => \E d, w \in ContactOrNone : Listed(d, w)

LEMMA KeptAreSections ==
  /\ Fetched \in Seq(Sections) /\ Warned \in Seq(Sections)
  /\ Fetched = Subsequence(SectionPaths, {i \in 1..Len(SectionPaths) : WithDocument(SectionPaths[i])})
  /\ Warned = Subsequence(SectionPaths, {i \in 1..Len(SectionPaths) : WithWarning(SectionPaths[i])})
<1>1. Fetched = Subsequence(SectionPaths, {i \in 1..Len(SectionPaths) : WithDocument(SectionPaths[i])})
  BY SectionPathsKept DEF Fetched, Filtered
<1>2. Warned = Subsequence(SectionPaths, {i \in 1..Len(SectionPaths) : WithWarning(SectionPaths[i])})
  BY SectionPathsKept DEF Warned, Filtered
<1> QED BY <1>1, <1>2, SectionPathsKept

\* What is in the lists depends on the results of the sections only.
LEMMA ListedStays ==
  ASSUME NEW d, NEW w, Listed(d, w), UNCHANGED <<documents, warnings>>,
         \A s \in Sections : stage'[s] = stage[s] /\ got'[s] = got[s]
  PROVE  Listed(d, w)'
<1>1. \A i \in DOMAIN SectionPaths : SectionPaths[i] \in Sections BY DEF Sections, ToSet
<1>2. Fetched' = Fetched BY <1>1 DEF Fetched, Filtered, WithDocument
<1>3. Warned' = Warned BY <1>1 DEF Warned, Filtered, WithWarning
<1>4. AllLeft' BY DEF Listed, AllLeft
<1> QED BY <1>2, <1>3, <1>4 DEF Listed

\* A step that touches no list and, once they are made, no section.
LEMMA ListsStay ==
  ASSUME Lists, UNCHANGED <<setup, main, outcome, documents, warnings>>,
         AllLeft => \A s \in Sections : stage'[s] = stage[s] /\ got'[s] = got[s]
  PROVE  Lists'
<1>1. ASSUME NEW d, NEW w, Listed(d, w) PROVE Listed(d, w)'
  BY <1>1, ListedStays DEF Listed
<1> QED BY <1>1 DEF Lists, setup

LEMMA ExchangeKeepsLists ==
  ASSUME IInv, Lists, NEW p \in Paths, Exchange(p)
  PROVE  Lists'
<1>0. Typed BY DEF IInv
<1>1. /\ UNCHANGED <<setup, main, outcome, documents, warnings>>
      /\ stage[p] # "left"
      /\ \E st, g : stage' = [stage EXCEPT ![p] = st]
                     /\ (got' = [got EXCEPT ![p] = g] \/ got' = got)
  BY DEF Exchange, ChargeFails, Charge, Retry, AskAgain, Respond, End, Call
<1>2. AllLeft => \A s \in Sections : s # p BY <1>1 DEF AllLeft
<1>3. AllLeft => \A s \in Sections : stage'[s] = stage[s] /\ got'[s] = got[s]
  BY <1>0, <1>1, <1>2, PathNames DEF Typed
<1> QED BY <1>1, <1>3, ListsStay

LEMMA WorkKeepsLists ==
  ASSUME IInv, Lists, NEW s \in Sections, Work(s)
  PROVE  Lists'
<1>1. /\ UNCHANGED <<setup, main, outcome, documents, warnings>>
      /\ stage[s] # "left"
  BY DEF Work, Acquire, Leave
<1>2. ~ AllLeft BY <1>1 DEF AllLeft
<1> QED BY <1>1, <1>2, ListsStay

\* The lists are made, and the contact document is asked for or the call ends.
LEMMA AfterSectionsKeepsLists ==
  ASSUME main = "sections", AfterSections, outcome = "none", setup' = setup,
         fallbacks => Listed(<<>>, <<>>)'
  PROVE  Lists'
<1>1. (main' = "contact" /\ outcome' = "none") \/ (main' = "returned" /\ outcome' = "ok")
  BY DEF AfterSections, Return
<1>2. <<>> \in ContactOrNone BY DEF ContactOrNone
<1>3. main' \notin {"start", "sections"} \cup PrimaryPaths
  BY <1>1, PathNames DEF D1, D2
<1> QED BY <1>1, <1>2, <1>3 DEF Lists, setup

LEMMA CollectKeepsLists ==
  ASSUME IInv, Lists, Collect
  PROVE  Lists'
<1>1. main = "sections" /\ fallbacks /\ AllLeft /\ AfterSections
      /\ documents' = documents \o Fetched /\ warnings' = warnings \o Warned
      /\ UNCHANGED <<setup, got>>
  BY DEF Collect, Fetched, Warned
<1>2. outcome = "none" BY <1>1 DEF IInv, Decorating
<1>3. PICK p \in PrimaryPaths : documents = <<p>> BY <1>1 DEF Lists
<1>4. warnings = <<>> BY <1>1 DEF Lists
<1>5. AllLeft' /\ Fetched' = Fetched /\ Warned' = Warned
  <2>1. \A s \in Sections : stage'[s] = stage[s]
    <3>1. stage' = stage \/ Call("contact") BY <1>1 DEF AfterSections
    <3> QED BY <3>1, Disjoint, PathNames DEF IInv, Typed, Call
  <2> QED BY <1>1, <2>1 DEF AllLeft, Fetched, Warned, Filtered, WithDocument, WithWarning
<1>6. Listed(<<>>, <<>>)'
  <2>1. (<<p>> \o Fetched) \o <<>> = documents'
    <3>1. <<p>> \o Fetched \in Seq(Paths) BY KeptAreSections, PathNames
    <3>2. <<p>> \o Fetched = documents' BY <1>1, <1>3
    <3> QED BY <3>1, <3>2
  <2>2. Warned \o <<>> = warnings'
    <3>1. <<>> \o Warned = Warned /\ Warned \o <<>> = Warned BY KeptAreSections
    <3> QED BY <1>1, <1>4, <3>1
  <2> QED BY <1>5, <2>1, <2>2 DEF Listed
<1> QED BY <1>1, <1>2, <1>6, AfterSectionsKeepsLists

LEMMA FinishKeepsLists ==
  ASSUME IInv, Lists, Finish
  PROVE  Lists'
<1>1. main = "contact" /\ main' = "returned" /\ outcome' = "ok" /\ UNCHANGED <<setup, stage, got>>
  BY DEF Finish, Return
<1>2. PICK d, w \in ContactOrNone : documents' = documents \o d /\ warnings' = warnings \o w
  BY DEF Finish, ContactOrNone
<1>3. main' \notin {"start", "sections"} \cup PrimaryPaths
  BY <1>1, PathNames DEF D1, D2
<1>4. ASSUME fallbacks PROVE Listed(d, w)'
  <2>1. Listed(<<>>, <<>>) BY <1>1, <1>4 DEF Lists
  <2>2. PICK p \in PrimaryPaths : documents = (<<p>> \o Fetched) \o <<>> BY <2>1 DEF Listed
  <2>3. documents = <<p>> \o Fetched
    <3>1. <<p>> \o Fetched \in Seq(Paths) BY KeptAreSections, PathNames
    <3> QED BY <2>2, <3>1
  <2>4. warnings = Warned
    <3>1. Warned \o <<>> = Warned BY KeptAreSections
    <3> QED BY <2>1, <3>1 DEF Listed
  <2>5. AllLeft' /\ Fetched' = Fetched /\ Warned' = Warned
    BY <1>1, <2>1 DEF Listed, AllLeft, Fetched, Warned, Filtered, WithDocument, WithWarning
  <2> QED BY <1>2, <2>2, <2>3, <2>4, <2>5 DEF Listed
<1> QED BY <1>1, <1>2, <1>3, <1>4 DEF Lists, setup

LEMMA NextKeepsLists ==
  ASSUME IInv, Lists, [Next]_vars
  PROVE  Lists'
<1>0. "sections" \notin PrimaryPaths /\ "contact" \notin PrimaryPaths
      /\ "returned" \notin PrimaryPaths /\ "start" \notin PrimaryPaths
  BY PathNames DEF D1, D2
<1>5. \A i \in 1..Len(Primary) : Primary[i] \in PrimaryPaths BY PathNames
<1>1. ASSUME outcome' \in Errors, main' = "returned" PROVE Lists'
  BY <1>0, <1>1, NoErrors DEF Lists
<1>2. ASSUME main \in {"start"} \cup PrimaryPaths, main' \in PrimaryPaths, outcome' = "none", warnings' = warnings
      PROVE  Lists'
  BY <1>0, <1>2 DEF Lists
<1>3. CASE Main
  <2>1. CASE NoCredentials BY <1>1, <2>1 DEF NoCredentials, Return, Errors
  <2>2. CASE Start
    <3>1. outcome = "none" /\ Primary[1] \in PrimaryPaths
      BY <1>5, <2>2, PathNames DEF Start, IInv, Start0
    <3> QED BY <1>2, <2>2, <3>1 DEF Start
  <2>3. ASSUME NEW i \in 1..Len(Primary), DecorationExhausted(i) PROVE Lists'
    BY <1>1, <2>3 DEF DecorationExhausted, Return, Errors
  <2>4. ASSUME NEW i \in 1..Len(Primary), NextPath(i) PROVE Lists'
    <3>1. i + 1 \in 1..Len(Primary) BY <2>4, PathNames DEF NextPath
    <3>2. Primary[i] \in PrimaryPaths /\ Primary[i + 1] \in PrimaryPaths BY <1>5, <3>1
    <3>3. main = Primary[i] /\ main' = Primary[i + 1] /\ UNCHANGED <<outcome, warnings>>
      BY <2>4 DEF NextPath, Answered
    <3> QED BY <1>2, <3>2, <3>3 DEF IInv, Search
  <2>5. ASSUME NEW i \in 1..Len(Primary), PrimaryFound(Primary[i]) PROVE Lists'
    <3>1. main \in PrimaryPaths /\ main' = "sections" /\ documents' = <<Primary[i]>>
          /\ Primary[i] \in PrimaryPaths /\ UNCHANGED <<outcome, warnings>>
      BY <1>5, <2>5 DEF PrimaryFound, Answered
    <3>2. outcome = "none" BY <3>1 DEF IInv, Search
    <3> QED BY <1>0, <3>1, <3>2 DEF Lists
  <2>6. CASE ViewFails
    <3>1. main = "view" /\ stage["view"] = "ended" /\ outcome' = ViewError /\ main' = "returned"
      BY <2>6 DEF ViewFails, Answered, Return
    <3>2. lastErr = Complaint(D2) BY <3>1, PathNames DEF IInv, Search, LastErrIs
    <3>3. ViewError \in Errors BY <3>2 DEF ViewError, Complaint, Errors
    <3> QED BY <1>1, <3>1, <3>3
  <2>7. CASE SkipSections
    <3>1. main = "sections" /\ ~ fallbacks /\ AfterSections /\ setup' = setup
      BY <2>7 DEF SkipSections
    <3>2. outcome = "none" BY <3>1 DEF IInv, Decorating
    <3> QED BY <3>1, <3>2, AfterSectionsKeepsLists
  <2>8. CASE Collect BY <2>8, CollectKeepsLists
  <2>9. CASE Finish BY <2>9, FinishKeepsLists
  <2> QED BY <1>3, <2>1, <2>2, <2>3, <2>4, <2>5, <2>6, <2>7, <2>8, <2>9 DEF Main
<1>4. CASE UNCHANGED vars BY <1>4, ListsStay DEF vars
<1> QED BY <1>3, <1>4, ExchangeKeepsLists, WorkKeepsLists DEF Next, Returned

LEMMA ListsAreKept == Spec => [](IInv /\ Lists)
<1>1. Init => Lists
  BY PathNames, NoErrors DEF Init, Lists, D1, D2
<1>2. IInv /\ Lists /\ [Next]_vars => Lists' BY NextKeepsLists
<1> QED BY <1>1, <1>2, Invariance, PTL DEF Spec

-----------------------------------------------------------------------------
\* A list made of a head, the sections kept and a tail names these sections, in
\* their order, and no other, if head and tail name none.
NamesInOrder(list, kept) ==
  /\ \A i \in 1..Len(SectionPaths) : SectionPaths[i] \in ToSet(list) <=> i \in kept
  /\ \A i, j \in 1..Len(SectionPaths), m, n \in 1..Len(list) :
       list[m] = SectionPaths[i] /\ list[n] = SectionPaths[j] => (i < j <=> m < n)

LEMMA KeptInList ==
  ASSUME NEW head, NEW tail, head \in Seq(Paths), tail \in Seq(Paths),
         NEW kept \in SUBSET (1..Len(SectionPaths)), NEW list,
         list = (head \o Subsequence(SectionPaths, kept)) \o tail,
         \A n \in 1..Len(head) : head[n] \notin Sections,
         \A n \in 1..Len(tail) : tail[n] \notin Sections
  PROVE  NamesInOrder(list, kept)
<1> DEFINE sub == Subsequence(SectionPaths, kept)
           h == Len(head)
<1>1. sub \in Seq(Sections) /\ SectionPaths \in Seq(Sections) BY SectionPathsKept
<1>2. PICK at \in [1..Len(sub) -> kept] :
        /\ \A k \in 1..Len(sub) : sub[k] = SectionPaths[at[k]]
        /\ \A i \in kept : \E k \in 1..Len(sub) : at[k] = i
        /\ \A k, l \in 1..Len(sub) : k < l <=> at[k] < at[l]
  BY <1>1, SubsequenceOf
<1> HIDE DEF sub
<1>3. list = (head \o sub) \o tail BY DEF sub
<1>4. sub \in Seq(Paths) BY <1>1, PathNames
<1>5. h \in Nat /\ Len(sub) \in Nat /\ Len(tail) \in Nat BY <1>4
<1>6. /\ Len(list) = h + Len(sub) + Len(tail) /\ DOMAIN list = 1..Len(list)
      /\ \A m \in 1..h : list[m] = head[m]
      /\ \A k \in 1..Len(sub) : list[h + k] = sub[k]
      /\ \A n \in 1..Len(tail) : list[h + Len(sub) + n] = tail[n]
  BY <1>3, <1>4
<1> HIDE DEF h
\* Where a section is named.
<1>7. ASSUME NEW m \in 1..Len(list), NEW i \in 1..Len(SectionPaths), list[m] = SectionPaths[i]
      PROVE  \E k \in 1..Len(sub) : m = h + k /\ at[k] = i
  <2>1. SectionPaths[i] \in Sections BY <1>1
  <2>2. ~ (m <= h)
    <3>1. m <= h => m \in 1..h BY <1>5
    <3> QED BY <1>6, <1>7, <2>1, <3>1 DEF h
  <2>3. ~ (m > h + Len(sub))
    <3> SUFFICES ASSUME m > h + Len(sub) PROVE FALSE
      OBVIOUS
    <3> DEFINE n == m - (h + Len(sub))
    <3>1. n \in 1..Len(tail) /\ m = h + Len(sub) + n BY <1>5, <1>6
    <3> HIDE DEF n
    <3>2. list[m] = tail[n] BY <1>6, <3>1
    <3> QED BY <1>7, <2>1, <3>1, <3>2
  <2> DEFINE k == m - h
  <2>4. k \in 1..Len(sub) /\ m = h + k BY <1>5, <1>6, <2>2, <2>3
  <2> HIDE DEF k
  <2>5. SectionPaths[at[k]] = SectionPaths[i] /\ at[k] \in 1..Len(SectionPaths)
    BY <1>2, <1>6, <1>7, <2>4
  <2>6. at[k] = i BY <2>5, SectionPathsKept, LinkedInClientAssumption DEF IsInjective
  <2> QED BY <2>4, <2>6
<1>8. ASSUME NEW i \in 1..Len(SectionPaths) PROVE SectionPaths[i] \in ToSet(list) <=> i \in kept
  <2>1. ASSUME SectionPaths[i] \in ToSet(list) PROVE i \in kept
    <3>1. PICK m \in 1..Len(list) : list[m] = SectionPaths[i] BY <1>6, <2>1 DEF ToSet
    <3>2. PICK k \in 1..Len(sub) : at[k] = i BY <1>7, <3>1
    <3> QED BY <3>2
  <2>2. ASSUME i \in kept PROVE SectionPaths[i] \in ToSet(list)
    <3>1. PICK k \in 1..Len(sub) : at[k] = i BY <1>2, <2>2
    <3>2. list[h + k] = SectionPaths[i] BY <1>2, <1>6, <3>1
    <3>3. h + k \in DOMAIN list BY <1>5, <1>6
    <3> QED BY <3>2, <3>3 DEF ToSet
  <2> QED BY <2>1, <2>2
<1>9. ASSUME NEW i \in 1..Len(SectionPaths), NEW j \in 1..Len(SectionPaths),
             NEW m \in 1..Len(list), NEW n \in 1..Len(list),
             list[m] = SectionPaths[i], list[n] = SectionPaths[j]
      PROVE  i < j <=> m < n
  <2>1. PICK k \in 1..Len(sub) : m = h + k /\ at[k] = i BY <1>7, <1>9
  <2>2. PICK l \in 1..Len(sub) : n = h + l /\ at[l] = j BY <1>7, <1>9
  <2>3. i < j <=> k < l BY <1>2, <2>1, <2>2
  <2> QED BY <1>5, <2>1, <2>2, <2>3
<1> QED BY <1>8, <1>9 DEF NamesInOrder

\* A call that succeeds accounts for every section, by its document, a
\* warning or the null that LinkedIn answered, and both of its lists name the
\* sections in their order (fetchSections).
THEOREM SectionsAreAccounted == Spec => []SectionsAccounted
<1>1. IInv /\ Lists => SectionsAccounted
  <2> SUFFICES ASSUME IInv, Lists, outcome = "ok", fallbacks
               PROVE  /\ \A s \in Sections :
                           \/ s \in ToSet(documents) /\ s \notin ToSet(warnings)
                           \/ s \in ToSet(warnings) /\ s \notin ToSet(documents)
                           \/ Last(sent[s]) = "null"
                      /\ \A list \in {documents, warnings} :
                           \A i, j \in 1..Len(SectionPaths) : \A m, n \in 1..Len(list) :
                             list[m] = SectionPaths[i] /\ list[n] = SectionPaths[j] => (i < j <=> m < n)
    BY DEF SectionsAccounted
  <2> DEFINE fetched == {i \in 1..Len(SectionPaths) : WithDocument(SectionPaths[i])}
             warned == {i \in 1..Len(SectionPaths) : WithWarning(SectionPaths[i])}
  <2>1. PICK d, w \in ContactOrNone : Listed(d, w) BY DEF Lists
  <2>2. PICK p \in PrimaryPaths : documents = (<<p>> \o Fetched) \o d BY <2>1 DEF Listed
  <2>3. ASSUME NEW t \in ContactOrNone
        PROVE  t \in Seq(Paths) /\ \A n \in 1..Len(t) : t[n] \notin Sections
    <3>1. CASE t = <<>> BY <3>1
    <3>2. CASE t = <<"contact">> BY <3>2, Disjoint, PathNames
    <3> QED BY <3>1, <3>2 DEF ContactOrNone
  <2>4. <<p>> \in Seq(Paths) /\ \A n \in 1..Len(<<p>>) : <<p>>[n] \notin Sections
    BY Disjoint, PathNames
  <2>5. warnings = (<<>> \o Warned) \o w
    <3>1. <<>> \o Warned = Warned BY KeptAreSections
    <3> QED BY <2>1, <3>1 DEF Listed
  <2>6. Fetched = Subsequence(SectionPaths, fetched) /\ Warned = Subsequence(SectionPaths, warned)
    BY KeptAreSections
  <2>7. NamesInOrder(documents, fetched)
    <3> HIDE DEF fetched
    <3>1. fetched \in SUBSET (1..Len(SectionPaths)) BY DEF fetched
    <3>2. documents = (<<p>> \o Subsequence(SectionPaths, fetched)) \o d BY <2>2, <2>6
    <3>3. d \in Seq(Paths) /\ \A n \in 1..Len(d) : d[n] \notin Sections BY <2>3
    <3> DEFINE head == <<p>>
    <3>4. head \in Seq(Paths) /\ \A n \in 1..Len(head) : head[n] \notin Sections BY <2>4
    <3>5. documents = (head \o Subsequence(SectionPaths, fetched)) \o d BY <3>2
    <3> HIDE DEF head
    <3> QED BY <3>1, <3>3, <3>4, <3>5, KeptInList
  <2>8. NamesInOrder(warnings, warned)
    <3> HIDE DEF warned
    <3>1. warned \in SUBSET (1..Len(SectionPaths)) BY DEF warned
    <3>2. w \in Seq(Paths) /\ \A n \in 1..Len(w) : w[n] \notin Sections BY <2>3
    <3> DEFINE head == <<>>
    <3>3. head \in Seq(Paths) /\ \A n \in 1..Len(head) : head[n] \notin Sections OBVIOUS
    <3>4. warnings = (head \o Subsequence(SectionPaths, warned)) \o w BY <2>5, <2>6
    <3> HIDE DEF head
    <3> QED BY <3>1, <3>2, <3>3, <3>4, KeptInList
  <2>9. ASSUME NEW s \in Sections
        PROVE  \/ s \in ToSet(documents) /\ s \notin ToSet(warnings)
               \/ s \in ToSet(warnings) /\ s \notin ToSet(documents)
               \/ Last(sent[s]) = "null"
    <3>1. PICK i \in 1..Len(SectionPaths) : SectionPaths[i] = s
      BY SectionPathsKept DEF Sections, ToSet
    <3>2. s \in Paths /\ stage[s] = "left" BY <2>1, PathNames DEF Listed, AllLeft
    <3>3. Settled("left", got[s], sent[s]) BY <3>2 DEF IInv, PathsInv, PathInv
    <3>4. got[s] = "budget" \/ (sent[s] # <<>> /\ got[s] = Verdict(Last(sent[s])))
      BY <3>3 DEF Settled
    <3>5. CASE got[s] \in Documents
      <4>1. i \in fetched /\ i \notin warned
        BY <3>1, <3>5 DEF WithDocument, WithWarning, Documents, Errors
      <4> QED BY <2>7, <2>8, <3>1, <4>1 DEF NamesInOrder
    <3>6. CASE got[s] \in Errors
      <4>1. i \in warned /\ i \notin fetched
        BY <3>1, <3>6 DEF WithDocument, WithWarning, Documents, Errors
      <4> QED BY <2>7, <2>8, <3>1, <4>1 DEF NamesInOrder
    <3>7. CASE got[s] \notin Documents \cup Errors
      <4>1. sent[s] # <<>> /\ got[s] = Verdict(Last(sent[s])) BY <3>4, <3>7 DEF Errors
      <4>2. Last(sent[s]) \in AllAnswers
        <5>1. sent[s] \in Seq(AllAnswers) BY <3>2 DEF IInv, Typed
        <5>2. Len(sent[s]) \in 1..Len(sent[s]) BY <4>1, <5>1
        <5> QED BY <5>1, <5>2 DEF Last
      <4>3. Verdict(Last(sent[s])) = "null" => Last(sent[s]) = "null"
        BY <4>2 DEF Verdict, AllAnswers
      <4> QED BY <3>7, <4>1, <4>2, <4>3, VerdictOfDocument
    <3> QED BY <3>5, <3>6, <3>7
  <2> QED BY <2>7, <2>8, <2>9 DEF NamesInOrder
<1> QED BY <1>1, ListsAreKept, PTL

-----------------------------------------------------------------------------
\* Types of the variables that the invariants above do not speak of.
Rest ==
  /\ fallbacks \in BOOLEAN /\ withContact \in BOOLEAN
  /\ lastErr \in Errors \cup {"none"}
  /\ documents \in Seq(Paths) /\ warnings \in Seq(Paths)
  /\ outcome \in Errors \cup {"none", "ok"}
  /\ sent \in [Paths -> Seq(Answers)]

LEMMA ExchangeKeepsRest ==
  ASSUME Rest, NEW p \in Paths, Exchange(p)
  PROVE  Rest'
<1>1. UNCHANGED <<setup, lastErr, documents, warnings, outcome>>
  BY DEF Exchange, ChargeFails, Charge, Retry, AskAgain, Respond
<1>2. \/ UNCHANGED sent
      \/ \E answer \in AnswersTo(p) : sent' = [sent EXCEPT ![p] = Append(@, answer)]
  BY DEF Exchange, ChargeFails, Charge, Retry, AskAgain, Respond
<1>3. AnswersTo(p) \subseteq Answers BY DEF AnswersTo
<1>4. sent' \in [Paths -> Seq(Answers)]
  <2>1. CASE UNCHANGED sent BY <2>1 DEF Rest
  <2>2. ASSUME NEW answer \in Answers, sent' = [sent EXCEPT ![p] = Append(@, answer)]
        PROVE  sent' \in [Paths -> Seq(Answers)]
    <3>1. Append(sent[p], answer) \in Seq(Answers) BY <2>2 DEF Rest
    <3> QED BY <2>2, <3>1 DEF Rest
  <2> QED BY <1>2, <1>3, <2>1, <2>2
<1> QED BY <1>1, <1>4 DEF Rest, setup

LEMMA NextKeepsRest ==
  ASSUME Rest, [Next]_vars
  PROVE  Rest'
<1>1. ASSUME setup' = setup, sent' = sent, UNCHANGED <<documents, warnings>>,
             lastErr' \in Errors \cup {"none"}, outcome' \in Errors \cup {"none", "ok"}
      PROVE  Rest'
  BY <1>1 DEF Rest, setup
<1>2. \A p : Complaint(p) \in Errors BY DEF Complaint, Errors
<1>3. {"credentials", "budget"} \subseteq Errors BY DEF Errors
<1>4. CASE Main
  <2>1. CASE NoCredentials \/ Start BY <1>1, <1>3, <2>1 DEF NoCredentials, Start, Return, Rest
  <2>2. ASSUME NEW i \in 1..Len(Primary), DecorationExhausted(i) PROVE Rest'
    BY <1>1, <1>3, <2>2 DEF DecorationExhausted, Return, Rest
  <2>3. ASSUME NEW i \in 1..Len(Primary), NextPath(i) PROVE Rest'
    BY <1>1, <1>2, <2>3 DEF NextPath, Rest
  <2>4. ASSUME NEW i \in 1..Len(Primary), PrimaryFound(Primary[i]) PROVE Rest'
    <3>1. <<Primary[i]>> \in Seq(Paths) BY PathNames
    <3> QED BY <2>4, <3>1 DEF PrimaryFound, Rest, setup
  <2>5. CASE ViewFails
    <3>1. ViewError \in Errors \cup {"none"} BY <1>2 DEF ViewError, Rest
    <3>2. ViewError # "none" BY <1>2, NoErrors DEF ViewError
    <3> QED BY <1>1, <2>5, <3>1, <3>2 DEF ViewFails, Return, Rest
  <2>6. AfterSections => outcome' \in {"ok", outcome} BY DEF AfterSections, Return
  <2>7. CASE SkipSections BY <1>1, <2>6, <2>7 DEF SkipSections, Rest
  <2>8. CASE Collect
    <3>1. documents' = documents \o Fetched /\ warnings' = warnings \o Warned
      BY <2>8 DEF Collect, Fetched, Warned
    <3>2. Fetched \in Seq(Paths) /\ Warned \in Seq(Paths) BY KeptAreSections, PathNames
    <3>3. documents' \in Seq(Paths) /\ warnings' \in Seq(Paths) BY <3>1, <3>2 DEF Rest
    <3> QED BY <2>6, <2>8, <3>3 DEF Collect, Rest, setup
  <2>9. CASE Finish
    <3>1. PICK d, w \in ContactOrNone : documents' = documents \o d /\ warnings' = warnings \o w
      BY <2>9 DEF Finish, ContactOrNone
    <3>2. \A t \in ContactOrNone : t \in Seq(Paths)
      <4>1. <<>> \in Seq(Paths) /\ <<"contact">> \in Seq(Paths) BY PathNames
      <4> QED BY <4>1 DEF ContactOrNone
    <3>3. documents' \in Seq(Paths) /\ warnings' \in Seq(Paths) BY <3>1, <3>2 DEF Rest
    <3> QED BY <2>9, <3>3 DEF Finish, Return, Rest, setup
  <2> QED BY <1>4, <2>1, <2>2, <2>3, <2>4, <2>5, <2>7, <2>8, <2>9 DEF Main
<1>5. ASSUME NEW s \in Sections, Work(s) PROVE Rest'
  BY <1>1, <1>5 DEF Work, Acquire, Leave, Rest
<1>6. CASE UNCHANGED vars BY <1>1, <1>6 DEF vars, Rest
<1> QED BY <1>4, <1>5, <1>6, ExchangeKeepsRest DEF Next, Returned

\* Every variable keeps its type, in particular the remaining budget, which no
\* interleaving of the workers takes below zero.
THEOREM TypeCorrect == Spec => []TypeOK
<1>1. Init => Rest BY DEF Init, Rest
<1>2. Rest /\ [Next]_vars => Rest' BY NextKeepsRest
<1>3. IInv /\ Funds /\ Rest => TypeOK
  BY DEF IInv, Typed, Funds, Rest, TypeOK, Stages
<1>4. Spec => []Rest BY <1>1, <1>2, PTL DEF Spec
<1> QED BY <1>3, <1>4, Invariance, FundsAreKept, PTL

-----------------------------------------------------------------------------
\* The promise of UpstreamCall.  The contact document is fetched by the main
\* goroutine, so its getJSON runs only while that waits for it.
ContactAtRest == main # "contact" => stage["contact"] \in {"unused", "ended"}

LEMMA NextKeepsContactAtRest ==
  ASSUME IInv, ContactAtRest, [Next]_vars
  PROVE  ContactAtRest'
<1>0. "contact" \in Paths /\ "contact" \notin PrimaryPaths /\ "contact" \notin Sections /\ Typed
  BY PathNames, Disjoint DEF IInv
<1>1. ASSUME NEW p \in Paths, Exchange(p) PROVE ContactAtRest'
  <2>1. /\ stage[p] \in {"charge", "flying", "backoff"} /\ UNCHANGED main
        /\ \A q \in Paths \ {p} : stage'[q] = stage[q]
    BY <1>0, <1>1 DEF Exchange, ChargeFails, Charge, Retry, AskAgain, Respond, End, Call, Typed
  <2> QED BY <1>0, <2>1 DEF ContactAtRest
<1>2. ASSUME NEW s \in Sections, Work(s) PROVE ContactAtRest'
  <2>1. s \in Paths /\ s # "contact" BY <1>0, PathNames
  <2>2. UNCHANGED main /\ stage'["contact"] = stage["contact"]
    BY <1>0, <1>2, <2>1 DEF Work, Acquire, Leave, Call, Typed
  <2> QED BY <2>2 DEF ContactAtRest
<1>3. CASE Main
  <2>1. ASSUME NEW p \in PrimaryPaths, Call(p) PROVE stage'["contact"] = stage["contact"]
    BY <1>0, <2>1 DEF Call, Typed
  <2>2. CASE NoCredentials \/ ViewFails
    BY <2>2 DEF NoCredentials, ViewFails, Answered, ContactAtRest
  <2>3. CASE Start
    <3>1. Call(D1) /\ main = "start" BY <2>3, PathNames DEF Start
    <3> QED BY <2>1, <3>1, PathNames DEF ContactAtRest
  <2>4. ASSUME NEW i \in 1..Len(Primary),
               DecorationExhausted(i) \/ NextPath(i) \/ PrimaryFound(Primary[i])
        PROVE  ContactAtRest'
    <3>1. main = Primary[i] /\ Primary[i] \in PrimaryPaths
      BY <2>4, PathNames DEF DecorationExhausted, NextPath, PrimaryFound, Answered
    <3>2. stage'["contact"] = stage["contact"]
      <4>1. CASE DecorationExhausted(i) BY <4>1 DEF DecorationExhausted
      <4>2. CASE NextPath(i)
        <5>1. Primary[i + 1] \in PrimaryPaths BY <4>2, PathNames DEF NextPath
        <5> QED BY <2>1, <4>2, <5>1 DEF NextPath
      <4>3. CASE PrimaryFound(Primary[i]) BY <1>0, <4>3 DEF PrimaryFound
      <4> QED BY <2>4, <4>1, <4>2, <4>3
    <3> QED BY <1>0, <3>1, <3>2 DEF ContactAtRest
  <2>5. CASE SkipSections \/ Collect
    BY <2>5 DEF SkipSections, Collect, AfterSections, Return, ContactAtRest
  <2>6. CASE Finish BY <2>6 DEF Finish, ContactAtRest
  <2> QED BY <1>3, <2>2, <2>3, <2>4, <2>5, <2>6 DEF Main
<1>4. CASE UNCHANGED vars BY <1>4 DEF vars, ContactAtRest
<1> QED BY <1>1, <1>2, <1>3, <1>4 DEF Next, Returned

\* Nothing is sent and nothing answered before the call has a session or after
\* it returned.
LEMMA ExchangesWhileOpen ==
  ASSUME IInv, ContactAtRest, NEW p \in Paths, stage[p] \in {"charge", "flying", "backoff"}
  PROVE  Phase = "open"
<1>1. main # "start" BY DEF IInv, Start0, Unused
<1>2. main # "returned"
  <2>1. CASE p \in PrimaryPaths
    BY <2>1, PathNames DEF IInv, Ended, PrimaryAtRest, D1, D2
  <2>2. CASE p \in Sections
    BY <2>2, WorkersAreWaitedFor
  <2>3. CASE p = "contact"
    BY <2>3 DEF ContactAtRest
  <2> QED BY <2>1, <2>2, <2>3, PathNames
<1> QED BY <1>1, <1>2 DEF Phase

\* What is sent is counted, and no step but Charge sends anything.
LEMMA SpentByCharge ==
  ASSUME Funds, Funds'
  PROVE  /\ Spent \in Nat /\ Spent <= MaxRequests
         /\ UNCHANGED remaining => Spent' = Spent
         /\ remaining > 0 /\ remaining' = remaining - 1 => Spent < MaxRequests /\ Spent' = Spent + 1
<1>1. MaxRequests \in Nat BY LinkedInClientAssumption
<1>2. remaining \in 0..MaxRequests /\ Spent = MaxRequests - remaining BY DEF Funds, Spent
<1>3. remaining' \in 0..MaxRequests /\ Spent' = MaxRequests - remaining' BY DEF Funds, Spent
<1>4. Spent \in Nat /\ Spent <= MaxRequests BY <1>1, <1>2
<1>5. remaining' = remaining => Spent' = Spent BY <1>2, <1>3
<1>6. remaining > 0 /\ remaining' = remaining - 1 => Spent < MaxRequests /\ Spent' = Spent + 1
  BY <1>1, <1>2, <1>3
<1> QED BY <1>4, <1>5, <1>6

LEMMA SomethingSent ==
  ASSUME Typed, Funds, NEW p \in Paths, sent[p] # <<>> \/ stage[p] = "flying"
  PROVE  Spent > 0
<1>1. SentOn(p) \in Nat /\ SentOn(p) >= 1
  <2>1. sent[p] \in Seq(AllAnswers) BY DEF Typed
  <2>2. Len(sent[p]) \in Nat /\ (sent[p] # <<>> => Len(sent[p]) >= 1) BY <2>1
  <2>3. CASE stage[p] = "flying" BY <2>2, <2>3 DEF SentOn
  <2>4. CASE stage[p] # "flying" BY <2>2, <2>4 DEF SentOn
  <2> QED BY <2>3, <2>4
<1>2. <<p, 1>> \in Requests
  <2>1. 1 \in 1..SentOn(p) BY <1>1
  <2> QED BY <2>1 DEF Requests
<1>3. Cardinality(Requests) # 0 /\ Cardinality(Requests) \in Nat
  BY <1>2, FS_EmptySet, FS_CardinalityType DEF Funds
<1> QED BY <1>3 DEF Spent

LEMMA Stutters ==
  ASSUME UNCHANGED <<Phase, Spent, cleared, outcome>>,
         documents' # <<>> <=> documents # <<>>
  PROVE  UNCHANGED Promise!vars
BY DEF Promise!vars

LEMMA ExchangeKeepsPromise ==
  ASSUME IInv, Funds, Funds', ContactAtRest, NEW p \in Paths, Exchange(p)
  PROVE  [Promise!Next]_(Promise!vars)
<1>1. stage[p] \in {"charge", "flying", "backoff"}
      /\ UNCHANGED <<main, documents, outcome>>
  BY DEF Exchange, ChargeFails, Charge, Retry, AskAgain, Respond
<1>2. Phase = "open" /\ Phase' = "open"
  BY <1>1, ExchangesWhileOpen DEF Phase
<1>3. ASSUME UNCHANGED <<remaining, cleared>> PROVE UNCHANGED Promise!vars
  BY <1>1, <1>2, <1>3, SpentByCharge, Stutters
<1>4. CASE ChargeFails(p) \/ Retry(p)
  BY <1>3, <1>4 DEF ChargeFails, Retry
<1>5. CASE Charge(p)
  <2>1. remaining > 0 /\ remaining' = remaining - 1 /\ UNCHANGED cleared
    BY <1>5 DEF Charge, Exhausted, Funds
  <2>2. Spent < MaxRequests /\ Spent' = Spent + 1 BY <2>1, SpentByCharge
  <2>3. Promise!Send BY <1>1, <1>2, <2>1, <2>2 DEF Promise!Send
  <2> QED BY <2>3 DEF Promise!Next
<1>6. ASSUME NEW answer \in AnswersTo(p), AskAgain(p, answer) PROVE UNCHANGED Promise!vars
  BY <1>3, <1>6 DEF AskAgain
<1>7. ASSUME NEW answer \in AnswersTo(p), Respond(p, answer)
      PROVE  [Promise!Next]_(Promise!vars)
  <2>1. stage[p] = "flying" /\ cleared' = (cleared \/ Clears(answer)) /\ UNCHANGED remaining
    BY <1>7 DEF Respond
  <2>2. CASE Clears(answer)
    <3>1. Spent > 0 /\ Spent' = Spent BY <2>1, SomethingSent, SpentByCharge DEF IInv
    <3>2. cleared' = TRUE BY <2>1, <2>2
    <3>3. Promise!Refuse BY <1>1, <1>2, <3>1, <3>2 DEF Promise!Refuse
    <3> QED BY <3>3 DEF Promise!Next
  <2>3. CASE ~ Clears(answer)
    <3>1. UNCHANGED cleared BY <2>1, <2>3 DEF IInv, Typed
    <3> QED BY <1>3, <2>1, <3>1
  <2> QED BY <2>2, <2>3
<1> QED BY <1>4, <1>5, <1>6, <1>7 DEF Exchange

\* What a primary path came to has a cause.
LEMMA ComplaintExplained ==
  ASSUME IInv, Funds, NEW p \in PrimaryPaths, stage[p] = "ended", ~ Matches(p)
  PROVE  /\ Complaint(p) \in Errors /\ Complaint(p) # "credentials"
         /\ Complaint(p) = "budget" => Spent = MaxRequests
         /\ Complaint(p) = "authentication" => cleared
         /\ got[p] # "budget" => Spent > 0
<1>0. p \in Paths BY PathNames
<1>1. got[p] = "budget" \/ (sent[p] # <<>> /\ got[p] = Verdict(Last(sent[p])))
  BY <1>0 DEF IInv, PathsInv, PathInv, Settled
<1>2. CASE got[p] = "budget"
  <2>1. remaining = 0 BY <1>0, <1>2 DEF Funds
  <2>2. Spent = MaxRequests BY <2>1, LinkedInClientAssumption DEF Funds, Spent
  <2> QED BY <1>2, <2>2 DEF Complaint, Errors
<1>3. CASE got[p] # "budget"
  <2>1. sent[p] # <<>> /\ got[p] = Verdict(Last(sent[p])) /\ sent[p] \in Seq(AllAnswers)
    BY <1>0, <1>1, <1>3 DEF IInv, Typed
  <2>2. Len(sent[p]) \in 1..Len(sent[p]) /\ Last(sent[p]) = sent[p][Len(sent[p])]
    BY <2>1 DEF Last
  <2>3. Last(sent[p]) \in AllAnswers /\ Last(sent[p]) \in ToSet(sent[p])
    BY <2>1, <2>2 DEF ToSet
  <2>4. Spent > 0 BY <1>0, <2>1, SomethingSent DEF IInv
  <2>5. got[p] # "credentials" /\ (got[p] = "authentication" => Last(sent[p]) = "denied")
    BY <2>1, <2>3 DEF Verdict, AllAnswers
  <2>6. got[p] = "authentication" => cleared
    BY <1>0, <2>3, <2>5 DEF IInv, ClearedIfDenied, Denied
  <2>7. Complaint(p) \in {got[p], "upstream"} /\ Complaint(p) \in Errors
    BY DEF Complaint, Errors
  <2> QED BY <1>3, <2>4, <2>5, <2>6, <2>7
<1> QED BY <1>2, <1>3

LEMMA FailureIsPromised ==
  ASSUME NEW e \in Errors \ {"credentials"}, Return(e), Phase = "open", documents = <<>>,
         UNCHANGED <<Spent, cleared, documents>>,
         e = "budget" => Spent = MaxRequests, e = "authentication" => cleared,
         e \notin {"budget", "authentication"} => Spent > 0
  PROVE  Promise!Next
<1>1. Phase' = "over" /\ outcome' = e BY DEF Return, Phase
<1>2. Promise!Explained(e) BY DEF Promise!Explained
<1>3. Promise!Fail(e) BY <1>1, <1>2 DEF Promise!Fail, Promise!Return
<1> QED BY <1>3 DEF Promise!Next

LEMMA SuccessIsPromised ==
  ASSUME Return("ok"), Phase = "open", documents # <<>>, documents' # <<>>,
         UNCHANGED <<Spent, cleared>>
  PROVE  Promise!Next
<1>1. Phase' = "over" /\ outcome' = "ok" BY DEF Return, Phase
<1>2. Promise!Succeed BY <1>1 DEF Promise!Succeed, Promise!Return
<1> QED BY <1>2 DEF Promise!Next

\* After the sections the call goes on to the contact document or succeeds.
LEMMA AfterSectionsIsPromised ==
  ASSUME main = "sections", AfterSections, documents # <<>>, documents' # <<>>,
         UNCHANGED <<Spent, cleared>>
  PROVE  [Promise!Next]_(Promise!vars)
<1>1. Phase = "open" BY DEF Phase
<1>2. CASE withContact
  <2>1. main' = "contact" /\ UNCHANGED outcome BY <1>2 DEF AfterSections
  <2>2. Phase' = "open" BY <2>1 DEF Phase
  <2> QED BY <1>1, <2>1, <2>2, Stutters
<1>3. CASE ~ withContact
  <2>1. Return("ok") BY <1>3 DEF AfterSections
  <2> QED BY <1>1, <2>1, SuccessIsPromised
<1> QED BY <1>2, <1>3

LEMMA MainKeepsPromise ==
  ASSUME IInv, Funds, Funds', Main
  PROVE  [Promise!Next]_(Promise!vars)
<1>0. \A p \in PrimaryPaths : p \in Paths /\ p # "start" /\ p # "returned"
  BY PathNames DEF D1, D2
<1>1. ASSUME NEW p \in PrimaryPaths, main = p PROVE Phase = "open" /\ documents = <<>>
  BY <1>0, <1>1 DEF Phase, IInv, Search
<1>2. UNCHANGED <<remaining>> => UNCHANGED Spent
  BY SpentByCharge
<1>3. CASE NoCredentials
  <2>1. main = "start" /\ Return("credentials") /\ UNCHANGED <<remaining, cleared, documents>>
    BY <1>3 DEF NoCredentials
  <2>2. Phase = "begun" /\ Phase' = "over" /\ outcome' = "credentials"
    BY <2>1 DEF Phase, Return
  <2>3. Promise!NoSession BY <1>2, <2>1, <2>2 DEF Promise!NoSession, Promise!Return
  <2> QED BY <2>3 DEF Promise!Next
<1>4. CASE Start
  <2>1. main = "start" /\ main' = D1 /\ UNCHANGED <<remaining, cleared, documents, outcome>>
    BY <1>4, PathNames DEF Start
  <2>2. Phase = "begun" /\ Phase' = "open" BY <2>1 DEF Phase, D1
  <2>3. Promise!Open BY <1>2, <2>1, <2>2 DEF Promise!Open
  <2> QED BY <2>3 DEF Promise!Next
<1>5. ASSUME NEW i \in 1..Len(Primary), DecorationExhausted(i) PROVE Promise!Next
  <2> DEFINE p == Primary[i]
  <2>1. p \in PrimaryPaths /\ main = p /\ got[p] = "budget" /\ Return("budget")
        /\ UNCHANGED <<remaining, cleared, documents>>
    BY <1>5, PathNames DEF DecorationExhausted, Answered
  <2> HIDE DEF p
  <2>2. remaining = 0 BY <1>0, <2>1 DEF Funds
  <2>3. Spent = MaxRequests BY <2>2, LinkedInClientAssumption DEF Funds, Spent
  <2> QED BY <1>1, <1>2, <2>1, <2>3, FailureIsPromised DEF Errors
<1>6. ASSUME NEW i \in 1..Len(Primary), NextPath(i) PROVE UNCHANGED Promise!vars
  <2>1. Primary[i] \in PrimaryPaths /\ Primary[i + 1] \in PrimaryPaths
    BY <1>6, PathNames DEF NextPath
  <2>2. main = Primary[i] /\ main' = Primary[i + 1]
        /\ UNCHANGED <<remaining, cleared, documents, outcome>>
    BY <1>6 DEF NextPath, Answered
  <2>3. Phase = "open" /\ Phase' = "open" BY <1>0, <2>1, <2>2 DEF Phase
  <2> QED BY <1>2, <2>2, <2>3, Stutters
<1>7. ASSUME NEW p \in PrimaryPaths, PrimaryFound(p) PROVE Promise!Next
  <2>1. main = p /\ main' = "sections" /\ stage[p] = "ended" /\ got[p] = "match"
        /\ documents' = <<p>> /\ UNCHANGED <<remaining, cleared, outcome>>
    BY <1>7 DEF PrimaryFound, Answered, Matches
  <2>2. Phase = "open" /\ Phase' = "open" BY <1>1, <2>1 DEF Phase
  <2>3. sent[p] # <<>> BY <1>0, <2>1 DEF IInv, PathsInv, PathInv, Settled
  <2>4. Spent > 0 BY <1>0, <2>3, SomethingSent DEF IInv
  <2>5. documents' # <<>> BY <2>1
  <2>6. Promise!Find BY <1>2, <2>1, <2>2, <2>4, <2>5 DEF Promise!Find
  <2> QED BY <2>6 DEF Promise!Next
<1>8. CASE ViewFails
  <2>1. main = "view" /\ stage["view"] = "ended" /\ ~ Matches("view") /\ Return(ViewError)
        /\ UNCHANGED <<remaining, cleared, documents>>
    BY <1>8 DEF ViewFails, Answered
  <2>2. Failed(D1) /\ Failed(D2) /\ lastErr = Complaint(D2)
    BY <2>1, PathNames DEF IInv, Search, Reached, LastErrIs
  <2>3. ViewError \in {Complaint("view"), Complaint(D2)} BY <2>2 DEF ViewError
  <2>4. D2 \in PrimaryPaths /\ "view" \in PrimaryPaths BY PathNames
  <2>5. /\ ViewError \in Errors \ {"credentials"}
        /\ ViewError = "budget" => Spent = MaxRequests
        /\ ViewError = "authentication" => cleared
        /\ Spent > 0
    BY <2>1, <2>2, <2>3, <2>4, ComplaintExplained DEF Failed
  <2> QED BY <1>1, <1>2, <2>1, <2>4, <2>5, FailureIsPromised
<1>9. ASSUME main \in {"sections", "contact"} PROVE documents # <<>> /\ Len(documents) \in Nat \ {0}
  BY <1>9 DEF IInv, Decorating
<1>10. CASE SkipSections
  BY <1>2, <1>9, <1>10, AfterSectionsIsPromised DEF SkipSections
<1>11. CASE Collect
  <2> DEFINE more == Filtered(SectionPaths, WithDocument)
  <2>1. documents' = documents \o more /\ Len(more) \in Nat
    <3>1. more \in Seq(Sections) BY SectionPathsKept DEF Filtered
    <3> QED BY <1>11, <3>1 DEF Collect
  <2> HIDE DEF more
  <2>2. documents' # <<>> BY <1>9, <1>11, <2>1, FirstStays DEF Collect
  <2> QED BY <1>2, <1>9, <1>11, <2>2, AfterSectionsIsPromised DEF Collect
<1>12. CASE Finish
  <2> DEFINE more == IF WithDocument("contact") THEN <<"contact">> ELSE <<>>
  <2>1. main = "contact" /\ Return("ok") /\ documents' = documents \o more
        /\ UNCHANGED <<remaining, cleared>>
    BY <1>12 DEF Finish
  <2>2. Len(more) \in Nat OBVIOUS
  <2> HIDE DEF more
  <2>3. documents' # <<>> BY <1>9, <2>1, <2>2, FirstStays
  <2>4. Phase = "open" BY <2>1 DEF Phase
  <2> QED BY <1>2, <1>9, <2>1, <2>3, <2>4, SuccessIsPromised
<1>13. \A i \in 1..Len(Primary) : Primary[i] \in PrimaryPaths BY PathNames
<1> QED BY <1>3, <1>4, <1>5, <1>6, <1>7, <1>8, <1>10, <1>11, <1>12, <1>13 DEF Main

LEMMA NextKeepsPromise ==
  ASSUME IInv, Funds, Funds', ContactAtRest, [Next]_vars
  PROVE  [Promise!Next]_(Promise!vars)
<1>1. ASSUME UNCHANGED <<main, remaining, cleared, documents, outcome>>
      PROVE  UNCHANGED Promise!vars
  BY <1>1, SpentByCharge, Stutters DEF Phase
<1>2. ASSUME NEW s \in Sections, Work(s) PROVE UNCHANGED Promise!vars
  BY <1>1, <1>2 DEF Work, Acquire, Leave
<1>3. CASE UNCHANGED vars
  BY <1>1, <1>3 DEF vars
<1> QED BY <1>2, <1>3, MainKeepsPromise, ExchangeKeepsPromise DEF Next, Returned

\* The goroutines of a call together keep the promise of one: nothing is sent
\* or cleared after it returned, no failure of an optional document makes it
\* fail, and whatever else it fails with has happened (FetchProfile).
THEOREM PromiseIsKept == Spec => KeepsPromise
<1>1. Init => Promise!Init
  <2> SUFFICES ASSUME Init PROVE Promise!Init
    OBVIOUS
  <2>1. \A p \in Paths : SentOn(p) = 0 BY DEF Init, SentOn
  <2>2. Requests = {} BY <2>1 DEF Requests
  <2>3. Spent = 0 BY <2>2, FS_EmptySet DEF Spent
  <2> QED BY <2>3 DEF Init, Promise!Init, Phase
<1>2. Spec => []ContactAtRest
  <2>1. Init => ContactAtRest BY PathNames DEF Init, ContactAtRest
  <2>2. IInv /\ ContactAtRest /\ [Next]_vars => ContactAtRest' BY NextKeepsContactAtRest
  <2> QED BY <2>1, <2>2, Invariance, PTL DEF Spec
<1>3. IInv /\ Funds /\ Funds' /\ ContactAtRest /\ [Next]_vars => [Promise!Next]_(Promise!vars)
  BY NextKeepsPromise
<1> QED BY <1>1, <1>2, <1>3, Invariance, FundsAreKept, PTL DEF Spec, KeepsPromise, Promise!Spec
=============================================================================
