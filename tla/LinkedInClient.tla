---------------------------- MODULE LinkedInClient ----------------------------
(***************************************************************************)
(* linkedin/linkedin.go: one call of FetchProfile.  The calling goroutine  *)
(* asks for the primary document (two decorations, then the legacy view),  *)
(* starts a worker per section, at most Parallel of which run at a time,   *)
(* waits for all of them, and asks for the contact document.  All of them  *)
(* draw on one budget of upstream requests.                                *)
(*                                                                         *)
(* getJSON is the loop Charge, Respond, Retry of a path.  What an HTTP     *)
(* exchange can come to is an answer: "fault" stands for a transport error *)
(* (an expired deadline included) and for a status of 500 or more,         *)
(* "denied" for a redirect, 401, 403 and a body that is not JSON, "bad"    *)
(* for any other status, an oversized body and malformed JSON, "null" for  *)
(* the JSON value null, which getJSON returns as no document and no error. *)
(***************************************************************************)
EXTENDS Integers, Sequences, FiniteSets, SequencesExt, Functions, Subsequences

CONSTANTS
  SectionPaths,   \* the optional sections, in order
  Parallel,       \* capacity of the semaphore: 3 in the code
  MaxRequests,    \* LinkedInMaxUpstreamRequests
  MaxRetries,     \* LinkedInMaxRetries
  Answers         \* bound: the answers LinkedIn gives

ASSUME LinkedInClientAssumption ==
  /\ SectionPaths \in Seq(STRING) /\ IsInjective(SectionPaths)
  /\ Parallel \in Nat \ {0}
  /\ MaxRequests \in Nat
  /\ MaxRetries \in Nat
  /\ Answers \subseteq {"match", "other", "null", "denied", "missing", "limited", "bad", "fault"}

Primary == <<"decoration 1", "decoration 2", "view">>
PrimaryPaths == ToSet(Primary)
Sections == ToSet(SectionPaths)
Paths == PrimaryPaths \cup Sections \cup {"contact"}

\* A section's URL is none of the others.
ASSUME PathsAssumption == Sections \cap (PrimaryPaths \cup {"contact"}) = {}

\* A document of another profile is told from the right one among the primary
\* documents only.
AnswersTo(p) == IF p \in PrimaryPaths THEN Answers ELSE Answers \ {"other"}

Documents == {"match", "other"}
Errors == {"authentication", "not found", "rate limited", "upstream", "budget", "credentials"}

VARIABLES
  fallbacks,    \* LinkedInFetchSectionFallbacks
  withContact,  \* includeContactInfo
  main,       \* where FetchProfile is: a primary path, or a later stage
  stage,      \* per path: where its getJSON is
  attempt,    \* per path: the attempt of the loop
  got,        \* per path: what getJSON returned, a document, "null" or an error
  remaining,  \* AttemptBudget.remaining
  lastErr,    \* fetchPrimary's lastErr
  documents,  \* FetchResult.Documents, as the paths they came from
  warnings,   \* FetchResult.Warnings, as the paths they are about
  outcome,    \* what FetchProfile returned: "ok" or an error
  cleared,    \* whether CredentialProvider.Clear was called
  sent        \* history: the answers to the requests of each path

setup == <<fallbacks, withContact>>
vars == <<setup, main, stage, attempt, got, remaining, lastErr, documents, warnings,
          outcome, cleared, sent>>

TypeOK ==
  /\ fallbacks \in BOOLEAN
  /\ withContact \in BOOLEAN
  /\ main \in {"start", "sections", "contact", "returned"} \cup PrimaryPaths
  /\ stage \in [Paths -> {"unused", "queued", "charge", "flying", "backoff", "ended", "left"}]
  /\ attempt \in [Paths -> 0..MaxRetries]
  /\ got \in [Paths -> Documents \cup Errors \cup {"none", "null"}]
  /\ remaining \in 0..MaxRequests
  /\ lastErr \in Errors \cup {"none"}
  /\ documents \in Seq(Paths)
  /\ warnings \in Seq(Paths)
  /\ outcome \in Errors \cup {"none", "ok"}
  /\ cleared \in BOOLEAN
  /\ sent \in [Paths -> Seq(Answers)]

Init ==
  /\ fallbacks \in BOOLEAN
  /\ withContact \in BOOLEAN
  /\ main = "start"
  /\ stage = [p \in Paths |-> "unused"]
  /\ attempt = [p \in Paths |-> 0]
  /\ got = [p \in Paths |-> "none"]
  /\ remaining = MaxRequests
  /\ lastErr = "none"
  /\ documents = <<>>
  /\ warnings = <<>>
  /\ outcome = "none"
  /\ cleared = FALSE
  /\ sent = [p \in Paths |-> <<>>]

-----------------------------------------------------------------------------
\* getJSON
Call(p) == stage' = [stage EXCEPT ![p] = "charge"]

End(p, result) ==
  /\ stage' = [stage EXCEPT ![p] = "ended"]
  /\ got' = [got EXCEPT ![p] = result]

OverBudget == remaining < 0
Exhausted == remaining <= 0

ChargeFails(p) ==
  /\ stage[p] = "charge" /\ Exhausted
  /\ End(p, "budget")
  /\ UNCHANGED <<setup, main, attempt, remaining, lastErr, documents, warnings, outcome, cleared, sent>>

Charge(p) ==
  /\ stage[p] = "charge" /\ ~ Exhausted
  /\ remaining' = remaining - 1
  /\ stage' = [stage EXCEPT ![p] = "flying"]
  /\ UNCHANGED <<setup, main, attempt, got, lastErr, documents, warnings, outcome, cleared, sent>>

RetriedLimit(answer) == answer \in {"fault", "limited"}
Retried(answer) == answer = "fault"

AskAgain(p, answer) ==
  /\ stage[p] = "flying" /\ Retried(answer) /\ attempt[p] < MaxRetries
  /\ sent' = [sent EXCEPT ![p] = Append(@, answer)]
  /\ stage' = [stage EXCEPT ![p] = "backoff"]
  /\ UNCHANGED <<setup, main, attempt, got, remaining, lastErr, documents, warnings, outcome, cleared>>

Retry(p) ==
  /\ stage[p] = "backoff"
  /\ attempt' = [attempt EXCEPT ![p] = @ + 1]
  /\ Call(p)
  /\ UNCHANGED <<setup, main, got, remaining, lastErr, documents, warnings, outcome, cleared, sent>>

\* What getJSON makes of an answer it does not ask again for.
Verdict(answer) ==
  CASE answer = "denied" -> "authentication"
    [] answer = "missing" -> "not found"
    [] answer = "limited" -> "rate limited"
    [] answer \in {"bad", "fault"} -> "upstream"
    [] OTHER -> answer

Clears(answer) == answer = "denied"

Respond(p, answer) ==
  /\ stage[p] = "flying" /\ ~ (Retried(answer) /\ attempt[p] < MaxRetries)
  /\ sent' = [sent EXCEPT ![p] = Append(@, answer)]
  /\ cleared' = (cleared \/ Clears(answer))
  /\ End(p, Verdict(answer))
  /\ UNCHANGED <<setup, main, attempt, remaining, lastErr, documents, warnings, outcome>>

-----------------------------------------------------------------------------
\* FetchProfile and fetchPrimary
Return(result) == main' = "returned" /\ outcome' = result

NoCredentials ==
  /\ main = "start"
  /\ Return("credentials")
  /\ UNCHANGED <<setup, stage, attempt, got, remaining, lastErr, documents, warnings, cleared, sent>>

Start ==
  /\ main = "start"
  /\ main' = Primary[1]
  /\ Call(Primary[1])
  /\ UNCHANGED <<setup, attempt, got, remaining, lastErr, documents, warnings, outcome, cleared, sent>>

Answered(p) == main = p /\ stage[p] = "ended"
MatchesAny(p) == got[p] \in Documents
Matches(p) == got[p] = "match"

\* The error a primary path that brought no profile stands for: its own, or
\* "unexpected identity".
Complaint(p) == IF got[p] \in Errors THEN got[p] ELSE "upstream"

\* A decoration failed: budget exhausted ends the call, anything else leads on.
DecorationExhausted(i) ==
  /\ i < Len(Primary) /\ Answered(Primary[i]) /\ got[Primary[i]] = "budget"
  /\ Return("budget")
  /\ UNCHANGED <<setup, stage, attempt, got, remaining, lastErr, documents, warnings, cleared, sent>>

NextPath(i) ==
  /\ i < Len(Primary) /\ Answered(Primary[i])
  /\ ~ Matches(Primary[i]) /\ got[Primary[i]] # "budget"
  /\ lastErr' = Complaint(Primary[i])
  /\ main' = Primary[i + 1]
  /\ Call(Primary[i + 1])
  /\ UNCHANGED <<setup, attempt, got, remaining, documents, warnings, outcome, cleared, sent>>

\* The legacy view failed: its own error counts only if there is no other,
\* if the budget is exhausted or if it is of another profile.
FirstError == IF lastErr # "none" THEN lastErr ELSE Complaint("view")
ViewError ==
  IF got["view"] \in Errors /\ got["view"] # "budget" /\ lastErr # "none"
  THEN lastErr ELSE Complaint("view")

ViewFails ==
  /\ Answered("view") /\ ~ Matches("view")
  /\ Return(ViewError)
  /\ UNCHANGED <<setup, stage, attempt, got, remaining, lastErr, documents, warnings, cleared, sent>>

\* The primary document is there; the workers of the sections are started.
PrimaryFound(p) ==
  /\ p \in PrimaryPaths /\ Answered(p) /\ Matches(p)
  /\ documents' = <<p>>
  /\ main' = "sections"
  /\ stage' = IF fallbacks THEN [q \in Paths |-> IF q \in Sections THEN "queued" ELSE stage[q]]
                           ELSE stage
  /\ UNCHANGED <<setup, attempt, got, remaining, lastErr, warnings, outcome, cleared, sent>>

-----------------------------------------------------------------------------
\* fetchSections
Running == {s \in Sections : stage[s] \in {"charge", "flying", "backoff", "ended"}}

FreeSlot == Cardinality(Running) < Parallel

Acquire(s) ==
  /\ s \in Sections /\ stage[s] = "queued" /\ FreeSlot
  /\ Call(s)
  /\ UNCHANGED <<setup, main, attempt, got, remaining, lastErr, documents, warnings, outcome, cleared, sent>>

\* The worker's result is in its place of results; it gives back its slot and
\* tells the wait group.
LeaveWithDocument(s) ==
  /\ s \in Sections /\ stage[s] = "ended" /\ got[s] \in Documents
  /\ stage' = [stage EXCEPT ![s] = "left"]
  /\ UNCHANGED <<setup, main, attempt, got, remaining, lastErr, documents, warnings, outcome, cleared, sent>>
Leave(s) ==
  /\ s \in Sections /\ stage[s] = "ended"
  /\ stage' = [stage EXCEPT ![s] = "left"]
  /\ UNCHANGED <<setup, main, attempt, got, remaining, lastErr, documents, warnings, outcome, cleared, sent>>

SomeLeft == \E s \in Sections : stage[s] = "left"
AllLeft == \A s \in Sections : stage[s] = "left"

WithDocument(p) == got[p] \in Documents
WithPlainWarning(p) == got[p] \in {"not found", "upstream"}
WithWarning(p) == got[p] \in Errors

AfterSections == IF withContact THEN main' = "contact" /\ Call("contact") /\ UNCHANGED outcome
                                ELSE Return("ok") /\ UNCHANGED stage

SkipSections ==
  /\ main = "sections" /\ ~ fallbacks
  /\ AfterSections
  /\ UNCHANGED <<setup, attempt, got, remaining, lastErr, documents, warnings, cleared, sent>>

Collect ==
  /\ main = "sections" /\ fallbacks /\ AllLeft
  /\ documents' = documents \o Filtered(SectionPaths, WithDocument)
  /\ warnings' = warnings \o Filtered(SectionPaths, WithWarning)
  /\ AfterSections
  /\ UNCHANGED <<setup, attempt, got, remaining, lastErr, cleared, sent>>

FinishStrict ==
  /\ main = "contact" /\ stage["contact"] = "ended"
  /\ documents' = documents \o (IF WithDocument("contact") THEN <<"contact">> ELSE <<>>)
  /\ Return(IF WithWarning("contact") THEN got["contact"] ELSE "ok")
  /\ UNCHANGED <<setup, stage, attempt, got, remaining, lastErr, warnings, cleared, sent>>
Finish ==
  /\ main = "contact" /\ stage["contact"] = "ended"
  /\ documents' = documents \o (IF WithDocument("contact") THEN <<"contact">> ELSE <<>>)
  /\ warnings' = warnings \o (IF WithWarning("contact") THEN <<"contact">> ELSE <<>>)
  /\ Return("ok")
  /\ UNCHANGED <<setup, stage, attempt, got, remaining, lastErr, cleared, sent>>

-----------------------------------------------------------------------------
Exchange(p) ==
  \/ ChargeFails(p) \/ Charge(p) \/ Retry(p)
  \/ \E answer \in AnswersTo(p) : AskAgain(p, answer) \/ Respond(p, answer)

Work(s) == Acquire(s) \/ Leave(s)

Main ==
  \/ NoCredentials \/ Start
  \/ \E i \in 1..Len(Primary) : DecorationExhausted(i) \/ NextPath(i) \/ PrimaryFound(Primary[i])
  \/ ViewFails
  \/ SkipSections \/ Collect \/ Finish

Returned == main = "returned" /\ UNCHANGED vars

Next ==
  \/ Main
  \/ \E p \in Paths : Exchange(p)
  \/ \E s \in Sections : Work(s)
  \/ Returned

Spec == Init /\ [][Next]_vars

\* Every goroutine that can run is scheduled, and every exchange ends: the
\* http.Client has a timeout and the context a deadline.
FairSpec ==
  /\ Spec
  /\ WF_vars(Main)
  /\ \A p \in Paths : WF_vars(Exchange(p))
  /\ \A s \in Sections : WF_vars(Work(s))

-----------------------------------------------------------------------------
\* The requests sent, answered or not: the n-th one of a path is <<p, n>>.
SentOn(p) == Len(sent[p]) + (IF stage[p] = "flying" THEN 1 ELSE 0)
Requests == UNION {{p} \X (1..SentOn(p)) : p \in Paths}
Spent == Cardinality(Requests)

\* Whatever workers run at the same time, a call sends no more requests than
\* its budget, retries included, and nobody is told that the budget is
\* exhausted before all of it was used (AttemptBudget.Charge).
BudgetKept ==
  /\ Spent <= MaxRequests
  /\ \A p \in Paths : got[p] = "budget" => Spent = MaxRequests

\* Only what may pass is asked for again: every answer to a request that was
\* repeated is a fault, and no path is asked for more than MaxRetries times
\* again (getJSON: an answer of LinkedIn that refuses is final).
OnlyFaultsRetried ==
  \A p \in Paths :
    /\ Len(sent[p]) <= MaxRetries + 1
    /\ \A i \in 1..Len(sent[p]) : i < Len(sent[p]) \/ stage[p] = "flying" => sent[p][i] = "fault"

\* When FetchProfile goes on from the sections, or returns, none of its
\* workers is left that could still send, charge or write (the wait group).
NoWorkerOutlivesCall ==
  main \in {"contact", "returned"} => \A s \in Sections : stage[s] \in {"unused", "left"}

\* The first document is the profile that was asked for; everything before it
\* brought none, and nothing after it was asked (fetchPrimary).
PrimaryIsTheProfile ==
  documents # <<>> =>
    \E i \in 1..Len(Primary) :
      /\ documents[1] = Primary[i] /\ Last(sent[Primary[i]]) = "match"
      /\ \A j \in 1..(i - 1) : sent[Primary[j]] # <<>> /\ Last(sent[Primary[j]]) # "match"
      /\ \A j \in (i + 1)..Len(Primary) : sent[Primary[j]] = <<>>

\* A call that succeeds accounts for every section: its document is there, or
\* a warning about it, or LinkedIn answered null; and each of the two lists
\* names the sections in their order, once (fetchSections).
SectionsAccounted ==
  outcome = "ok" /\ fallbacks =>
    /\ \A s \in Sections :
         \/ s \in ToSet(documents) /\ s \notin ToSet(warnings)
         \/ s \in ToSet(warnings) /\ s \notin ToSet(documents)
         \/ Last(sent[s]) = "null"
    /\ \A list \in {documents, warnings} : \A i, j \in 1..Len(SectionPaths) : \A m, n \in 1..Len(list) :
         list[m] = SectionPaths[i] /\ list[n] = SectionPaths[j] => (i < j <=> m < n)

\* Which of its errors FetchProfile returns: the exhausted budget, if a primary
\* path was told so; otherwise, every primary path having failed, the one of
\* the last decoration, for an error of the legacy view gives way to it, unless
\* the view answered with the profile of somebody else (fetchPrimary).
ErrorExplained ==
  outcome \in Errors \ {"credentials"} =>
    IF \E p \in PrimaryPaths : got[p] = "budget"
    THEN outcome = "budget"
    ELSE /\ \A p \in PrimaryPaths : stage[p] = "ended" /\ ~ Matches(p)
         /\ outcome = IF got["view"] \in Errors THEN Complaint(Primary[2]) ELSE "upstream"

Phase ==
  CASE main = "start" -> "begun"
    [] main = "returned" -> "over"
    [] OTHER -> "open"

Promise == INSTANCE UpstreamCall WITH
  Budget <- MaxRequests,
  None <- "none",
  phase <- Phase,
  spent <- Spent,
  refused <- cleared,
  found <- documents # <<>>,
  result <- outcome

\* The goroutines of a call together keep the promise of one: nothing is sent
\* or cleared after it returned, no failure of an optional document makes it
\* fail, and whatever else it fails with has happened.
KeepsPromise == Promise!Spec

\* FetchProfile returns.
CallReturns == <>(main = "returned")
=============================================================================
