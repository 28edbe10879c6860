----------------------------- MODULE UpstreamCall -----------------------------
(***************************************************************************)
(* What linkedin.Client promises of a call of FetchProfile, without paths, *)
(* workers, retries or a choice of documents: it sends no more requests    *)
(* than its budget, and none before it has a session or after it returned; *)
(* a session is only reported as refused by a response, and before the     *)
(* call returns; once the profile is found nothing makes the call fail,    *)
(* and before that every error has a cause.  LinkedInClient implements it. *)
(***************************************************************************)
EXTENDS Integers

CONSTANTS
  Budget,   \* LinkedInMaxUpstreamRequests
  Errors,   \* what a call fails with
  None      \* not returned

VARIABLES
  phase,    \* "begun", "open" while it has a session, "over"
  spent,    \* the requests it has sent
  refused,  \* whether it told the provider that its session was refused
  found,    \* whether it has the document of the profile
  result    \* None, "ok" or an error

vars == <<phase, spent, refused, found, result>>

Init ==
  /\ phase = "begun"
  /\ spent = 0
  /\ refused = FALSE
  /\ found = FALSE
  /\ result = None

Open ==
  /\ phase = "begun"
  /\ phase' = "open"
  /\ UNCHANGED <<spent, refused, found, result>>

Send ==
  /\ phase = "open" /\ spent < Budget
  /\ spent' = spent + 1
  /\ UNCHANGED <<phase, refused, found, result>>

Refuse ==
  /\ phase = "open" /\ spent > 0
  /\ refused' = TRUE
  /\ UNCHANGED <<phase, spent, found, result>>

Find ==
  /\ phase = "open" /\ spent > 0
  /\ found' = TRUE
  /\ UNCHANGED <<phase, spent, refused, result>>

Return(r) ==
  /\ phase' = "over"
  /\ result' = r
  /\ UNCHANGED <<spent, refused, found>>

NoSession == phase = "begun" /\ Return("credentials")

Succeed == phase = "open" /\ found /\ Return("ok")

Explained(e) ==
  CASE e = "budget" -> spent = Budget
    [] e = "authentication" -> refused
    [] OTHER -> spent > 0

Fail(e) ==
  /\ phase = "open" /\ ~ found
  /\ e # "credentials" /\ Explained(e)
  /\ Return(e)

Next ==
  \/ Open \/ NoSession
  \/ Send \/ Refuse \/ Find
  \/ Succeed \/ \E e \in Errors : Fail(e)

Spec == Init /\ [][Next]_vars
=============================================================================
