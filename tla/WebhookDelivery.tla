-------------------------- MODULE WebhookDelivery --------------------------
(***************************************************************************)
(* Deliveries of events to one webhook subscription                        *)
(* (webhooks/dispatcher.ts) and the requests of administrators that change *)
(* the subscription under them (webhooks/api.ts).                          *)
(*                                                                         *)
(* A delivery runs by itself from the moment its event is dispatched: it   *)
(* has the subscription as it was read then, sends up to 1 + Retries times *)
(* with a pause after each failure, and inserts a row of the delivery log  *)
(* after each attempt.  A success resets the failure counter of the        *)
(* subscription; a delivery without one adds to it, and disables the       *)
(* subscription if the counter it got back is MaxFailures.                 *)
(***************************************************************************)
EXTENDS Naturals, Sequences

CONSTANTS
    Events,             \* events of a type the subscription asks for
    Retries,            \* RETRY_DELAYS_MS.length
    MaxFailures,        \* MAX_CONSECUTIVE_FAILURES
    MaxEdits,           \* bound on requests of administrators
    MaxMishaps          \* bound on exceptions and crashes

ASSUME WebhookAssumption ==
    /\ Retries \in Nat
    /\ MaxFailures \in Nat \ {0}
    /\ MaxEdits \in Nat
    /\ MaxMishaps \in Nat

VARIABLES
    exists,     \* is the row of webhook_subscriptions there?
    enabled,    \* its column enabled
    failures,   \* its column consecutive_failures
    phase,      \* phase[e]: where deliverWithRetry is with e
    attempt,    \* attempt[e]: its loop variable
    success,    \* success[e]: result of the last attempt
    log,        \* log[e]: status of the rows of e in webhook_deliveries
    late,       \* late[e]: attempts made after the subscription was deleted
    edits, webhookMishaps

deliveryVars == <<phase, attempt, success, log, late>>
webhookVars  == <<exists, enabled, failures, deliveryVars, edits,
                  webhookMishaps>>

LastAttempt == Retries + 1

Phases == {"new", "sending", "logging", "resetting", "pausing", "counting",
           "disabling", "done", "dropped", "undecided"}

WebhookTypeOK ==
    /\ exists \in BOOLEAN /\ enabled \in BOOLEAN /\ failures \in Nat
    /\ phase \in [Events -> Phases]
    /\ attempt \in [Events -> 1 .. LastAttempt]
    /\ success \in [Events -> BOOLEAN]
    /\ log \in [Events -> Seq({"success", "failed", "pending_retry"})]
    /\ late \in [Events -> Nat]
    /\ edits \in 0 .. MaxEdits
    /\ webhookMishaps \in 0 .. MaxMishaps

WebhookInit ==
    /\ exists = TRUE /\ enabled = TRUE /\ failures = 0
    /\ phase = [e \in Events |-> "new"]
    /\ attempt = [e \in Events |-> 1]
    /\ success = [e \in Events |-> FALSE]
    /\ log = [e \in Events |-> <<>>]
    /\ late = [e \in Events |-> 0]
    /\ edits = 0
    /\ webhookMishaps = 0

Enter(e, p) == phase' = [phase EXCEPT ![e] = p]

WebhookMishap ==
    /\ webhookMishaps < MaxMishaps
    /\ webhookMishaps' = webhookMishaps + 1

Underway(e) == phase[e] \notin {"new", "done", "dropped", "undecided"}

-----------------------------------------------------------------------------
(* The dispatcher.                                                         *)

\* The SELECT takes a subscription that is enabled now.
Dispatch(e) ==
    /\ phase[e] = "new"
    /\ exists /\ enabled
    /\ Enter(e, "sending")
    /\ UNCHANGED <<exists, enabled, failures, attempt, success, log, late,
                   edits, webhookMishaps>>

\* deliver: the answer of the endpoint, or none within the time limit.
Send(e) ==
    /\ phase[e] = "sending"
    /\ \E ok \in BOOLEAN : success' = [success EXCEPT ![e] = ok]
    /\ late' = IF exists THEN late ELSE [late EXCEPT ![e] = @ + 1]
    /\ Enter(e, "logging")
    /\ UNCHANGED <<exists, enabled, failures, attempt, log, edits,
                   webhookMishaps>>

\* Mutant: one attempt too early for the final status.
StatusEarly(e) ==
    IF success[e] THEN "success"
    ELSE IF attempt[e] >= Retries THEN "failed"
    ELSE "pending_retry"

Status(e) ==
    IF success[e] THEN "success"
    ELSE IF attempt[e] > Retries THEN "failed"
    ELSE "pending_retry"

\* Mutant: the pause after the last attempt, and so one more.
PauseOnceMore(e) ==
    IF success[e] THEN "resetting"
    ELSE IF attempt[e] <= LastAttempt THEN "pausing" ELSE "counting"

\* What the loop does when an attempt has been logged.
AfterAttempt(e) ==
    IF success[e] THEN "resetting"
    ELSE IF attempt[e] <= Retries THEN "pausing" ELSE "counting"

\* Mutant: a log that does not fail with the subscription.
LogAnyway(e) ==
    /\ phase[e] = "logging"
    /\ log' = IF exists THEN [log EXCEPT ![e] = Append(@, Status(e))] ELSE log
    /\ Enter(e, AfterAttempt(e))
    /\ UNCHANGED <<exists, enabled, failures, attempt, success, late, edits,
                   webhookMishaps>>

\* logDelivery.  The foreign key refuses a row of a deleted subscription.
LogDelivery(e) ==
    /\ phase[e] = "logging"
    /\ \/ /\ exists
          /\ log' = [log EXCEPT ![e] = Append(@, Status(e))]
          /\ Enter(e, AfterAttempt(e))
       \/ /\ ~exists
          /\ Enter(e, "dropped")
          /\ UNCHANGED log
    /\ UNCHANGED <<exists, enabled, failures, attempt, success, late, edits,
                   webhookMishaps>>

\* The UPDATE after a success.
ResetCounter(e) ==
    /\ phase[e] = "resetting"
    /\ failures' = IF exists THEN 0 ELSE failures
    /\ Enter(e, "done")
    /\ UNCHANGED <<exists, enabled, attempt, success, log, late, edits,
                   webhookMishaps>>

\* Mutant: a retry waits for the subscription to be enabled.
RetryIfEnabled(e) ==
    /\ phase[e] = "pausing"
    /\ enabled
    /\ attempt' = [attempt EXCEPT ![e] = @ + 1]
    /\ Enter(e, "sending")
    /\ UNCHANGED <<exists, enabled, failures, success, log, late, edits,
                   webhookMishaps>>

\* The pause is over.  Nothing is read again.
Retry(e) ==
    /\ phase[e] = "pausing"
    /\ attempt' = [attempt EXCEPT ![e] = @ + 1]
    /\ Enter(e, "sending")
    /\ UNCHANGED <<exists, enabled, failures, success, log, late, edits,
                   webhookMishaps>>

\* Mutant: the test that disables a subscription misses its bound by one.
CountTooLong(e) ==
    /\ phase[e] = "counting"
    /\ failures' = IF exists THEN failures + 1 ELSE failures
    /\ Enter(e, IF exists /\ failures' > MaxFailures THEN "disabling" ELSE "done")
    /\ UNCHANGED <<exists, enabled, attempt, success, log, late, edits,
                   webhookMishaps>>

\* All attempts failed: UPDATE ... RETURNING, which returns no row, and so 0
\* failures, when the subscription has gone.
Count(e) ==
    /\ phase[e] = "counting"
    /\ failures' = IF exists THEN failures + 1 ELSE failures
    /\ Enter(e, IF exists /\ failures' >= MaxFailures THEN "disabling" ELSE "done")
    /\ UNCHANGED <<exists, enabled, attempt, success, log, late, edits,
                   webhookMishaps>>

\* The decision stands, whatever the counter has become.
Disable(e) ==
    /\ phase[e] = "disabling"
    /\ enabled' = (enabled /\ ~exists)
    /\ Enter(e, "done")
    /\ UNCHANGED <<exists, failures, attempt, success, log, late, edits,
                   webhookMishaps>>

\* Where a delivery is when an exception or a crash ends it.
Cut(e) == IF phase[e] = "disabling" THEN "undecided" ELSE "dropped"

\* A statement or the decryption of the secret throws: an error is logged.  A
\* statement may have been executed all the same, which is its step before.
DeliveryThrows(e) ==
    /\ Underway(e)
    /\ WebhookMishap
    /\ Enter(e, Cut(e))
    /\ UNCHANGED <<exists, enabled, failures, attempt, success, log, late,
                   edits>>

\* Deliveries live in the memory of the process, retries too.
ProcessDies ==
    /\ WebhookMishap
    /\ phase' = [e \in Events |-> IF Underway(e) THEN Cut(e) ELSE phase[e]]
    /\ UNCHANGED <<exists, enabled, failures, attempt, success, log, late,
                   edits>>

-----------------------------------------------------------------------------
(* The administrators.                                                     *)

Edit ==
    /\ exists
    /\ edits < MaxEdits
    /\ edits' = edits + 1
    /\ UNCHANGED webhookMishaps

\* PUT with enabled: true also resets the counter.
EnableSubscription ==
    /\ Edit
    /\ enabled' = TRUE
    /\ failures' = 0
    /\ UNCHANGED <<exists, deliveryVars>>

DisableSubscription ==
    /\ Edit
    /\ enabled' = FALSE
    /\ UNCHANGED <<exists, failures, deliveryVars>>

\* The rows of the log go with the subscription (ON DELETE CASCADE).
DeleteSubscription ==
    /\ Edit
    /\ exists' = FALSE
    /\ log' = [e \in Events |-> <<>>]
    /\ UNCHANGED <<enabled, failures, phase, attempt, success, late>>

-----------------------------------------------------------------------------
DeliveryStep(e) ==
    \/ Send(e) \/ LogDelivery(e) \/ ResetCounter(e) \/ Retry(e)
    \/ Count(e) \/ Disable(e)

WebhookNext ==
    \/ \E e \in Events : Dispatch(e) \/ DeliveryStep(e) \/ DeliveryThrows(e)
    \/ ProcessDies
    \/ EnableSubscription
    \/ DisableSubscription
    \/ DeleteSubscription

WebhookSpec == WebhookInit /\ [][WebhookNext]_webhookVars

(* A request has a time limit, and a pause is a timer.                     *)
WebhookFairness == \A e \in Events : WF_webhookVars(DeliveryStep(e))

-----------------------------------------------------------------------------
(* Properties.                                                             *)

\* The log of a delivery is its history: a row per attempt, retries announced
\* by all rows but the last, and nothing is sent after a row that says
\* 'success' or 'failed' (dispatcher.ts:67-80, 173).
LogTellsHistory ==
    \A e \in Events :
        /\ \A i \in 1 .. Len(log[e]) - 1 : log[e][i] = "pending_retry"
        /\ exists /\ phase[e] \in {"sending", "logging"} =>
               /\ Len(log[e]) = attempt[e] - 1
               /\ \A i \in 1 .. Len(log[e]) : log[e][i] = "pending_retry"

\* A subscription that has reached the bound is enabled only while a delivery
\* is about to disable it, or if one was cut off at that: enabling it anew
\* starts from zero (dispatcher.ts:83-96, api.ts:103-105).
FailingIsDisabled ==
    enabled /\ exists /\ failures >= MaxFailures =>
        \E e \in Events : phase[e] \in {"disabling", "undecided"}

\* A deleted subscription gets at most one more attempt of each delivery that
\* was under way, although nobody tells the deliveries (dispatcher.ts:65-67).
DeletedStopsSoon == \A e \in Events : late[e] <= 1

\* Every delivery ends: it succeeds, runs out of attempts, or is dropped.
EveryDeliveryEnds ==
    \A e \in Events : phase[e] = "sending" ~> ~Underway(e)
=============================================================================
