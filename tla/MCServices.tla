----------------------------- MODULE MCServices -----------------------------
(***************************************************************************)
(* Instances of the services around the core: the deliveries of one        *)
(* webhook subscription, the audit buffer of one process, and the queue    *)
(* provider.  They share no state, so one run checks them side by side: a  *)
(* behaviour is of one service, chosen in its initial state, with the      *)
(* other two at rest.                                                      *)
(***************************************************************************)
EXTENDS WebhookDelivery, AuditBuffer, StreamQueue

CONSTANTS e1, e2, e3, c1, c2

VARIABLE service    \* the one this behaviour is about

vars == <<service, webhookVars, auditVars, queueVars>>

Init ==
    /\ service \in {"webhook", "audit", "queue"}
    /\ WebhookInit /\ AuditInit /\ QueueInit

Next ==
    /\ UNCHANGED service
    /\ \/ /\ service = "webhook" /\ WebhookNext
          /\ UNCHANGED <<auditVars, queueVars>>
       \/ /\ service = "audit" /\ AuditNext
          /\ UNCHANGED <<webhookVars, queueVars>>
       \/ /\ service = "queue" /\ QueueNext
          /\ UNCHANGED <<webhookVars, auditVars>>

(* A service at rest has no step that fairness asks for.                   *)
FairSpec ==
    /\ Init /\ [][Next]_vars
    /\ WebhookFairness /\ AuditFairness /\ QueueFairness

\* What was taken on ends: each delivery, each event in the audit buffer, each
\* batch of a consumer (dispatcher.ts:63-97, emitter.ts:12-56, queue.ts:34-62).
ServicesEnd == EveryDeliveryEnds /\ EveryEventLeaves /\ BatchesEnd
=============================================================================
