----------------------------- MODULE MCWaiting -----------------------------
(***************************************************************************)
(* Instances of two parts that wait for answers which may never come: the  *)
(* approval gate, with a gated call and a free one, and the agent runtime  *)
(* of one session.  They share no state, so one run checks them side by    *)
(* side: a behaviour is of the one or of the other, chosen in its initial  *)
(* state, with the other one at rest.                                      *)
(***************************************************************************)
EXTENDS ApprovalGate, AgentRuntime

CONSTANTS c1, c2, m1, m2

VARIABLE part       \* which of the two this behaviour is about

waitingVars == <<part, vars, runtimeVars>>

(* A tool result weighs more than the other entries.                       *)
Weights == [user |-> 1, calls |-> 1, result |-> 2, final |-> 1]

WaitingInit == part \in {"gate", "runtime"} /\ Init /\ RuntimeInit

WaitingNext ==
    /\ UNCHANGED part
    /\ \/ part = "gate" /\ Next /\ UNCHANGED runtimeVars
       \/ part = "runtime" /\ RuntimeNext /\ UNCHANGED vars

(* In its initial state the gate could go on, so that its fairness is asked *)
(* for where the behaviour is about it; the runtime could not.             *)
FairWaiting ==
    /\ WaitingInit /\ [][WaitingNext]_waitingVars
    /\ part = "gate" => Fairness
    /\ RuntimeFairness

\* Where the behaviour is about the gate, every tool call comes to an end and every
\* approval request is settled, although nobody and no tool ever answers
\* (agent-loop.ts:271-364, security/monitor.ts:116-130).
GateLetsGo == part = "gate" => CallsAndRequestsEnd
=============================================================================
