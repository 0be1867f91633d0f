------------------------------ MODULE GatedCall ------------------------------
(***************************************************************************)
(* What the approval flow of HonorClaw promises about a tool call, without *)
(* the database rows, the polling and the clocks that ApprovalGate adds:   *)
(* a call of a tool that requires approval starts only on a granted        *)
(* verdict, a verdict is given once and for all, and a call comes to       *)
(* exactly one end.                                                        *)
(***************************************************************************)
CONSTANTS
    Calls,      \* tool calls being executed, each by a handler of its own
    Gated       \* those whose tool has requiresApproval in the manifest

VARIABLES
    verdict,    \* verdict[c]: what has been decided about c
    phase       \* phase[c]: how far c has come

vars == <<verdict, phase>>

Verdicts == {"none", "granted", "denied"}
Phases   == {"waiting", "running", "returned", "refused", "abandoned"}

TypeOK ==
    /\ verdict \in [Calls -> Verdicts]
    /\ phase \in [Calls -> Phases]

Init ==
    /\ verdict = [c \in Calls |-> "none"]
    /\ phase = [c \in Calls |-> "waiting"]

\* Somebody decides: an administrator on one gated call, the approval timeout
\* on all that are due, whatever has become of the handlers that asked.
Decide(decided, v) ==
    /\ decided \subseteq {c \in Gated : verdict[c] = "none"}
    /\ decided # {}
    /\ verdict' = [c \in Calls |-> IF c \in decided THEN v ELSE verdict[c]]
    /\ UNCHANGED phase

\* The request reaches the tool execution layer.
Start(c) ==
    /\ phase[c] = "waiting"
    /\ c \in Gated => verdict[c] = "granted"
    /\ phase' = [phase EXCEPT ![c] = "running"]
    /\ UNCHANGED verdict

\* A result, or the error that stands for a missing one, goes to the model.
Return(c) ==
    /\ phase[c] = "running"
    /\ phase' = [phase EXCEPT ![c] = "returned"]
    /\ UNCHANGED verdict

\* The handler stops waiting. The verdict is closed with it, except that a
\* grant which came after the last look at it stays in the table.
Refuse(c) ==
    /\ c \in Gated
    /\ phase[c] = "waiting"
    /\ phase' = [phase EXCEPT ![c] = "refused"]
    /\ verdict' = [verdict EXCEPT ![c] = IF @ = "none" THEN "denied" ELSE @]

\* The handler dies with an exception or with its process.
Abandon(c) ==
    /\ phase[c] # "abandoned"
    /\ phase' = [phase EXCEPT ![c] = "abandoned"]
    /\ UNCHANGED verdict

Next ==
    \/ \E decided \in SUBSET Gated, v \in {"granted", "denied"} :
           Decide(decided, v)
    \/ \E c \in Calls : Start(c) \/ Return(c) \/ Refuse(c) \/ Abandon(c)

Spec == Init /\ [][Next]_vars
=============================================================================
