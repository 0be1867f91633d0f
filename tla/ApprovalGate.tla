---------------------------- MODULE ApprovalGate ----------------------------
(***************************************************************************)
(* The human approval gate in front of a tool call.                        *)
(*                                                                         *)
(* A handler of the agent loop (agent-loop.ts, handleMessage) that meets a *)
(* tool call with requiresApproval inserts a row into approval_requests,   *)
(* polls it once a second for 30 minutes, and either publishes the request *)
(* to the tool execution layer or closes the row and reports a refusal.    *)
(* Workspace administrators resolve rows through api/approvals.ts, the     *)
(* security monitor times them out, and the chat page publishes a decision *)
(* of its own.  They all run concurrently, and nothing but the conditional *)
(* UPDATEs of PostgreSQL orders them.                                      *)
(*                                                                         *)
(* Calls are the calls in progress at one time; a handler works on one     *)
(* call at a time, so different calls belong to different handlers.        *)
(***************************************************************************)
EXTENDS FiniteSets

CONSTANTS
    Calls,      \* tool calls in progress, one per handler
    Gated       \* those whose tool has requiresApproval in the manifest

ASSUME GatedAssumption == Gated \subseteq Calls

VARIABLES
    stage,      \* stage[c]: where the handler of c is
    row,        \* row[c]: the approval_requests row of c
    due,        \* calls with timeout_at < now() on the database's clock
    overdue,    \* calls polled for POLL_TIMEOUT on the handler's clock
    tool,       \* tool[c]: the tool execution layer's side of c
    reply,      \* reply[c]: what the tool message of c will say
    announced,  \* announced[c]: toolStatus of the tool_result event
    chat,       \* chat[c]: decision the user took on the chat page
    tooLate,    \* history: calls approved after their handler had given up
    toNotify,   \* rows an UPDATE of the monitor returned, not yet notified
    notified    \* calls whose timeout somebody was notified of

handler == <<stage, reply, announced>>
clocks  == <<due, overdue>>
alerts  == <<toNotify, notified>>
vars    == <<stage, row, due, overdue, tool, reply, announced, chat,
             tooLate, toNotify, notified>>

-----------------------------------------------------------------------------
Stages ==
    {"asked",       \* the model asked for the call
     "polling",     \* row inserted, waiting for it to be resolved
     "approved",    \* a poll has read 'approved'
     "expired",     \* the loop was left without an approval
     "awaiting",    \* request published, BRPOP on the result list
     "answered",    \* toolResult is known
     "stored",      \* the tool message is in session_messages
     "done",        \* the tool_result event is out
     "lost"}        \* the handler ended in an exception or with the process

Statuses  == {"absent", "pending", "approved", "rejected", "timeout"}
Resolvers == {"nobody", "admin", "handler", "monitor"}
Rows      == [status : Statuses, by : Resolvers]

TypeOK ==
    /\ stage \in [Calls -> Stages]
    /\ row \in [Calls -> Rows]
    /\ due \subseteq Calls
    /\ overdue \subseteq Calls
    /\ tool \in [Calls -> {"idle", "requested", "finished"}]
    /\ reply \in [Calls -> {"none", "result", "timed_out", "refused"}]
    /\ announced \in [Calls -> {"none", "success", "approved_and_executed"}]
    /\ chat \in [Calls -> {"none", "approve", "reject"}]
    /\ tooLate \subseteq Calls
    /\ toNotify \subseteq Calls
    /\ notified \subseteq Calls

Init ==
    /\ stage = [c \in Calls |-> "asked"]
    /\ row = [c \in Calls |-> [status |-> "absent", by |-> "nobody"]]
    /\ due = {}
    /\ overdue = {}
    /\ tool = [c \in Calls |-> "idle"]
    /\ reply = [c \in Calls |-> "none"]
    /\ announced = [c \in Calls |-> "none"]
    /\ chat = [c \in Calls |-> "none"]
    /\ tooLate = {}
    /\ toNotify = {}
    /\ notified = {}

-----------------------------------------------------------------------------
(* The table.  UPDATE ... WHERE status = 'pending' is one atomic statement. *)

Pending(c) == row[c].status = "pending"

\* Mutant: an UPDATE without its WHERE status = 'pending'.
ResolveAny(c, status, by) ==
    row' = [row EXCEPT ![c] = [status |-> status, by |-> by]]

\* Sets the row if it is still pending, and leaves it alone otherwise.
Resolve(c, status, by) ==
    row' = [row EXCEPT ![c] = IF Pending(c)
                              THEN [status |-> status, by |-> by] ELSE @]

-----------------------------------------------------------------------------
(* The handler.                                                            *)

\* The INSERT of the pending row, with timeout_at 30 minutes ahead, and the
\* tool_approval event to the client.
RequestApproval(c) ==
    /\ stage[c] = "asked"
    /\ c \in Gated
    /\ row' = [row EXCEPT ![c] = [status |-> "pending", by |-> "nobody"]]
    /\ stage' = [stage EXCEPT ![c] = "polling"]
    /\ UNCHANGED <<reply, announced, tool, chat, tooLate>>
    /\ UNCHANGED <<clocks, alerts>>

\* Mutant: a loop that takes every resolved row for an approval.
PollAnyResolution(c) ==
    /\ stage[c] = "polling"
    /\ \/ /\ row[c].status \in {"approved", "timeout"}
          /\ stage' = [stage EXCEPT ![c] = "approved"]
       \/ /\ row[c].status = "rejected"
          /\ stage' = [stage EXCEPT ![c] = "expired"]
       \/ /\ row[c].status \notin {"approved", "rejected"}
          /\ c \in overdue
          /\ stage' = [stage EXCEPT ![c] = "expired"]
    /\ UNCHANGED <<reply, announced, row, tool, chat, tooLate>>
    /\ UNCHANGED <<clocks, alerts>>

\* Mutant: a loop without its time limit.
PollForever(c) ==
    /\ stage[c] = "polling"
    /\ \/ /\ row[c].status = "approved"
          /\ stage' = [stage EXCEPT ![c] = "approved"]
       \/ /\ row[c].status = "rejected"
          /\ stage' = [stage EXCEPT ![c] = "expired"]
    /\ UNCHANGED <<reply, announced, row, tool, chat, tooLate>>
    /\ UNCHANGED <<clocks, alerts>>

\* One turn of the polling loop that leaves it: on 'approved', on 'rejected',
\* or because POLL_TIMEOUT has passed.  A row the monitor set to 'timeout' is
\* neither, and is polled until the handler's own clock runs out.
Poll(c) ==
    /\ stage[c] = "polling"
    /\ \/ /\ row[c].status = "approved"
          /\ stage' = [stage EXCEPT ![c] = "approved"]
       \/ /\ row[c].status = "rejected"
          /\ stage' = [stage EXCEPT ![c] = "expired"]
       \/ /\ row[c].status \notin {"approved", "rejected"}
          /\ c \in overdue
          /\ stage' = [stage EXCEPT ![c] = "expired"]
    /\ UNCHANGED <<reply, announced, row, tool, chat, tooLate>>
    /\ UNCHANGED <<clocks, alerts>>

\* Mutant: a refusal that forgets to close the row.
CloseLeavingRow(c) ==
    /\ stage[c] = "expired"
    /\ stage' = [stage EXCEPT ![c] = "answered"]
    /\ reply' = [reply EXCEPT ![c] = "refused"]
    /\ UNCHANGED <<announced, row, tool, chat, tooLate>>
    /\ UNCHANGED <<clocks, alerts>>

\* After the loop was left without an approval: the row is rejected if it is
\* still pending, and the call is answered with "was not approved".
Close(c) ==
    /\ stage[c] = "expired"
    /\ Resolve(c, "rejected", "handler")
    /\ stage' = [stage EXCEPT ![c] = "answered"]
    /\ reply' = [reply EXCEPT ![c] = "refused"]
    /\ UNCHANGED <<announced, tool, chat, tooLate>>
    /\ UNCHANGED <<clocks, alerts>>

\* executeToolCall publishes the request: at once for a tool that needs no
\* approval, after the poll that read 'approved' for one that does.
Dispatch(c) ==
    /\ \/ stage[c] = "asked" /\ c \notin Gated
       \/ stage[c] = "approved"
    /\ tool' = [tool EXCEPT ![c] = "requested"]
    /\ stage' = [stage EXCEPT ![c] = "awaiting"]
    /\ UNCHANGED <<reply, announced, row, chat, tooLate>>
    /\ UNCHANGED <<clocks, alerts>>

\* Mutant: the acknowledgement of the request is taken for the result.
AwaitNothing(c) ==
    /\ stage[c] = "awaiting"
    /\ reply' = [reply EXCEPT ![c] = "result"]
    /\ stage' = [stage EXCEPT ![c] = "answered"]
    /\ UNCHANGED <<announced, row, tool, chat, tooLate>>
    /\ UNCHANGED <<clocks, alerts>>

\* BRPOP on the result list of the call: the result if it is there, and the
\* error "Tool call timed out" when the list stays empty for too long.
Await(c) ==
    /\ stage[c] = "awaiting"
    /\ reply' = [reply EXCEPT ![c] =
                    IF tool[c] = "finished" THEN "result" ELSE "timed_out"]
    /\ stage' = [stage EXCEPT ![c] = "answered"]
    /\ UNCHANGED <<announced, row, tool, chat, tooLate>>
    /\ UNCHANGED <<clocks, alerts>>

\* The INSERT of the tool message.
Store(c) ==
    /\ stage[c] = "answered"
    /\ stage' = [stage EXCEPT ![c] = "stored"]
    /\ UNCHANGED <<reply, announced, row, tool, chat, tooLate>>
    /\ UNCHANGED <<clocks, alerts>>

\* Mutant: an event that says "success" of every call.
AnnounceSuccess(c) ==
    /\ stage[c] = "stored"
    /\ announced' = [announced EXCEPT ![c] = "success"]
    /\ stage' = [stage EXCEPT ![c] = "done"]
    /\ UNCHANGED <<reply, row, tool, chat, tooLate>>
    /\ UNCHANGED <<clocks, alerts>>

\* The tool_result event.  Its toolStatus depends on the tool, not on what
\* became of the approval.
Announce(c) ==
    /\ stage[c] = "stored"
    /\ announced' = [announced EXCEPT ![c] =
                        IF c \in Gated THEN "approved_and_executed"
                                       ELSE "success"]
    /\ stage' = [stage EXCEPT ![c] = "done"]
    /\ UNCHANGED <<reply, row, tool, chat, tooLate>>
    /\ UNCHANGED <<clocks, alerts>>

\* A query or a Redis command throws, or the process dies: the subscription
\* callback logs the error and nothing resumes the message.  The row stays.
Fail(c) ==
    /\ stage[c] \notin {"done", "lost"}
    /\ stage' = [stage EXCEPT ![c] = "lost"]
    /\ UNCHANGED <<reply, announced, row, tool, chat, tooLate>>
    /\ UNCHANGED <<clocks, alerts>>

-----------------------------------------------------------------------------
(* Those who resolve a row.                                                *)

\* POST /approvals/:id/approve.  404, and no change, unless it is pending.
Approve(c) ==
    /\ Pending(c)
    /\ Resolve(c, "approved", "admin")
    /\ tooLate' = IF stage[c] = "expired" THEN tooLate \cup {c} ELSE tooLate
    /\ UNCHANGED <<handler, tool, chat>>
    /\ UNCHANGED <<clocks, alerts>>

\* POST /approvals/:id/reject.
Reject(c) ==
    /\ Pending(c)
    /\ Resolve(c, "rejected", "admin")
    /\ UNCHANGED <<handler, tool, chat, tooLate>>
    /\ UNCHANGED <<clocks, alerts>>

\* The buttons of the chat page.  The WebSocket handler publishes the decision
\* on a channel that has no subscriber: nothing but the page changes.
ChatDecision(c, decision) ==
    /\ stage[c] = "polling"
    /\ chat[c] = "none"
    /\ chat' = [chat EXCEPT ![c] = decision]
    /\ UNCHANGED <<handler, row, tool, tooLate>>
    /\ UNCHANGED <<clocks, alerts>>

\* Mutant: a monitor that takes the rows past their deadline in one statement
\* and times out those still pending in the next.
NotifyAllDue(expired) ==
    /\ row' = [c \in Calls |-> IF c \in expired
                               THEN [status |-> "timeout", by |-> "monitor"]
                               ELSE row[c]]
    /\ toNotify' = toNotify \cup {c \in due : row[c].status # "absent"}

\* Mutant: a monitor that compares the deadline the wrong way round.
TimeOutEarly(expired) ==
    /\ row' = [c \in Calls |-> IF Pending(c) /\ c \notin due
                               THEN [status |-> "timeout", by |-> "monitor"]
                               ELSE row[c]]
    /\ toNotify' = toNotify \cup {c \in Calls : Pending(c) /\ c \notin due}

\* Mutant: a status the CHECK of the table does not list.
TimeOutAsExpired(expired) ==
    /\ row' = [c \in Calls |-> IF c \in expired
                               THEN [status |-> "expired", by |-> "monitor"]
                               ELSE row[c]]
    /\ toNotify' = toNotify \cup expired

\* UPDATE ... WHERE status = 'pending' AND timeout_at < now() RETURNING ...
TimeOut(expired) ==
    /\ row' = [c \in Calls |-> IF c \in expired
                               THEN [status |-> "timeout", by |-> "monitor"]
                               ELSE row[c]]
    /\ toNotify' = toNotify \cup expired

\* The periodic check of the security monitor.
MonitorSweep ==
    LET expired == {c \in due : Pending(c)} IN
    /\ expired # {}
    /\ TimeOut(expired)
    /\ UNCHANGED <<handler, tool, chat, tooLate, clocks, notified>>

\* The audit event and the notification for one returned row.
MonitorNotify(c) ==
    /\ c \in toNotify
    /\ toNotify' = toNotify \ {c}
    /\ notified' = notified \cup {c}
    /\ UNCHANGED <<handler, row, tool, chat, tooLate, clocks>>

\* The INSERT of a notification throws: the sweep ends there, and the rows
\* behind it, which are no longer pending, are never notified.
MonitorFails ==
    \E skipped \in SUBSET toNotify :
        /\ skipped # {}
        /\ toNotify' = toNotify \ skipped
        /\ UNCHANGED <<handler, row, tool, chat, tooLate, clocks, notified>>

-----------------------------------------------------------------------------
(* Time and the tool execution layer.  The database's clock and the        *)
(* handler's need not agree, so either deadline may pass first.            *)

DeadlinePasses(c) ==
    /\ row[c].status # "absent"
    /\ c \notin due
    /\ due' = due \cup {c}
    /\ UNCHANGED <<handler, row, tool, chat, tooLate, overdue, alerts>>

PollTimeoutPasses(c) ==
    /\ stage[c] = "polling"
    /\ c \notin overdue
    /\ overdue' = overdue \cup {c}
    /\ UNCHANGED <<handler, row, tool, chat, tooLate, due, alerts>>

\* The external layer executes the request and pushes the result; a result
\* that comes after the BRPOP has timed out stays in its list.
RunTool(c) ==
    /\ tool[c] = "requested"
    /\ tool' = [tool EXCEPT ![c] = "finished"]
    /\ UNCHANGED <<handler, row, chat, tooLate, clocks, alerts>>

-----------------------------------------------------------------------------
HandlerStep(c) ==
    \/ RequestApproval(c) \/ Poll(c) \/ Close(c) \/ Dispatch(c)
    \/ Await(c) \/ Store(c) \/ Announce(c)

CallStep(c) ==
    \/ HandlerStep(c)
    \/ Fail(c)
    \/ Approve(c)
    \/ Reject(c)
    \/ \E decision \in {"approve", "reject"} : ChatDecision(c, decision)
    \/ MonitorNotify(c)
    \/ DeadlinePasses(c)
    \/ PollTimeoutPasses(c)
    \/ RunTool(c)

Next ==
    \/ \E c \in Calls : CallStep(c)
    \/ MonitorSweep
    \/ MonitorFails

Spec == Init /\ [][Next]_vars

(* A handler that is not waiting takes its next step, timers fire, and the *)
(* monitor's interval keeps coming round.  Nothing is assumed of people,   *)
(* of the tool execution layer, or of failures.                            *)
Fairness ==
    /\ \A c \in Calls : /\ WF_vars(HandlerStep(c))
                        /\ WF_vars(PollTimeoutPasses(c))
                        /\ WF_vars(DeadlinePasses(c))
    /\ WF_vars(MonitorSweep)

FairSpec == Spec /\ Fairness

-----------------------------------------------------------------------------
(* Safety.                                                                 *)

\* A gated call reaches the tool execution layer only if an administrator
\* approved its row, and the row still says so: no order of polls, timeouts,
\* rejections and failures lets a call through (agent-loop.ts:313-338).
RunsOnlyApproved ==
    \A c \in Gated :
        tool[c] # "idle" => row[c] = [status |-> "approved", by |-> "admin"]

\* The model is told "was not approved" of a call only when it was not executed,
\* and given a result only of one that was.  A refused call is one nobody had
\* approved when its handler gave up; the one way its row can say approved is
\* that an administrator did so between that moment and the handler's closing
\* UPDATE, which then finds nothing pending (agent-loop.ts:327-334).
ReplyMatchesExecution ==
    \A c \in Calls :
        /\ reply[c] = "refused" =>
               /\ tool[c] = "idle"
               /\ row[c].status = "approved" => c \in tooLate
        /\ reply[c] = "result" => tool[c] = "finished"

\* The chat page is told "success" of a call only when it was dispatched and
\* needed nobody's approval, and "approved_and_executed" only of one that was
\* approved and dispatched, or refused: the status depends on the manifest alone
\* (agent-loop.ts:361), so of a refused call it says the contrary of the error
\* that goes with it.
AnnouncedMatchesGate ==
    \A c \in Calls :
        /\ announced[c] = "success" => c \notin Gated /\ tool[c] # "idle"
        /\ announced[c] = "approved_and_executed" =>
               \/ reply[c] = "refused"
               \/ tool[c] # "idle" /\ row[c] = [status |-> "approved",
                                                 by |-> "admin"]

\* Once a gated call has been answered its row is settled: no administrator
\* can be shown, or approve, a request nobody waits for (agent-loop.ts:331).
AnsweredIsSettled ==
    \A c \in Gated : reply[c] # "none" => ~Pending(c)

\* A timeout notification is about a row that did time out, and that no one
\* resolved before or after (monitor.ts:125-152).
NotifiedTimedOut ==
    \A c \in toNotify \cup notified :
        row[c] = [status |-> "timeout", by |-> "monitor"]

\* What the gate tells the model and the chat page of a call, the administrators
\* of open requests and the notifications of requests timed out agrees with what
\* became of the call, but for the two cases the parts name: an approval that came
\* too late, and the status of a refused call (agent-loop.ts:313-361,
\* monitor.ts:125-152).
ToldIsTrue ==
    /\ ReplyMatchesExecution
    /\ AnnouncedMatchesGate
    /\ AnsweredIsSettled
    /\ NotifiedTimedOut

\* A resolution is final: whoever resolves a row first, administrator, monitor
\* or handler, nobody overwrites it (approvals.ts:42-44, monitor.ts:126-128).
ResolutionIsFinal ==
    [][\A c \in Calls :
        row[c].status \notin {"absent", "pending"} => row'[c] = row[c]]_vars

-----------------------------------------------------------------------------
(* Liveness, under FairSpec.                                               *)

\* Every call comes to an end: no answer of an administrator, no result and no
\* monitor's 'timeout' is needed for the loop to go on (agent-loop.ts:313).
EveryCallEnds ==
    \A c \in Calls : <>(stage[c] \in {"done", "lost"})

\* No request stays pending for ever, not even that of a handler that died
\* while it polled (monitor.ts:125-130).
EveryRequestSettles ==
    \A c \in Gated : Pending(c) ~> ~Pending(c)

\* Neither a call nor a request waits for ever on somebody who does not answer.
CallsAndRequestsEnd == EveryCallEnds /\ EveryRequestSettles

-----------------------------------------------------------------------------
(* The gate implements GatedCall.                                          *)

VerdictOf(r) ==
    IF r.status = "approved" THEN "granted"
    ELSE IF r.status \in {"rejected", "timeout"} THEN "denied" ELSE "none"

PhaseOf(s, r) ==
    IF s \in {"asked", "polling", "approved", "expired"} THEN "waiting"
    ELSE IF s = "awaiting" THEN "running"
    ELSE IF s = "lost" THEN "abandoned"
    ELSE IF r = "refused" THEN "refused" ELSE "returned"

Verdict == [c \in Calls |-> VerdictOf(row[c])]
Phase   == [c \in Calls |-> PhaseOf(stage[c], reply[c])]

Abstract == INSTANCE GatedCall WITH verdict <- Verdict, phase <- Phase

\* Every step of the handlers, the administrators and the monitor is a step of
\* GatedCall or leaves it alone.
ImplementsGatedCall == Abstract!Spec

=============================================================================
