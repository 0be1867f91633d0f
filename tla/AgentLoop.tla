----------------------------- MODULE AgentLoop -----------------------------
(***************************************************************************)
(* The agent loop of the control plane (agent-loop.ts) with its two        *)
(* neighbours: the API request that sends a message (api/sessions.ts,      *)
(* SessionManager.sendMessage) and the LLM router that answers requests    *)
(* (llm/router.ts).                                                        *)
(*                                                                         *)
(* Every message of a user gets a handler of its own, started by the Redis *)
(* subscription.  Handlers are asynchronous functions of one process: those*)
(* of different messages, of the same session too, interleave at every     *)
(* await.  They share the session_messages table, the token counter of the *)
(* session, the output channel of the session, and one Redis connection    *)
(* for blocking commands, on which a BRPOP waits until those before it are *)
(* over.                                                                   *)
(*                                                                         *)
(* The approval of a gated call is one step here; ApprovalGate refines it. *)
(***************************************************************************)
EXTENDS Integers, Sequences, FiniteSets, FiniteSetsExt, Subsequences

CONSTANTS
    Messages,       \* messages users send
    Sessions,
    SessionOf,      \* the session each is sent to
    Sync,           \* those sent with sync # false: the API request waits
    Patient,        \* those sent only when the session is quiet
    Rejected,       \* those checkInput does not allow
    WithPii,        \* those redactPII would change
    Signs,          \* Signs[m]: what the multi-turn detector sees in m
    Responses,      \* Responses[m]: what the LLM router may answer for m
    MaxToolIterations,
    MaxHistoryMessages,
    Budget          \* context.maxTokens

Indicators == {"authority", "boundary", "anchoring", "role"}

\* finishReason, the tool calls by whether they need approval, and the tokens.
Answers == [finish : {"stop", "tool_calls", "error"},
            calls : Seq({"free", "gated"}),
            tokens : Nat]

ASSUME ConstantsAssumption ==
    /\ SessionOf \in [Messages -> Sessions]
    /\ Sync \subseteq Messages
    /\ Patient \subseteq Messages
    /\ Rejected \subseteq Messages
    /\ WithPii \subseteq Messages
    /\ Signs \in [Messages -> SUBSET Indicators]
    /\ Responses \in [Messages -> SUBSET Answers]
    /\ MaxToolIterations \in Nat \ {0}
    /\ MaxHistoryMessages \in Nat \ {0}
    /\ Budget \in Nat

VARIABLES
    pc,         \* pc[m]: where the handling of m is
    iter,       \* iter[m]: iteration of the tool call loop
    total,      \* total[m]: totalTokens
    batch,      \* batch[m]: calls of the last response
    next,       \* next[m]: index in batch[m] of the call at hand
    view,       \* view[m]: the messages array, without the system prompt
    llm,        \* llm[m]: the response list of the request of m
    tool,       \* tool[m]: the result list of the call at hand
    brpops,     \* handlers with a BRPOP on blockingRedis, in order
    log,        \* log[s]: session_messages rows of s, by created_at
    tokensUsed, \* tokensUsed[s]: sessions.tokens_used
    contexts,   \* sessions with a session:<id>:context key
    client      \* client[m]: what became of the API request of m

position == <<pc, iter, batch, next>>
lists    == <<llm, tool, brpops>>
tables   == <<log, tokensUsed, contexts>>
vars     == <<pc, iter, total, batch, next, view, llm, tool, brpops, log,
              tokensUsed, contexts, client>>

-----------------------------------------------------------------------------
Steps ==
    {"idle", "listening", "stored", "received", "no_context", "loaded",
     "refusing", "flagging", "blocking", "screened", "ask", "llm",
     "calls", "call", "gate", "dispatch", "tool", "refused", "result",
     "timed_out", "final", "tokens", "reply", "llm_error", "llm_timeout"}

Ends == {"replied", "blocked", "errored", "failed"}

\* A row of session_messages.  n is the number of calls of a "calls" row and
\* the index of the call of a tool row.
Texts == {"raw", "clean", "calls", "reply", "fallback", "rejection",
          "flag", "result", "refusal", "timeout"}
Rows  == [role : {"user", "assistant", "tool"}, text : Texts,
          of : Messages, n : Nat]

EventTypes == {"tool_call_pending", "tool_approval", "tool_result",
               "agent_response", "error"}
Events == [type : EventTypes, of : Messages]

None    == [finish |-> "none"]
Asked   == [finish |-> "asked"]
Quiet   == [type |-> "none"]
Waiting == [type |-> "waiting"]
GaveUp  == [type |-> "timeout"]

TypeOK ==
    /\ pc \in [Messages -> Steps \cup Ends]
    /\ iter \in [Messages -> 0 .. MaxToolIterations]
    /\ total \in [Messages -> Nat]
    /\ batch \in [Messages -> Seq({"free", "gated"})]
    /\ next \in [Messages -> Nat]
    /\ view \in [Messages -> Seq(Rows)]
    /\ llm \in [Messages -> Answers \cup {None, Asked}]
    /\ tool \in [Messages -> {"idle", "requested", "finished"}]
    /\ brpops \in Seq(Messages)
    /\ log \in [Sessions -> Seq(Rows)]
    /\ tokensUsed \in [Sessions -> Nat]
    /\ contexts \subseteq Sessions
    /\ client \in [Messages -> Events \cup {Quiet, Waiting, GaveUp}]

Init ==
    /\ pc = [m \in Messages |-> "idle"]
    /\ iter = [m \in Messages |-> 0]
    /\ total = [m \in Messages |-> 0]
    /\ batch = [m \in Messages |-> <<>>]
    /\ next = [m \in Messages |-> 1]
    /\ view = [m \in Messages |-> <<>>]
    /\ llm = [m \in Messages |-> None]
    /\ tool = [m \in Messages |-> "idle"]
    /\ brpops = <<>>
    /\ log = [s \in Sessions |-> <<>>]
    /\ tokensUsed = [s \in Sessions |-> 0]
    /\ contexts = Sessions
    /\ client = [m \in Messages |-> Quiet]

-----------------------------------------------------------------------------
(* Helpers.                                                                *)

Row(role, text, m, n) == [role |-> role, text |-> text, of |-> m, n |-> n]

Goto(m, step) == pc' = [pc EXCEPT ![m] = step]

\* INSERT INTO session_messages.
Insert(m, r) == log' = [log EXCEPT ![SessionOf[m]] = Append(@, r)]

\* The INSERT and the push on the messages array that follows it.
InsertAndPush(m, r) ==
    /\ Insert(m, r)
    /\ view' = [view EXCEPT ![m] = Append(@, r)]

\* A publish on the output channel of the session of m.  Every API request
\* that listens there takes it for its answer, whatever it is.
Publish(m, type) ==
    client' = [o \in Messages |->
                  IF SessionOf[o] = SessionOf[m] /\ client[o] = Waiting
                  THEN [type |-> type, of |-> m] ELSE client[o]]

\* The BRPOP of m is the one Redis is executing.
AtHead(m) == brpops # <<>> /\ Head(brpops) = m

Queued(m) == \E i \in DOMAIN brpops : brpops[i] = m

\* The queue q without its i-th command.
Without(q, i) ==
    [j \in 1 .. Len(q) - 1 |-> IF j < i THEN q[j] ELSE q[j + 1]]

LastRows(rows, n) ==
    SubSeq(rows, IF Len(rows) > n THEN Len(rows) - n + 1 ELSE 1, Len(rows))

InProgress(m) == pc[m] \notin {"idle"} \cup Ends

-----------------------------------------------------------------------------
(* Multi-turn detection (multi-turn-detector.ts), in hundredths.           *)

\* User messages of the conversation with the sign.  The conversation is the
\* stored one, which holds m already, and m once more.
UserRows(s) == {i \in DOMAIN log[s] : log[s][i].role = "user"}
Turns(m)    == Cardinality(UserRows(SessionOf[m])) + 1

Hits(m, sign) ==
    Cardinality({i \in UserRows(SessionOf[m]) :
                    sign \in Signs[log[SessionOf[m]][i].of]})
    + (IF sign \in Signs[m] THEN 1 ELSE 0)

Score(m) ==
    (IF Hits(m, "authority") >= 2 THEN 30 ELSE 0)
    + (IF Hits(m, "boundary") >= 2 THEN 25 ELSE 0)
    + (IF Hits(m, "anchoring") >= 1 THEN 30 ELSE 0)
    + (IF Hits(m, "role") >= 1 THEN 35 ELSE 0)

Flagged(m) == Turns(m) >= 3 /\ Score(m) >= 70

-----------------------------------------------------------------------------
(* The API request.                                                        *)

\* A patient client sends only when nothing of the session is in progress.
MaySend(m) ==
    m \in Patient =>
        \A o \in Messages : SessionOf[o] = SessionOf[m] => ~InProgress(o)

\* A synchronous request subscribes to the output channel first.
Listen(m) ==
    /\ pc[m] = "idle"
    /\ m \in Sync
    /\ MaySend(m)
    /\ client' = [client EXCEPT ![m] = Waiting]
    /\ Goto(m, "listening")
    /\ UNCHANGED <<iter, total, batch, next, view, lists, tables>>

\* sendMessage: the INSERT of the message as it was typed ...
SendStore(m) ==
    /\ \/ pc[m] = "listening"
       \/ pc[m] = "idle" /\ m \notin Sync /\ MaySend(m)
    /\ Insert(m, Row("user", IF m \in WithPii THEN "raw" ELSE "clean", m, 0))
    /\ Goto(m, "stored")
    /\ UNCHANGED <<iter, total, batch, next, view, lists, client>>
    /\ UNCHANGED <<tokensUsed, contexts>>

\* ... and the publish on the input channel, which starts a handler.
SendPublish(m) ==
    /\ pc[m] = "stored"
    /\ Goto(m, "received")
    /\ UNCHANGED <<iter, total, batch, next, view, lists, tables, client>>

\* 60 seconds without an event.
ClientTimeout(m) ==
    /\ client[m] = Waiting
    /\ client' = [client EXCEPT ![m] = GaveUp]
    /\ UNCHANGED <<position, total, view, lists, tables>>

-----------------------------------------------------------------------------
(* The handler: context, guardrails, history.                              *)

LoadContext(m) ==
    /\ pc[m] = "received"
    /\ Goto(m, IF SessionOf[m] \in contexts THEN "loaded" ELSE "no_context")
    /\ UNCHANGED <<iter, total, batch, next, view, lists, tables, client>>

\* checkInput, then checkMultiTurnInjection on the rows read for it.
Screen(m) ==
    /\ pc[m] = "loaded"
    /\ \/ m \in Rejected /\ Goto(m, "refusing")
       \/ m \notin Rejected /\ Flagged(m) /\ Goto(m, "flagging")
       \/ m \notin Rejected /\ ~Flagged(m) /\ Goto(m, "screened")
    /\ UNCHANGED <<iter, total, batch, next, view, lists, tables, client>>

\* A blocked message is answered with a stored assistant message.
StoreRejection(m) ==
    /\ pc[m] \in {"refusing", "flagging"}
    /\ Insert(m, Row("assistant",
                     IF pc[m] = "flagging" THEN "flag" ELSE "rejection", m, 0))
    /\ Goto(m, "blocking")
    /\ UNCHANGED <<iter, total, batch, next, view, lists, client>>
    /\ UNCHANGED <<tokensUsed, contexts>>

\* Mutant: a block that returns without telling the user.
BlockSilently(m) ==
    /\ pc[m] = "blocking"
    /\ Goto(m, "blocked")
    /\ UNCHANGED <<iter, total, batch, next, view, lists, tables, client>>

PublishBlocked(m) ==
    /\ pc[m] = "blocking"
    /\ Publish(m, "agent_response")
    /\ Goto(m, "blocked")
    /\ UNCHANGED <<iter, total, batch, next, view, lists, tables>>

\* The messages array: the newest rows of the session, the oldest first.
LoadHistory(m) ==
    /\ pc[m] = "screened"
    /\ view' = [view EXCEPT ![m] =
                   LastRows(log[SessionOf[m]], MaxHistoryMessages)]
    /\ Goto(m, "ask")
    /\ UNCHANGED <<iter, total, batch, next, lists, tables, client>>

-----------------------------------------------------------------------------
(* The handler: the loop of LLM requests and tool calls.                   *)

\* Mutant: a loop with <= in its condition.
AskOnceMore(m) ==
    /\ pc[m] = "ask"
    /\ iter[m] <= MaxToolIterations
    /\ llm' = [llm EXCEPT ![m] = Asked]
    /\ brpops' = Append(brpops, m)
    /\ Goto(m, "llm")
    /\ UNCHANGED <<iter, total, batch, next, view, tool, tables, client>>

\* The publish of the request, and the BRPOP on its response list.
Ask(m) ==
    /\ pc[m] = "ask"
    /\ iter[m] < MaxToolIterations
    /\ llm' = [llm EXCEPT ![m] = Asked]
    /\ brpops' = Append(brpops, m)
    /\ Goto(m, "llm")
    /\ UNCHANGED <<iter, total, batch, next, view, tool, tables, client>>

\* The BRPOP returns a response.  The errors of the router end the message.
LlmResult(m) ==
    LET r == llm[m] IN
    /\ pc[m] = "llm"
    /\ AtHead(m)
    /\ r \notin {None, Asked}
    /\ brpops' = Tail(brpops)
    /\ llm' = [llm EXCEPT ![m] = None]
    /\ total' = [total EXCEPT ![m] = @ + r.tokens]
    /\ \/ /\ r.finish = "error"
          /\ Goto(m, "llm_error")
          /\ UNCHANGED <<batch, next>>
       \/ /\ r.finish = "tool_calls" /\ r.calls # <<>>
          /\ batch' = [batch EXCEPT ![m] = r.calls]
          /\ next' = [next EXCEPT ![m] = 1]
          /\ Goto(m, "calls")
       \/ /\ r.finish = "stop" \/ (r.finish = "tool_calls" /\ r.calls = <<>>)
          /\ Goto(m, "final")
          /\ UNCHANGED <<batch, next>>
    /\ UNCHANGED <<iter, view, tool, tables, client>>

\* Mutant: a BRPOP with timeout 0, which waits for ever.
LlmWaitsForever(m) ==
    /\ pc[m] = "llm"
    /\ llm[m] = None
    /\ UNCHANGED vars

\* The BRPOP times out.  A response that comes later stays in its list, which
\* nobody reads again.
LlmTimeout(m) ==
    /\ pc[m] = "llm"
    /\ AtHead(m)
    /\ llm[m] = Asked
    /\ brpops' = Tail(brpops)
    /\ llm' = [llm EXCEPT ![m] = None]
    /\ Goto(m, "llm_timeout")
    /\ UNCHANGED <<iter, total, batch, next, view, tool, tables, client>>

PublishError(m) ==
    /\ pc[m] \in {"no_context", "llm_error", "llm_timeout"}
    /\ Publish(m, "error")
    /\ Goto(m, "errored")
    /\ UNCHANGED <<iter, total, batch, next, view, lists, tables>>

\* The assistant message with its calls, and a tool_call_pending event each.
StoreCalls(m) ==
    /\ pc[m] = "calls"
    /\ InsertAndPush(m, Row("assistant", "calls", m, Len(batch[m])))
    /\ Publish(m, "tool_call_pending")
    /\ Goto(m, "call")
    /\ UNCHANGED <<iter, total, batch, next, lists, tokensUsed, contexts>>

\* A call of a tool with requiresApproval is announced and waits for a verdict.
RequestApproval(m) ==
    /\ pc[m] = "call"
    /\ batch[m][next[m]] = "gated"
    /\ Publish(m, "tool_approval")
    /\ Goto(m, "gate")
    /\ UNCHANGED <<iter, total, batch, next, view, lists, tables>>

\* The verdict of the gate (ApprovalGate).
Gate(m) ==
    /\ pc[m] = "gate"
    /\ Goto(m, "dispatch") \/ Goto(m, "refused")
    /\ UNCHANGED <<iter, total, batch, next, view, lists, tables, client>>

\* executeToolCall: the publish of the request and the BRPOP on its result.
Dispatch(m) ==
    /\ \/ pc[m] = "dispatch"
       \/ pc[m] = "call" /\ batch[m][next[m]] = "free"
    /\ tool' = [tool EXCEPT ![m] = "requested"]
    /\ brpops' = Append(brpops, m)
    /\ Goto(m, "tool")
    /\ UNCHANGED <<iter, total, batch, next, view, llm, tables, client>>

ToolResult(m) ==
    /\ pc[m] = "tool"
    /\ AtHead(m)
    /\ tool[m] = "finished"
    /\ brpops' = Tail(brpops)
    /\ tool' = [tool EXCEPT ![m] = "idle"]
    /\ Goto(m, "result")
    /\ UNCHANGED <<iter, total, batch, next, view, llm, tables, client>>

\* The call is answered with an error, and the loop goes on.
ToolTimeout(m) ==
    /\ pc[m] = "tool"
    /\ AtHead(m)
    /\ tool[m] = "requested"
    /\ brpops' = Tail(brpops)
    /\ tool' = [tool EXCEPT ![m] = "idle"]
    /\ Goto(m, "timed_out")
    /\ UNCHANGED <<iter, total, batch, next, view, llm, tables, client>>

ResultText(m) ==
    IF pc[m] = "result" THEN "result"
    ELSE IF pc[m] = "refused" THEN "refusal" ELSE "timeout"

\* Mutant: a call that was refused or timed out leaves no tool message.
StoreSuccessOnly(m) ==
    /\ pc[m] \in {"result", "refused", "timed_out"}
    /\ IF pc[m] = "result"
       THEN InsertAndPush(m, Row("tool", ResultText(m), m, next[m]))
       ELSE UNCHANGED <<log, view>>
    /\ Publish(m, "tool_result")
    /\ next' = [next EXCEPT ![m] = @ + 1]
    /\ \/ /\ next[m] < Len(batch[m])
          /\ Goto(m, "call")
          /\ UNCHANGED iter
       \/ /\ next[m] >= Len(batch[m])
          /\ iter' = [iter EXCEPT ![m] = @ + 1]
          /\ Goto(m, "ask")
    /\ UNCHANGED <<total, batch, lists, tokensUsed, contexts>>

\* Mutant: tool messages are kept in memory and not stored.
StoreInMemory(m) ==
    /\ pc[m] \in {"result", "refused", "timed_out"}
    /\ view' = [view EXCEPT ![m] =
                   Append(@, Row("tool", ResultText(m), m, next[m]))]
    /\ Publish(m, "tool_result")
    /\ next' = [next EXCEPT ![m] = @ + 1]
    /\ \/ /\ next[m] < Len(batch[m])
          /\ Goto(m, "call")
          /\ UNCHANGED iter
       \/ /\ next[m] >= Len(batch[m])
          /\ iter' = [iter EXCEPT ![m] = @ + 1]
          /\ Goto(m, "ask")
    /\ UNCHANGED <<total, batch, lists, tables>>

\* The tool message and its tool_result event; after the last call of the
\* response, the next iteration.
StoreResult(m) ==
    /\ pc[m] \in {"result", "refused", "timed_out"}
    /\ InsertAndPush(m, Row("tool", ResultText(m), m, next[m]))
    /\ Publish(m, "tool_result")
    /\ next' = [next EXCEPT ![m] = @ + 1]
    /\ \/ /\ next[m] < Len(batch[m])
          /\ Goto(m, "call")
          /\ UNCHANGED iter
       \/ /\ next[m] >= Len(batch[m])
          /\ iter' = [iter EXCEPT ![m] = @ + 1]
          /\ Goto(m, "ask")
    /\ UNCHANGED <<total, batch, lists, tokensUsed, contexts>>

-----------------------------------------------------------------------------
(* The handler: the answer.                                                *)

\* The final text, or the fallback after the last iteration.
StoreReply(m) ==
    /\ \/ pc[m] = "final" /\ Insert(m, Row("assistant", "reply", m, 0))
       \/ /\ pc[m] = "ask" /\ iter[m] = MaxToolIterations
          /\ Insert(m, Row("assistant", "fallback", m, 0))
    /\ Goto(m, "tokens")
    /\ UNCHANGED <<iter, total, batch, next, view, lists, client>>
    /\ UNCHANGED <<tokensUsed, contexts>>

\* Mutant: an UPDATE that sets the counter instead of adding to it.
OverwriteTokens(m) ==
    /\ pc[m] = "tokens"
    /\ tokensUsed' = [tokensUsed EXCEPT ![SessionOf[m]] = total[m]]
    /\ Goto(m, "reply")
    /\ UNCHANGED <<iter, total, batch, next, view, lists, client>>
    /\ UNCHANGED <<log, contexts>>

\* UPDATE sessions SET tokens_used = tokens_used + totalTokens.
RecordTokens(m) ==
    /\ pc[m] = "tokens"
    /\ tokensUsed' = [tokensUsed EXCEPT ![SessionOf[m]] = @ + total[m]]
    /\ Goto(m, "reply")
    /\ UNCHANGED <<iter, total, batch, next, view, lists, client>>
    /\ UNCHANGED <<log, contexts>>

Reply(m) ==
    /\ pc[m] = "reply"
    /\ Publish(m, "agent_response")
    /\ Goto(m, "replied")
    /\ UNCHANGED <<iter, total, batch, next, view, lists, tables>>

-----------------------------------------------------------------------------
(* Failures and the surroundings.                                          *)

\* A query or a Redis command throws.  In sendMessage the API request reports
\* it, with the answer it gives for a timeout; in the handler the subscription
\* callback logs it, and no event is published.
Fail(m) ==
    /\ pc[m] \notin {"idle"} \cup Ends
    /\ Goto(m, "failed")
    /\ IF Queued(m)
       THEN \E i \in DOMAIN brpops :
                brpops[i] = m /\ brpops' = Without(brpops, i)
       ELSE UNCHANGED brpops
    /\ client' = IF pc[m] \in {"listening", "stored"} /\ client[m] = Waiting
                 THEN [client EXCEPT ![m] = GaveUp] ELSE client
    /\ UNCHANGED <<iter, total, batch, next, view, llm, tool, tables>>

\* The router pushes its response: what the adapter returned and the output
\* filter let through, or an error of its own.
RouterRespond(m) ==
    /\ llm[m] = Asked
    /\ \E r \in Responses[m] : llm' = [llm EXCEPT ![m] = r]
    /\ UNCHANGED <<position, total, view, tool, brpops, tables, client>>

\* The tool execution layer pushes a result.
RunTool(m) ==
    /\ tool[m] = "requested"
    /\ tool' = [tool EXCEPT ![m] = "finished"]
    /\ UNCHANGED <<position, total, view, llm, brpops, tables, client>>

\* The session reaper deletes the context of an expired session.
DropContext(s) ==
    /\ s \in contexts
    /\ contexts' = contexts \ {s}
    /\ UNCHANGED <<position, total, view, lists, log, tokensUsed, client>>

-----------------------------------------------------------------------------
HandlerStep(m) ==
    \/ LoadContext(m) \/ Screen(m) \/ StoreRejection(m) \/ PublishBlocked(m)
    \/ LoadHistory(m) \/ Ask(m) \/ LlmResult(m) \/ LlmTimeout(m)
    \/ PublishError(m) \/ StoreCalls(m) \/ RequestApproval(m) \/ Gate(m)
    \/ Dispatch(m) \/ ToolResult(m) \/ ToolTimeout(m) \/ StoreResult(m)
    \/ StoreReply(m) \/ RecordTokens(m) \/ Reply(m)

RequestStep(m) == Listen(m) \/ SendStore(m) \/ SendPublish(m)

MessageStep(m) ==
    \/ RequestStep(m) \/ HandlerStep(m) \/ ClientTimeout(m) \/ Fail(m)
    \/ RouterRespond(m) \/ RunTool(m)

Next ==
    \/ \E m \in Messages : MessageStep(m)
    \/ \E s \in Sessions : DropContext(s)

Spec == Init /\ [][Next]_vars

(* A handler goes on when what it awaits is there, and a BRPOP at the head *)
(* of its connection times out; the gate ends (EveryCallEnds of            *)
(* ApprovalGate).  Neither the router nor the tool execution layer owes an *)
(* answer, and no user owes a message.                                     *)
FairSpec ==
    /\ Spec
    /\ \A m \in Messages : WF_vars(HandlerStep(m)) /\ WF_vars(SendPublish(m))

-----------------------------------------------------------------------------
(* Safety.                                                                 *)

Own(m, r) == r.of = m /\ r.text \in {"calls", "result", "refusal", "timeout"}

OwnRows(m) == {r \in Rows : Own(m, r)}

\* Row i of rows is a "calls" row, and the tool rows of its calls follow it.
CallsAnswered(rows, i) ==
    \A k \in 1 .. rows[i].n :
        /\ i + k <= Len(rows)
        /\ rows[i + k].role = "tool"
        /\ rows[i + k].of = rows[i].of
        /\ rows[i + k].n = k

\* A handler waits on the blocking connection exactly when it has a BRPOP
\* there, and has only one: nobody queues behind a command whose handler is
\* gone, which would hold up every session (agent-loop.ts:229, 441).
BrpopsAreWaiters ==
    /\ \A i, j \in DOMAIN brpops : brpops[i] = brpops[j] => i = j
    /\ \A m \in Messages : Queued(m) <=> pc[m] \in {"llm", "tool"}

\* Whatever became of the calls of a response, result, refusal or timeout, the
\* next request of the handler carries one tool message for each, right after
\* the assistant message that asked for them (agent-loop.ts:254-367).
RequestsAnswerEveryCall ==
    \A m \in Messages : pc[m] = "llm" =>
        \A i \in DOMAIN view[m] :
            view[m][i].of = m /\ view[m][i].text = "calls" =>
                CallsAnswered(view[m], i)

\* What the handler told the model of its calls is what the next message of
\* the session will load, in the same order, however the handlers of the
\* session interleave (agent-loop.ts:250-254, 347-351).
TranscriptMatchesMemory ==
    \A m \in Messages : pc[m] \in {"llm", "final", "reply"} =>
        Keep(log[SessionOf[m]], OwnRows(m)) = Keep(view[m], OwnRows(m))

\* If the users of a session wait for each answer and no handler failed, every
\* call in a request is answered, those of earlier messages too: a history is
\* whole as long as LIMIT cuts nothing off (agent-loop.ts:176-208).
PatientHistoryIsWhole ==
    \A m \in Messages :
        /\ pc[m] = "llm"
        /\ Len(view[m]) < MaxHistoryMessages
        /\ \A o \in Messages : SessionOf[o] = SessionOf[m] =>
              o \in Patient /\ pc[o] # "failed"
        => \A i \in DOMAIN view[m] :
              view[m][i].text = "calls" => CallsAnswered(view[m], i)

SumOver(f, S) == MapThenSumSet(LAMBDA x : f[x], S)

HandlersAt(s, steps) == {m \in Messages : SessionOf[m] = s /\ pc[m] \in steps}

\* The tokens of every answered message are in the counter of the session, and
\* nothing is counted twice, in whatever order the handlers of the session
\* update it (agent-loop.ts:381-384, 417-420).
AnsweredTokensCounted ==
    \A s \in Sessions :
        /\ SumOver(total, HandlersAt(s, {"reply", "replied"})) <= tokensUsed[s]
        /\ tokensUsed[s]
              <= SumOver(total, HandlersAt(s, {"reply", "replied", "failed"}))

\* Both: handlers of one session that overlap agree on what the session keeps of
\* them, its log and its count of tokens (agent-loop.ts:250-254, 347-384).
SessionKeepsAccounts == TranscriptMatchesMemory /\ AnsweredTokensCounted

\* A synchronous request does not miss the end of its message: it listens
\* before the message is sent, and every end but a failure publishes an event
\* (api/sessions.ts:90-92, agent-loop.ts:94, 134, 170, 233, 242, 386, 421).
EndsAreHeard ==
    \A m \in Messages :
        pc[m] \in {"replied", "blocked", "errored"} => client[m] # Waiting

-----------------------------------------------------------------------------
(* Liveness, under FairSpec.                                               *)

\* The handling of every received message ends, though router and tools may
\* never answer and all handlers share one blocking connection.
EveryMessageEnds ==
    \A m \in Messages : pc[m] = "received" ~> pc[m] \in Ends

-----------------------------------------------------------------------------
(* What the repository says of the loop and the code does not do.          *)

\* "Total token budget per session" (docs/guides/manifest-reference.md:243):
\* no request goes out for a session that has used its budget up.
BudgetStopsRequests ==
    \A m \in Messages : pc[m] = "llm" => tokensUsed[SessionOf[m]] < Budget

\* "Scrub PII from user input before sending to LLM"
\* (docs/guides/manifest-reference.md:183).
RawPiiNeverSent ==
    \A m \in Messages : pc[m] = "llm" =>
        \A i \in DOMAIN view[m] : view[m][i].text # "raw"

\* "Only analyse conversations with 3+ user messages -- short exchanges always
\* pass" (multi-turn-detector.ts:66): no flag while the session has fewer.
ShortExchangesPass ==
    \A m \in Messages :
        pc[m] = "flagging" => Cardinality(UserRows(SessionOf[m])) >= 3
=============================================================================
