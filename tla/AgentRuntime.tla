---------------------------- MODULE AgentRuntime ----------------------------
(***************************************************************************)
(* The agent runtime (agent-runtime/src): the process of one session that  *)
(* receives user messages, asks the model through Redis, has tools run     *)
(* through Redis and stores a checkpoint of the conversation.              *)
(*                                                                         *)
(* The transport calls a handler per message and does not await it, so     *)
(* handlers overlap.  They share the conversation and one connection for   *)
(* GET, BLPOP and SET, which Redis serves in order: a BLPOP of one handler *)
(* holds up the commands of the others until it is answered or times out.  *)
(* Publications have a connection of their own that never waits.           *)
(*                                                                         *)
(* The context manager returns the conversation itself while it is short,  *)
(* and a selection of it when it is long.  A handler goes on with what it  *)
(* got: with the shared array in the first case, with a copy in the second.*)
(* The conversation of a runtime holds no system messages.                 *)
(***************************************************************************)
EXTENDS Integers, SequencesExt, Subsequences

CONSTANTS
    Inputs,         \* user messages
    TokensOf,       \* TokensOf[k]: estimate for an entry of kind k
    TokenBudget,    \* maxTokens of the session's context
    RecentCount,    \* recentMessageCount of the context manager
    MaxRounds,      \* bound on the rounds of tool calls per message
    MaxToolCalls,   \* bound on the calls in a response
    MaxLosses       \* bound on lost connections

EntryKinds == {"user", "calls", "result", "final"}

ASSUME RuntimeAssumption ==
    /\ TokensOf \in [EntryKinds -> Nat]
    /\ TokenBudget \in Nat
    /\ RecentCount \in Nat
    /\ MaxRounds \in Nat
    /\ MaxToolCalls \in Nat \ {0}
    /\ MaxLosses \in Nat
    /\ "quit" \notin Inputs    \* a command, not a message

VARIABLES
    conversation,   \* session.messages
    at,             \* at[m]: the await where the handler of m is
    round,          \* round[m]: responses with tool calls so far
    toolCalls,      \* toolCalls[m]: tool calls of the last response
    call,           \* call[m]: the tool call whose result is awaited
    shared,         \* handlers whose context is the conversation itself
    copy,           \* copy[m]: the context of the others
    request,        \* request[m]: messages of the last request to the model
    pushed,         \* pushed[m]: the answer waiting in the list of m's BLPOP
    snapshot,       \* snapshot[m]: the conversation as m's SET will store it
    commands,       \* commands on the connection, the first one being served
    checkpoint,     \* session:<id>:state
    draining,
    lifecycle,      \* how far the shutdown is
    losses

handlerVars == <<at, round, toolCalls, call, shared, copy, request, snapshot>>
runtimeVars == <<conversation, handlerVars, pushed, commands, checkpoint,
                 draining, lifecycle, losses>>

Entry == [of : Inputs, kind : EntryKinds, round : 0 .. MaxRounds,
          call : 0 .. MaxToolCalls]

RuntimeTypeOK ==
    /\ conversation \in Seq(Entry)
    /\ at \in [Inputs -> {"new", "context", "model", "tool", "saving", "done",
                          "failed", "ignored"}]
    /\ round \in [Inputs -> 0 .. MaxRounds]
    /\ toolCalls \in [Inputs -> 0 .. MaxToolCalls]
    /\ call \in [Inputs -> 0 .. MaxToolCalls]
    /\ \A m \in Inputs : at[m] = "tool" => call[m] \in 1 .. toolCalls[m]
    /\ shared \subseteq Inputs
    /\ copy \in [Inputs -> Seq(Entry)]
    /\ request \in [Inputs -> Seq(Entry)]
    /\ pushed \in [Inputs -> {"none", "text", "empty", "calls", "result",
                               "malformed"}]
    /\ snapshot \in [Inputs -> Seq(Entry)]
    /\ commands \in Seq(Inputs \cup {"quit"})
    /\ checkpoint \in Seq(Entry)
    /\ draining \in BOOLEAN
    /\ lifecycle \in {"up", "unsubscribed", "unpublishing", "quitting", "exited"}
    /\ losses \in 0 .. MaxLosses

RuntimeInit ==
    /\ conversation = <<>>
    /\ at = [m \in Inputs |-> "new"]
    /\ round = [m \in Inputs |-> 0]
    /\ toolCalls = [m \in Inputs |-> 0]
    /\ call = [m \in Inputs |-> 0]
    /\ shared = {}
    /\ copy = [m \in Inputs |-> <<>>]
    /\ request = [m \in Inputs |-> <<>>]
    /\ pushed = [m \in Inputs |-> "none"]
    /\ snapshot = [m \in Inputs |-> <<>>]
    /\ commands = <<>>
    /\ checkpoint = <<>>
    /\ draining = FALSE
    /\ lifecycle = "up"
    /\ losses = 0

-----------------------------------------------------------------------------
(* The context manager.                                                    *)

Tokens(s) ==
    LET sum[i \in 0 .. Len(s)] ==
            IF i = 0 THEN 0 ELSE sum[i - 1] + TokensOf[s[i].kind]
    IN  sum[Len(s)]

LastOf(s, n) == SubSeq(s, Len(s) - n + 1, Len(s))

(* The longest end of s that fits: the loops over messages from the newest.*)
Newest(s, budget) ==
    LET fits == {n \in 0 .. Len(s) : Tokens(LastOf(s, n)) <= budget}
    IN  LastOf(s, CHOOSE n \in fits \cup {0} : \A k \in fits : k <= n)

IsShort(s) == 4 * Tokens(s) <= 3 * TokenBudget

ToolRelated == [of : Inputs, kind : {"calls", "result"}, round : 0 .. MaxRounds,
                call : 0 .. MaxToolCalls]

Window(s) == LastOf(s, IF Len(s) < RecentCount THEN Len(s) ELSE RecentCount)

\* Mutant: a selection without the last truncation.
PrepareUntruncated(s) ==
    LET recent == Window(s)
        middle == Kept(s, ToolRelated)[Len(s) - Len(recent)]
    IN  Newest(middle, TokenBudget - Tokens(recent)) \o recent

(* What SmartContextManager.prepare selects from a long conversation.      *)
Prepare(s) ==
    LET recent == Window(s)
        middle == Kept(s, ToolRelated)[Len(s) - Len(recent)]
        kept   == Newest(middle, TokenBudget - Tokens(recent))
    IN  IF Tokens(kept \o recent) <= TokenBudget
        THEN kept \o recent ELSE Newest(recent, TokenBudget)

-----------------------------------------------------------------------------
(* Helpers of the actions.                                                 *)

Publishing == lifecycle \in {"up", "unsubscribed"}

Served(m) == /\ commands # <<>> /\ commands[1] = m
             /\ lifecycle # "exited"

(* The command of m has been answered and m issues its next one, or none.  *)
ThenAwait(m, place) ==
    /\ at' = [at EXCEPT ![m] = place]
    /\ commands' = Append(Tail(commands), m)

ThenEnd(m, place) ==
    /\ at' = [at EXCEPT ![m] = place]
    /\ commands' = Tail(commands)

\* Mutant: a result that is logged and not shown to the model.
LogResult(m) ==
    LET e == [of |-> m, kind |-> "result", round |-> round[m], call |-> call[m]]
    IN  conversation' = Append(conversation, e) /\ UNCHANGED copy

(* session.addMessage and, for tool results, messages.push: both go into   *)
(* the conversation where the handler's context is the conversation.       *)
AddResult(m) ==
    LET e == [of |-> m, kind |-> "result", round |-> round[m], call |-> call[m]]
    IN  /\ conversation' = conversation \o
               (IF m \in shared THEN <<e, e>> ELSE <<e>>)
        /\ copy' = [copy EXCEPT ![m] = IF m \in shared THEN @ ELSE Append(@, e)]

(* A publication rejects after the shutdown of its connection; so does the *)
(* report of that error, and the handler is over.                          *)
CannotPublish(m) ==
    /\ ~Publishing
    /\ ThenEnd(m, "failed")
    /\ UNCHANGED <<round, toolCalls, call, request, snapshot>>

-----------------------------------------------------------------------------
(* The handler of one message.                                             *)

Receive(m) ==
    /\ at[m] = "new" /\ lifecycle = "up"
    /\ IF draining
       THEN /\ at' = [at EXCEPT ![m] = "ignored"]
            /\ UNCHANGED <<conversation, commands>>
       ELSE /\ at' = [at EXCEPT ![m] = "context"]
            /\ conversation' = Append(conversation,
                  [of |-> m, kind |-> "user", round |-> 0, call |-> 0])
            /\ commands' = Append(commands, m)
    /\ UNCHANGED <<round, toolCalls, call, shared, copy, request, pushed,
                   snapshot, checkpoint, draining, lifecycle, losses>>

(* The session's context is read, the messages are prepared, and the first *)
(* request goes out.                                                       *)
AskFirst(m) ==
    /\ at[m] = "context" /\ Served(m)
    /\ IF IsShort(conversation)
       THEN shared' = shared \cup {m} /\ UNCHANGED copy
       ELSE copy' = [copy EXCEPT ![m] = Prepare(conversation)] /\ UNCHANGED shared
    /\ \/ CannotPublish(m)
       \/ /\ Publishing
          /\ request' = [request EXCEPT ![m] = IF IsShort(conversation)
                            THEN conversation ELSE Prepare(conversation)]
          /\ ThenAwait(m, "model")
          /\ UNCHANGED <<round, toolCalls, call, snapshot>>
    /\ UNCHANGED <<conversation, pushed, checkpoint, draining, lifecycle, losses>>

(* The final response, with or without text, and the SET of the checkpoint.*)
FinishSaving(m, stored) ==
    /\ at[m] = "model" /\ Served(m) /\ pushed[m] \in {"text", "empty"}
    /\ pushed' = [pushed EXCEPT ![m] = "none"]
    /\ conversation' = IF pushed[m] = "empty" THEN conversation
                       ELSE Append(conversation, [of |-> m, kind |-> "final",
                                              round |-> round[m], call |-> 0])
    /\ \/ CannotPublish(m) /\ pushed[m] = "text"
       \/ /\ Publishing \/ pushed[m] = "empty"
          /\ snapshot' = [snapshot EXCEPT ![m] = stored]
          /\ ThenAwait(m, "saving")
          /\ UNCHANGED <<round, toolCalls, call, request>>
    /\ UNCHANGED <<shared, copy, checkpoint, draining, lifecycle, losses>>

\* Mutant: a checkpoint of the messages sent, not of the conversation.
FinishWithRequest(m) == FinishSaving(m, request[m])

Finish(m) == FinishSaving(m, conversation')

\* Mutant: a BLPOP with timeout 0, which waits for ever.
NoModelTimeout(m) == FALSE

(* No response in time: the client is told, and the checkpoint is stored.  *)
ModelTimeout(m) ==
    /\ at[m] = "model" /\ Served(m) /\ pushed[m] = "none"
    /\ \/ CannotPublish(m)
       \/ /\ Publishing
          /\ snapshot' = [snapshot EXCEPT ![m] = conversation]
          /\ ThenAwait(m, "saving")
          /\ UNCHANGED <<round, toolCalls, call, request>>
    /\ UNCHANGED <<conversation, shared, copy, pushed, checkpoint, draining,
                   lifecycle, losses>>

(* A response with tool calls: the first call is published.                *)
CallTools(m) ==
    /\ at[m] = "model" /\ Served(m) /\ pushed[m] = "calls"
    /\ pushed' = [pushed EXCEPT ![m] = "none"]
    /\ conversation' = Append(conversation, [of |-> m, kind |-> "calls",
                                          round |-> round[m], call |-> 0])
    /\ \/ CannotPublish(m)
       \/ /\ Publishing
          /\ \E n \in 1 .. MaxToolCalls : toolCalls' = [toolCalls EXCEPT ![m] = n]
          /\ call' = [call EXCEPT ![m] = 1]
          /\ ThenAwait(m, "tool")
          /\ UNCHANGED <<round, request, snapshot>>
    /\ UNCHANGED <<shared, copy, checkpoint, draining, lifecycle, losses>>

(* A result, or none in time: the next call goes out, or the next request. *)
NextCallAfter(m, isLast) ==
    /\ at[m] = "tool" /\ Served(m) /\ pushed[m] \in {"none", "result"}
    /\ pushed' = [pushed EXCEPT ![m] = "none"]
    /\ AddResult(m)
    /\ \/ CannotPublish(m)
       \/ /\ Publishing /\ ~isLast
          /\ call' = [call EXCEPT ![m] = @ + 1]
          /\ ThenAwait(m, "tool")
          /\ UNCHANGED <<round, toolCalls, request, snapshot>>
       \/ /\ Publishing /\ isLast
          /\ round' = [round EXCEPT ![m] = @ + 1]
          /\ request' = [request EXCEPT ![m] =
                            IF m \in shared THEN conversation' ELSE copy'[m]]
          /\ ThenAwait(m, "model")
          /\ UNCHANGED <<toolCalls, call, snapshot>>
    /\ UNCHANGED <<shared, checkpoint, draining, lifecycle, losses>>

\* Mutant: a loop that goes one call too far.
TakeOneMore(m) == NextCallAfter(m, call[m] > toolCalls[m])

TakeResult(m) == NextCallAfter(m, call[m] = toolCalls[m])

(* A response or result that does not parse: the handler reports an error. *)
Malformed(m) ==
    /\ at[m] \in {"model", "tool"} /\ Served(m) /\ pushed[m] = "malformed"
    /\ pushed' = [pushed EXCEPT ![m] = "none"]
    /\ ThenEnd(m, "failed")
    /\ UNCHANGED <<conversation, round, toolCalls, call, shared, copy, request,
                   snapshot, checkpoint, draining, lifecycle, losses>>

Save(m) ==
    /\ at[m] = "saving" /\ Served(m)
    /\ checkpoint' = snapshot[m]
    /\ ThenEnd(m, "done")
    /\ UNCHANGED <<conversation, round, toolCalls, call, shared, copy, request,
                   pushed, snapshot, draining, lifecycle, losses>>

(* Redis stays away for longer than the client retries: every command that *)
(* waits is rejected, and its handler reports an error.                    *)
LoseConnection ==
    /\ losses < MaxLosses /\ commands # <<>> /\ lifecycle # "exited"
    /\ losses' = losses + 1
    /\ at' = [m \in Inputs |-> IF m \in ToSet(commands) THEN "failed" ELSE at[m]]
    /\ commands' = <<>>
    /\ lifecycle' = IF "quit" \in ToSet(commands) THEN "exited" ELSE lifecycle
    /\ UNCHANGED <<conversation, round, toolCalls, call, shared, copy, request,
                   pushed, snapshot, checkpoint, draining>>

-----------------------------------------------------------------------------
(* The router and the tool layer, at the other end of Redis.               *)

Answer(m) ==
    /\ at[m] = "model" /\ pushed[m] = "none"
    /\ \E a \in {"text", "empty", "malformed"}
                  \cup (IF round[m] < MaxRounds THEN {"calls"} ELSE {}) :
           pushed' = [pushed EXCEPT ![m] = a]
    /\ UNCHANGED <<conversation, handlerVars, commands, checkpoint, draining,
                   lifecycle, losses>>

Execute(m) ==
    /\ at[m] = "tool" /\ pushed[m] = "none"
    /\ \E a \in {"result", "malformed"} : pushed' = [pushed EXCEPT ![m] = a]
    /\ UNCHANGED <<conversation, handlerVars, commands, checkpoint, draining,
                   lifecycle, losses>>

-----------------------------------------------------------------------------
(* The end of the process.                                                 *)

(* A control message, 'drain' or 'terminate': no other message is taken.   *)
Drain ==
    /\ ~draining /\ lifecycle = "up"
    /\ draining' = TRUE
    /\ UNCHANGED <<conversation, handlerVars, pushed, commands, checkpoint,
                   lifecycle, losses>>

(* SIGTERM closes the connections one after the other: subscriptions,      *)
(* publications, commands.  The last QUIT queues up behind the commands of *)
(* the handlers.                                                           *)
Sigterm ==
    /\ lifecycle = "up"
    /\ draining' = TRUE /\ lifecycle' = "unsubscribed"
    /\ UNCHANGED <<conversation, handlerVars, pushed, commands, checkpoint, losses>>

Unpublish ==
    /\ lifecycle = "unsubscribed" /\ lifecycle' = "unpublishing"
    /\ UNCHANGED <<conversation, handlerVars, pushed, commands, checkpoint,
                   draining, losses>>

Quit ==
    /\ lifecycle = "unpublishing" /\ lifecycle' = "quitting"
    /\ commands' = Append(commands, "quit")
    /\ UNCHANGED <<conversation, handlerVars, pushed, checkpoint, draining, losses>>

(* The QUIT is served: what was issued after it is rejected.               *)
RuntimeExits ==
    /\ lifecycle = "quitting" /\ Served("quit")
    /\ lifecycle' = "exited" /\ commands' = <<>>
    /\ at' = [m \in Inputs |-> IF m \in ToSet(commands) THEN "failed" ELSE at[m]]
    /\ UNCHANGED <<conversation, round, toolCalls, call, shared, copy, request,
                   pushed, snapshot, checkpoint, draining, losses>>

-----------------------------------------------------------------------------

(* The connection serves its first command; a BLPOP is over in time.       *)
Serve ==
    \/ \E m \in Inputs : \/ AskFirst(m) \/ Finish(m) \/ ModelTimeout(m)
                         \/ CallTools(m) \/ TakeResult(m) \/ Malformed(m)
                         \/ Save(m)
    \/ RuntimeExits

RuntimeNext ==
    \/ Serve
    \/ \E m \in Inputs : Receive(m) \/ Answer(m) \/ Execute(m)
    \/ LoseConnection \/ Drain \/ Sigterm \/ Unpublish \/ Quit

RuntimeSpec == RuntimeInit /\ [][RuntimeNext]_runtimeVars

(* Redis serves, BLPOP has a time limit, and QUITs are answered; no answer *)
(* of the model or of a tool is promised.                                  *)
RuntimeFairness ==
    WF_runtimeVars(Serve) /\ WF_runtimeVars(Unpublish) /\ WF_runtimeVars(Quit)

-----------------------------------------------------------------------------
(* Properties.                                                             *)

IsResult(e, m) == e.of = m /\ e.kind = "result"

\* A request after tool calls shows the model a result of each of them, those
\* that timed out included, whether the handler works on the conversation or on
\* a selection of it (runtime.ts:106-138).
RequestShowsResults ==
    \A m \in Inputs : at[m] = "model" =>
        \A e \in ToSet(conversation) : IsResult(e, m) => e \in ToSet(request[m])

\* What is selected from a long conversation fits the budget, keeps the order,
\* and keeps the recent messages whole when they fit (context-manager.ts:71-148).
ContextFits ==
    LET s == Prepare(conversation)
    IN  ~IsShort(conversation) =>
            /\ Tokens(s) <= TokenBudget
            /\ Tokens(Window(conversation)) <= TokenBudget
                   => IsSuffix(Window(conversation), s)

\* Both: what is selected for the model fits, and shows what was just done
\* (runtime.ts:52-138, context-manager.ts:71-148).
RequestIsSound == RequestShowsResults /\ ContextFits

\* A checkpoint never forgets: each one stored continues the one before, though
\* overlapping handlers store theirs in the order they come to it
\* (runtime.ts:157-161).
CheckpointGrows == [][IsPrefix(checkpoint, checkpoint')]_runtimeVars

\* The exchange of a message that is done is in the checkpoint, whichever
\* handler stored it last (runtime.ts:157-161).
DoneIsSaved ==
    \A m \in Inputs : at[m] = "done" =>
        \A e \in ToSet(conversation) : e.of = m => e \in ToSet(checkpoint)

\* Each message that is received is dealt with: answered, reported as an error
\* or cut off by the end of the process; a model or a tool that never answers
\* holds up nobody for ever (runtime.ts:79-92, 114-121).
EveryInputEnds ==
    \A m \in Inputs :
        at[m] = "context" ~> at[m] \in {"done", "failed"}

\* A SIGTERM ends the process, although its last QUIT waits behind the commands
\* of the handlers (runtime.ts:175-180).
SigtermEnds == lifecycle = "unsubscribed" ~> lifecycle = "exited"

\* Both: whatever the model and the tools do, handlers and shutdown get through
\* the one connection they share (transport.ts:46-70).
RuntimeEnds == EveryInputEnds /\ SigtermEnds
=============================================================================
