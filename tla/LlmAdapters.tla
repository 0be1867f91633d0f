---------------------------- MODULE LlmAdapters ----------------------------
(***************************************************************************)
(* The adapters of the LLM router (llm/adapters): how a conversation is    *)
(* written in the format of a provider, and how the provider's answer is   *)
(* read.  A behaviour is one session with one provider: people speak, the  *)
(* agent loop asks, the router's adapter translates both ways.             *)
(*                                                                         *)
(* A text is a sequence of pieces, so that streamed chunks can be joined;  *)
(* a tool call is its id and its name.  Ids that the adapter makes from    *)
(* the clock stand for the number of the answer and the place in it:       *)
(* answers to one session are at least a millisecond apart.                *)
(***************************************************************************)
EXTENDS Naturals, Subsequences, FiniteSets

CONSTANTS Providers,     \* of the seven that the router knows
          MaxMessages,   \* rows of the conversation, a bound of the model
          HistoryWindow  \* MAX_HISTORY_MESSAGES

ASSUME AdaptersAssumption ==
    /\ Providers \subseteq {"anthropic", "bedrock", "vertex", "openai", "azure",
                            "gemini", "ollama"}
    /\ MaxMessages \in Nat /\ HistoryWindow \in Nat \ {0}

VARIABLES provider,   \* the one that the agent's model names
          rows,       \* session_messages
          view,       \* the messages array of the handler
          exchange,   \* what the handler waits for
          heard,      \* the answers that the loop took up, as the provider gave them
          cutAt,      \* rows after which a handler was lost
          chunks,     \* llm:<session>:stream:<id>, the pieces pushed so far
          accessToken \* VertexAdapter.cachedToken

adapterVars ==
    <<provider, rows, view, exchange, heard, cutAt, chunks, accessToken>>

Null == <<"null">>      \* JSON.stringify(null)
Word == <<"word">>
Twice == <<"word", "word">>
Masked == <<"masked">> \* a text as the output filter leaves it, if it finds something
NoId == 0
None == [id |-> NoId, name |-> "none"]

User(text) == [role |-> "user", text |-> text, calls |-> <<>>, of |-> None]
Assistant(text, calls) ==
    [role |-> "assistant", text |-> text, calls |-> calls, of |-> None]
Result(call) == [role |-> "tool", text |-> Word, calls |-> <<>>, of |-> call]

Claude == {"anthropic", "bedrock", "vertex"}
-----------------------------------------------------------------------------
(* The formats.  An entry has what the format can carry: a reference to a  *)
(* call (its id, or in Gemini a name that is the id), a text, calls.       *)

Entry(as, text, calls, ref) ==
    [role |-> as, text |-> text, calls |-> calls, ref |-> ref]

IdsAndNames(calls) == calls
NamesOnly(calls) == [i \in DOMAIN calls |-> [calls[i] EXCEPT !.id = NoId]]

AnthropicEntry(m) ==
    CASE m.role = "tool" -> Entry("user", m.text, <<>>, m.of.id)
      [] m.role = "assistant" -> Entry("assistant", m.text, IdsAndNames(m.calls), NoId)
      [] m.role = "user" -> Entry("user", m.text, <<>>, NoId)

BedrockEntry(m) == AnthropicEntry(m)

VertexEntry(m) == AnthropicEntry(m)

\* Mutated: the result does not name its call.
OpenAIEntryUnknown(m) ==
    Entry(m.role, m.text, IF m.role = "assistant" THEN m.calls ELSE <<>>, NoId)

OpenAIEntry(m) ==
    CASE m.role = "tool" -> Entry("tool", m.text, <<>>, m.of.id)
      [] m.role = "assistant" -> Entry("assistant", m.text, IdsAndNames(m.calls), NoId)
      [] m.role = "user" -> Entry("user", m.text, <<>>, NoId)

GeminiEntry(m) ==
    CASE m.role = "tool" -> Entry("user", m.text, <<>>, m.of.id)
      [] m.role = "assistant" -> Entry("model", m.text, NamesOnly(m.calls), NoId)
      [] m.role = "user" -> Entry("user", m.text, <<>>, NoId)

OllamaEntry(m) == Entry(m.role, m.text, <<>>, NoId)

EntryOf(m) ==
    CASE provider = "anthropic" -> AnthropicEntry(m)
      [] provider = "bedrock" -> BedrockEntry(m)
      [] provider = "vertex" -> VertexEntry(m)
      [] provider \in {"openai", "azure"} -> OpenAIEntry(m)
      [] provider = "gemini" -> GeminiEntry(m)
      [] provider = "ollama" -> OllamaEntry(m)

Wire == [i \in DOMAIN view |-> EntryOf(view[i])]
-----------------------------------------------------------------------------
(* The answers.  What a provider gives has a text, calls with their names  *)
(* (and its own ids, which are the ones below), and a reason to stop.  A   *)
(* text is flagged when the output filter finds something in it, under the *)
(* manifest of that moment.  OpenAI can say that there is no text.         *)

Names == {"a", "b"}
CallsFor(names) ==
    [i \in DOMAIN names |-> [id |-> 2 * Len(heard) + i, name |-> names[i]]]

Answers ==
    {a \in [text: {<<>>, Word, Twice, Null},
            calls: {CallsFor(n) : n \in {<<>>, <<"a">>, <<"b", "a">>}},
            reason: {"calls", "stop", "length", "safety"}, flagged: BOOLEAN] :
        /\ a.text = Twice => exchange = "streaming"
        /\ a.text = Null => provider \in {"openai", "azure"}
        /\ a.flagged => a.text \in {Word, Twice}
        /\ a.reason = "calls" => a.calls # <<>> /\ provider \notin {"gemini", "ollama"}
        /\ a.reason = "stop" => a.calls = <<>> \/ provider \in {"gemini", "ollama"}
        /\ a.reason = "safety" => provider = "gemini"}

Reply(text, calls, finish) == [text |-> text, calls |-> calls, finish |-> finish]

(* An empty text becomes null, but for those of OpenAI and Ollama, which   *)
(* leave it.                                                               *)
OrNull(text) == IF text = <<>> THEN Null ELSE text

\* Mutated: ids by the place of the call in its answer.
AnthropicReplyByPlace(a) ==
    Reply(OrNull(a.text), [i \in DOMAIN a.calls |-> [a.calls[i] EXCEPT !.id = i]],
          IF a.reason = "calls" THEN "tool_calls" ELSE "stop")

AnthropicReply(a) ==
    Reply(OrNull(a.text), a.calls,
          CASE a.reason = "calls" -> "tool_calls"
            [] a.reason = "length" -> "length"
            [] OTHER -> "stop")

BedrockReply(a) == AnthropicReply(a)

VertexReply(a) == AnthropicReply(a)

OpenAIReply(a) ==
    Reply(a.text, a.calls,
          CASE a.reason = "calls" -> "tool_calls"
            [] a.reason = "length" -> "length"
            [] OTHER -> "stop")

GeminiReply(a) ==
    Reply(OrNull(a.text), a.calls,
          CASE a.calls # <<>> -> "tool_calls"
            [] a.calls = <<>> /\ a.reason = "length" -> "length"
            [] a.calls = <<>> /\ a.reason = "safety" -> "error"
            [] OTHER -> "stop")

OllamaReply(a) ==
    Reply(a.text, a.calls, IF a.calls # <<>> THEN "tool_calls" ELSE "stop")

(* A stream's text is what its chunks make together.                       *)
OllamaStreamReply(a) == Reply(OrNull(a.text), a.calls,
                              IF a.calls # <<>> THEN "tool_calls" ELSE "stop")

ReplyOf(a) ==
    CASE provider = "anthropic" -> AnthropicReply(a)
      [] provider = "bedrock" -> BedrockReply(a)
      [] provider = "vertex" -> VertexReply(a)
      [] provider \in {"openai", "azure"} -> OpenAIReply(a)
      [] provider = "gemini" -> GeminiReply(a)
      [] provider = "ollama" -> OllamaReply(a)

\* Mutated: the filter takes what it altered for an answer without calls.
FilteredWhole(a, reply) ==
    IF reply.text # Null /\ a.flagged THEN Reply(Masked, <<>>, "stop") ELSE reply

(* LLMRouter.applyOutputFilter, on the adapter's reply: personal data and  *)
(* credentials are replaced, so is what the manifest blocks, and a text    *)
(* above its limit is cut.  Calls stay as they are.                        *)
Filtered(a, reply) ==
    [reply EXCEPT !.text = IF @ # Null /\ a.flagged THEN Masked ELSE @]
-----------------------------------------------------------------------------
(* The session.                                                            *)

Outstanding(log) ==
    LET open == {i \in DOMAIN log : log[i].role = "assistant" /\ log[i].calls # <<>>
                                    /\ \A j \in i+1..Len(log) : log[j].role = "tool"}
    IN  {log[i].calls[Len(log) - i + 1] : i \in
            {k \in open : Len(log) - k < Len(log[k].calls)}}

AdaptersInit ==
    /\ provider \in Providers
    /\ rows = <<>> /\ view = <<>> /\ exchange = "idle"
    /\ heard = <<>> /\ cutAt = {} /\ chunks = <<>> /\ accessToken = "none"

LastRows(log) == SubSeq(log, Len(log) - HistoryWindow + 1, Len(log))
Loaded(log) == IF Len(log) <= HistoryWindow THEN log ELSE LastRows(log)

(* A person writes; the loop loads the end of the history.                 *)
Speak ==
    /\ exchange = "idle" /\ Len(rows) + 2 <= MaxMessages
    /\ rows' = Append(rows, User(Word))
    /\ view' = Loaded(rows')
    /\ exchange' = "asking"
    /\ UNCHANGED <<provider, heard, cutAt, chunks, accessToken>>

Send(next) ==
    /\ exchange = "asking" /\ exchange' = next /\ chunks' = <<>>
    /\ UNCHANGED <<provider, rows, view, heard, cutAt>>

(* handleRequest hands the request to the adapter.  Only Vertex needs a    *)
(* token first, and asks for one when it has none that is fresh.           *)
AskProvider ==
    /\ provider = "vertex" => accessToken = "fresh"
    /\ Send("sent")
    /\ UNCHANGED accessToken

FetchToken ==
    /\ provider = "vertex" /\ accessToken # "fresh" /\ exchange = "asking"
    /\ accessToken' = "fresh"
    /\ UNCHANGED <<provider, rows, view, exchange, heard, cutAt, chunks>>

TokenAges ==
    /\ accessToken = "fresh" /\ accessToken' = "stale"
    /\ UNCHANGED <<provider, rows, view, exchange, heard, cutAt, chunks>>

(* Ollama: a model that is missing is pulled, and the request sent again,  *)
(* once.                                                                   *)
AutoPull ==
    /\ provider = "ollama" /\ exchange = "sent"
    /\ exchange' = "resent"
    /\ UNCHANGED <<provider, rows, view, heard, cutAt, chunks, accessToken>>

(* A streamed answer: each piece is pushed on a list of its own.           *)
AskStream ==
    /\ provider = "ollama"
    /\ Send("streaming")
    /\ UNCHANGED accessToken

Chunk ==
    /\ exchange = "streaming" /\ Len(chunks) < 2
    /\ chunks' = Append(chunks, "word")
    /\ UNCHANGED <<provider, rows, view, exchange, heard, cutAt, accessToken>>

(* What the loop does with the adapter's reply.                            *)
TakeUp(a, reply) ==
    LET entry == IF reply.finish = "tool_calls" /\ reply.calls # <<>>
                 THEN Assistant(IF reply.text = Null THEN <<>> ELSE reply.text, reply.calls)
                 ELSE Assistant(reply.text, <<>>)
    IN  IF reply.finish = "error"
        THEN /\ exchange' = "idle" /\ UNCHANGED <<rows, view, heard>>
        ELSE /\ rows' = Append(rows, entry) /\ view' = Append(view, entry)
             /\ heard' = Append(heard, a)
             /\ exchange' = IF entry.calls = <<>> THEN "idle" ELSE "tools"

Answer ==
    /\ exchange \in {"sent", "resent"}
    /\ \E a \in Answers :
        /\ Len(rows) + 1 + Len(a.calls) <= MaxMessages
        /\ TakeUp(a, Filtered(a, ReplyOf(a)))
    /\ UNCHANGED <<provider, cutAt, chunks, accessToken>>

StreamEnds ==
    /\ exchange = "streaming"
    /\ \E a \in Answers :
        /\ a.text = chunks /\ Len(rows) + 1 + Len(a.calls) <= MaxMessages
        /\ TakeUp(a, Filtered(a, OllamaStreamReply(a)))
    /\ UNCHANGED <<provider, cutAt, chunks, accessToken>>

(* The adapter throws: a status, no choice or candidate, no token, no      *)
(* model; the router answers with an error, and the loop ends the message. *)
AdapterThrows ==
    /\ exchange \in {"asking", "sent", "resent", "streaming"}
    /\ exchange' = "idle"
    /\ UNCHANGED <<provider, rows, view, heard, cutAt, chunks, accessToken>>

(* A tool result; after the last one the loop asks again.                  *)
ToolResult ==
    /\ exchange = "tools"
    /\ \E call \in Outstanding(rows) :
        /\ rows' = Append(rows, Result(call)) /\ view' = Append(view, Result(call))
    /\ exchange' = IF Outstanding(rows') = {} THEN "asking" ELSE "tools"
    /\ UNCHANGED <<provider, heard, cutAt, chunks, accessToken>>

(* The handler is lost between two tool results.                           *)
HandlerLost ==
    /\ exchange = "tools"
    /\ exchange' = "idle" /\ cutAt' = cutAt \cup {Len(rows)}
    /\ UNCHANGED <<provider, rows, view, heard, chunks, accessToken>>

AdaptersNext ==
    \/ Speak \/ AskProvider \/ FetchToken \/ TokenAges \/ AutoPull \/ AskStream
    \/ Chunk \/ Answer \/ StreamEnds \/ AdapterThrows \/ ToolResult \/ HandlerLost

AdaptersSpec == AdaptersInit /\ [][AdaptersNext]_adapterVars
-----------------------------------------------------------------------------
Exchanges == {"idle", "asking", "sent", "resent", "streaming", "tools"}
Messages ==
    [role: {"user", "assistant", "tool"}, text: Seq({"word", "null", "masked"}),
     calls: Seq([id: Nat \ {NoId}, name: Names]),
     of: [id: Nat, name: Names \cup {"none"}]]

\* Types; the array of a handler is the end of what is stored (agent-loop.ts:176-208),
\* and tools are worked on exactly while calls lack results.
AdaptersTypeOK ==
    /\ provider \in Providers /\ exchange \in Exchanges
    /\ rows \in Seq(Messages) /\ Len(rows) <= MaxMessages
    /\ \E i \in 0..Len(rows) : view = SubSeq(rows, i + 1, Len(rows))
    /\ cutAt \subseteq 1..Len(rows)
    /\ accessToken \in {"none", "fresh", "stale"}
    /\ exchange = "tools" => Outstanding(rows) # {}

\* The entries of a request that are the provider's own.
OwnEntries ==
    [role: {"assistant", "model"}, text: Seq({"word", "null", "masked"}),
     calls: Seq([id: Nat, name: Names]), ref: Nat]

Said == Keep(Wire, OwnEntries)

\* What a format can say of calls: Gemini has no ids, the request to Ollama no
\* calls at all.
Carried(calls) ==
    CASE provider = "gemini" -> NamesOnly(calls)
      [] provider = "ollama" -> <<>>
      [] OTHER -> calls

\* The words of an answer, as the output filter lets them through.
Spoken(a) == IF a.flagged THEN Masked ELSE a.text

\* A provider is shown its own answers in the order it gave them: words as it said
\* them, unless the output filter altered these, calls with the ids it gave, and no
\* call it did not make.  Only the calls of an answer that was cut short are left
\* out, and what is altered in a text loses none (the adapters' complete,
\* router.ts:276, 318-391, agent-loop.ts:231-246, 368-377).
EchoesAnswers ==
    LET first == Len(heard) - Len(Said)
    IN  \A k \in DOMAIN Said :
            LET a == heard[first + k]
            IN  /\ a.text \in {Word, Twice} => Said[k].text = Spoken(a)
                /\ \/ Said[k].calls = Carried(a.calls)
                   \/ Said[k].calls = <<>> /\ a.reason = "length" /\ provider # "gemini"

Answered(i) == {j \in i+1..Len(Wire) : \A k \in i+1..j : Wire[k].ref # NoId}
LostAt(i) == \E c \in cutAt : /\ c >= Len(rows) - Len(view) + i
                              /\ c < Len(rows) - Len(view) + i + Len(Wire[i].calls)

\* In a request to a provider with ids, each call is followed by its result and
\* each result follows its call.  Two things break this: a handler lost among
\* its tools leaves calls unanswered for ever, and the window of the history may
\* begin between a call and its results.
ResultsAnswerCalls ==
    exchange \in {"sent", "resent"} /\ provider \notin {"gemini", "ollama"} =>
        /\ \A i \in DOMAIN Wire :
            LostAt(i) \/ LET results == Answered(i)
                         IN  /\ Cardinality(results) >= Len(Wire[i].calls)
                             /\ \A c \in DOMAIN Wire[i].calls :
                                    \E j \in results : Wire[j].ref = Wire[i].calls[c].id
        /\ \A j \in DOMAIN Wire : Wire[j].ref # NoId =>
            \/ \A k \in 1..j : Wire[k].ref # NoId
            \/ \E i \in 1..j-1 : /\ j \in Answered(i)
                                 /\ \E c \in DOMAIN Wire[i].calls :
                                        Wire[i].calls[c].id = Wire[j].ref

\* Both: what a provider is sent is the conversation it took part in, but for what
\* the filter hides from it, so that it takes the request and can go on with it (the
\* adapters' complete, agent-loop.ts:173-208).
ConversationSurvives == EchoesAnswers /\ ResultsAnswerCalls
=============================================================================
