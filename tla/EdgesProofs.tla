----------------------------- MODULE EdgesProofs -----------------------------
(***************************************************************************)
(* Proofs about the model adapters, and about the parts of MCEdges side by *)
(* side: each behaviour of MCEdges is a behaviour of every part, so what   *)
(* is proved of a part holds of it too.                                    *)
(***************************************************************************)
EXTENDS MCEdges, WorkspaceProofs, ChannelProofs

-----------------------------------------------------------------------------
(* What an adapter is told and what it takes up, for any providers and any *)
(* bounds on the conversation and on the window of the history.            *)
(*                                                                         *)
(* TalkRowsInv says whose call each tool result answers, and of each answer *)
(* with calls that it has all its results, was cut short by the loss of    *)
(* its handler, or is being worked on; EchoInv that the answers of the     *)
(* conversation are those that the loop took up, one by one.               *)

MadeCalls == [id : Nat \ {NoId}, name : Names]

TextsGiven == {<<>>, Word, Twice, Null}

Gave == [text : TextsGiven, calls : Seq(MadeCalls),
         reason : {"calls", "stop", "length", "safety"}, flagged : BOOLEAN]

\* After the answer at i there are tool results only, up to j.
ToolsUpTo(log, i, j) == \A k \in i + 1 .. j : log[k].role = "tool"

\* The row at j is the result of a call of the answer at i.
ResultOf(log, i, j) ==
    /\ log[i].role = "assistant" /\ j - i <= Len(log[i].calls)
    /\ log[j].of = log[i].calls[j - i] /\ ToolsUpTo(log, i, j)

HasOwner(log, j) == \E i \in 1 .. j - 1 : ResultOf(log, i, j)

AllAnswered(log, i) ==
    /\ i + Len(log[i].calls) <= Len(log)
    /\ ToolsUpTo(log, i, i + Len(log[i].calls))

CutShort(log, i, cuts) == \E c \in cuts : i <= c /\ c < i + Len(log[i].calls)

Underway(log, i) == Len(log) < i + Len(log[i].calls) /\ ToolsUpTo(log, i, Len(log))

RowsFit(log, cuts, working) ==
    /\ \A j \in 1 .. Len(log) :
           /\ log[j].role # "assistant" => log[j].calls = <<>>
           /\ log[j].role = "tool" => HasOwner(log, j)
           /\ log[j].calls # <<>> =>
                  \/ AllAnswered(log, j) \/ CutShort(log, j, cuts)
                  \/ working /\ Underway(log, j)
    /\ working =>
           \E i \in 1 .. Len(log) :
               Underway(log, i) /\ i + Len(log[i].calls) <= MaxMessages

TalkRowsInv ==
    /\ provider \in Providers /\ exchange \in Exchanges
    /\ accessToken \in {"none", "fresh", "stale"}
    /\ exchange = "streaming" => provider = "ollama"
    /\ rows \in Seq(Messages) /\ Len(rows) <= MaxMessages
    /\ cutAt \subseteq 1 .. Len(rows)
    /\ \E v \in 0 .. Len(rows) : view = SubSeq(rows, v + 1, Len(rows))
    /\ RowsFit(rows, cutAt, exchange = "tools")

AnswerRows == {m \in Messages : m.role = "assistant"}

\* What an answer became in the conversation, as the format of the provider shows it.
Echoes(a, m) ==
    /\ a.text \in {Word, Twice} => m.text = Spoken(a)
    /\ \/ Carried(m.calls) = Carried(a.calls)
       \/ Carried(m.calls) = <<>> /\ a.reason = "length" /\ provider # "gemini"

EchoInv ==
    /\ heard \in Seq(Gave) /\ Len(Keep(rows, AnswerRows)) = Len(heard)
    /\ \A k \in 1 .. Len(heard) : Echoes(heard[k], Keep(rows, AnswerRows)[k])

TalkInv == TalkRowsInv /\ EchoInv

-----------------------------------------------------------------------------
(* Calls, replies and entries.                                             *)

LEMMA CallsTyped ==
    ASSUME heard \in Seq(Gave), NEW names \in Seq(Names)
    PROVE  CallsFor(names) \in Seq(MadeCalls)
  <1> DEFINE made(i) == [id |-> 2 * Len(heard) + i, name |-> names[i]]
  <1>1. DOMAIN names = 1 .. Len(names) /\ Len(heard) \in Nat /\ Len(names) \in Nat
    OBVIOUS
  <1>2. ASSUME NEW i \in 1 .. Len(names) PROVE made(i) \in MadeCalls
    <2>1. 2 * Len(heard) + i \in Nat \ {0} /\ names[i] \in Names
      BY <1>1
    <2> QED BY <2>1 DEF MadeCalls, NoId
  <1> HIDE DEF made
  <1>3. [i \in 1 .. Len(names) |-> made(i)] \in Seq(MadeCalls)
    BY <1>1, <1>2
  <1>4. CallsFor(names) = [i \in 1 .. Len(names) |-> made(i)]
    BY <1>1 DEF CallsFor, made
  <1> QED BY <1>3, <1>4

\* What a provider can give.
LEMMA AnswerGiven ==
    ASSUME heard \in Seq(Gave), NEW a \in Answers
    PROVE  /\ a \in Gave /\ a.text \in TextsGiven /\ a.calls \in Seq(MadeCalls)
           /\ a.flagged => a.text \in {Word, Twice}
           /\ a.reason = "calls" => a.calls # <<>>
           /\ a.reason # "calls" /\ provider \notin {"gemini", "ollama"} /\ a.calls # <<>>
                  => a.reason = "length"
  <1>1. \A n \in {<<>>, <<"a">>, <<"b", "a">>} : CallsFor(n) \in Seq(MadeCalls)
    <2>1. <<>> \in Seq(Names) /\ <<"a">> \in Seq(Names) /\ <<"b", "a">> \in Seq(Names)
      BY DEF Names
    <2> QED BY <2>1, CallsTyped
  <1>2. a \in [text : {<<>>, Word, Twice, Null},
               calls : {CallsFor(n) : n \in {<<>>, <<"a">>, <<"b", "a">>}},
               reason : {"calls", "stop", "length", "safety"}, flagged : BOOLEAN]
    BY DEF Answers
  <1>3. a.calls \in Seq(MadeCalls)
    BY <1>1, <1>2
  <1>4. a \in Gave
    BY <1>2, <1>3 DEF Gave, TextsGiven
  <1>5. /\ a.reason = "calls" => a.calls # <<>> /\ provider \notin {"gemini", "ollama"}
        /\ a.reason = "stop" => a.calls = <<>> \/ provider \in {"gemini", "ollama"}
        /\ a.reason = "safety" => provider = "gemini"
        /\ a.flagged => a.text \in {Word, Twice}
    BY DEF Answers
  <1>6. a.text \in TextsGiven /\ a.reason \in {"calls", "stop", "length", "safety"}
    BY <1>2 DEF TextsGiven
  <1> QED BY <1>3, <1>4, <1>5, <1>6

TextOf(reply) == IF reply.text = Null THEN <<>> ELSE reply.text

\* The row that the loop makes of a reply.
TakenUp(reply) ==
    IF reply.finish = "tool_calls" /\ reply.calls # <<>>
    THEN Assistant(TextOf(reply), reply.calls)
    ELSE Assistant(reply.text, <<>>)

\* What every adapter makes of an answer.
LEMMA ReplyTells ==
    ASSUME heard \in Seq(Gave), provider \in Providers, NEW a \in Answers, NEW reply,
           reply = ReplyOf(a) \/ (reply = OllamaStreamReply(a) /\ provider = "ollama")
    PROVE  /\ reply = [text |-> reply.text, calls |-> reply.calls, finish |-> reply.finish]
           /\ reply.calls = a.calls /\ reply.text \in {a.text, OrNull(a.text)}
           /\ a.calls # <<>> => \/ reply.finish = "tool_calls"
                                \/ a.reason = "length" /\ provider # "gemini"
                                \/ provider = "ollama"
  <1>1. /\ a.reason \in {"calls", "stop", "length", "safety"}
        /\ a.reason = "calls" => a.calls # <<>>
        /\ a.reason # "calls" /\ provider \notin {"gemini", "ollama"} /\ a.calls # <<>>
               => a.reason = "length"
    BY AnswerGiven DEF Gave
  <1>2. provider \in {"anthropic", "bedrock", "vertex", "openai", "azure",
                      "gemini", "ollama"}
    BY AdaptersAssumption
  <1>3. CASE reply = AnthropicReply(a) /\ provider \in {"anthropic", "bedrock", "vertex"}
    BY <1>1, <1>3 DEF AnthropicReply, Reply
  <1>4. CASE reply = OpenAIReply(a) /\ provider \in {"openai", "azure"}
    BY <1>1, <1>4 DEF OpenAIReply, Reply
  <1>5. CASE reply = GeminiReply(a) /\ provider = "gemini"
    BY <1>1, <1>5 DEF GeminiReply, Reply
  <1>6. CASE reply \in {OllamaReply(a), OllamaStreamReply(a)} /\ provider = "ollama"
    BY <1>1, <1>6 DEF OllamaReply, OllamaStreamReply, Reply
  <1>7. CASE reply = ReplyOf(a)
    <2>1. \/ reply = AnthropicReply(a) /\ provider \in {"anthropic", "bedrock", "vertex"}
          \/ reply = OpenAIReply(a) /\ provider \in {"openai", "azure"}
          \/ reply = GeminiReply(a) /\ provider = "gemini"
          \/ reply = OllamaReply(a) /\ provider = "ollama"
      BY <1>2, <1>7 DEF ReplyOf, BedrockReply, VertexReply
    <2> QED BY <1>3, <1>4, <1>5, <1>6, <2>1
  <1> QED BY <1>6, <1>7

\* What the router makes of that: another text, if it is flagged, and no more.
LEMMA FilterTells ==
    ASSUME heard \in Seq(Gave), provider \in Providers, NEW a \in Answers, NEW reply, NEW full,
           full = ReplyOf(a) \/ (full = OllamaStreamReply(a) /\ provider = "ollama"),
           reply = Filtered(a, full)
    PROVE  /\ reply.calls = a.calls /\ reply.text \in {Masked, a.text, OrNull(a.text)}
           /\ a.text \in {Word, Twice} => reply.text = Spoken(a)
           /\ a.calls # <<>> => \/ reply.finish = "tool_calls"
                                \/ a.reason = "length" /\ provider # "gemini"
                                \/ provider = "ollama"
  <1>1. /\ full = [text |-> full.text, calls |-> full.calls, finish |-> full.finish]
        /\ full.calls = a.calls /\ full.text \in {a.text, OrNull(a.text)}
        /\ a.calls # <<>> => \/ full.finish = "tool_calls"
                             \/ a.reason = "length" /\ provider # "gemini"
                             \/ provider = "ollama"
    BY ReplyTells
  <1>2. PICK text, calls, finish :
            full = [text |-> text, calls |-> calls, finish |-> finish]
    BY <1>1
  <1>3. /\ full.text = text /\ full.calls = calls /\ full.finish = finish
    BY <1>2
  <1>4. reply = [text |-> IF text # Null /\ a.flagged THEN Masked ELSE text,
                 calls |-> calls, finish |-> finish]
    BY <1>2 DEF Filtered
  <1>5. /\ reply.calls = calls /\ reply.finish = finish
        /\ reply.text = IF text # Null /\ a.flagged THEN Masked ELSE text
    BY <1>4
  <1>6. a.text \in {Word, Twice} => text = a.text /\ text # Null
    BY <1>1, <1>3 DEF OrNull, Word, Twice, Null
  <1> QED BY <1>1, <1>3, <1>5, <1>6 DEF Spoken

LEMMA NothingCarried == Carried(<<>>) = <<>>
  <1>1. NamesOnly(<<>>) = <<>>
    BY DEF NamesOnly
  <1> QED BY <1>1 DEF Carried

\* The row of an answer tells what the answer told, unless it was cut short.
LEMMA RowTells ==
    ASSUME heard \in Seq(Gave), provider \in Providers, NEW a \in Answers, NEW reply, NEW full,
           full = ReplyOf(a) \/ (full = OllamaStreamReply(a) /\ provider = "ollama"),
           reply = Filtered(a, full)
    PROVE  /\ TakenUp(reply) \in Messages /\ TakenUp(reply).role = "assistant"
           /\ TakenUp(reply).calls \in {<<>>, a.calls} /\ Echoes(a, TakenUp(reply))
           /\ TakenUp(reply).calls \in Seq(MadeCalls)
  <1> DEFINE m == TakenUp(reply)
  <1>1. /\ a \in Gave /\ a.text \in TextsGiven /\ a.calls \in Seq(MadeCalls)
    BY AnswerGiven
  <1>2. /\ reply.calls = a.calls /\ reply.text \in {Masked, a.text, OrNull(a.text)}
        /\ a.text \in {Word, Twice} => reply.text = Spoken(a)
        /\ a.calls # <<>> => \/ reply.finish = "tool_calls"
                             \/ a.reason = "length" /\ provider # "gemini"
                             \/ provider = "ollama"
    BY FilterTells
  <1> DEFINE Rowed == TextsGiven \cup {Masked}
  <1>3. Spoken(a) # Null \/ a.text \notin {Word, Twice}
    BY DEF Spoken, Word, Twice, Null, Masked
  <1>4. reply.text \in Rowed /\ TextOf(reply) \in Rowed
    BY <1>1, <1>2 DEF OrNull, TextOf, TextsGiven
  <1>5. a.text \in {Word, Twice} => reply.text = Spoken(a) /\ TextOf(reply) = Spoken(a)
    BY <1>2, <1>3 DEF TextOf
  <1>6. PICK text, calls :
            /\ m = Assistant(text, calls) /\ text \in Rowed
            /\ a.text \in {Word, Twice} => text = Spoken(a)
            /\ calls \in {<<>>, a.calls}
            /\ calls = a.calls \/ (a.reason = "length" /\ provider # "gemini")
                   \/ provider = "ollama"
    <2>1. CASE reply.finish = "tool_calls" /\ reply.calls # <<>>
      BY <1>2, <1>4, <1>5, <2>1 DEF TakenUp
    <2>2. CASE ~(reply.finish = "tool_calls" /\ reply.calls # <<>>)
      <3>1. \/ a.calls = <<>> \/ (a.reason = "length" /\ provider # "gemini")
            \/ provider = "ollama"
        BY <1>2, <2>2
      <3>2. m = Assistant(reply.text, <<>>)
        BY <2>2 DEF TakenUp
      <3> QED BY <1>4, <1>5, <3>1, <3>2
    <2> QED BY <2>1, <2>2
  <1>7. /\ text \in Seq({"word", "null", "masked"}) /\ calls \in Seq(MadeCalls)
        /\ None \in [id : Nat, name : Names \cup {"none"}]
    <2>1. Rowed \subseteq Seq({"word", "null", "masked"})
      BY DEF TextsGiven, Word, Twice, Null, Masked
    <2>2. <<>> \in Seq(MadeCalls)
      OBVIOUS
    <2>3. None \in [id : Nat, name : Names \cup {"none"}]
      BY DEF None, NoId
    <2> QED BY <1>1, <1>6, <2>1, <2>2, <2>3
  <1>8. /\ m = [role |-> "assistant", text |-> text, calls |-> calls, of |-> None]
    BY <1>6 DEF Assistant
  <1> HIDE DEF m
  <1>9. m \in Messages /\ m.role = "assistant" /\ m.text = text /\ m.calls = calls
    BY <1>7, <1>8 DEF Messages, MadeCalls
  <1>10. Echoes(a, m)
    <2>1. a.text \in {Word, Twice} => m.text = Spoken(a)
      BY <1>6, <1>9
    <2>2. CASE m.calls = a.calls
      BY <2>1, <2>2 DEF Echoes
    <2>3. CASE m.calls = <<>> /\ a.reason = "length" /\ provider # "gemini"
      BY <2>1, <2>3, NothingCarried DEF Echoes
    <2>4. CASE provider = "ollama"
      <3>1. Carried(m.calls) = <<>> /\ Carried(a.calls) = <<>>
        BY <2>4 DEF Carried
      <3> QED BY <2>1, <3>1 DEF Echoes
    <2> QED BY <1>6, <1>9, <2>2, <2>3, <2>4
  <1>11. m.calls \in {<<>>, a.calls} /\ m.calls \in Seq(MadeCalls)
    BY <1>6, <1>7, <1>9
  <1> QED BY <1>9, <1>10, <1>11 DEF m

Entries ==
    [role : {"user", "assistant", "model", "tool"}, text : Seq({"word", "null", "masked"}),
     calls : Seq([id : Nat, name : Names]), ref : Nat]

\* What every format keeps of a message.
LEMMA EntryTells ==
    ASSUME provider \in Providers, NEW m \in Messages
    PROVE  /\ EntryOf(m) \in Entries /\ EntryOf(m).text = m.text
           /\ EntryOf(m) \in OwnEntries <=> m.role = "assistant"
           /\ m.role = "assistant" => EntryOf(m).calls = Carried(m.calls)
           /\ provider \notin {"gemini", "ollama"} =>
                /\ EntryOf(m).calls = IF m.role = "assistant" THEN m.calls ELSE <<>>
                /\ EntryOf(m).ref = IF m.role = "tool" THEN m.of.id ELSE NoId
  <1>1. /\ m.role \in {"user", "assistant", "tool"} /\ m.text \in Seq({"word", "null", "masked"})
        /\ m.of.id \in Nat /\ m.calls \in Seq(MadeCalls)
    BY DEF Messages, MadeCalls
  <1> DEFINE Shown == [id : Nat, name : Names]
  <1>2. m.calls \in Seq(Shown) /\ <<>> \in Seq(Shown) /\ NoId \in Nat
    <2>1. PICK c \in Seq(MadeCalls) : c = m.calls
      BY <1>1
    <2>2. \A i \in 1 .. Len(c) : c[i] \in Shown
      <3>1. MadeCalls \subseteq Shown
        BY DEF MadeCalls
      <3> HIDE DEF Shown
      <3> QED BY <3>1
    <2> HIDE DEF Shown
    <2>3. c \in Seq(Shown)
      BY <2>2
    <2> QED BY <2>1, <2>3 DEF NoId
  <1>3. NamesOnly(m.calls) \in Seq(Shown)
    <2>1. PICK c \in Seq(MadeCalls) : c = m.calls
      BY <1>1
    <2>2. NamesOnly(c) = [i \in 1 .. Len(c) |-> [c[i] EXCEPT !.id = NoId]]
      BY DEF NamesOnly
    <2>3. ASSUME NEW i \in 1 .. Len(c) PROVE [c[i] EXCEPT !.id = NoId] \in Shown
      <3>1. PICK r \in MadeCalls : r = c[i]
        OBVIOUS
      <3>2. [r EXCEPT !.id = NoId] \in Shown
        BY <1>2 DEF MadeCalls
      <3> QED BY <3>1, <3>2
    <2>4. NamesOnly(c) \in Seq(Shown)
      BY <2>2, <2>3
    <2> QED BY <2>1, <2>4
  <1>4. provider \in {"anthropic", "bedrock", "vertex", "openai", "azure",
                      "gemini", "ollama"}
    BY AdaptersAssumption
  <1>5. PICK as, calls, ref :
            /\ EntryOf(m) = Entry(as, m.text, calls, ref)
            /\ as \in {"user", "assistant", "model", "tool"}
            /\ as \in {"assistant", "model"} <=> m.role = "assistant"
            /\ calls \in Seq(Shown) /\ ref \in Nat
            /\ m.role = "assistant" => calls = Carried(m.calls)
            /\ provider \notin {"gemini", "ollama"} =>
                 /\ calls = IF m.role = "assistant" THEN m.calls ELSE <<>>
                 /\ ref = IF m.role = "tool" THEN m.of.id ELSE NoId
    <2> HIDE DEF Shown
    <2>1. CASE provider \in {"anthropic", "bedrock", "vertex"}
      <3>1. EntryOf(m) = AnthropicEntry(m) /\ Carried(m.calls) = m.calls
        BY <2>1 DEF EntryOf, BedrockEntry, VertexEntry, Carried
      <3> QED BY <1>1, <1>2, <2>1, <3>1 DEF AnthropicEntry, IdsAndNames
    <2>2. CASE provider \in {"openai", "azure"}
      <3>1. EntryOf(m) = OpenAIEntry(m) /\ Carried(m.calls) = m.calls
        BY <2>2 DEF EntryOf, Carried
      <3> QED BY <1>1, <1>2, <2>2, <3>1 DEF OpenAIEntry, IdsAndNames
    <2>3. CASE provider = "gemini"
      <3>1. EntryOf(m) = GeminiEntry(m) /\ Carried(m.calls) = NamesOnly(m.calls)
        BY <2>3 DEF EntryOf, Carried
      <3> QED BY <1>1, <1>2, <1>3, <2>3, <3>1 DEF GeminiEntry
    <2>4. CASE provider = "ollama"
      <3>1. EntryOf(m) = OllamaEntry(m) /\ Carried(m.calls) = <<>>
        BY <2>4 DEF EntryOf, Carried
      <3> QED BY <1>1, <1>2, <2>4, <3>1 DEF OllamaEntry
    <2> QED BY <1>4, <2>1, <2>2, <2>3, <2>4
  <1>6. EntryOf(m) = [role |-> as, text |-> m.text, calls |-> calls, ref |-> ref]
    BY <1>5 DEF Entry
  <1>7. /\ EntryOf(m).role = as /\ EntryOf(m).text = m.text
        /\ EntryOf(m).calls = calls /\ EntryOf(m).ref = ref
    BY <1>6
  <1>8. EntryOf(m) \in Entries
    <2>1. PICK text, S, C : /\ text = m.text /\ S = Seq({"word", "null", "masked"}) /\ C = Seq(Shown)
                            /\ text \in S /\ calls \in C
      BY <1>1, <1>5
    <2>2. [role |-> as, text |-> text, calls |-> calls, ref |-> ref]
              \in [role : {"user", "assistant", "model", "tool"}, text : S, calls : C, ref : Nat]
      BY <1>5, <2>1
    <2> QED BY <1>6, <2>1, <2>2 DEF Entries
  <1>9. EntryOf(m) \in OwnEntries <=> as \in {"assistant", "model"}
    <2>1. PICK text, S, C : /\ text = m.text /\ S = Seq({"word", "null", "masked"}) /\ C = Seq(Shown)
                            /\ text \in S /\ calls \in C
      BY <1>1, <1>5
    <2>2. [role |-> as, text |-> text, calls |-> calls, ref |-> ref]
              \in [role : {"assistant", "model"}, text : S, calls : C, ref : Nat]
          <=> as \in {"assistant", "model"}
      BY <1>5, <2>1
    <2> QED BY <1>6, <2>1, <2>2 DEF OwnEntries
  <1> QED BY <1>5, <1>7, <1>8, <1>9

-----------------------------------------------------------------------------
(* A row more.                                                             *)

LEMMA MessageParts ==
    ASSUME NEW m \in Messages
    PROVE  /\ m.role \in {"user", "assistant", "tool"} /\ m.calls \in Seq(MadeCalls)
           /\ Len(m.calls) \in Nat /\ (m.calls = <<>> <=> Len(m.calls) = 0)
  <1>1. m.role \in {"user", "assistant", "tool"} /\ m.calls \in Seq(MadeCalls)
    BY DEF Messages, MadeCalls
  <1> QED BY <1>1

\* What a row more leaves as it was.
LEMMA Grown ==
    ASSUME NEW log \in Seq(Messages), NEW m \in Messages, NEW more, more = Append(log, m)
    PROVE  /\ more \in Seq(Messages) /\ Len(more) = Len(log) + 1 /\ more[Len(log) + 1] = m
           /\ \A i \in 1 .. Len(log) :
                  /\ more[i] = log[i]
                  /\ HasOwner(log, i) => HasOwner(more, i)
                  /\ AllAnswered(log, i) => AllAnswered(more, i)
                  /\ \A cuts : CutShort(log, i, cuts) => CutShort(more, i, cuts)
                  /\ Underway(more, i) <=>
                         /\ Len(log) + 1 < i + Len(log[i].calls)
                         /\ ToolsUpTo(log, i, Len(log)) /\ m.role = "tool"
  <1>1. /\ more \in Seq(Messages) /\ Len(more) = Len(log) + 1 /\ more[Len(log) + 1] = m
        /\ Len(log) \in Nat /\ \A i \in 1 .. Len(log) : more[i] = log[i]
    OBVIOUS
  <1> HIDE DEF Messages
  <1>2. ASSUME NEW i \in 1 .. Len(log), NEW j \in Int, j <= Len(log)
        PROVE  ToolsUpTo(log, i, j) <=> ToolsUpTo(more, i, j)
    <2>1. \A k \in i + 1 .. j : k \in 1 .. Len(log)
      BY <1>1, <1>2
    <2> QED BY <1>1, <2>1 DEF ToolsUpTo
  <1>3. ASSUME NEW i \in 1 .. Len(log), HasOwner(log, i) PROVE HasOwner(more, i)
    <2>1. PICK k \in 1 .. i - 1 : ResultOf(log, k, i)
      BY <1>3 DEF HasOwner
    <2>2. k \in 1 .. Len(log) /\ more[k] = log[k] /\ more[i] = log[i]
      BY <1>1
    <2>3. ToolsUpTo(more, k, i)
      BY <1>2, <2>1, <2>2 DEF ResultOf
    <2>4. ResultOf(more, k, i)
      BY <2>1, <2>2, <2>3 DEF ResultOf
    <2> QED BY <2>4 DEF HasOwner
  <1>4. ASSUME NEW i \in 1 .. Len(log), AllAnswered(log, i), log[i].calls \in Seq(MadeCalls)
        PROVE  AllAnswered(more, i)
    <2>1. Len(log[i].calls) \in Nat /\ more[i] = log[i] /\ i + Len(log[i].calls) <= Len(log)
      BY <1>1, <1>4 DEF AllAnswered
    <2>2. ToolsUpTo(more, i, i + Len(log[i].calls))
      BY <1>2, <1>4, <2>1 DEF AllAnswered
    <2> QED BY <1>1, <2>1, <2>2 DEF AllAnswered
  <1>5. \A i \in 1 .. Len(log) : log[i].calls \in Seq(MadeCalls)
    BY MessageParts
  <1>6. ASSUME NEW i \in 1 .. Len(log)
        PROVE  Underway(more, i) <=>
                   /\ Len(log) + 1 < i + Len(log[i].calls)
                   /\ ToolsUpTo(log, i, Len(log)) /\ m.role = "tool"
    <2>1. ToolsUpTo(more, i, Len(log) + 1) <=> ToolsUpTo(more, i, Len(log)) /\ m.role = "tool"
      <3>1. i + 1 .. Len(log) + 1 = (i + 1 .. Len(log)) \cup {Len(log) + 1}
        BY <1>1
      <3> QED BY <1>1, <3>1 DEF ToolsUpTo
    <2>2. ToolsUpTo(more, i, Len(log)) <=> ToolsUpTo(log, i, Len(log))
      BY <1>1, <1>2
    <2> QED BY <1>1, <2>1, <2>2 DEF Underway
  <1>7. \A i \in 1 .. Len(log) : \A cuts : CutShort(log, i, cuts) => CutShort(more, i, cuts)
    BY <1>1 DEF CutShort
  <1> QED BY <1>1, <1>3, <1>4, <1>5, <1>6, <1>7

\* The array of a handler grows with the rows.
LEMMA EndGrows ==
    ASSUME NEW T, NEW log \in Seq(T), NEW m \in T, NEW v \in 0 .. Len(log)
    PROVE  Append(SubSeq(log, v + 1, Len(log)), m)
               = SubSeq(Append(log, m), v + 1, Len(Append(log, m)))
  <1>1. PICK end \in Seq(T) : end = SubSeq(log, v + 1, Len(log))
    <2>1. SubSeq(log, v + 1, Len(log)) \in Seq(T)
      OBVIOUS
    <2> QED BY <2>1
  <1>2. /\ Len(end) = Len(log) - v
        /\ \A i \in 1 .. Len(log) - v : end[i] = log[v + i]
    <2>1. Len(end) = Len(log) - v
      BY <1>1
    <2>2. ASSUME NEW i \in 1 .. Len(log) - v PROVE end[i] = log[v + i]
      <3>1. v + 1 + i - 1 = v + i
        OBVIOUS
      <3> QED BY <1>1, <3>1
    <2> QED BY <2>1, <2>2
  <1>3. PICK more \in Seq(T) : more = Append(log, m)
    <2>1. Append(log, m) \in Seq(T)
      OBVIOUS
    <2> QED BY <2>1
  <1>4. /\ Len(more) = Len(log) + 1 /\ more[Len(log) + 1] = m
        /\ \A i \in 1 .. Len(log) : more[i] = log[i]
    BY <1>3
  <1>5. PICK tail \in Seq(T) : tail = SubSeq(more, v + 1, Len(more))
    <2>1. v + 1 \in 1 .. Len(more) + 1
      BY <1>4
    <2>2. SubSeq(more, v + 1, Len(more)) \in Seq(T)
      BY <2>1
    <2> QED BY <2>2
  <1>6. /\ Len(tail) = (Len(log) - v) + 1
        /\ \A i \in 1 .. (Len(log) - v) + 1 : tail[i] = more[v + i]
    <2>1. Len(tail) = (Len(log) - v) + 1
      BY <1>4, <1>5
    <2>2. ASSUME NEW i \in 1 .. (Len(log) - v) + 1 PROVE tail[i] = more[v + i]
      <3>1. v + 1 + i - 1 = v + i
        OBVIOUS
      <3> QED BY <1>4, <1>5, <3>1
    <2> QED BY <2>1, <2>2
  <1>7. Append(end, m) = tail
    <2>1. PICK new \in Seq(T) : new = Append(end, m)
      BY AppendProperties
    <2>2. /\ Len(new) = (Len(log) - v) + 1 /\ new[(Len(log) - v) + 1] = m
          /\ \A i \in 1 .. Len(log) - v : new[i] = end[i]
      BY <1>2, <2>1
    <2>3. ASSUME NEW i \in 1 .. (Len(log) - v) + 1 PROVE new[i] = tail[i]
      <3>1. CASE i = (Len(log) - v) + 1
        <4>1. v + i = Len(log) + 1
          BY <3>1
        <4> QED BY <1>4, <1>6, <2>2, <3>1, <4>1
      <3>2. CASE i # (Len(log) - v) + 1
        <4>1. i \in 1 .. Len(log) - v /\ v + i \in 1 .. Len(log)
          BY <3>2
        <4> QED BY <1>2, <1>4, <1>6, <2>2, <4>1
      <3> QED BY <3>1, <3>2
    <2>4. new = tail
      BY <1>6, <2>2, <2>3
    <2> QED BY <2>1, <2>4
  <1> QED BY <1>1, <1>3, <1>5, <1>7

\* The window of the history is an end of it.
LEMMA LoadedIsEnd ==
    ASSUME NEW log \in Seq(Messages)
    PROVE  \E v \in 0 .. Len(log) : Loaded(log) = SubSeq(log, v + 1, Len(log))
  <1>1. HistoryWindow \in Nat \ {0}
    BY AdaptersAssumption
  <1>2. CASE Len(log) <= HistoryWindow
    <2>1. Loaded(log) = SubSeq(log, 0 + 1, Len(log))
      BY <1>2, SubSeqFull DEF Loaded
    <2> QED BY <2>1
  <1>3. CASE ~(Len(log) <= HistoryWindow)
    <2>1. Len(log) - HistoryWindow \in 0 .. Len(log)
      BY <1>1, <1>3
    <2>2. Loaded(log) = SubSeq(log, (Len(log) - HistoryWindow) + 1, Len(log))
      BY <1>3 DEF Loaded, LastRows
    <2> QED BY <2>1, <2>2
  <1> QED BY <1>2, <1>3

\* Only one answer is underway.
LEMMA OneUnderway ==
    ASSUME NEW log \in Seq(Messages), NEW i \in 1 .. Len(log), NEW k \in 1 .. Len(log),
           log[i].role = "assistant", log[k].role = "assistant",
           ToolsUpTo(log, i, Len(log)), ToolsUpTo(log, k, Len(log))
    PROVE  i = k
  <1>1. i < k => log[k].role = "tool"
    BY DEF ToolsUpTo
  <1>2. k < i => log[i].role = "tool"
    BY DEF ToolsUpTo
  <1> QED BY <1>1, <1>2

\* What is outstanding is the next call of the answer underway.
LEMMA OutstandingIs ==
    ASSUME NEW log \in Seq(Messages)
    PROVE  Outstanding(log) =
               {log[i].calls[Len(log) - i + 1] : i \in
                   {k \in 1 .. Len(log) : log[k].role = "assistant" /\ Underway(log, k)}}
  <1>1. ASSUME NEW k \in 1 .. Len(log)
        PROVE  /\ log[k].role = "assistant" /\ log[k].calls # <<>>
               /\ \A j \in k + 1 .. Len(log) : log[j].role = "tool"
               /\ Len(log) - k < Len(log[k].calls)
               <=> log[k].role = "assistant" /\ Underway(log, k)
    <2>1. Len(log) \in Nat /\ log[k] \in Messages
      OBVIOUS
    <2>2. Len(log[k].calls) \in Nat /\ (log[k].calls = <<>> <=> Len(log[k].calls) = 0)
      BY <2>1, MessageParts
    <2> QED BY <2>1, <2>2 DEF Underway, ToolsUpTo
  <1> DEFINE open == {i \in DOMAIN log : log[i].role = "assistant" /\ log[i].calls # <<>>
                                    /\ \A j \in i+1..Len(log) : log[j].role = "tool"}
  <1>2. {k \in open : Len(log) - k < Len(log[k].calls)}
            = {k \in 1 .. Len(log) : log[k].role = "assistant" /\ Underway(log, k)}
    BY <1>1
  <1>3. Outstanding(log) = {log[i].calls[Len(log) - i + 1] : i \in
                               {k \in open : Len(log) - k < Len(log[k].calls)}}
    BY DEF Outstanding
  <1> HIDE DEF open
  <1> QED BY <1>2, <1>3, Zenon

-----------------------------------------------------------------------------
(* The steps.                                                              *)

\* One row more: all that a step needs to be sure of.
Adds(m) ==
    /\ rows' = Append(rows, m) /\ UNCHANGED <<provider, cutAt, accessToken>>
    /\ \E v \in 0 .. Len(rows) + 1 : view' = SubSeq(rows', v + 1, Len(rows'))
    /\ Len(rows) + 1 <= MaxMessages
    /\ exchange' \in Exchanges /\ exchange' # "streaming"
    /\ m.role # "assistant" => m.calls = <<>>
    /\ m.role = "tool" => HasOwner(rows', Len(rows) + 1)
    /\ m.calls # <<>> => exchange' = "tools"
    /\ exchange = "tools" =>
           \A i \in 1 .. Len(rows) :
               rows[i].role = "assistant" /\ Underway(rows, i) =>
                   AllAnswered(rows', i) \/ (exchange' = "tools" /\ Underway(rows', i))
    /\ exchange' = "tools" =>
           \E i \in 1 .. Len(rows) + 1 :
               Underway(rows', i) /\ i + Len(rows'[i].calls) <= MaxMessages

LEMMA RowAdded ==
    ASSUME TalkRowsInv, NEW m \in Messages, Adds(m)
    PROVE  TalkRowsInv'
  <1> DEFINE N == Len(rows)
  <1>1. rows \in Seq(Messages) /\ N \in Nat /\ rows' = Append(rows, m)
    BY DEF TalkRowsInv, Adds
  <1>2. /\ rows' \in Seq(Messages) /\ Len(rows') = N + 1 /\ rows'[N + 1] = m
        /\ \A i \in 1 .. N :
              /\ rows'[i] = rows[i]
              /\ HasOwner(rows, i) => HasOwner(rows', i)
              /\ AllAnswered(rows, i) => AllAnswered(rows', i)
              /\ CutShort(rows, i, cutAt) => CutShort(rows', i, cutAt)
    <2>1. /\ rows' \in Seq(Messages) /\ Len(rows') = Len(rows) + 1
          /\ rows'[Len(rows) + 1] = m
      BY <1>1, Grown, Zenon
    <2>2. \A i \in 1 .. Len(rows) :
              /\ rows'[i] = rows[i]
              /\ HasOwner(rows, i) => HasOwner(rows', i)
              /\ AllAnswered(rows, i) => AllAnswered(rows', i)
              /\ CutShort(rows, i, cutAt) => CutShort(rows', i, cutAt)
      BY <1>1, Grown, ZenonT(30)
    <2> QED BY <2>1, <2>2
  <1>3. ASSUME NEW j \in 1 .. N + 1
        PROVE  /\ rows'[j].role # "assistant" => rows'[j].calls = <<>>
               /\ rows'[j].role = "tool" => HasOwner(rows', j)
               /\ rows'[j].calls # <<>> =>
                      \/ AllAnswered(rows', j) \/ CutShort(rows', j, cutAt)
                      \/ exchange' = "tools" /\ Underway(rows', j)
    <2>1. CASE j = N + 1
      <3>1. m.calls # <<>> => Underway(rows', N + 1)
        <4> SUFFICES ASSUME m.calls # <<>> PROVE Underway(rows', N + 1)
          OBVIOUS
        <4>1. Len(m.calls) \in Nat /\ Len(m.calls) # 0
          BY MessageParts
        <4>2. PICK n \in Nat : n = Len(m.calls) /\ n # 0
          BY <4>1
        <4>3. ToolsUpTo(rows', N + 1, N + 1)
          BY <1>1 DEF ToolsUpTo
        <4>4. N + 1 < (N + 1) + n
          <5>1. n > 0
            BY <4>2
          <5>2. PICK w \in Nat : w = N + 1
            BY <1>1
          <5>3. w < w + n
            BY <5>1
          <5> QED BY <5>2, <5>3
        <4>5. N + 1 < (N + 1) + Len(m.calls)
          BY <4>2, <4>4
        <4> QED BY <1>2, <4>3, <4>5 DEF Underway, ToolsUpTo
      <3>2. /\ m.role # "assistant" => m.calls = <<>>
            /\ m.role = "tool" => HasOwner(rows', N + 1)
            /\ m.calls # <<>> => exchange' = "tools"
        BY DEF Adds
      <3> QED BY <1>2, <2>1, <3>1, <3>2
    <2>2. CASE j # N + 1
      <3>1. j \in 1 .. N
        BY <1>1, <2>2
      <3>2. /\ rows[j].role # "assistant" => rows[j].calls = <<>>
            /\ rows[j].role = "tool" => HasOwner(rows, j)
            /\ rows[j].calls # <<>> =>
                   \/ AllAnswered(rows, j) \/ CutShort(rows, j, cutAt)
                   \/ exchange = "tools" /\ Underway(rows, j)
        BY <3>1 DEF TalkRowsInv, RowsFit
      <3>3. exchange = "tools" /\ rows[j].role = "assistant" /\ Underway(rows, j) =>
                AllAnswered(rows', j) \/ (exchange' = "tools" /\ Underway(rows', j))
        BY <3>1 DEF Adds
      <3> QED BY <1>2, <3>1, <3>2, <3>3
    <2> QED BY <2>1, <2>2
  <1>4. \A j \in 1 .. Len(rows') :
            /\ rows'[j].role # "assistant" => rows'[j].calls = <<>>
            /\ rows'[j].role = "tool" => HasOwner(rows', j)
            /\ rows'[j].calls # <<>> =>
                   \/ AllAnswered(rows', j) \/ CutShort(rows', j, cutAt')
                   \/ exchange' = "tools" /\ Underway(rows', j)
    BY <1>2, <1>3 DEF Adds
  <1>5. /\ provider' \in Providers /\ accessToken' \in {"none", "fresh", "stale"}
        /\ exchange' \in Exchanges /\ exchange' # "streaming"
    BY DEF TalkRowsInv, Adds
  <1>6. cutAt' \subseteq 1 .. Len(rows')
    <2>1. cutAt \subseteq 1 .. N /\ 1 .. N \subseteq 1 .. N + 1
      BY <1>1 DEF TalkRowsInv
    <2> QED BY <1>2, <2>1 DEF Adds
  <1>7. /\ \E v \in 0 .. Len(rows') : view' = SubSeq(rows', v + 1, Len(rows'))
        /\ Len(rows') <= MaxMessages
        /\ exchange' = "tools" =>
               \E i \in 1 .. Len(rows') :
                   Underway(rows', i) /\ i + Len(rows'[i].calls) <= MaxMessages
    BY <1>2 DEF Adds
  <1>8. RowsFit(rows', cutAt', exchange' = "tools")
    BY <1>4, <1>7 DEF RowsFit
  <1>9. Exchanges' = Exchanges /\ Messages' = Messages
    BY DEF Exchanges, Messages, Names
  <1> QED BY <1>2, <1>5, <1>6, <1>7, <1>8, <1>9 DEF TalkRowsInv

\* Steps that write no row.
AddsNone ==
    /\ UNCHANGED <<provider, rows, view, cutAt>>
    /\ accessToken' \in {"none", "fresh", "stale"} /\ exchange' \in Exchanges
    /\ exchange' = "streaming" => provider = "ollama"
    /\ exchange' = "tools" <=> exchange = "tools"

LEMMA TalkRowsStay ==
    ASSUME TalkRowsInv, AddsNone
    PROVE  TalkRowsInv'
  <1>1. /\ provider' = provider /\ rows' = rows /\ view' = view /\ cutAt' = cutAt
        /\ (exchange' = "tools") = (exchange = "tools")
    BY DEF AddsNone
  <1>2. RowsFit(rows, cutAt, exchange = "tools")
    BY DEF TalkRowsInv
  <1>3. RowsFit(rows', cutAt', exchange' = "tools")
    BY <1>1, <1>2, Zenon
  <1>4. Exchanges' = Exchanges /\ Messages' = Messages
    BY DEF Exchanges, Messages, Names
  <1>5. /\ provider' \in Providers /\ rows' \in Seq(Messages) /\ Len(rows') <= MaxMessages
        /\ cutAt' \subseteq 1 .. Len(rows')
        /\ \E v \in 0 .. Len(rows') : view' = SubSeq(rows', v + 1, Len(rows'))
    BY <1>1 DEF TalkRowsInv
  <1>6. /\ accessToken' \in {"none", "fresh", "stale"} /\ exchange' \in Exchanges
        /\ exchange' = "streaming" => provider' = "ollama"
    BY <1>1 DEF AddsNone
  <1> QED BY <1>3, <1>4, <1>5, <1>6 DEF TalkRowsInv

\* A row that is no answer leaves what was heard.
LEMMA EchoKept ==
    ASSUME EchoInv, rows \in Seq(Messages), NEW m \in Messages, m.role # "assistant",
           rows' = Append(rows, m), UNCHANGED <<provider, heard>>
    PROVE  EchoInv'
  <1>1. m \notin AnswerRows
    BY DEF AnswerRows
  <1>2. Keep(rows', AnswerRows) = Keep(rows, AnswerRows)
    BY <1>1, KeepAppend
  <1>3. AnswerRows' = AnswerRows /\ Gave' = Gave
    BY DEF AnswerRows, Gave
  <1> QED BY <1>2, <1>3 DEF EchoInv, Echoes, Carried

\* An answer that is taken up is one row and is heard once.
LEMMA EchoAdded ==
    ASSUME EchoInv, rows \in Seq(Messages), NEW m \in Messages, m.role = "assistant",
           NEW a \in Gave, Echoes(a, m),
           rows' = Append(rows, m), heard' = Append(heard, a), UNCHANGED provider
    PROVE  EchoInv'
  <1> DEFINE N == Len(heard)
  <1>1. m \in AnswerRows
    BY DEF AnswerRows
  <1>2. PICK before \in Seq(Messages) : before = Keep(rows, AnswerRows)
    BY KeepTyped
  <1>3. Keep(rows', AnswerRows) = Append(before, m)
    BY <1>1, <1>2, KeepAppend
  <1>4. /\ heard \in Seq(Gave) /\ N \in Nat /\ Len(before) = N
        /\ \A k \in 1 .. N : Echoes(heard[k], before[k])
    BY <1>2 DEF EchoInv
  <1>5. PICK more \in Seq(Messages) : more = Append(before, m)
    BY AppendProperties
  <1>6. /\ Len(more) = N + 1 /\ more[N + 1] = m /\ \A k \in 1 .. N : more[k] = before[k]
    BY <1>4, <1>5
  <1>7. /\ heard' \in Seq(Gave) /\ Len(heard') = N + 1 /\ heard'[N + 1] = a
        /\ \A k \in 1 .. N : heard'[k] = heard[k]
    BY <1>4, AppendProperties
  <1>8. ASSUME NEW k \in 1 .. N + 1 PROVE Echoes(heard'[k], more[k])
    <2>1. CASE k = N + 1
      BY <1>6, <1>7, <2>1
    <2>2. CASE k # N + 1
      <3>1. k \in 1 .. N
        BY <1>4, <2>2
      <3> QED BY <1>4, <1>6, <1>7, <3>1
    <2> QED BY <2>1, <2>2
  <1>9. AnswerRows' = AnswerRows /\ Gave' = Gave
    BY DEF AnswerRows, Gave
  <1>10. Len(Keep(rows', AnswerRows)) = N + 1
    BY <1>3, <1>5, <1>6
  <1>11. \A k \in 1 .. Len(heard') : Echoes(heard'[k], Keep(rows', AnswerRows)[k])
    BY <1>3, <1>5, <1>7, <1>8
  <1> QED BY <1>7, <1>9, <1>10, <1>11 DEF EchoInv, Echoes, Carried

\* The handler's array and the rows grow together.
LEMMA ViewGrows ==
    ASSUME TalkRowsInv, NEW m \in Messages, rows' = Append(rows, m), view' = Append(view, m)
    PROVE  \E v \in 0 .. Len(rows) + 1 : view' = SubSeq(rows', v + 1, Len(rows'))
  <1>1. PICK v \in 0 .. Len(rows) : view = SubSeq(rows, v + 1, Len(rows))
    BY DEF TalkRowsInv
  <1>2. rows \in Seq(Messages) /\ v \in 0 .. Len(rows) + 1
    BY DEF TalkRowsInv
  <1>3. view' = SubSeq(rows', v + 1, Len(rows'))
    BY <1>1, <1>2, EndGrows, Zenon
  <1> QED BY <1>2, <1>3

LEMMA SpeakStep == TalkInv /\ Speak => TalkInv'
  <1> SUFFICES ASSUME TalkInv, Speak PROVE TalkInv'
    OBVIOUS
  <1> DEFINE m == User(Word)
  <1>1. m \in Messages /\ m.role = "user" /\ m.calls = <<>>
    <2>1. /\ Word \in Seq({"word", "null", "masked"}) /\ <<>> \in Seq(MadeCalls)
          /\ None \in [id : Nat, name : Names \cup {"none"}]
      BY DEF Word, None, NoId
    <2> QED BY <2>1 DEF User, Messages, MadeCalls
  <1>2. /\ TalkRowsInv /\ EchoInv /\ rows \in Seq(Messages) /\ Len(rows) \in Nat
    BY DEF TalkInv, TalkRowsInv
  <1>3. /\ exchange = "idle" /\ exchange' = "asking" /\ Len(rows) + 2 <= MaxMessages
        /\ rows' = Append(rows, m) /\ view' = Loaded(rows')
        /\ UNCHANGED <<provider, heard, cutAt, accessToken>>
    BY DEF Speak
  <1>4. \E v \in 0 .. Len(rows) + 1 : view' = SubSeq(rows', v + 1, Len(rows'))
    <2>1. rows' \in Seq(Messages) /\ Len(rows') = Len(rows) + 1
      BY <1>1, <1>2, <1>3, Grown
    <2> QED BY <1>3, <2>1, LoadedIsEnd
  <1>5. MaxMessages \in Nat
    BY AdaptersAssumption
  <1> HIDE DEF m
  <1>6. TalkRowsInv'
    <2>1. Len(rows) + 1 <= MaxMessages /\ exchange' \in Exchanges
      BY <1>2, <1>3, <1>5 DEF Exchanges
    <2> QED BY <1>1, <1>2, <1>3, <1>4, <2>1, RowAdded DEF Adds
  <1>7. EchoInv'
    BY <1>1, <1>2, <1>3, EchoKept
  <1> QED BY <1>6, <1>7 DEF TalkInv

\* An answer, read by the adapter that gave it.
LEMMA TakeUpStep ==
    ASSUME TalkInv, NEW a \in Answers, NEW reply, NEW full,
           full = ReplyOf(a) \/ (full = OllamaStreamReply(a) /\ provider = "ollama"),
           reply = Filtered(a, full),
           exchange \in Exchanges, exchange # "tools",
           Len(rows) + 1 + Len(a.calls) <= MaxMessages, TakeUp(a, reply),
           UNCHANGED <<provider, cutAt, accessToken>>
    PROVE  TalkInv'
  <1> DEFINE m == TakenUp(reply)
  <1>1. /\ TalkRowsInv /\ EchoInv /\ rows \in Seq(Messages) /\ Len(rows) \in Nat
        /\ heard \in Seq(Gave) /\ provider \in Providers
    BY DEF TalkInv, TalkRowsInv, EchoInv
  <1>2. /\ m \in Messages /\ m.role = "assistant" /\ m.calls \in {<<>>, a.calls}
        /\ Echoes(a, m) /\ m.calls \in Seq(MadeCalls) /\ a \in Gave
        /\ a.calls \in Seq(MadeCalls)
    BY <1>1, RowTells, AnswerGiven
  <1>3. CASE reply.finish = "error"
    <2>1. exchange' = "idle" /\ UNCHANGED <<rows, view, heard>>
      BY <1>3 DEF TakeUp
    <2>2. TalkRowsInv'
      BY <1>1, <2>1, TalkRowsStay DEF TalkRowsInv, Exchanges, AddsNone
    <2>3. EchoInv'
      BY <1>1, <2>1 DEF EchoInv, Echoes, Carried, AnswerRows, Gave
    <2> QED BY <2>2, <2>3 DEF TalkInv
  <1>4. CASE reply.finish # "error"
    <2>1. /\ rows' = Append(rows, m) /\ view' = Append(view, m) /\ heard' = Append(heard, a)
          /\ exchange' = IF m.calls = <<>> THEN "idle" ELSE "tools"
      BY <1>4 DEF TakeUp, TakenUp, TextOf
    <2> HIDE DEF m
    <2>2. EchoInv'
      BY <1>1, <1>2, <2>1, EchoAdded
    <2>3. \E v \in 0 .. Len(rows) + 1 : view' = SubSeq(rows', v + 1, Len(rows'))
      BY <1>1, <1>2, <2>1, ViewGrows
    <2>4. /\ Len(m.calls) \in Nat /\ (m.calls = <<>> <=> Len(m.calls) = 0)
          /\ Len(m.calls) <= Len(a.calls) /\ Len(a.calls) \in Nat
      BY <1>2
    <2>5. PICK n \in Nat, k \in Nat : n = Len(m.calls) /\ k = Len(a.calls) /\ n <= k
      BY <2>4
    <2>6. PICK N \in Nat : N = Len(rows) /\ N + 1 + k <= MaxMessages
      BY <1>1, <2>5
    <2>7. /\ Len(rows) + 1 <= MaxMessages /\ exchange' \in Exchanges
          /\ exchange' # "streaming" /\ MaxMessages \in Nat
      <3>1. MaxMessages \in Nat
        BY AdaptersAssumption
      <3>2. exchange' \in {"idle", "tools"}
        BY <2>1
      <3>3. Len(rows) + 1 <= MaxMessages
        <4>1. N + 1 <= MaxMessages
          BY <2>6, <3>1
        <4> QED BY <2>6, <4>1
      <3> QED BY <2>1, <3>1, <3>2, <3>3 DEF Exchanges
    <2>8. ASSUME exchange' = "tools"
          PROVE  \E i \in 1 .. Len(rows) + 1 :
                     Underway(rows', i) /\ i + Len(rows'[i].calls) <= MaxMessages
      <3>1. m.calls # <<>>
        BY <2>1, <2>8
      <3>2. Len(rows') = Len(rows) + 1 /\ rows'[Len(rows) + 1] = m
        BY <1>1, <1>2, <2>1, Grown
      <3>3. Underway(rows', Len(rows) + 1)
        <4>1. Len(rows) + 1 < (Len(rows) + 1) + Len(m.calls)
          <5>1. n # 0
            BY <2>4, <2>5, <3>1
          <5>2. N + 1 < (N + 1) + n
            BY <5>1
          <5> QED BY <2>5, <2>6, <5>2
        <4>2. ToolsUpTo(rows', Len(rows) + 1, Len(rows) + 1)
          BY <1>1 DEF ToolsUpTo
        <4> QED BY <3>2, <4>1, <4>2 DEF Underway, ToolsUpTo
      <3>4. Len(rows) + 1 \in 1 .. Len(rows) + 1
            /\ (Len(rows) + 1) + Len(rows'[Len(rows) + 1].calls) <= MaxMessages
        <4>1. (Len(rows) + 1) + Len(m.calls) <= MaxMessages
          <5>1. MaxMessages \in Nat /\ n <= k /\ N + 1 + k <= MaxMessages
            BY <2>5, <2>6, AdaptersAssumption
          <5>2. (N + 1) + n <= MaxMessages
            BY <5>1
          <5> QED BY <2>5, <2>6, <5>2
        <4>2. Len(rows) + 1 \in 1 .. Len(rows) + 1
          BY <1>1
        <4> QED BY <3>2, <4>1, <4>2, Zenon
      <3> QED BY <3>3, <3>4
    <2>9. TalkRowsInv'
      BY <1>1, <1>2, <2>1, <2>3, <2>7, <2>8, RowAdded DEF Adds
    <2> QED BY <2>2, <2>9 DEF TalkInv
  <1> QED BY <1>3, <1>4


\* A tool result answers the next call of the answer underway.
LEMMA ToolResultStep == TalkInv /\ ToolResult => TalkInv'
  <1> SUFFICES ASSUME TalkInv, ToolResult PROVE TalkInv'
    OBVIOUS
  <1> DEFINE N == Len(rows)
  <1>1. /\ TalkRowsInv /\ EchoInv /\ rows \in Seq(Messages) /\ N \in Nat
        /\ RowsFit(rows, cutAt, exchange = "tools") /\ exchange = "tools"
    BY DEF TalkInv, TalkRowsInv, ToolResult
  <1>2. PICK call \in Outstanding(rows) :
            rows' = Append(rows, Result(call)) /\ view' = Append(view, Result(call))
    BY DEF ToolResult
  <1>3. PICK i \in 1 .. N : /\ rows[i].role = "assistant" /\ Underway(rows, i)
                            /\ call = rows[i].calls[N - i + 1]
    <2>1. call \in {rows[k].calls[Len(rows) - k + 1] : k \in
                       {j \in 1 .. Len(rows) : rows[j].role = "assistant" /\ Underway(rows, j)}}
      BY <1>1, <1>2, OutstandingIs
    <2> QED BY <2>1
  <1>4. PICK size \in Nat : /\ size = Len(rows[i].calls) /\ N < i + size
                            /\ rows[i].calls \in Seq(MadeCalls)
    BY <1>1, <1>3, MessageParts DEF Underway
  <1>5. call \in MadeCalls /\ N - i + 1 \in 1 .. size
    <2>1. N - i + 1 \in 1 .. size
      BY <1>1, <1>4
    <2> QED BY <1>3, <1>4, <2>1
  <1> DEFINE m == Result(call)
  <1>6. m \in Messages /\ m.role = "tool" /\ m.calls = <<>> /\ m.of = call
    <2>1. /\ Word \in Seq({"word", "null", "masked"}) /\ <<>> \in Seq(MadeCalls)
          /\ call \in [id : Nat, name : Names \cup {"none"}]
      BY <1>5 DEF Word, MadeCalls
    <2> QED BY <2>1 DEF Result, Messages, MadeCalls
  <1> HIDE DEF m
  <1>7. rows' = Append(rows, m) /\ view' = Append(view, m)
    BY <1>2 DEF m
  <1>8. /\ rows' \in Seq(Messages) /\ Len(rows') = N + 1 /\ rows'[N + 1] = m
        /\ \A k \in 1 .. N :
              /\ rows'[k] = rows[k]
              /\ Underway(rows', k) <=>
                     /\ N + 1 < k + Len(rows[k].calls)
                     /\ ToolsUpTo(rows, k, N) /\ m.role = "tool"
    <2>0. rows \in Seq(Messages) /\ m \in Messages /\ rows' = Append(rows, m)
      BY <1>1, <1>6, <1>7
    <2>1. /\ rows' \in Seq(Messages) /\ Len(rows') = Len(rows) + 1
          /\ rows'[Len(rows) + 1] = m
      BY <2>0, Grown, Zenon
    <2>2. \A k \in 1 .. Len(rows) :
              /\ rows'[k] = rows[k]
              /\ Underway(rows', k) <=>
                     /\ Len(rows) + 1 < k + Len(rows[k].calls)
                     /\ ToolsUpTo(rows, k, Len(rows)) /\ m.role = "tool"
      <3> SUFFICES ASSUME NEW k \in 1 .. Len(rows)
                   PROVE  /\ rows'[k] = rows[k]
                          /\ Underway(rows', k) <=>
                                 /\ Len(rows) + 1 < k + Len(rows[k].calls)
                                 /\ ToolsUpTo(rows, k, Len(rows)) /\ m.role = "tool"
        OBVIOUS
      <3> QED BY <2>0, Grown, ZenonT(30)
    <2> QED BY <2>1, <2>2
  <1>9. ToolsUpTo(rows, i, N)
    BY <1>3 DEF Underway
  <1>10. ToolsUpTo(rows', i, N + 1)
    <2>1. \A k \in i + 1 .. N + 1 : k = N + 1 \/ (k \in i + 1 .. N /\ k \in 1 .. N)
      BY <1>1
    <2> QED BY <1>6, <1>8, <1>9, <2>1 DEF ToolsUpTo
  <1>11. HasOwner(rows', N + 1)
    <2>1. rows'[i] = rows[i] /\ (N + 1) - i = N - i + 1 /\ i \in 1 .. (N + 1) - 1
      BY <1>1, <1>8
    <2>2. rows'[N + 1].of = rows'[i].calls[(N + 1) - i]
      BY <1>3, <1>6, <1>8, <2>1, Zenon
    <2>3. (N + 1) - i <= Len(rows'[i].calls)
      BY <1>4, <1>5, <2>1
    <2>4. ResultOf(rows', i, N + 1)
      BY <1>3, <1>10, <2>1, <2>2, <2>3 DEF ResultOf
    <2> QED BY <2>1, <2>4 DEF HasOwner
  <1>12. \A k \in 1 .. N :
             rows[k].role = "assistant" /\ ToolsUpTo(rows, k, N) => k = i
    BY <1>1, <1>3, <1>9, OneUnderway
  <1>13. i + size <= MaxMessages /\ N + 1 <= MaxMessages
    <2>1. PICK k \in 1 .. N : Underway(rows, k) /\ k + Len(rows[k].calls) <= MaxMessages
      BY <1>1 DEF RowsFit
    <2>2. rows[k].role = "assistant"
      <3>1. Len(rows[k].calls) \in Nat /\ (rows[k].calls = <<>> <=> Len(rows[k].calls) = 0)
        BY <1>1, MessageParts
      <3>2. rows[k].calls # <<>>
        BY <1>1, <2>1, <3>1 DEF Underway
      <3> QED BY <1>1, <3>2 DEF RowsFit
    <2>3. k = i
      BY <1>12, <2>1, <2>2 DEF Underway
    <2>4. MaxMessages \in Nat
      BY AdaptersAssumption
    <2>5. i + size <= MaxMessages
      BY <1>4, <2>1, <2>3
    <2> QED BY <1>1, <1>4, <2>4, <2>5
  <1>14. Outstanding(rows') = {} <=> N + 1 >= i + size
    <2>1. Outstanding(rows') =
              {rows'[k].calls[Len(rows') - k + 1] : k \in
                  {j \in 1 .. Len(rows') : rows'[j].role = "assistant" /\ Underway(rows', j)}}
      BY <1>8, OutstandingIs
    <2>2. ASSUME N + 1 < i + size PROVE Outstanding(rows') # {}
      <3>1. i \in 1 .. Len(rows') /\ rows'[i].role = "assistant" /\ Underway(rows', i)
        BY <1>1, <1>3, <1>4, <1>6, <1>8, <1>9, <2>2
      <3> QED BY <2>1, <3>1
    <2>3. ASSUME NEW k \in 1 .. Len(rows'), rows'[k].role = "assistant", Underway(rows', k)
          PROVE  N + 1 < i + size
      <3>1. k # N + 1
        BY <1>6, <1>8, <2>3
      <3>2. k \in 1 .. N
        BY <1>1, <1>8, <3>1
      <3>3. rows[k].role = "assistant" /\ N + 1 < k + Len(rows[k].calls) /\ ToolsUpTo(rows, k, N)
        BY <1>8, <2>3, <3>2
      <3>4. k = i
        BY <1>12, <3>2, <3>3
      <3> QED BY <1>4, <3>3, <3>4
    <2>4. N + 1 >= i + size => Outstanding(rows') = {}
      <3> SUFFICES ASSUME N + 1 >= i + size PROVE Outstanding(rows') = {}
        OBVIOUS
      <3>1. ~(N + 1 < i + size)
        BY <1>1, <1>4
      <3> QED BY <2>1, <2>3, <3>1
    <2>5. N + 1 >= i + size \/ N + 1 < i + size
      BY <1>1, <1>4
    <2> QED BY <2>2, <2>4, <2>5
  <1>15. exchange' = IF N + 1 >= i + size THEN "asking" ELSE "tools"
    BY <1>14 DEF ToolResult
  <1>16. UNCHANGED <<provider, heard, cutAt, accessToken>>
    BY DEF ToolResult
  <1>17. \A k \in 1 .. N :
             rows[k].role = "assistant" /\ Underway(rows, k) =>
                 AllAnswered(rows', k) \/ (exchange' = "tools" /\ Underway(rows', k))
    <2> SUFFICES ASSUME NEW k \in 1 .. N, rows[k].role = "assistant", Underway(rows, k)
                 PROVE  AllAnswered(rows', k) \/ (exchange' = "tools" /\ Underway(rows', k))
      OBVIOUS
    <2>1. k = i
      BY <1>12 DEF Underway
    <2>2. CASE N + 1 >= i + size
      <3>1. N + 1 = i + size
        BY <1>1, <1>4, <2>2
      <3>2. rows'[i] = rows[i]
        BY <1>8
      <3>3. ToolsUpTo(rows', i, i + size)
        BY <1>10, <3>1, Zenon
      <3>4. AllAnswered(rows', i)
        BY <1>4, <1>8, <3>1, <3>2, <3>3 DEF AllAnswered
      <3> QED BY <2>1, <3>4
    <2>3. CASE ~(N + 1 >= i + size)
      <3>1. N + 1 < i + size
        BY <1>1, <1>4, <2>3
      <3>2. Underway(rows', i)
        BY <1>4, <1>6, <1>8, <1>9, <3>1
      <3> QED BY <1>15, <2>1, <2>3, <3>2
    <2> QED BY <2>2, <2>3
  <1>18. ASSUME exchange' = "tools"
         PROVE  \E k \in 1 .. N + 1 :
                    Underway(rows', k) /\ k + Len(rows'[k].calls) <= MaxMessages
    <2>1. N + 1 < i + size
      BY <1>1, <1>4, <1>15, <1>18
    <2>2. Underway(rows', i) /\ rows'[i] = rows[i]
      BY <1>4, <1>6, <1>8, <1>9, <2>1
    <2>3. i \in 1 .. N + 1 /\ i + Len(rows'[i].calls) <= MaxMessages
      BY <1>1, <1>4, <1>13, <2>2
    <2> QED BY <2>2, <2>3
  <1>19. \E v \in 0 .. Len(rows) + 1 : view' = SubSeq(rows', v + 1, Len(rows'))
    BY <1>1, <1>6, <1>7, ViewGrows
  <1>20. exchange' \in Exchanges /\ exchange' # "streaming"
    BY <1>15 DEF Exchanges
  <1>21. Adds(m)
    BY <1>6, <1>7, <1>11, <1>13, <1>16, <1>17, <1>18, <1>19, <1>20 DEF Adds
  <1>22. TalkRowsInv'
    BY <1>1, <1>6, <1>21, RowAdded
  <1>23. EchoInv'
    BY <1>1, <1>6, <1>7, <1>16, EchoKept
  <1> QED BY <1>22, <1>23 DEF TalkInv

\* A handler that is lost cuts short the answer underway.
LEMMA HandlerLostStep == TalkInv /\ HandlerLost => TalkInv'
  <1> SUFFICES ASSUME TalkInv, HandlerLost PROVE TalkInv'
    OBVIOUS
  <1>1. /\ rows \in Seq(Messages) /\ Len(rows) \in Nat /\ exchange = "tools"
        /\ RowsFit(rows, cutAt, exchange = "tools") /\ cutAt \subseteq 1 .. Len(rows)
        /\ \E v \in 0 .. Len(rows) : view = SubSeq(rows, v + 1, Len(rows))
        /\ provider \in Providers /\ accessToken \in {"none", "fresh", "stale"}
        /\ Len(rows) <= MaxMessages
    BY DEF TalkInv, TalkRowsInv, HandlerLost
  <1>2. /\ exchange' = "idle" /\ cutAt' = cutAt \cup {Len(rows)}
        /\ UNCHANGED <<provider, rows, view, heard, accessToken>>
    BY DEF HandlerLost
  <1>3. cutAt' \subseteq 1 .. Len(rows)
    <2>1. \E i \in 1 .. Len(rows) : TRUE
      BY <1>1 DEF RowsFit
    <2>2. Len(rows) \in 1 .. Len(rows)
      BY <1>1, <2>1
    <2> QED BY <1>1, <1>2, <2>2
  <1>4. RowsFit(rows, cutAt', FALSE)
    <2>1. ASSUME NEW j \in 1 .. Len(rows)
          PROVE  /\ CutShort(rows, j, cutAt) => CutShort(rows, j, cutAt')
                 /\ Underway(rows, j) => CutShort(rows, j, cutAt')
      <3>1. Len(rows) \in cutAt' /\ j <= Len(rows)
        BY <1>1, <1>2
      <3>2. Underway(rows, j) => CutShort(rows, j, cutAt')
        BY <3>1 DEF Underway, CutShort
      <3>3. CutShort(rows, j, cutAt) => CutShort(rows, j, cutAt')
        BY <1>2 DEF CutShort
      <3> QED BY <3>2, <3>3
    <2> QED BY <1>1, <2>1 DEF RowsFit
  <1>5. RowsFit(rows', cutAt', exchange' = "tools")
    <2>1. (exchange' = "tools") = FALSE /\ rows' = rows
      BY <1>2
    <2> QED BY <1>4, <2>1, Zenon
  <1>6. Exchanges' = Exchanges /\ Messages' = Messages
    BY DEF Exchanges, Messages, Names
  <1>7. /\ exchange' \in Exchanges /\ exchange' # "streaming"
        /\ rows' \in Seq(Messages) /\ Len(rows') <= MaxMessages
        /\ cutAt' \subseteq 1 .. Len(rows')
        /\ \E v \in 0 .. Len(rows') : view' = SubSeq(rows', v + 1, Len(rows'))
        /\ provider' \in Providers /\ accessToken' \in {"none", "fresh", "stale"}
    BY <1>1, <1>2, <1>3 DEF Exchanges
  <1>8. TalkRowsInv'
    BY <1>5, <1>6, <1>7 DEF TalkRowsInv
  <1>9. EchoInv'
    BY <1>2 DEF TalkInv, EchoInv, Echoes, Carried, AnswerRows, Gave
  <1> QED BY <1>8, <1>9 DEF TalkInv

LEMMA TalkInvStep == TalkInv /\ [AdaptersNext]_adapterVars => TalkInv'
  <1> SUFFICES ASSUME TalkInv, [AdaptersNext]_adapterVars PROVE TalkInv'
    OBVIOUS
  <1>1. /\ TalkRowsInv /\ EchoInv /\ exchange \in Exchanges
        /\ accessToken \in {"none", "fresh", "stale"}
        /\ exchange = "streaming" => provider = "ollama"
    BY DEF TalkInv, TalkRowsInv
  <1>2. ASSUME AddsNone, heard' = heard PROVE TalkInv'
    <2>1. provider' = provider /\ rows' = rows
      BY <1>2 DEF AddsNone
    <2>2. EchoInv'
      BY <1>1, <1>2, <2>1 DEF EchoInv, Echoes, Carried, AnswerRows, Gave
    <2> QED BY <1>1, <1>2, <2>2, TalkRowsStay DEF TalkInv
  <1>3. CASE UNCHANGED adapterVars
    <2>1. AddsNone /\ heard' = heard
      BY <1>1, <1>3 DEF adapterVars, AddsNone
    <2> QED BY <1>2, <2>1
  <1>4. CASE AskProvider \/ FetchToken \/ TokenAges \/ AutoPull \/ AskStream \/ Chunk
              \/ AdapterThrows
    <2>1. AddsNone /\ heard' = heard
      BY <1>1, <1>4 DEF AskProvider, FetchToken, TokenAges, AutoPull, AskStream, Chunk,
                        AdapterThrows, Send, AddsNone, Exchanges
    <2> QED BY <1>2, <2>1
  <1>5. CASE Answer
    <2>1. PICK a \in Answers :
              /\ Len(rows) + 1 + Len(a.calls) <= MaxMessages
              /\ TakeUp(a, Filtered(a, ReplyOf(a)))
      BY <1>5 DEF Answer
    <2>2. exchange # "tools" /\ UNCHANGED <<provider, cutAt, accessToken>>
      BY <1>5 DEF Answer
    <2> QED BY <1>1, <2>1, <2>2, TakeUpStep
  <1>6. CASE StreamEnds
    <2>1. PICK a \in Answers :
              /\ Len(rows) + 1 + Len(a.calls) <= MaxMessages
              /\ TakeUp(a, Filtered(a, OllamaStreamReply(a)))
      BY <1>6 DEF StreamEnds
    <2>2. /\ exchange # "tools" /\ provider = "ollama"
          /\ UNCHANGED <<provider, cutAt, accessToken>>
      BY <1>1, <1>6 DEF StreamEnds
    <2> QED BY <1>1, <2>1, <2>2, TakeUpStep
  <1> QED BY <1>3, <1>4, <1>5, <1>6, SpeakStep, ToolResultStep, HandlerLostStep
          DEF AdaptersNext

LEMMA TalkBegins == AdaptersInit => TalkInv
  <1> SUFFICES ASSUME AdaptersInit PROVE TalkInv
    OBVIOUS
  <1>1. /\ provider \in Providers /\ rows = <<>> /\ view = <<>> /\ exchange = "idle"
        /\ heard = <<>> /\ cutAt = {} /\ accessToken = "none"
    BY DEF AdaptersInit
  <1>2. Len(rows) = 0 /\ rows \in Seq(Messages) /\ heard \in Seq(Gave) /\ Len(heard) = 0
    BY <1>1
  <1>3. RowsFit(rows, cutAt, exchange = "tools")
    BY <1>1, <1>2 DEF RowsFit
  <1>4. \E v \in 0 .. Len(rows) : view = SubSeq(rows, v + 1, Len(rows))
    <2>1. SubSeq(rows, 0 + 1, Len(rows)) = rows
      BY <1>2, SubSeqFull
    <2> QED BY <1>1, <1>2, <2>1
  <1>5. Keep(rows, AnswerRows) = <<>>
    <2>1. Keep(<<>>, AnswerRows) = <<>>
      BY <1>1, <1>2, KeepTyped
    <2> QED BY <1>1, <2>1
  <1>6. EchoInv
    BY <1>2, <1>5 DEF EchoInv
  <1>7. TalkRowsInv
    BY <1>1, <1>2, <1>3, <1>4, AdaptersAssumption DEF TalkRowsInv, Exchanges
  <1> QED BY <1>6, <1>7 DEF TalkInv

-----------------------------------------------------------------------------
(* What a provider is shown.                                               *)

\* The request has an entry for each message of the handler's array.
LEMMA WireIs ==
    ASSUME TalkInv
    PROVE  /\ view \in Seq(Messages) /\ Wire \in Seq(Entries) /\ Len(Wire) = Len(view)
           /\ DOMAIN Wire = 1 .. Len(view)
           /\ \A i \in 1 .. Len(view) : Wire[i] = EntryOf(view[i])
           /\ \E v \in Nat :
                  /\ view = SubSeq(rows, v + 1, Len(rows)) /\ Len(rows) = v + Len(view)
                  /\ \A i \in 1 .. Len(view) : view[i] = rows[v + i]
  <1>1. rows \in Seq(Messages) /\ provider \in Providers
    BY DEF TalkInv, TalkRowsInv
  <1>2. PICK v \in 0 .. Len(rows) : view = SubSeq(rows, v + 1, Len(rows))
    BY DEF TalkInv, TalkRowsInv
  <1>3. view \in Seq(Messages) /\ Len(rows) = v + Len(view) /\ v \in Nat
    BY <1>1, <1>2
  <1>4. ASSUME NEW i \in 1 .. Len(view) PROVE view[i] = rows[v + i]
    <2>1. (v + 1) + i - 1 = v + i
      OBVIOUS
    <2> QED BY <1>1, <1>2, <1>3, <2>1
  <1>5. DOMAIN view = 1 .. Len(view)
    BY <1>3
  <1>6. Wire = [i \in 1 .. Len(view) |-> EntryOf(view[i])]
    BY <1>5 DEF Wire
  <1>7. \A i \in 1 .. Len(view) : EntryOf(view[i]) \in Entries
    BY <1>1, <1>3, EntryTells
  <1>8. /\ Wire \in Seq(Entries) /\ Len(Wire) = Len(view) /\ DOMAIN Wire = 1 .. Len(view)
        /\ \A i \in 1 .. Len(view) : Wire[i] = EntryOf(view[i])
    <2> DEFINE entry(i) == EntryOf(view[i])
    <2>1. \A i \in 1 .. Len(view) : entry(i) \in Entries
      BY <1>7
    <2>2. Wire = [i \in 1 .. Len(view) |-> entry(i)]
      BY <1>6
    <2>3. Len(view) \in Nat
      BY <1>3
    <2> HIDE DEF entry
    <2>4. /\ Wire \in Seq(Entries) /\ Len(Wire) = Len(view) /\ DOMAIN Wire = 1 .. Len(view)
          /\ \A i \in 1 .. Len(view) : Wire[i] = entry(i)
      BY <2>1, <2>2, <2>3
    <2> QED BY <2>4 DEF entry
  <1> QED BY <1>2, <1>3, <1>4, <1>8

LEMMA RepliesJoin ==
    ASSUME NEW s \in Seq(Messages), NEW t \in Seq(Messages)
    PROVE  Keep(s \o t, AnswerRows) = Keep(s, AnswerRows) \o Keep(t, AnswerRows)
  <1> HIDE DEF AnswerRows, Messages
  <1> QED BY KeepConcat

LEMMA EchoHolds == TalkInv => EchoesAnswers
  <1> SUFFICES ASSUME TalkInv PROVE EchoesAnswers
    OBVIOUS
  <1>1. /\ view \in Seq(Messages) /\ Wire \in Seq(Entries) /\ Len(Wire) = Len(view)
        /\ \A i \in 1 .. Len(view) : Wire[i] = EntryOf(view[i])
    BY WireIs
  <1>2. PICK v \in Nat : view = SubSeq(rows, v + 1, Len(rows)) /\ Len(rows) = v + Len(view)
    BY WireIs
  <1>3. /\ rows \in Seq(Messages) /\ provider \in Providers /\ EchoInv
        /\ v \in 0 .. Len(rows)
    BY <1>1, <1>2 DEF TalkInv, TalkRowsInv
  <1> DEFINE f == [m \in Messages |-> EntryOf(m)]
  <1>4. f \in [Messages -> Entries]
    BY <1>3, EntryTells
  <1>5. \A i \in 1 .. Len(view) : /\ Wire[i] = f[view[i]]
                                  /\ (Wire[i] \in OwnEntries <=> view[i] \in AnswerRows)
    BY <1>1, <1>3, EntryTells DEF AnswerRows
  <1> HIDE DEF f
  <1>6. /\ Len(Said) = Len(Keep(view, AnswerRows))
        /\ \A k \in 1 .. Len(Keep(view, AnswerRows)) : Said[k] = f[Keep(view, AnswerRows)[k]]
    BY <1>1, <1>4, <1>5, KeepMapped, SMTT(30) DEF Said
  <1>7. Said \in Seq(Entries)
    BY <1>1, KeepTyped DEF Said
  <1>8. PICK before \in Seq(Messages) : rows = before \o view
    <2>1. rows = SubSeq(rows, 1, v) \o view
      BY <1>2, <1>3, SplitAt, Zenon
    <2>2. SubSeq(rows, 1, v) \in Seq(Messages)
      BY <1>3
    <2> QED BY <2>1, <2>2
  <1>9. PICK p \in Seq(Messages), q \in Seq(Messages), r \in Seq(Messages) :
            /\ p = Keep(before, AnswerRows) /\ q = Keep(view, AnswerRows)
            /\ r = Keep(rows, AnswerRows)
    BY <1>1, <1>3, <1>8, KeepTyped
  <1>10. r = p \o q
    <2>1. PICK end \in Seq(Messages) : end = view
      BY <1>1
    <2>2. Keep(before \o end, AnswerRows) = Keep(before, AnswerRows) \o Keep(end, AnswerRows)
      BY RepliesJoin
    <2> QED BY <1>8, <1>9, <2>1, <2>2, Zenon
  <1>11. Len(heard) = Len(r) /\ \A k \in 1 .. Len(r) : Echoes(heard[k], r[k])
    BY <1>3, <1>9 DEF EchoInv
  <1>12. /\ Len(r) = Len(p) + Len(q)
         /\ \A k \in 1 .. Len(q) : r[Len(p) + k] = q[k]
    BY <1>9, <1>10
  <1>13. DOMAIN Said = 1 .. Len(q) /\ Len(heard) - Len(Said) = Len(p)
    BY <1>6, <1>7, <1>9, <1>11, <1>12
  <1>14. ASSUME NEW k \in 1 .. Len(q)
         PROVE  LET a == heard[Len(p) + k]
                IN  /\ a.text \in {Word, Twice} => Said[k].text = Spoken(a)
                    /\ \/ Said[k].calls = Carried(a.calls)
                       \/ Said[k].calls = <<>> /\ a.reason = "length" /\ provider # "gemini"
    <2>1. PICK m \in Messages : m = q[k]
      BY <1>9
    <2>2. m.role = "assistant"
      <3>1. \E i \in 1 .. Len(Keep(view, AnswerRows)) : Keep(view, AnswerRows)[i] = m
        BY <1>9, <2>1
      <3>2. m \in AnswerRows
        BY <1>1, <3>1, KeepMembers
      <3> QED BY <3>2 DEF AnswerRows
    <2>3. Echoes(heard[Len(p) + k], m)
      <3>1. Len(p) + k \in 1 .. Len(r)
        BY <1>9, <1>12
      <3> QED BY <1>11, <1>12, <2>1, <3>1
    <2>4. Said[k] = EntryOf(m)
      <3>1. Said[k] = f[m]
        BY <1>6, <1>9, <2>1
      <3> QED BY <3>1 DEF f
    <2>5. Said[k].text = m.text /\ Said[k].calls = Carried(m.calls)
      BY <1>3, <2>2, <2>4, EntryTells
    <2> QED BY <2>3, <2>5 DEF Echoes
  <1> QED BY <1>13, <1>14 DEF EchoesAnswers

LEMMA AnswersHold == TalkInv => ResultsAnswerCalls
  <1> SUFFICES ASSUME TalkInv, exchange \in {"sent", "resent"},
                      provider \notin {"gemini", "ollama"}
               PROVE  /\ \A i \in DOMAIN Wire :
                          LostAt(i) \/ LET results == Answered(i)
                                       IN  /\ Cardinality(results) >= Len(Wire[i].calls)
                                           /\ \A c \in DOMAIN Wire[i].calls :
                                                  \E j \in results :
                                                      Wire[j].ref = Wire[i].calls[c].id
                      /\ \A j \in DOMAIN Wire : Wire[j].ref # NoId =>
                          \/ \A k \in 1..j : Wire[k].ref # NoId
                          \/ \E i \in 1..j-1 : /\ j \in Answered(i)
                                               /\ \E c \in DOMAIN Wire[i].calls :
                                                      Wire[i].calls[c].id = Wire[j].ref
    BY DEF ResultsAnswerCalls
  <1>1. /\ view \in Seq(Messages) /\ Len(Wire) = Len(view) /\ DOMAIN Wire = 1 .. Len(view)
        /\ \A i \in 1 .. Len(view) : Wire[i] = EntryOf(view[i])
    BY WireIs
  <1>2. PICK v \in Nat :
            /\ Len(rows) = v + Len(view)
            /\ \A i \in 1 .. Len(view) : view[i] = rows[v + i]
    BY WireIs
  <1>3. /\ rows \in Seq(Messages) /\ provider \in Providers /\ Len(rows) \in Nat
        /\ RowsFit(rows, cutAt, exchange = "tools")
    BY DEF TalkInv, TalkRowsInv
  <1>4. PICK M \in Nat : M = Len(view)
    <2>1. view \in Seq(Messages)
      BY WireIs
    <2> QED BY <2>1
  <1>5. /\ M = Len(view) /\ Len(Wire) = M /\ Len(rows) = v + M
        /\ \A i \in 1 .. M : v + i \in 1 .. Len(rows)
    BY <1>4, <1>1, <1>2, <1>3
  <1>6. ASSUME NEW i \in 1 .. M
        PROVE  /\ rows[v + i] \in Messages
               /\ Wire[i].calls = rows[v + i].calls
               /\ Wire[i].ref = IF rows[v + i].role = "tool" THEN rows[v + i].of.id ELSE NoId
    <2>1. PICK m \in Messages : m = rows[v + i] /\ Wire[i] = EntryOf(m)
      BY <1>1, <1>2, <1>3, <1>5
    <2>2. /\ EntryOf(m).calls = IF m.role = "assistant" THEN m.calls ELSE <<>>
          /\ EntryOf(m).ref = IF m.role = "tool" THEN m.of.id ELSE NoId
      BY <1>3, EntryTells
    <2>3. m.role # "assistant" => m.calls = <<>>
      BY <1>3, <1>5, <2>1 DEF RowsFit
    <2> QED BY <2>1, <2>2, <2>3
  <1>7. ASSUME NEW j \in 1 .. Len(rows), rows[j].role = "tool"
        PROVE  rows[j].of.id # NoId
    <2>1. PICK i \in 1 .. j - 1 : ResultOf(rows, i, j)
      BY <1>3, <1>7 DEF RowsFit, HasOwner
    <2>2. i \in 1 .. Len(rows) /\ j - i \in Nat \ {0}
      BY <1>3
    <2>3. rows[i].calls \in Seq(MadeCalls)
      BY <1>3, <2>2, MessageParts
    <2>4. j - i \in 1 .. Len(rows[i].calls) /\ rows[j].of = rows[i].calls[j - i]
      BY <2>1, <2>2, <2>3 DEF ResultOf
    <2>5. rows[j].of \in MadeCalls
      BY <2>3, <2>4
    <2> QED BY <2>5 DEF MadeCalls
  <1>8. ASSUME NEW k \in 1 .. M
        PROVE  Wire[k].ref # NoId <=> rows[v + k].role = "tool"
    BY <1>5, <1>6, <1>7
  <1> DEFINE Results(i) == {j \in i + 1 .. M : \A k \in i + 1 .. j : Wire[k].ref # NoId}
  <1>9. \A i : Answered(i) = Results(i)
    BY <1>5 DEF Answered
  \* A run of results in the conversation is one in the request.
  <1>10. ASSUME NEW i \in 1 .. M, NEW j \in i + 1 .. M, ToolsUpTo(rows, v + i, v + j)
        PROVE  j \in Answered(i)
    <2>1. ASSUME NEW k \in i + 1 .. j PROVE Wire[k].ref # NoId
      <3>1. k \in 1 .. M /\ v + k \in (v + i) + 1 .. v + j
        BY <1>5
      <3>2. rows[v + k].role = "tool"
        BY <1>10, <3>1 DEF ToolsUpTo
      <3> QED BY <1>8, <3>1, <3>2
    <2> QED BY <1>9, <2>1
  <1>11. ASSUME NEW i \in 1 .. M
         PROVE  LostAt(i) \/ LET results == Answered(i)
                             IN  /\ Cardinality(results) >= Len(Wire[i].calls)
                                 /\ \A c \in DOMAIN Wire[i].calls :
                                        \E j \in results : Wire[j].ref = Wire[i].calls[c].id
    <2>1. PICK calls \in Seq(MadeCalls), size \in Nat :
              /\ calls = rows[v + i].calls /\ calls = Wire[i].calls /\ size = Len(calls)
      BY <1>6, MessageParts
    <2>2. v + i \in 1 .. Len(rows) /\ Len(rows) - Len(view) + i = v + i
      BY <1>5
    <2>3. CASE size = 0
      <3>1. DOMAIN calls = {} /\ Len(Wire[i].calls) = 0
        <4>1. DOMAIN calls = 1 .. size /\ Len(Wire[i].calls) = size
          BY <2>1
        <4>2. 1 .. size = {}
          BY <2>3
        <4> QED BY <2>3, <4>1, <4>2
      <3>2. IsFiniteSet(Answered(i))
        <4>1. Answered(i) \subseteq i + 1 .. M
          BY <1>9
        <4>2. IsFiniteSet(i + 1 .. M)
          <5>1. i + 1 \in Int /\ M \in Int
            OBVIOUS
          <5> QED BY <5>1, FS_Interval
        <4> QED BY <4>2, <4>1, FS_Subset
      <3>3. Cardinality(Answered(i)) \in Nat
        BY <3>2, FS_CardinalityType
      <3> QED BY <2>1, <3>1, <3>3
    <2>4. CASE CutShort(rows, v + i, cutAt)
      <3>1. PICK c \in cutAt : v + i <= c /\ c < (v + i) + Len(rows[v + i].calls)
        BY <2>4 DEF CutShort
      <3>2. cutAt \subseteq 1 .. Len(rows)
        BY DEF TalkInv, TalkRowsInv
      <3>3. /\ c >= Len(rows) - Len(view) + i
            /\ c < Len(rows) - Len(view) + i + Len(Wire[i].calls)
        BY <1>5, <2>1, <2>2, <3>1, <3>2
      <3> QED BY <3>3 DEF LostAt
    <2>5. CASE AllAnswered(rows, v + i) /\ size # 0
      <3>1. (v + i) + size <= Len(rows) /\ ToolsUpTo(rows, v + i, (v + i) + size)
        BY <2>1, <2>5 DEF AllAnswered
      <3>2. ASSUME NEW c \in 1 .. size
            PROVE  i + c \in Answered(i) /\ Wire[i + c].ref = calls[c].id
        <4>1. i + c \in i + 1 .. M /\ i + c \in 1 .. M /\ v + (i + c) = (v + i) + c
          BY <1>5, <3>1
        <4>2. ToolsUpTo(rows, v + i, v + (i + c))
          <5>1. (v + i) + 1 .. v + (i + c) \subseteq (v + i) + 1 .. (v + i) + size
            BY <1>5
          <5> QED BY <3>1, <5>1 DEF ToolsUpTo
        <4>3. i + c \in Answered(i)
          BY <1>10, <4>1, <4>2
        <4> DEFINE j == (v + i) + c
        <4>4. j \in 1 .. Len(rows) /\ rows[j].role = "tool"
          <5>1. j \in (v + i) + 1 .. (v + i) + size /\ j \in 1 .. Len(rows)
            BY <1>5, <4>1
          <5> QED BY <3>1, <5>1 DEF ToolsUpTo
        <4>5. PICK k \in 1 .. j - 1 : ResultOf(rows, k, j)
          BY <1>3, <4>4 DEF RowsFit, HasOwner
        <4>6. rows[v + i].role = "assistant"
          <5>1. calls # <<>>
            BY <2>1, <2>5
          <5> QED BY <1>3, <2>1, <2>2, <5>1 DEF RowsFit
        <4>7. k = v + i
          <5>1. k < v + i => rows[v + i].role = "tool"
            <6>1. k < v + i => v + i \in k + 1 .. j
              BY <1>5
            <6> QED BY <4>5, <6>1 DEF ResultOf, ToolsUpTo
          <5>2. v + i < k => rows[k].role = "tool"
            <6>1. v + i < k => k \in (v + i) + 1 .. (v + i) + size
              BY <1>5
            <6> QED BY <3>1, <6>1 DEF ToolsUpTo
          <5>3. rows[k].role = "assistant"
            BY <4>5 DEF ResultOf
          <5> QED BY <1>5, <4>6, <5>1, <5>2, <5>3
        <4>8. rows[j].of = calls[c]
          <5>1. j - k = c
            BY <1>5, <4>7
          <5> QED BY <2>1, <4>5, <4>7, <5>1 DEF ResultOf
        <4>9. Wire[i + c].ref = rows[j].of.id
          BY <1>6, <4>1, <4>4
        <4> QED BY <4>3, <4>8, <4>9
      <3>3. IsFiniteSet(Answered(i)) /\ i + 1 .. i + size \subseteq Answered(i)
        <4>1. Answered(i) \subseteq i + 1 .. M
          BY <1>9
        <4>2. IsFiniteSet(i + 1 .. M)
          <5>1. i + 1 \in Int /\ M \in Int
            OBVIOUS
          <5> QED BY <5>1, FS_Interval
        <4>3. ASSUME NEW j \in i + 1 .. i + size PROVE j \in Answered(i)
          <5>1. j - i \in 1 .. size /\ i + (j - i) = j
            OBVIOUS
          <5> QED BY <3>2, <5>1
        <4> QED BY <4>1, <4>2, <4>3, FS_Subset
      <3>4. Cardinality(i + 1 .. i + size) = size
        <4>1. Cardinality(i + 1 .. i + size)
                  = IF i + 1 > i + size THEN 0 ELSE (i + size) - (i + 1) + 1
          BY FS_Interval
        <4> QED BY <2>5, <4>1
      <3>5. Cardinality(i + 1 .. i + size) <= Cardinality(Answered(i))
        BY <3>3, FS_Subset
      <3>6. Cardinality(Answered(i)) \in Nat
        BY <3>3, FS_CardinalityType
      <3>7. Cardinality(Answered(i)) >= Len(Wire[i].calls)
        BY <2>1, <3>4, <3>5, <3>6
      <3>8. \A c \in DOMAIN Wire[i].calls :
                \E j \in Answered(i) : Wire[j].ref = Wire[i].calls[c].id
        <4>1. DOMAIN calls = 1 .. size
          BY <2>1
        <4> QED BY <2>1, <3>2, <4>1
      <3> QED BY <3>7, <3>8
    <2>6. size = 0 \/ AllAnswered(rows, v + i) \/ CutShort(rows, v + i, cutAt)
      <3>1. calls = <<>> <=> size = 0
        BY <2>1
      <3> QED BY <1>3, <2>1, <2>2, <3>1 DEF RowsFit
    <2> QED BY <2>3, <2>4, <2>5, <2>6
  <1>12. ASSUME NEW j \in 1 .. M, Wire[j].ref # NoId
         PROVE  \/ \A k \in 1..j : Wire[k].ref # NoId
                \/ \E i \in 1..j-1 : /\ j \in Answered(i)
                                     /\ \E c \in DOMAIN Wire[i].calls :
                                            Wire[i].calls[c].id = Wire[j].ref
    <2>1. rows[v + j].role = "tool" /\ v + j \in 1 .. Len(rows)
      BY <1>5, <1>8, <1>12
    <2>2. PICK o \in 1 .. (v + j) - 1 : ResultOf(rows, o, v + j)
      BY <1>3, <2>1 DEF RowsFit, HasOwner
    <2>3. CASE o <= v
      <3>1. ASSUME NEW k \in 1 .. j PROVE Wire[k].ref # NoId
        <4>1. k \in 1 .. M /\ v + k \in o + 1 .. v + j
          BY <1>5, <2>3
        <4>2. rows[v + k].role = "tool"
          BY <2>2, <4>1 DEF ResultOf, ToolsUpTo
        <4> QED BY <1>8, <4>1, <4>2
      <3> QED BY <3>1
    <2>4. CASE o > v
      <3> DEFINE i == o - v
      <3>1. i \in 1 .. j - 1 /\ i \in 1 .. M /\ v + i = o /\ j \in i + 1 .. M
        BY <1>5, <2>4
      <3> HIDE DEF i
      <3>2. j \in Answered(i)
        <4>1. ToolsUpTo(rows, v + i, v + j)
          BY <2>2, <3>1 DEF ResultOf
        <4> QED BY <1>10, <3>1, <4>1
      <3>3. PICK calls \in Seq(MadeCalls) : calls = rows[o].calls /\ calls = Wire[i].calls
        BY <1>6, <3>1, MessageParts
      <3> DEFINE c == (v + j) - o
      <3>4. c \in 1 .. Len(calls) /\ rows[v + j].of = calls[c]
        <4>1. c \in Nat \ {0}
          BY <1>5
        <4>2. c <= Len(rows[o].calls) /\ rows[v + j].of = rows[o].calls[c]
          BY <2>2 DEF ResultOf
        <4> HIDE DEF c
        <4>3. c <= Len(calls) /\ rows[v + j].of = calls[c]
          BY <3>3, <4>2, Zenon
        <4> QED BY <4>1, <4>3
      <3>5. Wire[j].ref = rows[v + j].of.id
        BY <1>6, <2>1
      <3>6. c \in DOMAIN Wire[i].calls /\ Wire[i].calls[c].id = Wire[j].ref
        <4> HIDE DEF c
        <4> QED BY <3>3, <3>4, <3>5
      <3> QED BY <3>1, <3>2, <3>6
    <2> QED BY <1>5, <2>3, <2>4
  <1> QED BY <1>4, <1>1, <1>11, <1>12, Zenon

\* The types of the adapters, for any providers, conversation and window: the array
\* of a handler is the end of what is stored, and tools are worked on exactly while
\* calls lack results (agent-loop.ts:176-208).
THEOREM AdapterTypes == AdaptersSpec => []AdaptersTypeOK
  <1>1. ASSUME TalkInv PROVE AdaptersTypeOK
    <2>1. /\ TalkRowsInv /\ rows \in Seq(Messages)
          /\ RowsFit(rows, cutAt, exchange = "tools")
      BY <1>1 DEF TalkInv, TalkRowsInv
    <2>2. ASSUME exchange = "tools" PROVE Outstanding(rows) # {}
      <3>1. PICK i \in 1 .. Len(rows) : Underway(rows, i)
        BY <2>1, <2>2 DEF RowsFit
      <3>2. Len(rows[i].calls) \in Nat /\ (rows[i].calls = <<>> <=> Len(rows[i].calls) = 0)
        BY <2>1, MessageParts
      <3>3. rows[i].role = "assistant"
        <4>1. rows[i].calls # <<>>
          BY <2>1, <3>1, <3>2 DEF Underway
        <4> QED BY <2>1, <4>1 DEF RowsFit
      <3>4. Outstanding(rows) =
                {rows[k].calls[Len(rows) - k + 1] : k \in
                    {j \in 1 .. Len(rows) : rows[j].role = "assistant" /\ Underway(rows, j)}}
        BY <2>1, OutstandingIs
      <3>5. rows[i].calls[Len(rows) - i + 1] \in Outstanding(rows)
        BY <3>1, <3>3, <3>4
      <3> QED BY <3>5
    <2> QED BY <2>1, <2>2 DEF TalkRowsInv, AdaptersTypeOK
  <1> QED BY <1>1, TalkBegins, TalkInvStep, PTL DEF AdaptersSpec

\* A provider is sent the conversation that it took part in, whatever the provider
\* is, and for any bound on the conversation and any window of the history: its own
\* answers as it gave them or as the output filter left their texts, each call with
\* its results and each result with its call, unless a handler was lost between them
\* or the window begins there (the adapters' complete, router.ts:261-282,
\* agent-loop.ts:173-208).
THEOREM ConversationKept == AdaptersSpec => []ConversationSurvives
  <1>1. TalkInv => ConversationSurvives
    BY EchoHolds, AnswersHold DEF ConversationSurvives
  <1> QED BY <1>1, TalkBegins, TalkInvStep, PTL DEF AdaptersSpec

-----------------------------------------------------------------------------
(* The parts side by side.                                                 *)

\* A step is of the part that moves, and the others rest.
LEMMA StepIsOfAPart ==
    [Next]_vars =>
        /\ [AdaptersNext]_adapterVars /\ [ProvidersNext]_providerVars
        /\ [ManifestNext]_manifestVars /\ [AgentNext]_agentVars
        /\ [IntegrationsNext]_integrationVars /\ [SlackNext]_slackVars
        /\ [ChatNext]_chatVars /\ [MailNext]_mailVars
        /\ [ChannelsNext]_channelVars /\ [ArchivesNext]_archiveVars
        /\ [LockoutNext]_lockoutVars /\ [BrowserNext]_browserVars
        /\ [DelegationNext]_delegationVars /\ [AccessNext]_accessVars
  <1>1. CASE Next
    <2>1. Rest
      BY <1>1 DEF Next
    <2>2. /\ part = "adapters" => AdaptersNext
          /\ part = "providers" => ProvidersNext
          /\ part = "manifests" => ManifestNext
          /\ part \in {"agents", "skills"} => AgentNext
          /\ part \in {"integrations", "boards"} => IntegrationsNext
          /\ part \in {"slack", "buttons"} => SlackNext
          /\ part \in {"chat", "sockets"} => ChatNext
          /\ part \in {"mail", "oddmail"} => MailNext
          /\ part = "channels" => ChannelsNext
          /\ part = "archives" => ArchivesNext
          /\ part = "lockout" => LockoutNext
          /\ part = "browser" => BrowserNext
          /\ part = "delegation" => DelegationNext
          /\ part = "access" => AccessNext
      BY <1>1 DEF Next
    <2>3. /\ part # "adapters" => UNCHANGED adapterVars
          /\ part # "providers" => UNCHANGED providerVars
          /\ part # "manifests" => UNCHANGED manifestVars
          /\ part \notin {"agents", "skills"} => UNCHANGED agentVars
          /\ part \notin {"integrations", "boards"} => UNCHANGED integrationVars
          /\ part \notin {"slack", "buttons"} => UNCHANGED slackVars
          /\ part \notin {"chat", "sockets"} => UNCHANGED chatVars
          /\ part \notin {"mail", "oddmail"} => UNCHANGED mailVars
          /\ part # "channels" => UNCHANGED channelVars
          /\ part # "archives" => UNCHANGED archiveVars
          /\ part # "lockout" => UNCHANGED lockoutVars
          /\ part # "browser" => UNCHANGED browserVars
          /\ part # "delegation" => UNCHANGED delegationVars
          /\ part # "access" => UNCHANGED accessVars
      BY <2>1 DEF Rest
    <2> QED BY <2>2, <2>3
  <1>2. CASE UNCHANGED vars
    BY <1>2 DEF vars
  <1> QED BY <1>1, <1>2

\* Each behaviour of MCEdges is one of every part's own specification, so that the
\* theorems about a part hold of what TLC checks there.
THEOREM EdgesAreParts ==
    Spec =>
        /\ AdaptersSpec /\ ProvidersSpec
        /\ ManifestSpec /\ AgentSpec
        /\ IntegrationsSpec /\ SlackSpec
        /\ ChatSpec /\ MailSpec
        /\ ChannelsSpec /\ ArchivesSpec
        /\ LockoutSpec /\ BrowserSpec
        /\ DelegationSpec /\ AccessSpec
  <1>1. Init =>
            /\ AdaptersInit /\ ProvidersInit
            /\ ManifestInit /\ AgentInit
            /\ IntegrationsInit /\ SlackInit
            /\ ChatInit /\ MailInit
            /\ ChannelsInit /\ ArchivesInit
            /\ LockoutInit /\ BrowserInit
            /\ DelegationInit /\ AccessInit
    BY DEF Init
  <1> QED BY <1>1, StepIsOfAPart, PTL DEF Spec, AdaptersSpec, ProvidersSpec,
      ManifestSpec, AgentSpec, IntegrationsSpec, SlackSpec, ChatSpec, MailSpec,
      ChannelsSpec, ArchivesSpec, LockoutSpec, BrowserSpec, DelegationSpec,
      AccessSpec

\* The types of whichever part moves, for any values of the constants of any of them
\* (llm/adapters, api/, channels/, cli/commands, web-ui, orchestration).
THEOREM EdgesTypes == Spec => []EdgesTypeOK
  <1>1. /\ AdaptersTypeOK /\ ProvidersTypeOK
        /\ ManifestTypeOK /\ AgentTypeOK
        /\ IntegrationsTypeOK /\ SlackTypeOK
        /\ ChatTypeOK /\ MailTypeOK
        /\ ChannelsTypeOK /\ ArchivesTypeOK
        /\ LockoutTypeOK /\ BrowserTypeOK
        /\ DelegationTypeOK /\ AccessTypeOK
        => EdgesTypeOK
    BY DEF EdgesTypeOK
  <1> QED BY <1>1, EdgesAreParts, AdapterTypes, ProvidersTypesHold, ManifestTypes,
      AgentTypesHold, IntegrationsTypesHold, SlackTypesHold, ChatTypesHold,
      MailTypesHold, ChannelsTypesHold, ArchivesTypesHold, LockoutTypes,
      BrowserTypesHold, DelegationTypes, AccessTypes, PTL
=============================================================================
