-------------------------- MODULE ChannelAdapters --------------------------
(***************************************************************************)
(* The adapters of the other channels: web chat and REST callers that poll *)
(* a queue, Teams with its conversation references, Discord with its       *)
(* limit on the length of a message, and the inbound webhook.  A behaviour *)
(* is about one of them.                                                   *)
(*                                                                         *)
(* What the control plane hands to an adapter is numbered in order.  A web *)
(* client's messages wait in one queue; what is sent is on its way for as  *)
(* long as the other side takes, beside what was sent before and after.    *)
(***************************************************************************)
EXTENDS Naturals, Subsequences, FiniteSets

TextOps == INSTANCE SequencesExt

CONSTANTS AdapterNames,   \* of "web", "api", "teams", "discord", "webhook"
          Lines,          \* channels: clients, callers, conversations
          MaxOut,         \* bound: messages handed to the adapter
          Texts,          \* what an answer can be: sequences of "x", " " and "nl"
          DiscordLength   \* DISCORD_MAX_LENGTH

ASSUME ChannelsAssumption ==
    /\ MaxOut \in Nat /\ DiscordLength \in Nat \ {0}
    /\ Texts \subseteq Seq({"x", " ", "nl"})

VARIABLES channel,   \* the adapter this behaviour is about
          running,   \* it is started
          line,      \* "new", "here" or "gone": the clients, callback URLs and references
          idle,      \* web clients that have done nothing for five minutes
          queue,     \* messages pending on each line
          got,       \* what each line received, in order
          out        \* messages handed over: their line, their fate, the text left of
                     \* each, and those of its line that it could arrive before

channelVars == <<channel, running, line, idle, queue, got, out>>

ChannelsInit ==
    /\ channel \in AdapterNames
    /\ running = FALSE
    /\ line = [c \in Lines |-> "new"] /\ idle = {}
    /\ queue = [c \in Lines |-> << >>] /\ got = [c \in Lines |-> << >>]
    /\ out = << >>

(* start, and stop, which forgets clients, queues and references.          *)
StartChannel ==
    /\ ~running /\ running' = TRUE
    /\ UNCHANGED <<channel, line, idle, queue, got, out>>

StopChannel ==
    /\ running /\ running' = FALSE
    /\ line' = [c \in Lines |-> IF line[c] = "here" /\ channel = "web" THEN "gone"
                                ELSE IF line[c] = "here" THEN "new" ELSE line[c]]
    /\ queue' = [c \in Lines |-> << >>]
    /\ UNCHANGED <<channel, idle, got, out>>
-----------------------------------------------------------------------------
(* The other side: a web client registers under a new identifier and may   *)
(* leave; a REST caller may give a callback URL with its message; any      *)
(* message of a Teams conversation stores its reference.                   *)
Appears(c) ==
    /\ line[c] = "new" /\ (channel \in {"web", "api"} \/ (channel = "teams" /\ running))
    /\ line' = [line EXCEPT ![c] = "here"]
    /\ UNCHANGED <<channel, running, idle, queue, got, out>>

Disconnects(c) ==
    /\ channel = "web" /\ line[c] = "here"
    /\ line' = [line EXCEPT ![c] = "gone"] /\ queue' = [queue EXCEPT ![c] = << >>]
    /\ UNCHANGED <<channel, running, idle, got, out>>

GoesIdle(c) ==
    /\ channel = "web" /\ line[c] = "here" /\ c \notin idle
    /\ idle' = idle \cup {c}
    /\ UNCHANGED <<channel, running, line, queue, got, out>>

(* cleanupStaleClients, on the timer.                                      *)
CleanupStale ==
    /\ channel = "web" /\ running /\ \E c \in idle : line[c] = "here"
    /\ line' = [c \in Lines |-> IF c \in idle /\ line[c] = "here" THEN "gone" ELSE line[c]]
    /\ queue' = [c \in Lines |-> IF c \in idle THEN << >> ELSE queue[c]]
    /\ UNCHANGED <<channel, running, idle, got, out>>

(* handleInbound of a known client keeps it.                               *)
Speaks(c) ==
    /\ channel = "web" /\ line[c] = "here" /\ c \in idle
    /\ idle' = idle \ {c}
    /\ UNCHANGED <<channel, running, line, queue, got, out>>

\* Mutated: the messages returned stay pending.
PeekMessages(c) ==
    /\ channel \in {"web", "api"} /\ queue[c] # << >>
    /\ got' = [got EXCEPT ![c] = @ \o queue[c]]
    /\ idle' = idle \ {c}
    /\ UNCHANGED <<channel, running, line, queue, out>>

(* pollMessages and drainMessages.                                         *)
PollMessages(c) ==
    /\ channel \in {"web", "api"} /\ queue[c] # << >>
    /\ got' = [got EXCEPT ![c] = @ \o queue[c]]
    /\ queue' = [queue EXCEPT ![c] = << >>]
    /\ idle' = idle \ {c}
    /\ UNCHANGED <<channel, running, line, out>>
-----------------------------------------------------------------------------
(* splitMessage: the last newline within the limit, else the last space,   *)
(* else the limit; what follows loses its leading blanks.                  *)
Breaks(text, blank) == {i \in 1..DiscordLength : text[i + 1] = blank}
SplitIndex(text) ==
    IF Breaks(text, "nl") # {} THEN TextOps!Max(Breaks(text, "nl"))
    ELSE IF Breaks(text, " ") # {} THEN TextOps!Max(Breaks(text, " "))
    ELSE DiscordLength

Solid(text) == Keep(text, {"x"})
Blank(text) == Solid(text) = << >>
TrimStart(text) ==
    IF Blank(text) THEN << >>
    ELSE SubSeq(text, TextOps!Min({i \in DOMAIN text : text[i] = "x"}), Len(text))

FirstChunk(text) == IF Len(text) <= DiscordLength THEN text ELSE SubSeq(text, 1, SplitIndex(text))

\* Mutated: the character after the split is taken for a blank.
AfterBreak(text) ==
    IF Len(text) <= DiscordLength THEN << >>
    ELSE TrimStart(SubSeq(text, SplitIndex(text) + 2, Len(text)))

AfterChunk(text) ==
    IF Len(text) <= DiscordLength THEN << >>
    ELSE TrimStart(SubSeq(text, SplitIndex(text) + 1, Len(text)))

(* Those on their way to the line; and those that wait for a poll, if the  *)
(* message is sent.                                                        *)
Passes(c, fate) ==
    {m \in DOMAIN out : out[m].line = c /\ out[m].fate = "sending"}
        \cup IF fate = "sending" THEN {queue[c][i] : i \in DOMAIN queue[c]} ELSE {}

Note(c, fate, text) ==
    Append(out, [line |-> c, fate |-> fate, text |-> text, left |-> text, said |-> << >>,
                 passes |-> Passes(c, fate)])
Handed == Len(out) + 1
OneChunk == <<"x">>

(* sendOutbound.  A web client that is gone loses the message; a REST      *)
(* caller is called back once or polls; a failure of a callback is logged. *)
Queues(c) ==
    /\ \/ channel = "web" /\ line[c] = "here"
       \/ channel = "api" /\ line[c] # "here"
    /\ queue' = [queue EXCEPT ![c] = Append(@, Handed)]
    /\ out' = Note(c, "queued", << >>)
    /\ UNCHANGED got

(* Teams throws without a reference, Discord without a channel, and both   *)
(* before they are started; the webhook passes the output on to the        *)
(* callback it was given, if any.                                          *)
Fails(c) ==
    /\ ~(channel = "web" /\ line[c] = "here") /\ ~(channel = "api" /\ line[c] # "here")
    /\ out' = Note(c, "failed", << >>)
    /\ UNCHANGED <<queue, got>>

(* continueConversation, fetch and send are awaited.                       *)
StartsToSend(c) ==
    /\ \/ channel = "discord" /\ running
       \/ channel = "teams" /\ running /\ line[c] = "here"
       \/ channel = "api" /\ line[c] = "here"
       \/ channel = "webhook"
    /\ \E text \in IF channel = "discord" THEN Texts ELSE {OneChunk} :
        out' = Note(c, "sending", text)
    /\ UNCHANGED <<queue, got>>

SendOutbound(c) ==
    /\ Len(out) < MaxOut
    /\ Queues(c) \/ Fails(c) \/ StartsToSend(c)
    /\ UNCHANGED <<channel, running, line, idle>>

(* sendEscalation: every web client, of whatever workspace; one Teams       *)
(* conversation or one Discord channel; a REST caller under the agent's    *)
(* name, as SendOutbound does; the webhook nobody.                         *)
EscalateToOne(c) ==
    /\ Len(out) < MaxOut /\ running
    /\ channel = "discord" \/ (channel = "teams" /\ line[c] = "here")
    /\ out' = Note(c, "sending", OneChunk)
    /\ UNCHANGED <<channel, running, line, idle, queue, got>>

EscalateToAll ==
    /\ channel = "web" /\ Len(out) < MaxOut
    /\ queue' = [c \in Lines |-> IF line[c] = "here" THEN Append(queue[c], Handed) ELSE queue[c]]
    /\ \E c \in Lines : out' = Note(c, "queued", << >>)
    /\ UNCHANGED <<channel, running, line, idle, got>>

(* handleWebhook: a signed, recent call returns the output, or runs on     *)
(* and has its output delivered nowhere.                                   *)
WebhookRuns(c) ==
    /\ channel = "webhook" /\ running /\ Len(out) < MaxOut
    /\ out' = Note(c, "sending", OneChunk) \/ out' = Note(c, "failed", << >>)
    /\ UNCHANGED <<channel, running, line, idle, queue, got>>

(* What is sent arrives; Discord's chunks go one after the other, those of *)
(* two messages in any order; a chunk of blanks is refused.                *)
SendChunk(n) ==
    /\ out[n].fate = "sending"
    /\ LET text == out[n].left IN
        IF Blank(FirstChunk(text)) THEN out' = [out EXCEPT ![n].fate = "failed"] /\ UNCHANGED got
        ELSE /\ out' = [out EXCEPT ![n].said = Append(@, FirstChunk(text)),
                                   ![n].left = AfterChunk(text),
                                   ![n].fate = IF AfterChunk(text) = << >> THEN "delivered"
                                               ELSE "sending"]
             /\ got' = [got EXCEPT ![out[n].line] = Append(@, n)]
    /\ UNCHANGED <<channel, running, line, idle, queue>>

SendBreaks(n) ==
    /\ out[n].fate = "sending" /\ out' = [out EXCEPT ![n].fate = "failed"]
    /\ UNCHANGED <<channel, running, line, idle, queue, got>>

ChannelsNext ==
    \/ StartChannel \/ StopChannel \/ CleanupStale \/ EscalateToAll
    \/ \E c \in Lines :
        \/ Appears(c) \/ Disconnects(c) \/ GoesIdle(c) \/ Speaks(c) \/ PollMessages(c)
        \/ SendOutbound(c) \/ EscalateToOne(c) \/ WebhookRuns(c)
    \/ \E n \in DOMAIN out : SendChunk(n) \/ SendBreaks(n)

ChannelsSpec == ChannelsInit /\ [][ChannelsNext]_channelVars
-----------------------------------------------------------------------------
\* Types (core/src/types/channel.ts:28-35, and the adapters' fields).
ChannelsTypeOK ==
    /\ channel \in AdapterNames /\ running \in BOOLEAN /\ idle \subseteq Lines
    /\ line \in [Lines -> {"new", "here", "gone"}] /\ Len(out) <= MaxOut
    /\ \A c \in Lines : queue[c] \in Seq(1..MaxOut) /\ got[c] \in Seq(1..MaxOut)
    /\ \A n \in DOMAIN out : out[n].line \in Lines /\ out[n].fate \in {"queued", "delivered", "sending", "failed"}

\* A line receives what was sent to it once, or once per chunk on Discord, what is
\* still pending included; and in order, but that a message can arrive before those
\* that were still on their way as it was handed over, or that a REST caller had not
\* polled when it was called back.  No web client that is gone has anything pending
\* (web/adapter.ts:165-239, api/adapter.ts:120-201, teams/adapter.ts:103-123,
\* discord/adapter.ts:97-119).
LinesHearOnceInOrder ==
    /\ \A c \in Lines : LET all == got[c] \o queue[c] IN
        \A i, j \in DOMAIN all : i < j =>
            \/ all[i] < all[j] \/ all[j] \in out[all[i]].passes
            \/ all[i] = all[j] /\ channel = "discord"
    /\ channel = "web" => \A c \in Lines : line[c] # "here" => queue[c] = << >>

\* The chunks of an answer on Discord, and what is left of it, hold its text but for
\* blanks, and no chunk is empty or above the limit (discord/adapter.ts:254-284).
ChunksKeepText ==
    \A n \in DOMAIN out :
        /\ Solid(TextOps!FlattenSeq(out[n].said) \o out[n].left) = Solid(out[n].text)
        /\ \A i \in DOMAIN out[n].said : Len(out[n].said[i]) \in 1..DiscordLength

\* Both: what an adapter carries arrives once and in order, unless it overtakes what
\* was not there yet, and what arrives of a text on Discord is the text (the adapters'
\* send, poll and flush).
LinesHearText == LinesHearOnceInOrder /\ ChunksKeepText
=============================================================================
