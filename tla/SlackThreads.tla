--------------------------- MODULE SlackThreads ---------------------------
(***************************************************************************)
(* The Slack channel: messages of Slack threads, the session each thread   *)
(* is given through a key in Redis, the one reply a handler waits for, and *)
(* the approval message with its two buttons.                              *)
(*                                                                         *)
(* A handler publishes its input first and subscribes to the output after; *)
(* pub/sub forgets what nobody listens to.  The agent answers an input     *)
(* once, or never.                                                         *)
(***************************************************************************)
EXTENDS Naturals, FiniteSets

CONSTANTS SlackMessages,   \* the deliveries of Slack's events
          ThreadOf,        \* the thread of each
          Clickers         \* users before an approval message

ASSUME SlackAssumption ==
    IsFiniteSet(SlackMessages) /\ {"nothing", "hint"} \cap SlackMessages = {}

Threads == {ThreadOf[m] : m \in SlackMessages}

VARIABLES slackUp,     \* the adapter is started
          threadKey,   \* session:key:<thread>, 0 when unset
          minted,      \* session identifiers handed out
          handler,     \* each delivery's handler, its session and what it posted
          answered,    \* messages whose output the agent has published
          button,      \* what each user's click is about to do
          asked,       \* the approval message: what it shows, what was published
          expired,     \* threads whose key Redis has dropped
          hurried      \* threads in which a message did not wait, or a wait failed

slackVars == <<slackUp, threadKey, minted, handler, answered, button, asked, expired, hurried>>

Fresh(m) == [at |-> "unsent", session |-> 0, post |-> "nothing"]
Over == {"unsent", "ended"}
InThread(t) == {m \in SlackMessages : ThreadOf[m] = t}

SlackInit ==
    /\ slackUp = FALSE /\ minted = 0
    /\ threadKey = [t \in Threads |-> 0]
    /\ handler = [m \in SlackMessages |-> Fresh(m)]
    /\ answered = {}
    /\ button = [u \in Clickers |-> "none"]
    /\ asked = [shows |-> "nothing", published |-> {}]
    /\ expired = {} /\ hurried = {}

(* start and stop: handlers that run keep the clients they were given.     *)
StartSlack == slackUp' = TRUE /\ ~slackUp /\ UNCHANGED <<threadKey, minted, handler, answered, button, asked, expired, hurried>>
StopSlack == slackUp' = FALSE /\ slackUp /\ UNCHANGED <<threadKey, minted, handler, answered, button, asked, expired, hurried>>

Moves(m, step) == handler' = [handler EXCEPT ![m].at = step]
Ends(m, what) == handler' = [handler EXCEPT ![m].at = "ended", ![m].post = what]
-----------------------------------------------------------------------------
Hurry(m) == IF \E n \in InThread(ThreadOf[m]) \ {m} : handler[n].at \notin Over
            THEN hurried \cup {ThreadOf[m]} ELSE hurried

(* An event that fails its signature or the check of its age, that a bot   *)
(* wrote or that is no direct message, starts no handler.  Steps 1 and 2:  *)
(* the user, and the agent of the channel, or a hint in the thread.        *)
ResolveNobody(m) ==
    /\ slackUp /\ handler[m].at = "unsent"
    /\ Ends(m, "hint")
    /\ UNCHANGED <<slackUp, threadKey, minted, answered, button, asked, expired, hurried>>

(* Step 3: GET the key, and SET it to a new session when there was none.   *)
ReadKey(m) ==
    /\ slackUp /\ handler[m].at = "unsent"
    /\ LET s == threadKey[ThreadOf[m]] IN
        handler' = [handler EXCEPT ![m].at = IF s = 0 THEN "keyless" ELSE "keyed",
                                   ![m].session = s]
    /\ hurried' = Hurry(m)
    /\ UNCHANGED <<slackUp, threadKey, minted, answered, button, asked, expired>>

\* Mutated: one key for all threads of the channel.
SetChannelKey(m) ==
    /\ handler[m].at = "keyless"
    /\ minted' = minted + 1
    /\ threadKey' = [t \in Threads |-> minted']
    /\ handler' = [handler EXCEPT ![m].at = "keyed", ![m].session = minted']
    /\ UNCHANGED <<slackUp, answered, button, asked, expired, hurried>>

SetKey(m) ==
    /\ handler[m].at = "keyless"
    /\ minted' = minted + 1
    /\ threadKey' = [threadKey EXCEPT ![ThreadOf[m]] = minted']
    /\ handler' = [handler EXCEPT ![m].at = "keyed", ![m].session = minted']
    /\ UNCHANGED <<slackUp, answered, button, asked, expired, hurried>>

(* After a day Redis drops the key.                                        *)
KeyExpires(t) ==
    /\ threadKey[t] # 0
    /\ threadKey' = [threadKey EXCEPT ![t] = 0]
    /\ expired' = expired \cup {t}
    /\ UNCHANGED <<slackUp, minted, handler, answered, button, asked, hurried>>

(* Steps 4 and 5: publish, then subscribe on a connection of its own.      *)
PublishInput(m) ==
    /\ handler[m].at = "keyed" /\ Moves(m, "published")
    /\ UNCHANGED <<slackUp, threadKey, minted, answered, button, asked, expired, hurried>>

SubscribeOutput(m) ==
    /\ handler[m].at = "published" /\ Moves(m, "waiting")
    /\ UNCHANGED <<slackUp, threadKey, minted, answered, button, asked, expired, hurried>>

(* The loop has no context for a session that Slack made up, and publishes *)
(* that as an error; every handler that waits takes the first output.      *)
AgentAnswers(m) ==
    /\ handler[m].session # 0 /\ handler[m].at \notin {"unsent", "keyless", "keyed"}
    /\ m \notin answered
    /\ answered' = answered \cup {m}
    /\ handler' = [n \in SlackMessages |->
        IF handler[n].at = "waiting" /\ handler[n].session = handler[m].session
        THEN [handler[n] EXCEPT !.at = "heard", !.post = m] ELSE handler[n]]
    /\ UNCHANGED <<slackUp, threadKey, minted, button, asked, expired, hurried>>

PostReply(m) ==
    /\ handler[m].at = "heard" /\ Moves(m, "ended")
    /\ UNCHANGED <<slackUp, threadKey, minted, answered, button, asked, expired, hurried>>

(* A minute without output, and any call of Slack, Redis or the database   *)
(* that throws; the reply taken is then posted nowhere.                    *)
HandlerGivesUp(m) ==
    /\ handler[m].at \notin Over /\ Ends(m, "nothing")
    /\ hurried' = hurried \cup {ThreadOf[m]}
    /\ UNCHANGED <<slackUp, threadKey, minted, answered, button, asked, expired>>
-----------------------------------------------------------------------------
(* sendEscalation posts the message with its buttons once.                 *)
Escalate ==
    /\ slackUp /\ asked.shows = "nothing"
    /\ asked' = [asked EXCEPT !.shows = "buttons"]
    /\ UNCHANGED <<slackUp, threadKey, minted, handler, answered, button, expired, hurried>>

(* A click is acknowledged; the decision is published, to a channel that   *)
(* the gate does not read, and then the message is rewritten.              *)
Click(u) ==
    /\ slackUp /\ asked.shows = "buttons" /\ button[u] = "none"
    /\ \E d \in {"approved", "rejected"} :
        /\ button' = [button EXCEPT ![u] = d]
        /\ asked' = [asked EXCEPT !.published = @ \cup {d}]
    /\ UNCHANGED <<slackUp, threadKey, minted, handler, answered, expired, hurried>>

ShowDecision(u) ==
    /\ button[u] \in {"approved", "rejected"}
    /\ asked' = [asked EXCEPT !.shows = button[u]]
    /\ button' = [button EXCEPT ![u] = "done"]
    /\ UNCHANGED <<slackUp, threadKey, minted, handler, answered, expired, hurried>>

(* Slack refuses the rewriting, or Redis the publication before it.        *)
ClickFails(u) ==
    /\ \/ slackUp /\ asked.shows = "buttons" /\ button[u] = "none"
       \/ button[u] \in {"approved", "rejected"}
    /\ button' = [button EXCEPT ![u] = "done"]
    /\ UNCHANGED <<slackUp, threadKey, minted, handler, answered, asked, expired, hurried>>

SlackNext ==
    \/ StartSlack \/ StopSlack \/ Escalate
    \/ \E t \in Threads : KeyExpires(t)
    \/ \E m \in SlackMessages :
        \/ ResolveNobody(m) \/ ReadKey(m) \/ SetKey(m) \/ PublishInput(m)
        \/ SubscribeOutput(m) \/ AgentAnswers(m) \/ PostReply(m) \/ HandlerGivesUp(m)
    \/ \E u \in Clickers : Click(u) \/ ShowDecision(u) \/ ClickFails(u)

SlackSpec == SlackInit /\ [][SlackNext]_slackVars
-----------------------------------------------------------------------------
\* Types (adapter.ts:31-46, handlers/message.ts:58-66).
SlackTypeOK ==
    /\ slackUp \in BOOLEAN /\ minted \in 0..Cardinality(SlackMessages)
    /\ threadKey \in [Threads -> 0..minted]
    /\ \A m \in SlackMessages :
        /\ handler[m].at \in {"unsent", "keyless", "keyed", "published", "waiting", "heard", "ended"}
        /\ handler[m].session \in 0..minted
        /\ handler[m].post \in SlackMessages \cup {"nothing", "hint"}
    /\ answered \subseteq SlackMessages
    /\ expired \subseteq Threads /\ hurried \subseteq Threads
    /\ asked.shows \in {"nothing", "buttons", "approved", "rejected"}
    /\ asked.published \subseteq {"approved", "rejected"}

\* A thread whose writer waits for each reply, and in which no wait has failed, is
\* posted the answer to each message under that message; and an approval message
\* shows a decision only after it was published (handlers/message.ts:128-196,
\* handlers/approval.ts:27-78).
PatientThreadHearsItself ==
    /\ \A m \in SlackMessages :
        ThreadOf[m] \notin hurried /\ handler[m].post \in SlackMessages => handler[m].post = m
    /\ asked.shows \in {"approved", "rejected"} => asked.shows \in asked.published

\* handlers/message.ts:129-130: the session key is to make "the same Slack thread
\* always" map "to the same agent session".
SameThreadSameSession ==
    \A m, n \in SlackMessages :
        /\ ThreadOf[m] = ThreadOf[n] /\ ThreadOf[m] \notin expired
        /\ handler[m].session # 0 /\ handler[n].session # 0
        => handler[m].session = handler[n].session
=============================================================================
