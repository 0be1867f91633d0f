-------------------------- MODULE ChatConnection --------------------------
(***************************************************************************)
(* The chat page and the WebSocket endpoint behind it: the socket the page *)
(* opens for the agent it shows, the sockets it opens again after a close, *)
(* and what the server does with a message: create or check a session,     *)
(* subscribe to its output, and pass the message on.                       *)
(*                                                                         *)
(* A socket's close handler keeps the agent of the time it was opened for. *)
(***************************************************************************)
EXTENDS Naturals, FiniteSets

CONSTANTS ChatAgents,     \* agents the page lets choose from
          Sockets,        \* sockets, at most so many are opened: 1..n
          ChatMessages    \* messages the user may send

ASSUME ChatAssumption == Sockets \subseteq Nat \ {0} /\ IsFiniteSet(ChatMessages)

VARIABLES page,     \* what the page selected, and its references to sockets and timers
          timers,   \* sockets whose close has a reconnection pending
          sock,     \* both ends of each socket, the server's subscriptions included
          chat,     \* what became of each message
          stale     \* a reconnection was for another agent than the one selected

chatVars == <<page, timers, sock, chat, stale>>

NoAgent == "none"
Unused == [agent |-> NoAgent, state |-> "unused", session |-> 0, marked |-> {}, live |-> {}]
Unsent == [at |-> "unsent", socket |-> 0, selected |-> NoAgent, session |-> 0,
           rushed |-> FALSE, heard |-> FALSE]

ChatInit ==
    /\ page = [agent |-> NoAgent, here |-> TRUE, connected |-> FALSE, ws |-> 0, own |-> 0, timer |-> 0]
    /\ timers = {} /\ stale = FALSE
    /\ sock = [s \in Sockets |-> Unused]
    /\ chat = [m \in ChatMessages |-> Unsent]

Free(s) == sock[s].state = "unused" /\ \A r \in Sockets : r < s => sock[r].state # "unused"
OpenFor(s, a, before) == [before EXCEPT ![s].agent = a, ![s].state = "connecting"]
-----------------------------------------------------------------------------
(* The effect of the page.  Leaving it, or another agent, closes the       *)
(* socket this effect opened, not one a reconnection opened, and clears    *)
(* the last timer, not an earlier one.                                     *)
Closed(s, before) ==
    IF s # 0 /\ before[s].state \in {"connecting", "open"}
    THEN [before EXCEPT ![s].state = "closing"] ELSE before

\* Mutated: the connection does not depend on the agent.
SelectOnly(a, s) ==
    /\ page.here /\ a # page.agent /\ Free(s)
    /\ timers' = timers \ {page.timer}
    /\ sock' = IF page.ws = 0 THEN OpenFor(s, a, sock) ELSE sock
    /\ page' = [page EXCEPT !.agent = a, !.ws = IF @ = 0 THEN s ELSE @]
    /\ UNCHANGED <<chat, stale>>

SelectAgent(a, s) ==
    /\ page.here /\ a # page.agent /\ Free(s)
    /\ timers' = timers \ {page.timer}
    /\ sock' = OpenFor(s, a, Closed(page.own, sock))
    /\ page' = [page EXCEPT !.agent = a, !.ws = s, !.own = s]
    /\ UNCHANGED <<chat, stale>>

LeavePage ==
    /\ page.here /\ page' = [page EXCEPT !.here = FALSE]
    /\ timers' = timers \ {page.timer}
    /\ sock' = Closed(page.own, sock)
    /\ UNCHANGED <<chat, stale>>

(* onopen, once the token is verified.                                     *)
Opens(s) ==
    /\ sock[s].state = "connecting"
    /\ sock' = [sock EXCEPT ![s].state = "open"]
    /\ timers' = timers \ {page.timer}
    /\ page' = [page EXCEPT !.connected = TRUE, !.timer = 0]
    /\ UNCHANGED <<chat, stale>>

(* onclose, after the page closed it, the network did, or the server       *)
(* refused the token.                                                      *)
Closes(s) ==
    /\ sock[s].state \in {"connecting", "open", "closing"}
    /\ sock' = [sock EXCEPT ![s].state = "closed"]
    /\ timers' = timers \cup {s}
    /\ page' = [page EXCEPT !.connected = FALSE, !.timer = s]
    /\ UNCHANGED <<chat, stale>>

Reconnects(old, s) ==
    /\ old \in timers /\ Free(s)
    /\ timers' = timers \ {old}
    /\ sock' = OpenFor(s, sock[old].agent, sock)
    /\ page' = [page EXCEPT !.ws = s]
    /\ stale' = (stale \/ sock[old].agent # page.agent)
    /\ UNCHANGED chat
-----------------------------------------------------------------------------
Sends(m, s, step, n) ==
    chat' = [chat EXCEPT ![m] = [Unsent EXCEPT !.at = step, !.socket = s, !.selected = page.agent,
        !.session = n,
        !.rushed = \E o \in ChatMessages : /\ chat[o].socket = s
                                           /\ chat[o].at \in {"creating", "checking", "subscribing", "ready"}]]

(* handleSend, and the server's handler up to its first await.  The server *)
(* knows the session of the last creation; it may refuse the message, for  *)
(* its rate or its form.                                                   *)
SendChat(m) ==
    /\ page.here /\ page.connected /\ page.ws # 0 /\ sock[page.ws].state = "open"
    /\ chat[m].at = "unsent"
    /\ LET n == sock[page.ws].session IN
        \/ Sends(m, page.ws, IF n = 0 THEN "creating" ELSE "checking", n)
        \/ Sends(m, page.ws, "lost", 0)
    /\ UNCHANGED <<page, timers, sock, stale>>

Step(m, step) == chat' = [chat EXCEPT ![m].at = step] /\ UNCHANGED <<page, timers, stale>>

(* sessionManager.create: sessions are numbered by their first message.    *)
Creates(m) ==
    /\ chat[m].at = "creating"
    /\ LET n == 1 + Cardinality({o \in ChatMessages : chat[o].session # 0}) IN
        /\ sock' = [sock EXCEPT ![chat[m].socket].session = n, ![chat[m].socket].marked = @ \cup {n}]
        /\ chat' = [chat EXCEPT ![m].at = "subscribing", ![m].session = n]
    /\ UNCHANGED <<page, timers, stale>>

(* A session whose channel was marked before is not subscribed to again.   *)
Checks(m) ==
    /\ chat[m].at = "checking"
    /\ LET s == chat[m].socket  n == chat[m].session IN
        /\ Step(m, IF n \in sock[s].marked THEN "ready" ELSE "subscribing")
        /\ sock' = [sock EXCEPT ![s].marked = @ \cup {n}]

\* Mutated: the message passes on while the subscription is under way.
SendsAtOnce(m) ==
    /\ chat[m].at = "subscribing" /\ sock[chat[m].socket].state # "closed"
    /\ Step(m, "ready") /\ UNCHANGED sock

(* The subscriber's connection goes with the socket.                       *)
Subscribes(m) ==
    /\ chat[m].at = "subscribing" /\ sock[chat[m].socket].state # "closed"
    /\ Step(m, "ready")
    /\ sock' = [sock EXCEPT ![chat[m].socket].live = @ \cup {chat[m].session}]

SubscribeFails(m) ==
    /\ chat[m].at = "subscribing" /\ Step(m, "deaf") /\ UNCHANGED sock

(* sendMessage: the row, and the publication.                              *)
PassesOn(m) ==
    /\ chat[m].at = "ready" /\ Step(m, "published") /\ UNCHANGED sock

ServerFails(m) ==
    /\ chat[m].at \in {"creating", "checking", "ready"} /\ Step(m, "lost") /\ UNCHANGED sock

(* The agent's output goes to every open socket subscribed to the session. *)
ChatAnswer(m) ==
    /\ chat[m].at = "published"
    /\ LET s == sock[chat[m].socket] IN
        chat' = [chat EXCEPT ![m].at = "answered",
                             ![m].heard = s.state = "open" /\ chat[m].session \in s.live]
    /\ UNCHANGED <<page, timers, sock, stale>>

ChatNext ==
    \/ LeavePage
    \/ \E s \in Sockets :
        \/ Opens(s) \/ Closes(s)
        \/ \E a \in ChatAgents : SelectAgent(a, s)
        \/ \E old \in Sockets : Reconnects(old, s)
    \/ \E m \in ChatMessages :
        \/ SendChat(m) \/ Creates(m) \/ Checks(m) \/ Subscribes(m) \/ SubscribeFails(m)
        \/ PassesOn(m) \/ ServerFails(m) \/ ChatAnswer(m)

ChatSpec == ChatInit /\ [][ChatNext]_chatVars
-----------------------------------------------------------------------------
\* Types; the page's own socket is opened for the agent it selected
\* (ChatPage.tsx:41-53, 73-80, main.ts:341-348).
ChatTypeOK ==
    /\ page.agent \in ChatAgents \cup {NoAgent} /\ page.here \in BOOLEAN /\ page.connected \in BOOLEAN
    /\ {page.ws, page.own, page.timer} \subseteq Sockets \cup {0}
    /\ page.own # 0 => sock[page.own].agent = page.agent
    /\ timers \subseteq Sockets /\ stale \in BOOLEAN
    /\ \A s \in Sockets :
        /\ sock[s].state \in {"unused", "connecting", "open", "closing", "closed"}
        /\ sock[s].live \subseteq sock[s].marked
        /\ sock[s].marked \subseteq 1..Cardinality(ChatMessages)
    /\ \A m \in ChatMessages : chat[m].socket \in Sockets \cup {0}

\* On a connection whose messages each wait for the one before, all are of one
\* session; the answer to one that waited arrives there while it is open and no subscription failed on it
\* (main.ts:410-459, "Subscribe to output BEFORE sending").
AnswersReachTheSender ==
    \A m \in ChatMessages :
        LET same == {o \in ChatMessages : chat[o].socket = chat[m].socket} IN
        /\ /\ chat[m].at = "answered" /\ ~chat[m].heard /\ ~chat[m].rushed
           /\ sock[chat[m].socket].state = "open"
           => \E o \in same : chat[o].at = "deaf"
        /\ \/ \E o \in same : chat[o].rushed
           \/ Cardinality({chat[o].session : o \in same} \ {0}) <= 1

\* What the user writes goes to the agent the page shows, until a socket has been
\* opened again for an agent selected before (ChatPage.tsx:121-147, 155-171).
MessagesReachSelectedAgent ==
    \A m \in ChatMessages :
        chat[m].at # "unsent" /\ ~stale => sock[chat[m].socket].agent = chat[m].selected

\* Both ways: the page's words reach the agent it shows, and the answers come back to
\* the socket they were asked on, through agent switches, reconnections and failed
\* subscriptions (ChatPage.tsx:63-171, main.ts:365-459).
ChatIsHeard == MessagesReachSelectedAgent /\ AnswersReachTheSender
=============================================================================
