---------------------------- MODULE MailPolling ----------------------------
(***************************************************************************)
(* The email channel: a poll every half minute reads the unseen mails of   *)
(* the inbox, hands each to the control plane and marks it seen.  Polls    *)
(* overlap and wait for the mailbox's lock; a stop and a start give the    *)
(* adapter another connection while an old poll may still await an answer. *)
(***************************************************************************)
EXTENDS Naturals, FiniteSets

CONSTANTS Mails,        \* 1..n, as the mailbox numbers them
          InReplyTo,    \* the mail each answers, 0 for none
          NoEnvelope,   \* mails that the server gives no envelope of
          Unnamed,      \* mails without a Message-ID, which no mail can answer
          Polls,        \* polls that can be under way at the same time
          MaxStarts     \* bound: starts of the adapter

ASSUME MailAssumption ==
    /\ Mails \subseteq Nat \ {0} /\ InReplyTo \in [Mails -> (Mails \ Unnamed) \cup {0}]
    /\ MaxStarts \in Nat

VARIABLES inbox,       \* which mails have come, and which are marked seen
          connection,  \* the adapter's IMAP connection, 0 when it is stopped
          starts,      \* connections made so far
          poll,        \* each poll, its connection and the mails it has left
          threadMap,   \* Message-ID to thread, 0 when it is not there
          handed,      \* how often each mail was handed over
          again,       \* mails whose marking did not follow
          astray       \* mails handed over before one they answer, directly or not

mailVars == <<inbox, connection, starts, poll, threadMap, handed, again, astray>>

Off == [at |-> "off", on |-> 0, left |-> {}, mail |-> 0]
Holds(p) == poll[p].at \in {"loop", "awaiting", "flagging"}
NextMail(p) == CHOOSE m \in poll[p].left : \A n \in poll[p].left : m <= n

MailInit ==
    /\ inbox = [m \in Mails |-> "outside"]
    /\ connection = 0 /\ starts = 0
    /\ poll = [p \in Polls |-> Off]
    /\ threadMap = [m \in Mails |-> 0]
    /\ handed = [m \in Mails |-> 0]
    /\ again = {} /\ astray = {}

MailComes(m) ==
    /\ inbox[m] = "outside" /\ inbox' = [inbox EXCEPT ![m] = "unseen"]
    /\ UNCHANGED <<connection, starts, poll, threadMap, handed, again, astray>>

StartMail ==
    /\ connection = 0 /\ starts < MaxStarts
    /\ starts' = starts + 1 /\ connection' = starts'
    /\ UNCHANGED <<inbox, poll, threadMap, handed, again, astray>>

(* stop logs out and forgets the threads; no poll is waited for.           *)
StopMail ==
    /\ connection # 0 /\ connection' = 0
    /\ threadMap' = [m \in Mails |-> 0]
    /\ UNCHANGED <<inbox, starts, poll, handed, again, astray>>

(* The first fetch and the timer's ticks.                                  *)
BeginPoll(p) ==
    /\ connection # 0 /\ poll[p] = Off
    /\ poll' = [poll EXCEPT ![p] = [Off EXCEPT !.at = "waiting", !.on = connection]]
    /\ UNCHANGED <<inbox, connection, starts, threadMap, handed, again, astray>>

Unseen == {m \in Mails : inbox[m] = "unseen"}

(* The lock, and the search for unseen mails.                              *)
LockInbox(p) ==
    /\ poll[p].at = "waiting" /\ poll[p].on = connection
    /\ \A q \in Polls : ~(Holds(q) /\ poll[q].on = connection)
    /\ poll' = [poll EXCEPT ![p].at = "loop", ![p].left = Unseen]
    /\ UNCHANGED <<inbox, connection, starts, threadMap, handed, again, astray>>

\* Mutated: the thread is the mail answered.
ThreadOfParent(m) == IF InReplyTo[m] = 0 THEN m ELSE InReplyTo[m]

(* processInboundEmail: the thread is what is stored for the mail answered,*)
(* else that mail's own identifier.                                        *)
ThreadFor(m) ==
    LET parent == InReplyTo[m] IN
    IF parent = 0 THEN m ELSE IF threadMap[parent] # 0 THEN threadMap[parent] ELSE parent

(* The mail it answers, or one that answers in turn, is not in the map yet:*)
(* that mail gets another thread once it is handed over again.             *)
Late(m) == InReplyTo[m] # 0 /\ (threadMap[InReplyTo[m]] = 0 \/ InReplyTo[m] \in astray)

HandOver(p) ==
    /\ poll[p].at = "loop" /\ poll[p].on = connection /\ poll[p].left # {}
    /\ LET m == NextMail(p) IN
        /\ m \notin NoEnvelope
        /\ IF m \in Unnamed THEN UNCHANGED <<threadMap, astray>>
           ELSE /\ threadMap' = [threadMap EXCEPT ![m] = ThreadFor(m)]
                /\ astray' = IF Late(m) THEN astray \cup {m} ELSE astray \ {m}
        /\ handed' = [handed EXCEPT ![m] = IF @ < 2 THEN @ + 1 ELSE @]
        /\ poll' = [poll EXCEPT ![p].at = "awaiting", ![p].mail = m, ![p].left = @ \ {m}]
    /\ UNCHANGED <<inbox, connection, starts, again>>

(* A mail without an envelope is passed over, and marked seen all the same.*)
PassOver(p) ==
    /\ poll[p].at = "loop" /\ poll[p].on = connection /\ poll[p].left # {}
    /\ LET m == NextMail(p) IN
        /\ m \in NoEnvelope
        /\ poll' = [poll EXCEPT ![p].at = "flagging", ![p].mail = m, ![p].left = @ \ {m}]
    /\ UNCHANGED <<inbox, connection, starts, threadMap, handed, again, astray>>

MailTaken(p) ==
    /\ poll[p].at = "awaiting" /\ poll' = [poll EXCEPT ![p].at = "flagging"]
    /\ again' = IF poll[p].on # connection THEN again \cup {poll[p].mail} ELSE again
    /\ UNCHANGED <<inbox, connection, starts, threadMap, handed, astray>>

(* The mark is set through whatever connection the adapter has by then.    *)
MarkSeen(p) ==
    /\ poll[p].at = "flagging" /\ connection # 0
    /\ inbox' = [inbox EXCEPT ![poll[p].mail] = "seen"]
    /\ again' = IF poll[p].on # connection THEN again \cup {poll[p].mail} ELSE again
    /\ poll' = [poll EXCEPT ![p].at = "loop", ![p].mail = 0]
    /\ UNCHANGED <<connection, starts, threadMap, handed, astray>>

(* The end of the list, and whatever throws: the lock is released and the  *)
(* mails left stay unseen.                                                 *)
PollEnds(p) ==
    /\ poll[p].at # "off"
    /\ again' = IF poll[p].mail # 0 THEN again \cup {poll[p].mail} ELSE again
    /\ poll' = [poll EXCEPT ![p] = Off]
    /\ UNCHANGED <<inbox, connection, starts, threadMap, handed, astray>>

MailNext ==
    \/ StartMail \/ StopMail
    \/ \E m \in Mails : MailComes(m)
    \/ \E p \in Polls :
        \/ BeginPoll(p) \/ LockInbox(p) \/ HandOver(p) \/ PassOver(p) \/ MailTaken(p)
        \/ MarkSeen(p) \/ PollEnds(p)

MailSpec == MailInit /\ [][MailNext]_mailVars
-----------------------------------------------------------------------------
\* Types; one poll at a time holds a connection's lock (email/adapter.ts:36-52, 196-223).
MailTypeOK ==
    /\ inbox \in [Mails -> {"outside", "unseen", "seen"}]
    /\ connection \in {0, starts} /\ starts \in 0..MaxStarts
    /\ threadMap \in [Mails -> Mails \cup {0}] /\ handed \in [Mails -> 0..2]
    /\ again \subseteq Mails /\ astray \subseteq Mails
    /\ \A p \in Polls : poll[p].left \subseteq Mails /\ poll[p].mail \in Mails \cup {0}
    /\ \A p, q \in Polls : Holds(p) /\ Holds(q) /\ poll[p].on = poll[q].on => p = q

\* A mail that is marked seen was handed over, unless it came without an envelope, and
\* such a one never is; one is handed over twice only when it could not be marked, or
\* was awaited across a restart; and a mail with a Message-ID that is handed over after
\* all those it answers is of the same thread (email/adapter.ts:193-272).
MailsAreHandedOver ==
    /\ \A m \in Mails \ NoEnvelope : inbox[m] = "seen" => handed[m] > 0
    /\ \A m \in Mails \cap NoEnvelope : handed[m] = 0
    /\ \A m \in Mails : handed[m] > 1 =>
        m \in again \/ \E p \in Polls : poll[p].mail = m /\ poll[p].on # connection
    /\ \A m \in Mails : LET parent == InReplyTo[m] IN
        parent # 0 /\ m \notin astray /\ threadMap[m] # 0 /\ threadMap[parent] # 0
        => threadMap[m] = threadMap[parent]
=============================================================================
