---------------------------- MODULE StreamQueue ----------------------------
(***************************************************************************)
(* The queue provider on Redis streams (providers/built-in/src/queue.ts).  *)
(*                                                                         *)
(* All subscribers of a subject are consumers of one group.  Redis gives   *)
(* each entry of the stream to the first consumer that reads it and keeps  *)
(* it in that consumer's pending list until it is acknowledged.  A consumer*)
(* reads only new entries ('>'), BatchSize at a time, and handles them in  *)
(* order.  When anything throws, it drops the rest of its batch and goes   *)
(* on with new entries a second later.  A process that starts again is a   *)
(* consumer with another name.                                             *)
(***************************************************************************)
EXTENDS Naturals, FiniteSets

CONSTANTS
    Consumers,      \* processes, each with a subscription and a name of its own
    MaxEntries,     \* bound on the length of the stream
    BatchSize       \* COUNT of XREADGROUP

ASSUME QueueAssumption ==
    /\ MaxEntries \in Nat
    /\ BatchSize \in Nat \ {0}

Ids == 1 .. MaxEntries

VARIABLES
    added,      \* entries in the stream
    given,      \* the group's last delivered id
    pending,    \* pending[c]: pending entries list of c
    batch,      \* batch[c]: entries that c has read and not finished with
    place,      \* place[c]: where the loop of c is
    running,    \* consumers subscribed and not unsubscribed
    handled,    \* handled[c]: entries c has taken up
    completed,  \* entries whose handler returned
    acked       \* entries acknowledged

queueVars == <<added, given, pending, batch, place, running, handled,
               completed, acked>>

QueueTypeOK ==
    /\ added \in 0 .. MaxEntries
    /\ given \in 0 .. added
    /\ pending \in [Consumers -> SUBSET Ids]
    /\ batch \in [Consumers -> SUBSET Ids]
    /\ place \in [Consumers -> {"idle", "looping", "reading", "handling",
                                "acking", "waiting", "stopped"}]
    /\ \A c \in Consumers :
           batch[c] # {} <=> place[c] \in {"handling", "acking"}
    /\ running \subseteq Consumers
    /\ handled \in [Consumers -> SUBSET Ids]
    /\ completed \subseteq Ids
    /\ acked \subseteq Ids

QueueInit ==
    /\ added = 0 /\ given = 0
    /\ pending = [c \in Consumers |-> {}]
    /\ batch = [c \in Consumers |-> {}]
    /\ place = [c \in Consumers |-> "idle"]
    /\ running = {}
    /\ handled = [c \in Consumers |-> {}]
    /\ completed = {} /\ acked = {}

MoveTo(c, p) == place' = [place EXCEPT ![c] = p]

IsNext(c, id) == id \in batch[c] /\ \A other \in batch[c] : id <= other

-----------------------------------------------------------------------------
\* XADD.
Add ==
    /\ added < MaxEntries
    /\ added' = added + 1
    /\ UNCHANGED <<given, pending, batch, place, running, handled, completed,
                   acked>>

\* subscribe: the group exists, or is made to begin at the first entry.
Subscribe(c) ==
    /\ place[c] = "idle"
    /\ running' = running \cup {c}
    /\ MoveTo(c, "looping")
    /\ UNCHANGED <<added, given, pending, batch, handled, completed, acked>>

\* The head of the loop: XREADGROUP is sent, and may block.
Poll(c) ==
    /\ place[c] = "looping"
    /\ c \in running
    /\ MoveTo(c, "reading")
    /\ UNCHANGED <<added, given, pending, batch, running, handled, completed,
                   acked>>

\* Mutant: XREADGROUP with NOACK, which keeps no pending list.
GiveOutNoAck(c) ==
    /\ given' = IF given + BatchSize <= added THEN given + BatchSize ELSE added
    /\ UNCHANGED pending

\* Redis gives new entries to c, for nobody else.
GiveOut(c) ==
    /\ given' = IF given + BatchSize <= added THEN given + BatchSize ELSE added
    /\ pending' = [pending EXCEPT ![c] = @ \cup (given + 1) .. given']

\* Mutant: '0' for '>', which also gives a consumer its pending entries.
ReadAgain(c) ==
    /\ place[c] = "reading"
    /\ given < added
    /\ GiveOut(c)
    /\ batch' = [batch EXCEPT ![c] = pending'[c]]
    /\ MoveTo(c, "handling")
    /\ UNCHANGED <<added, running, handled, completed, acked>>

\* The answer to a read with '>', which an unsubscribe does not cancel.
Read(c) ==
    /\ place[c] = "reading"
    /\ given < added
    /\ GiveOut(c)
    /\ batch' = [batch EXCEPT ![c] = (given + 1) .. given']
    /\ MoveTo(c, "handling")
    /\ UNCHANGED <<added, running, handled, completed, acked>>

\* Nothing came within the time to block.
ReadNothing(c) ==
    /\ place[c] = "reading"
    /\ given = added
    /\ MoveTo(c, "looping")
    /\ UNCHANGED <<added, given, pending, batch, running, handled, completed,
                   acked>>

\* The read throws, or its answer is lost.
ReadThrows(c) ==
    /\ place[c] = "reading"
    /\ \/ GiveOut(c)
       \/ UNCHANGED <<given, pending>>
    /\ MoveTo(c, "waiting")
    /\ UNCHANGED <<added, batch, running, handled, completed, acked>>

\* The handler is called, and returns ...
Handle(c) ==
    /\ place[c] = "handling"
    /\ \E id \in Ids :
        /\ IsNext(c, id)
        /\ handled' = [handled EXCEPT ![c] = @ \cup {id}]
        /\ completed' = completed \cup {id}
    /\ MoveTo(c, "acking")
    /\ UNCHANGED <<added, given, pending, batch, running, acked>>

\* ... or throws, as JSON.parse may: the rest of the batch is dropped.
HandleThrows(c) ==
    /\ place[c] = "handling"
    /\ \E id \in Ids :
           IsNext(c, id) /\ handled' = [handled EXCEPT ![c] = @ \cup {id}]
    /\ batch' = [batch EXCEPT ![c] = {}]
    /\ MoveTo(c, "waiting")
    /\ UNCHANGED <<added, given, pending, running, completed, acked>>

Acknowledge(c, ids) ==
    /\ acked' = acked \cup ids
    /\ pending' = [pending EXCEPT ![c] = @ \ ids]

\* Mutant: every entry of the batch is acknowledged with its first.
AckBatch(c) ==
    /\ place[c] = "acking"
    /\ Acknowledge(c, batch[c])
    /\ batch' = [batch EXCEPT ![c] = {}]
    /\ MoveTo(c, "looping")
    /\ UNCHANGED <<added, given, running, handled, completed>>

\* XACK.
Ack(c) ==
    /\ place[c] = "acking"
    /\ \E id \in Ids :
        /\ IsNext(c, id)
        /\ Acknowledge(c, {id})
        /\ batch' = [batch EXCEPT ![c] = @ \ {id}]
        /\ MoveTo(c, IF batch[c] = {id} THEN "looping" ELSE "handling")
    /\ UNCHANGED <<added, given, running, handled, completed>>

\* XACK throws: executed or not, nobody comes back to the entry.
AckThrows(c) ==
    /\ place[c] = "acking"
    /\ \/ \E id \in Ids : IsNext(c, id) /\ Acknowledge(c, {id})
       \/ UNCHANGED <<acked, pending>>
    /\ batch' = [batch EXCEPT ![c] = {}]
    /\ MoveTo(c, "waiting")
    /\ UNCHANGED <<added, given, running, handled, completed>>

\* A second has passed.
WaitOver(c) ==
    /\ place[c] = "waiting"
    /\ MoveTo(c, "looping")
    /\ UNCHANGED <<added, given, pending, batch, running, handled, completed,
                   acked>>

\* unsubscribe: the loop ends when its batch does.
Unsubscribe(c) ==
    /\ c \in running
    /\ running' = running \ {c}
    /\ UNCHANGED <<added, given, pending, batch, place, handled, completed,
                   acked>>

\* The process ends.  Its name is never used again.
ConsumerDies(c) ==
    /\ place[c] # "stopped"
    /\ batch' = [batch EXCEPT ![c] = {}]
    /\ running' = running \ {c}
    /\ MoveTo(c, "stopped")
    /\ UNCHANGED <<added, given, pending, handled, completed, acked>>

-----------------------------------------------------------------------------
QueueStep(c) ==
    Poll(c) \/ Read(c) \/ ReadNothing(c) \/ Handle(c) \/ Ack(c) \/ WaitOver(c)

QueueThrows(c) == ReadThrows(c) \/ HandleThrows(c) \/ AckThrows(c)

QueueNext ==
    \/ Add
    \/ \E c \in Consumers :
        \/ Subscribe(c) \/ QueueStep(c) \/ QueueThrows(c)
        \/ Unsubscribe(c) \/ ConsumerDies(c)

QueueSpec == QueueInit /\ [][QueueNext]_queueVars

(* Loops go on; whether a handler returns is up to it, but it does end.     *)
QueueFairness ==
    \A c \in Consumers :
        WF_queueVars(QueueStep(c) \/ QueueThrows(c))

-----------------------------------------------------------------------------
(* Properties.                                                             *)

\* No entry is handled by two consumers, nor taken up again after it was
\* dropped or finished: each consumer moves forward in the stream
\* (queue.ts:37-53).
HandledOnceInOrder ==
    /\ \A c, d \in Consumers : c # d => handled[c] \cap handled[d] = {}
    /\ \A c \in Consumers : \A id \in batch[c] : \A old \in handled[c] :
           old < id \/ (old = id /\ place[c] = "acking" /\ IsNext(c, id))

\* An entry is acknowledged only when its handler has returned (queue.ts:48-53).
AckedWasHandled == acked \subseteq completed

\* The group loses no entry: what it has given out is acknowledged or in the
\* pending list of the one consumer it was given to, whoever failed or died.
NothingVanishes ==
    /\ 1 .. given = acked \cup UNION {pending[c] : c \in Consumers}
    /\ \A c \in Consumers : batch[c] \subseteq pending[c]

\* All three: each entry of the stream is accounted for, by one consumer, whatever
\* throws, dies or unsubscribes (queue.ts:34-62).
QueueAccountsForEntries == HandledOnceInOrder /\ AckedWasHandled /\ NothingVanishes

\* Entries a consumer has read are finished with or given up.
BatchesEnd == \A c \in Consumers : batch[c] # {} ~> batch[c] = {}
=============================================================================
