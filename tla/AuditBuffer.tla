---------------------------- MODULE AuditBuffer ----------------------------
(***************************************************************************)
(* The buffer of audit events of one process (audit/emitter.ts and, line   *)
(* for line the same, providers/built-in/src/audit.ts) and its end         *)
(* (main.ts).                                                              *)
(*                                                                         *)
(* emit appends to the buffer and never waits.  A flush, by the timer, by  *)
(* an emit that fills the buffer, or at the shutdown, takes the whole      *)
(* buffer in one piece and inserts it in one statement; several of them    *)
(* may be in flight.  A batch whose statement fails is given up.           *)
(***************************************************************************)
EXTENDS Naturals, FiniteSets

CONSTANTS
    Entries,            \* audit events
    FlushAt,            \* length at which emit flushes
    MaxFailedFlushes    \* bound on statements that fail

ASSUME AuditAssumption ==
    /\ FlushAt \in Nat \ {0}
    /\ MaxFailedFlushes \in Nat

VARIABLES
    emitted,        \* events emit has been called with
    buffer,         \* events in the buffer
    flights,        \* batches whose INSERT is under way
    rows,           \* rows[e]: how many rows of audit_events e has
    givenUp,        \* events of batches that failed, as the log says
    process,        \* "up", "flushing", "closing", "exited" or "crashed"
    own,            \* the batch of the shutdown's flush
    failedFlushes

auditVars == <<emitted, buffer, flights, rows, givenUp, process, own,
               failedFlushes>>

AuditTypeOK ==
    /\ emitted \subseteq Entries
    /\ buffer \subseteq Entries /\ Cardinality(buffer) < FlushAt
    /\ flights \subseteq SUBSET Entries
    /\ rows \in [Entries -> Nat]
    /\ givenUp \subseteq Entries
    /\ process \in {"up", "flushing", "closing", "exited", "crashed"}
    /\ own \subseteq Entries
    /\ failedFlushes \in 0 .. MaxFailedFlushes

AuditInit ==
    /\ emitted = {} /\ buffer = {} /\ flights = {} /\ givenUp = {}
    /\ rows = [e \in Entries |-> 0]
    /\ process = "up"
    /\ own = {}
    /\ failedFlushes = 0

Alive == process \in {"up", "flushing", "closing"}

-----------------------------------------------------------------------------
\* buffer.splice(0), and the INSERT sent.
TakeBuffer(events) ==
    /\ buffer' = {}
    /\ flights' = IF events = {} THEN flights ELSE flights \cup {events}

\* emit, from any handler, up to the end of the process.
Emit(e) ==
    /\ Alive
    /\ e \notin emitted
    /\ emitted' = emitted \cup {e}
    /\ LET events == buffer \cup {e}
       IN  IF Cardinality(events) >= FlushAt
           THEN TakeBuffer(events)
           ELSE buffer' = events /\ UNCHANGED flights
    /\ UNCHANGED <<rows, givenUp, process, own, failedFlushes>>

\* The timer, which a shutdown does not stop.
TimerFlush ==
    /\ Alive
    /\ buffer # {}
    /\ TakeBuffer(buffer)
    /\ UNCHANGED <<emitted, rows, givenUp, process, own, failedFlushes>>

WithRowsOf(events) ==
    [e \in Entries |-> IF e \in events THEN rows[e] + 1 ELSE rows[e]]

Inserted(batch) ==
    /\ batch \in flights
    /\ flights' = flights \ {batch}
    /\ rows' = WithRowsOf(batch)
    /\ UNCHANGED <<emitted, buffer, givenUp, process, own, failedFlushes>>

\* Mutant: a failed batch is dropped without a word.
DropSilently(batch) ==
    /\ batch \in flights
    /\ failedFlushes < MaxFailedFlushes
    /\ failedFlushes' = failedFlushes + 1
    /\ flights' = flights \ {batch}
    /\ UNCHANGED <<emitted, buffer, rows, givenUp, process, own>>

\* The statement fails, or its answer is lost: "events may be lost".
InsertFails(batch) ==
    /\ batch \in flights
    /\ failedFlushes < MaxFailedFlushes
    /\ failedFlushes' = failedFlushes + 1
    /\ flights' = flights \ {batch}
    /\ givenUp' = givenUp \cup batch
    /\ rows' \in {rows, WithRowsOf(batch)}
    /\ UNCHANGED <<emitted, buffer, process, own>>

\* The last flush of the shutdown begins ...
LastFlush ==
    /\ process = "up"
    /\ TakeBuffer(buffer)
    /\ own' = buffer
    /\ process' = "flushing"
    /\ UNCHANGED <<emitted, rows, givenUp, failedFlushes>>

\* Mutant: the shutdown does not await its flush.
CloseAtOnce ==
    /\ process = "flushing"
    /\ process' = "closing"
    /\ UNCHANGED <<emitted, buffer, flights, rows, givenUp, own, failedFlushes>>

\* ... is waited for, and the server is closed.
Close ==
    /\ process = "flushing"
    /\ own \notin flights
    /\ process' = "closing"
    /\ UNCHANGED <<emitted, buffer, flights, rows, givenUp, own, failedFlushes>>

\* What is in memory is gone; statements under way may have been executed.
Stop(end) ==
    /\ process' = end
    /\ \E done \in SUBSET flights : rows' = WithRowsOf(UNION done)
    /\ buffer' = {}
    /\ flights' = {}
    /\ UNCHANGED <<emitted, givenUp, own, failedFlushes>>

\* process.exit at the end of the shutdown.
Exit == process = "closing" /\ Stop("exited")

Crash == Alive /\ Stop("crashed")

-----------------------------------------------------------------------------
AuditNext ==
    \/ \E e \in Entries : Emit(e)
    \/ TimerFlush
    \/ \E batch \in flights : Inserted(batch) \/ InsertFails(batch)
    \/ LastFlush
    \/ Close
    \/ Exit
    \/ Crash

AuditSpec == AuditInit /\ [][AuditNext]_auditVars

(* The timer goes on, and PostgreSQL answers or the statement fails.       *)
AuditFairness ==
    /\ WF_auditVars(TimerFlush)
    /\ \A e \in Entries :
           WF_auditVars(\E batch \in flights : e \in batch /\ Inserted(batch))

-----------------------------------------------------------------------------
(* Properties.                                                             *)

Flying == UNION flights

\* While the process lives, an event is in one place: in the buffer, in a
\* batch under way, in the table with one row, or in the log as given up,
\* however flushes overlap (emitter.ts:17-53).
EveryEventOnce ==
    /\ \A e \in Entries : rows[e] <= 1
    /\ \A a, b \in flights : a # b => a \cap b = {}
    /\ buffer \cap Flying = {}
    /\ \A e \in buffer \cup Flying : rows[e] = 0 /\ e \notin givenUp
    /\ Alive =>
           emitted = buffer \cup Flying \cup givenUp
                         \cup {e \in Entries : rows[e] = 1}

\* What was in the buffer at the shutdown is in the table before the process
\* ends, unless its statement failed (main.ts:554-556).
ShutdownFlushes ==
    process \in {"closing", "exited"} =>
        \A e \in own : rows[e] = 1 \/ e \in givenUp

\* Both: flushes that overlap, fail or are cut off by the shutdown neither double
\* nor mislay an event (emitter.ts:12-56, main.ts:554-556).
AuditKeepsEvents == EveryEventOnce /\ ShutdownFlushes

\* An event does not stay in memory for ever.
EveryEventLeaves == \A e \in Entries : e \in buffer ~> e \notin buffer \cup Flying
=============================================================================
