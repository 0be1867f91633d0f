-------------------------- MODULE SessionLifecycle --------------------------
(***************************************************************************)
(* Sessions from creation to archive: the session manager                  *)
(* (sessions/manager.ts), the reaper (sessions/reaper.ts) and the shutdown *)
(* of a control plane (main.ts).                                           *)
(*                                                                         *)
(* Several instances of the control plane, the nodes, share PostgreSQL and *)
(* Redis.  Each has a set of the sessions it created, in memory, and a     *)
(* reaper of its own; no statement of the reaper is in a transaction, so   *)
(* the reapers of two nodes, requests, exceptions and crashes fall between *)
(* any two of them.                                                        *)
(*                                                                         *)
(* Runs are sessions whose rows the scheduler creates (ScheduledRuns): here*)
(* they are only reaped.                                                   *)
(***************************************************************************)
EXTENDS Naturals, FiniteSets

CONSTANTS
    Nodes,          \* instances of the control plane
    Chats,          \* sessions created by SessionManager.create
    Runs,           \* sessions created by the scheduler
    NodeOf,         \* the instance that creates each session
    MaxMishaps,     \* bound on exceptions, crashes and shutdowns
    NoSession       \* no session

Sessions == Chats \cup Runs

ASSUME SessionsAssumption ==
    /\ Chats \cap Runs = {}
    /\ NodeOf \in [Sessions -> Nodes]
    /\ MaxMishaps \in Nat
    /\ NoSession \notin Sessions

VARIABLES
    row,        \* row[s]: sessions.status of s
    archived,   \* sessions with a row in session_archives
    context,    \* chats with a session:<id>:context key
    old,        \* sessions past started_at + maxDurationMinutes
    stage,      \* stage[s]: how far the creation of a chat has come
    node,       \* node[n]: state of the process
    tracked,    \* tracked[n]: activeSessions
    toEnd,      \* toEnd[n]: sessions drainAll has yet to end
    todo,       \* todo[n]: rows the reaper has selected
    current,    \* current[n]: the row it is at
    at,         \* at[n]: its next statement
    mishaps

tables  == <<row, archived, context, old>>
process == <<node, tracked, toEnd>>
reaper  == <<todo, current, at>>
sessionVars == <<tables, stage, process, reaper, mishaps>>

-----------------------------------------------------------------------------
TypeOK ==
    /\ row \in [Sessions -> {"absent", "active", "ended", "error"}]
    /\ archived \subseteq Sessions
    /\ context \subseteq Chats
    /\ old \subseteq Sessions
    /\ stage \in [Chats -> {"new", "inserted", "stocked", "open",
                            "failed", "left"}]
    /\ node \in [Nodes -> {"up", "draining", "down"}]
    /\ tracked \in [Nodes -> SUBSET Chats]
    /\ toEnd \in [Nodes -> SUBSET Chats]
    /\ todo \in [Nodes -> SUBSET Sessions]
    /\ current \in [Nodes -> Sessions \cup {NoSession}]
    /\ at \in [Nodes -> {"next", "end", "clean"}]
    /\ mishaps \in 0 .. MaxMishaps

SessionInit ==
    /\ row = [s \in Sessions |-> "absent"]
    /\ archived = {}
    /\ context = {}
    /\ old = {}
    /\ stage = [s \in Chats |-> "new"]
    /\ node = [n \in Nodes |-> "up"]
    /\ tracked = [n \in Nodes |-> {}]
    /\ toEnd = [n \in Nodes |-> {}]
    /\ todo = [n \in Nodes |-> {}]
    /\ current = [n \in Nodes |-> NoSession]
    /\ at = [n \in Nodes |-> "next"]
    /\ mishaps = 0

Mishap ==
    /\ mishaps < MaxMishaps
    /\ mishaps' = mishaps + 1

Running(n) == node[n] # "down"

-----------------------------------------------------------------------------
(* The session manager.                                                    *)

\* INSERT INTO sessions, with the default status.
Insert(s) ==
    /\ stage[s] = "new"
    /\ Running(NodeOf[s])
    /\ row' = [row EXCEPT ![s] = "active"]
    /\ stage' = [stage EXCEPT ![s] = "inserted"]
    /\ UNCHANGED <<archived, context, old, process, reaper, mishaps>>

\* The context in Redis, which every message of the session needs.
SetContext(s) ==
    /\ stage[s] = "inserted"
    /\ context' = context \cup {s}
    /\ stage' = [stage EXCEPT ![s] = "stocked"]
    /\ UNCHANGED <<row, archived, old, process, reaper, mishaps>>

\* The state in Redis, and activeSessions.
Track(s) ==
    /\ stage[s] = "stocked"
    /\ tracked' = [tracked EXCEPT ![NodeOf[s]] = @ \cup {s}]
    /\ stage' = [stage EXCEPT ![s] = "open"]
    /\ UNCHANGED <<tables, node, toEnd, reaper, mishaps>>

\* create throws after its INSERT: what it has written stays.
CreateFails(s) ==
    /\ stage[s] \in {"inserted", "stocked"}
    /\ Mishap
    /\ stage' = [stage EXCEPT ![s] = IF @ = "stocked" THEN "left" ELSE "failed"]
    /\ UNCHANGED <<tables, process, reaper>>

\* Mutant: the session is forgotten before its UPDATE, which may throw.
ForgetFirst(n, s) ==
    /\ tracked' = [tracked EXCEPT ![n] = @ \ {s}]
    /\ \/ row' = [row EXCEPT ![s] = "ended"] /\ UNCHANGED mishaps
       \/ Mishap /\ UNCHANGED row
    /\ UNCHANGED <<archived, context, old, node, reaper, stage>>

\* SessionManager.end: whatever the status was, the row is ended, and the node
\* that does it forgets the session.  The context stays, and with no archive.
EndAt(n, s) ==
    /\ row' = [row EXCEPT ![s] = "ended"]
    /\ tracked' = [tracked EXCEPT ![n] = @ \ {s}]
    /\ UNCHANGED <<archived, context, old, node, reaper, stage, mishaps>>

\* DELETE /sessions/:id, at any node.
End(n, s) ==
    /\ Running(n)
    /\ row[s] # "absent"
    /\ EndAt(n, s)
    /\ UNCHANGED toEnd

\* Its maximal duration passes, which the manifest may set to any number.
Expire(s) ==
    /\ row[s] # "absent"
    /\ s \notin old
    /\ old' = old \cup {s}
    /\ UNCHANGED <<row, archived, context, stage, process, reaper, mishaps>>

-----------------------------------------------------------------------------
(* The reaper.                                                             *)

\* Mutant: a SELECT that joins what only sessions in use have.
ExpiredInUse == {s \in old \cap context : row[s] = "active"}

Expired == {s \in old : row[s] = "active"}

\* The SELECT of the timer's callback.
Scan(n) ==
    /\ node[n] = "up"
    /\ todo[n] = {}
    /\ Expired # {}
    /\ todo' = [todo EXCEPT ![n] = Expired]
    /\ UNCHANGED <<tables, stage, process, current, at, mishaps>>

\* Mutant: a session whose process is gone is not archived.
ArchiveSome(n, s) ==
    /\ at[n] = "next"
    /\ s \in todo[n]
    /\ archived' = IF s \in Chats /\ stage[s] = "left"
                   THEN archived ELSE archived \cup {s}
    /\ current' = [current EXCEPT ![n] = s]
    /\ at' = [at EXCEPT ![n] = "end"]
    /\ UNCHANGED <<row, context, old, stage, process, todo, mishaps>>

\* INSERT INTO session_archives for the next row.
Archive(n, s) ==
    /\ at[n] = "next"
    /\ s \in todo[n]
    /\ archived' = archived \cup {s}
    /\ current' = [current EXCEPT ![n] = s]
    /\ at' = [at EXCEPT ![n] = "end"]
    /\ UNCHANGED <<row, context, old, stage, process, todo, mishaps>>

\* Mutant: the UPDATE was lost between the archive and the keys.
CleanFirst(n) ==
    /\ at[n] = "end"
    /\ context' = context \ {current[n]}
    /\ at' = [at EXCEPT ![n] = "clean"]
    /\ UNCHANGED <<row, archived, old, stage, process, todo, current, mishaps>>

\* UPDATE sessions SET status = 'ended', whatever it has become since the scan.
EndRow(n) ==
    /\ at[n] = "end"
    /\ row' = [row EXCEPT ![current[n]] = "ended"]
    /\ at' = [at EXCEPT ![n] = "clean"]
    /\ UNCHANGED <<archived, context, old, stage, process, todo, current,
                   mishaps>>

\* The row is done with, or given up.
NextRow(n) ==
    /\ todo' = [todo EXCEPT ![n] = @ \ {current[n]}]
    /\ current' = [current EXCEPT ![n] = NoSession]
    /\ at' = [at EXCEPT ![n] = "next"]

\* redis.del of the context.
Clean(n) ==
    /\ at[n] = "clean"
    /\ context' = context \ {current[n]}
    /\ NextRow(n)
    /\ UNCHANGED <<row, archived, old, stage, process, mishaps>>

\* A statement throws: the error is logged, and the next row's turn comes.
ReapFails(n) ==
    /\ at[n] # "next"
    /\ Mishap
    /\ NextRow(n)
    /\ UNCHANGED <<tables, stage, process>>

ReapStep(n) ==
    \/ Scan(n)
    \/ \E s \in Sessions : Archive(n, s)
    \/ EndRow(n)
    \/ Clean(n)

-----------------------------------------------------------------------------
(* The process.                                                            *)

\* SIGTERM: the timers stop, and drainAll ends the sessions it knows of.
Shutdown(n) ==
    /\ node[n] = "up"
    /\ Mishap
    /\ node' = [node EXCEPT ![n] = "draining"]
    /\ toEnd' = [toEnd EXCEPT ![n] = tracked[n]]
    /\ UNCHANGED <<tables, stage, tracked, reaper>>

DrainOne(n, s) ==
    /\ s \in toEnd[n]
    /\ toEnd' = [toEnd EXCEPT ![n] = @ \ {s}]
    /\ EndAt(n, s)

\* One end rejects; allSettled goes on.
DrainFails(n, s) ==
    /\ s \in toEnd[n]
    /\ Mishap
    /\ toEnd' = [toEnd EXCEPT ![n] = @ \ {s}]
    /\ UNCHANGED <<tables, stage, node, tracked, reaper>>

\* What a process had in memory, and what it was doing, is gone.
Stop(n) ==
    /\ node' = [node EXCEPT ![n] = "down"]
    /\ tracked' = [tracked EXCEPT ![n] = {}]
    /\ toEnd' = [toEnd EXCEPT ![n] = {}]
    /\ todo' = [todo EXCEPT ![n] = {}]
    /\ current' = [current EXCEPT ![n] = NoSession]
    /\ at' = [at EXCEPT ![n] = "next"]
    /\ stage' = [s \in Chats |->
                    IF NodeOf[s] # n THEN stage[s]
                    ELSE IF stage[s] = "inserted" THEN "failed"
                    ELSE IF stage[s] \in {"stocked", "open"} THEN "left"
                    ELSE stage[s]]
    /\ UNCHANGED tables

Exit(n) ==
    /\ node[n] = "draining"
    /\ toEnd[n] = {}
    /\ Stop(n)
    /\ UNCHANGED mishaps

Crash(n) ==
    /\ Running(n)
    /\ Mishap
    /\ Stop(n)

\* The supervisor starts the process again.
Restart(n) ==
    /\ node[n] = "down"
    /\ node' = [node EXCEPT ![n] = "up"]
    /\ UNCHANGED <<tables, stage, tracked, toEnd, reaper, mishaps>>

-----------------------------------------------------------------------------
\* Every step but those that end a process.
SessionStep ==
    \/ \E s \in Chats : Insert(s) \/ SetContext(s) \/ Track(s) \/ CreateFails(s)
    \/ \E s \in Sessions : Expire(s)
    \/ \E n \in Nodes :
        \/ \E s \in Sessions : End(n, s)
        \/ ReapStep(n)
        \/ ReapFails(n)
        \/ Shutdown(n)
        \/ \E s \in Chats : DrainOne(n, s) \/ DrainFails(n, s)
        \/ Restart(n)

SessionNext ==
    \/ SessionStep
    \/ \E n \in Nodes : Exit(n) \/ Crash(n)

SessionSpec == SessionInit /\ [][SessionNext]_sessionVars

(* Timers fire, the reaper and a shutdown go on, and a supervisor restarts  *)
(* what stopped.  Nothing is assumed of those who create sessions.         *)
SessionFairness ==
    /\ \A s \in Sessions : WF_sessionVars(Expire(s))
    /\ \A n \in Nodes :
        /\ WF_sessionVars(ReapStep(n))
        /\ WF_sessionVars(\E s \in Chats : DrainOne(n, s))
        /\ WF_sessionVars(Restart(n))

SessionFairSpec ==
    /\ SessionSpec
    /\ SessionFairness
    /\ \A n \in Nodes : WF_sessionVars(Exit(n))

-----------------------------------------------------------------------------
(* Properties.                                                             *)

\* Whatever fails and whoever ends or reaps it, an active session whose
\* context was once set still has it: its messages are answered, not refused
\* with "No session context found" (manager.ts:66-77, reaper.ts:76-86).
ActiveHasContext ==
    \A s \in Chats :
        stage[s] \in {"stocked", "open", "left"} /\ row[s] = "active"
            => s \in context

\* A session loses its context only once its conversation is archived, also
\* when reapers of two nodes and crashes overlap (reaper.ts:65-86).
CleanedIsArchived ==
    \A s \in Chats :
        stage[s] \in {"stocked", "open", "left"} /\ s \notin context
            => s \in archived

\* A session that an instance created and that is still active is known to its
\* drainAll: a shutdown forgets none (manager.ts:85, 131, 136-140).
TrackedForDrain ==
    \A s \in Chats :
        stage[s] = "open" /\ row[s] = "active" => s \in tracked[NodeOf[s]]

\* Both: an active session can be used and can be ended by its process, whoever
\* fails or ends it (manager.ts:66-140, reaper.ts:65-86).
ActiveIsKept == ActiveHasContext /\ TrackedForDrain

\* No session is active for ever, not even when its creation failed half-way,
\* its run died with the process, or a reaper did (reaper.ts:42-96).
EverySessionEnds ==
    \A s \in Sessions : row[s] = "active" ~> row[s] # "active"
=============================================================================
