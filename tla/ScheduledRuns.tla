--------------------------- MODULE ScheduledRuns ---------------------------
(***************************************************************************)
(* Scheduled runs of one agent (scheduler/index.ts, executeSchedule) and   *)
(* their headless sessions (scheduler/headless-session.ts), together with  *)
(* the other sessions, the reapers and the processes of SessionLifecycle.  *)
(*                                                                         *)
(* A run takes the lock of the agent in Redis with SET NX EX, creates a    *)
(* session, publishes its start, subscribes to its completion, waits for   *)
(* that for at most 30 minutes, closes and archives the session, records   *)
(* the run, and releases the lock with a GET and a DEL.  The lock lives    *)
(* lockTtlSeconds, 5 minutes.                                              *)
(***************************************************************************)
EXTENDS SessionLifecycle

VARIABLES
    step,       \* step[r]: where executeSchedule is
    verdict,    \* verdict[r]: status createHeadlessSession found
    missed,     \* runs whose completion was published and not heard
    lock,       \* the run whose lockValue is in the lock key
    fresh,      \* runs not over whose lockTtlSeconds have not passed
    recorded    \* runs with a row in scheduled_runs

runVars == <<step, verdict, missed, lock, fresh, recorded>>
vars    == <<sessionVars, runVars>>

Steps ==
    {"idle", "skipped", "locked", "inserted", "published", "waiting", "told",
     "updated", "archived", "release", "owner", "over", "lost"}

\* createHeadlessSession, and the record of the run.
Executing(r) ==
    step[r] \in {"locked", "inserted", "published", "waiting", "told",
                 "updated", "archived"}

RunsTypeOK ==
    /\ TypeOK
    /\ step \in [Runs -> Steps]
    /\ verdict \in [Runs -> {"none", "ended", "error"}]
    /\ missed \subseteq Runs
    /\ lock \in Runs \cup {NoSession}
    /\ fresh \subseteq Runs
    /\ recorded \subseteq Runs

Init ==
    /\ SessionInit
    /\ step = [r \in Runs |-> "idle"]
    /\ verdict = [r \in Runs |-> "none"]
    /\ missed = {}
    /\ lock = NoSession
    /\ fresh = {}
    /\ recorded = {}

Goto(r, s) == step' = [step EXCEPT ![r] = s]

-----------------------------------------------------------------------------
(* executeSchedule.                                                        *)

\* SET NX EX.  A run that does not get the lock is skipped.
Acquire(r) ==
    /\ step[r] = "idle"
    /\ node[NodeOf[r]] = "up"
    /\ \/ /\ lock = NoSession
          /\ lock' = r
          /\ fresh' = fresh \cup {r}
          /\ Goto(r, "locked")
       \/ /\ lock # NoSession
          /\ Goto(r, "skipped")
          /\ UNCHANGED <<lock, fresh>>
    /\ UNCHANGED <<sessionVars, verdict, missed, recorded>>

\* INSERT INTO sessions.
InsertRun(r) ==
    /\ step[r] = "locked"
    /\ row' = [row EXCEPT ![r] = "active"]
    /\ Goto(r, "inserted")
    /\ UNCHANGED <<archived, context, old, stage, process, reaper, mishaps>>
    /\ UNCHANGED <<verdict, missed, lock, fresh, recorded>>

\* The session.start event, before anyone listens for the completion.
PublishStart(r) ==
    /\ step[r] = "inserted"
    /\ Goto(r, "published")
    /\ UNCHANGED <<sessionVars, verdict, missed, lock, fresh, recorded>>

Subscribe(r) ==
    /\ step[r] = "published"
    /\ Goto(r, "waiting")
    /\ UNCHANGED <<sessionVars, verdict, missed, lock, fresh, recorded>>

\* The completion event, from whoever runs the session.  It is heard only by a
\* run that has subscribed.
Complete(r, v) ==
    /\ r \notin missed
    /\ \/ /\ step[r] = "waiting"
          /\ Goto(r, "told")
          /\ verdict' = [verdict EXCEPT ![r] = v]
          /\ UNCHANGED missed
       \/ /\ step[r] = "published"
          /\ missed' = missed \cup {r}
          /\ UNCHANGED <<step, verdict>>
    /\ UNCHANGED <<sessionVars, lock, fresh, recorded>>

\* Mutant: the status 'timeout' of the result type, which no table knows.
TimeoutStatus(r) ==
    /\ step[r] = "waiting"
    /\ Goto(r, "told")
    /\ verdict' = [verdict EXCEPT ![r] = "timeout"]
    /\ UNCHANGED <<sessionVars, missed, lock, fresh, recorded>>

\* 30 minutes without a completion.
RunTimeout(r) ==
    /\ step[r] = "waiting"
    /\ Goto(r, "told")
    /\ verdict' = [verdict EXCEPT ![r] = "error"]
    /\ UNCHANGED <<sessionVars, missed, lock, fresh, recorded>>

UpdateRun(r) ==
    /\ step[r] = "told"
    /\ row' = [row EXCEPT ![r] = verdict[r]]
    /\ Goto(r, "updated")
    /\ UNCHANGED <<archived, context, old, stage, process, reaper, mishaps>>
    /\ UNCHANGED <<verdict, missed, lock, fresh, recorded>>

ArchiveRun(r) ==
    /\ step[r] = "updated"
    /\ archived' = archived \cup {r}
    /\ Goto(r, "archived")
    /\ UNCHANGED <<row, context, old, stage, process, reaper, mishaps>>
    /\ UNCHANGED <<verdict, missed, lock, fresh, recorded>>

\* The CHECK of scheduled_runs.status.
RecordStatuses == {"pending", "running", "completed", "failed"}

\* INSERT INTO scheduled_runs with the status of the session.  If the CHECK
\* refuses it, the error is logged.
RecordRun(r) ==
    /\ step[r] = "archived"
    /\ recorded' = IF verdict[r] \in RecordStatuses
                   THEN recorded \cup {r} ELSE recorded
    /\ Goto(r, "release")
    /\ UNCHANGED <<sessionVars, verdict, missed, lock, fresh>>

\* Mutant: a release that is not in a finally block.
RunFailsLocked(r) ==
    /\ Executing(r)
    /\ Mishap
    /\ Goto(r, "over")
    /\ UNCHANGED <<tables, stage, process, reaper>>
    /\ UNCHANGED <<verdict, missed, lock, fresh, recorded>>

\* An exception on the way: the catch block logs it.
RunFails(r) ==
    /\ Executing(r)
    /\ Mishap
    /\ Goto(r, "release")
    /\ UNCHANGED <<tables, stage, process, reaper>>
    /\ UNCHANGED <<verdict, missed, lock, fresh, recorded>>

\* The finally block: GET the lock, and if its value is the run's own ...
CheckLock(r) ==
    /\ step[r] = "release"
    /\ \/ lock = r /\ Goto(r, "owner") /\ UNCHANGED fresh
       \/ lock # r /\ Goto(r, "over") /\ fresh' = fresh \ {r}
    /\ UNCHANGED <<sessionVars, verdict, missed, lock, recorded>>

\* ... DEL it, whatever its value has become.
Unlock(r) ==
    /\ step[r] = "owner"
    /\ lock' = NoSession
    /\ Goto(r, "over")
    /\ fresh' = fresh \ {r}
    /\ UNCHANGED <<sessionVars, verdict, missed, recorded>>

\* lockTtlSeconds have passed since the run took the lock.
TtlPasses(r) ==
    /\ r \in fresh
    /\ fresh' = fresh \ {r}
    /\ lock' = IF lock = r THEN NoSession ELSE lock
    /\ UNCHANGED <<sessionVars, step, verdict, missed, recorded>>

\* The runs of a process end with it, wherever they are.
LoseRuns(n) ==
    /\ step' = [r \in Runs |->
                   IF NodeOf[r] = n /\ step[r] \notin {"idle", "skipped", "over"}
                   THEN "lost" ELSE step[r]]
    /\ UNCHANGED <<verdict, missed, lock, fresh, recorded>>

-----------------------------------------------------------------------------
RunStep(r) ==
    \/ InsertRun(r) \/ PublishStart(r) \/ Subscribe(r) \/ RunTimeout(r)
    \/ UpdateRun(r) \/ ArchiveRun(r) \/ RecordRun(r)
    \/ CheckLock(r) \/ Unlock(r)

Next ==
    \/ SessionStep /\ UNCHANGED runVars
    \/ \E n \in Nodes : (Exit(n) \/ Crash(n)) /\ LoseRuns(n)
    \/ \E r \in Runs :
        \/ Acquire(r) \/ RunStep(r) \/ RunFails(r) \/ TtlPasses(r)
        \/ \E v \in {"ended", "error"} : Complete(r, v)

Spec == Init /\ [][Next]_vars

(* Nothing is assumed of the runs: sessions end by the reapers.            *)
FairSpec ==
    /\ Spec
    /\ SessionFairness
    /\ \A n \in Nodes : WF_vars(Exit(n) /\ LoseRuns(n))

-----------------------------------------------------------------------------
(* Properties.                                                             *)

\* The lock is never left to a run that is over: it belongs to one that goes
\* on, or that died with its process and whose lock will expire
\* (scheduler/index.ts:198-205).
NoLockLeftBehind ==
    lock \in Runs =>
        Executing(lock) \/ step[lock] \in {"release", "owner", "lost"}

\* "Distributed lock via Redis SETNX to prevent duplicate execution"
\* (scheduler/index.ts:35), "only if we still own it" (index.ts:200): no two
\* runs that are still within their lock's lifetime execute at once.
RunsExclusive ==
    \A r, q \in fresh : Executing(r) /\ Executing(q) => r = q
=============================================================================
