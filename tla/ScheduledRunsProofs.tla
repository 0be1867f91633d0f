------------------------- MODULE ScheduledRunsProofs -------------------------
(***************************************************************************)
(* Proofs about ScheduledRuns, and with it about SessionLifecycle, for any *)
(* number of nodes, chats, runs and mishaps.                               *)
(*                                                                         *)
(* What makes the properties inductive is that a row is never active again *)
(* once it is over (RowsInv: only rows that are absent become active, and  *)
(* reapers, drains and requests work on rows that are there), and what a   *)
(* reaper has already done to the row it is at (ReaperInv), which no       *)
(* interleaving with other reapers undoes.                                 *)
(***************************************************************************)
EXTENDS ScheduledRuns, TLAPS

Types == TypeOK /\ RunsTypeOK

\* Rows exist from the INSERT on, and everybody works on existing rows.
RowsInv ==
    /\ \A s \in Chats : stage[s] = "new" <=> row[s] = "absent"
    /\ \A r \in Runs :
           step[r] \in {"idle", "skipped", "locked"} => row[r] = "absent"
    /\ \A s \in old : row[s] # "absent"
    /\ \A n \in Nodes :
        /\ \A s \in todo[n] : row[s] # "absent"
        /\ \A s \in tracked[n] \cup toEnd[n] : row[s] # "absent"

\* How far a reaper is with the row it is at.
ReaperInv ==
    \A n \in Nodes :
        /\ at[n] # "next" => /\ current[n] \in todo[n]
                             /\ current[n] \in archived
        /\ at[n] = "clean" => row[current[n]] \in {"ended", "error"}

\* A run that has been told how its session ended knows a status.
VerdictInv == \A r \in Runs : step[r] = "told" => verdict[r] # "none"

SessionsInv == ActiveHasContext /\ CleanedIsArchived /\ TrackedForDrain

IInv ==
    /\ Types /\ RowsInv /\ VerdictInv /\ ReaperInv
    /\ SessionsInv /\ NoLockLeftBehind

-----------------------------------------------------------------------------
LEMMA InitIInv == Init => IInv
  <1> SUFFICES ASSUME Init PROVE IInv
    OBVIOUS
  <1> USE DEF Init, SessionInit
  <1>1. Types
    BY SessionsAssumption DEF Types, TypeOK, RunsTypeOK, Steps
  <1>2. RowsInv
    BY DEF RowsInv, Sessions
  <1>3. VerdictInv /\ ReaperInv
    BY DEF VerdictInv, ReaperInv
  <1>4. SessionsInv
    BY DEF SessionsInv, ActiveHasContext, CleanedIsArchived, TrackedForDrain
  <1>5. NoLockLeftBehind
    BY SessionsAssumption DEF NoLockLeftBehind, Sessions
  <1> QED
    BY <1>1, <1>2, <1>3, <1>4, <1>5 DEF IInv

LEMMA TypesStep == IInv /\ [Next]_vars => Types'
  <1> SUFFICES ASSUME IInv, [Next]_vars PROVE Types'
    OBVIOUS
  <1> USE DEF Types, TypeOK, RunsTypeOK, Sessions, Steps, Goto,
              sessionVars, runVars, tables, process, reaper
  <1>0. Types /\ VerdictInv
    BY DEF IInv
  <1>1. ASSUME NEW s \in Chats, Insert(s), UNCHANGED runVars PROVE Types'
    BY <1>0, <1>1, SessionsAssumption DEF Insert
  <1>2. ASSUME NEW s \in Chats, SetContext(s), UNCHANGED runVars PROVE Types'
    BY <1>0, <1>2, SessionsAssumption DEF SetContext
  <1>3. ASSUME NEW s \in Chats, Track(s), UNCHANGED runVars PROVE Types'
    <2>1. NodeOf[s] \in Nodes /\ tracked \in [Nodes -> SUBSET Chats]
      BY <1>0, SessionsAssumption
    <2>2. tracked[NodeOf[s]] \cup {s} \in SUBSET Chats
      BY <2>1
    <2>3. tracked' = [tracked EXCEPT ![NodeOf[s]] = tracked[NodeOf[s]] \cup {s}]
      BY <1>3 DEF Track
    <2>4. tracked' \in [Nodes -> SUBSET Chats]
      BY <2>1, <2>2, <2>3
    <2>5. stage' \in [Chats -> {"new", "inserted", "stocked", "open", "failed", "left"}]
      BY <1>0, <1>3 DEF Track
    <2> QED BY <1>0, <1>3, <2>4, <2>5 DEF Track
  <1>4. ASSUME NEW s \in Chats, CreateFails(s), UNCHANGED runVars PROVE Types'
    BY <1>0, <1>4, SessionsAssumption DEF CreateFails, Mishap
  <1>5. ASSUME NEW s \in Sessions, Expire(s), UNCHANGED runVars PROVE Types'
    BY <1>0, <1>5, SessionsAssumption DEF Expire
  <1>6. ASSUME NEW n \in Nodes, NEW s \in Sessions,
               End(n, s), UNCHANGED runVars
        PROVE  Types'
    BY <1>0, <1>6, SessionsAssumption DEF End, EndAt
  <1>7. ASSUME NEW n \in Nodes, Scan(n), UNCHANGED runVars PROVE Types'
    BY <1>0, <1>7, SessionsAssumption DEF Scan, Expired
  <1>8. ASSUME NEW n \in Nodes, NEW s \in Sessions,
               Archive(n, s), UNCHANGED runVars
        PROVE  Types'
    BY <1>0, <1>8, SessionsAssumption DEF Archive
  <1>9. ASSUME NEW n \in Nodes, EndRow(n), UNCHANGED runVars PROVE Types'
    BY <1>0, <1>9, SessionsAssumption DEF EndRow
  <1>10. ASSUME NEW n \in Nodes, Clean(n), UNCHANGED runVars PROVE Types'
    BY <1>0, <1>10, SessionsAssumption DEF Clean, NextRow
  <1>11. ASSUME NEW n \in Nodes, ReapFails(n), UNCHANGED runVars PROVE Types'
    BY <1>0, <1>11, SessionsAssumption DEF ReapFails, NextRow, Mishap
  <1>12. ASSUME NEW n \in Nodes, Shutdown(n), UNCHANGED runVars PROVE Types'
    BY <1>0, <1>12, SessionsAssumption DEF Shutdown, Mishap
  <1>13. ASSUME NEW n \in Nodes, NEW s \in Chats,
               DrainOne(n, s), UNCHANGED runVars
        PROVE  Types'
    BY <1>0, <1>13, SessionsAssumption DEF DrainOne, EndAt
  <1>14. ASSUME NEW n \in Nodes, NEW s \in Chats,
               DrainFails(n, s), UNCHANGED runVars
        PROVE  Types'
    BY <1>0, <1>14, SessionsAssumption DEF DrainFails, Mishap
  <1>15. ASSUME NEW n \in Nodes, Restart(n), UNCHANGED runVars PROVE Types'
    BY <1>0, <1>15, SessionsAssumption DEF Restart
  <1>16. ASSUME NEW n \in Nodes, Exit(n), LoseRuns(n) PROVE Types'
    BY <1>0, <1>16, SessionsAssumption DEF Exit, Stop, LoseRuns
  <1>17. ASSUME NEW n \in Nodes, Crash(n), LoseRuns(n) PROVE Types'
    BY <1>0, <1>17, SessionsAssumption DEF Crash, Stop, Mishap, LoseRuns
  <1>18. ASSUME NEW r \in Runs, Acquire(r) PROVE Types'
    BY <1>0, <1>18, SessionsAssumption DEF Acquire
  <1>19. ASSUME NEW r \in Runs, InsertRun(r) PROVE Types'
    BY <1>0, <1>19, SessionsAssumption DEF InsertRun
  <1>20. ASSUME NEW r \in Runs, PublishStart(r) PROVE Types'
    BY <1>0, <1>20, SessionsAssumption DEF PublishStart
  <1>21. ASSUME NEW r \in Runs, Subscribe(r) PROVE Types'
    BY <1>0, <1>21, SessionsAssumption DEF Subscribe
  <1>22. ASSUME NEW r \in Runs, RunTimeout(r) PROVE Types'
    BY <1>0, <1>22, SessionsAssumption DEF RunTimeout
  <1>23. ASSUME NEW r \in Runs, UpdateRun(r) PROVE Types'
    BY <1>0, <1>23, SessionsAssumption DEF UpdateRun, VerdictInv
  <1>24. ASSUME NEW r \in Runs, ArchiveRun(r) PROVE Types'
    BY <1>0, <1>24, SessionsAssumption DEF ArchiveRun
  <1>25. ASSUME NEW r \in Runs, RecordRun(r) PROVE Types'
    BY <1>0, <1>25, SessionsAssumption DEF RecordRun
  <1>26. ASSUME NEW r \in Runs, RunFails(r) PROVE Types'
    BY <1>0, <1>26, SessionsAssumption DEF RunFails, Mishap, Executing
  <1>27. ASSUME NEW r \in Runs, CheckLock(r) PROVE Types'
    BY <1>0, <1>27, SessionsAssumption DEF CheckLock
  <1>28. ASSUME NEW r \in Runs, Unlock(r) PROVE Types'
    BY <1>0, <1>28, SessionsAssumption DEF Unlock
  <1>29. ASSUME NEW r \in Runs, TtlPasses(r) PROVE Types'
    BY <1>0, <1>29, SessionsAssumption DEF TtlPasses
  <1>30. ASSUME NEW r \in Runs, NEW v \in {"ended", "error"},
               Complete(r, v)
        PROVE  Types'
    <2>1. /\ step \in [Runs -> Steps] /\ missed \subseteq Runs
          /\ verdict \in [Runs -> {"none", "ended", "error"}]
      BY <1>0
    <2>2. step' \in [Runs -> Steps] /\ missed' \subseteq Runs
      BY <1>30, <2>1 DEF Complete
    <2>3. verdict' \in [Runs -> {"none", "ended", "error"}]
      BY <1>30, <2>1 DEF Complete
    <2>4. TypeOK' /\ lock' \in Runs \cup {NoSession} /\ fresh' \subseteq Runs
          /\ recorded' \subseteq Runs
      BY <1>0, <1>30 DEF Complete
    <2> QED BY <2>2, <2>3, <2>4
  <1>31. CASE UNCHANGED vars
    BY <1>0, <1>31 DEF vars
  <1> HIDE DEF Types, TypeOK, RunsTypeOK, Sessions, Steps, Goto,
               sessionVars, runVars, tables, process, reaper
  <1>32. CASE SessionStep /\ UNCHANGED runVars
    BY <1>32, <1>1, <1>2, <1>3, <1>4, <1>5, <1>6, <1>7, <1>8, <1>9, <1>10,
       <1>11, <1>12, <1>13, <1>14, <1>15 DEF SessionStep, ReapStep
  <1>33. CASE \E n \in Nodes : (Exit(n) \/ Crash(n)) /\ LoseRuns(n)
    BY <1>33, <1>16, <1>17
  <1>34. ASSUME NEW r \in Runs, RunStep(r) PROVE Types'
    BY <1>34, <1>19, <1>20, <1>21, <1>22, <1>23, <1>24, <1>25, <1>27, <1>28
       DEF RunStep
  <1> QED
    BY <1>18, <1>26, <1>29, <1>30, <1>31, <1>32, <1>33, <1>34 DEF Next

LEMMA VerdictStep == IInv /\ [Next]_vars => VerdictInv'
  <1> SUFFICES ASSUME IInv, [Next]_vars PROVE VerdictInv'
    OBVIOUS
  <1> USE DEF VerdictInv, Goto, sessionVars, runVars,
              tables, process, reaper
  <1>0. /\ step \in [Runs -> Steps]
       /\ verdict \in [Runs -> {"none", "ended", "error"}]
       /\ VerdictInv
    BY DEF IInv, Types, TypeOK, RunsTypeOK
  <1>1. ASSUME NEW s \in Chats, Insert(s), UNCHANGED runVars PROVE VerdictInv'
    BY <1>0, <1>1, SessionsAssumption DEF Insert
  <1>2. ASSUME NEW s \in Chats,
               SetContext(s), UNCHANGED runVars
        PROVE  VerdictInv'
    BY <1>0, <1>2, SessionsAssumption DEF SetContext
  <1>3. ASSUME NEW s \in Chats, Track(s), UNCHANGED runVars PROVE VerdictInv'
    BY <1>0, <1>3, SessionsAssumption DEF Track
  <1>4. ASSUME NEW s \in Chats,
               CreateFails(s), UNCHANGED runVars
        PROVE  VerdictInv'
    BY <1>0, <1>4, SessionsAssumption DEF CreateFails, Mishap
  <1>5. ASSUME NEW s \in Sessions,
               Expire(s), UNCHANGED runVars
        PROVE  VerdictInv'
    BY <1>0, <1>5, SessionsAssumption DEF Expire
  <1>6. ASSUME NEW n \in Nodes, NEW s \in Sessions,
               End(n, s), UNCHANGED runVars
        PROVE  VerdictInv'
    BY <1>0, <1>6, SessionsAssumption DEF End, EndAt
  <1>7. ASSUME NEW n \in Nodes, Scan(n), UNCHANGED runVars PROVE VerdictInv'
    BY <1>0, <1>7, SessionsAssumption DEF Scan, Expired
  <1>8. ASSUME NEW n \in Nodes, NEW s \in Sessions,
               Archive(n, s), UNCHANGED runVars
        PROVE  VerdictInv'
    BY <1>0, <1>8, SessionsAssumption DEF Archive
  <1>9. ASSUME NEW n \in Nodes, EndRow(n), UNCHANGED runVars PROVE VerdictInv'
    BY <1>0, <1>9, SessionsAssumption DEF EndRow
  <1>10. ASSUME NEW n \in Nodes, Clean(n), UNCHANGED runVars PROVE VerdictInv'
    BY <1>0, <1>10, SessionsAssumption DEF Clean, NextRow
  <1>11. ASSUME NEW n \in Nodes,
               ReapFails(n), UNCHANGED runVars
        PROVE  VerdictInv'
    BY <1>0, <1>11, SessionsAssumption DEF ReapFails, NextRow, Mishap
  <1>12. ASSUME NEW n \in Nodes,
               Shutdown(n), UNCHANGED runVars
        PROVE  VerdictInv'
    BY <1>0, <1>12, SessionsAssumption DEF Shutdown, Mishap
  <1>13. ASSUME NEW n \in Nodes, NEW s \in Chats,
               DrainOne(n, s), UNCHANGED runVars
        PROVE  VerdictInv'
    BY <1>0, <1>13, SessionsAssumption DEF DrainOne, EndAt
  <1>14. ASSUME NEW n \in Nodes, NEW s \in Chats,
               DrainFails(n, s), UNCHANGED runVars
        PROVE  VerdictInv'
    BY <1>0, <1>14, SessionsAssumption DEF DrainFails, Mishap
  <1>15. ASSUME NEW n \in Nodes,
               Restart(n), UNCHANGED runVars
        PROVE  VerdictInv'
    BY <1>0, <1>15, SessionsAssumption DEF Restart
  <1>16. ASSUME NEW n \in Nodes, Exit(n), LoseRuns(n) PROVE VerdictInv'
    BY <1>0, <1>16, SessionsAssumption DEF Exit, Stop, LoseRuns
  <1>17. ASSUME NEW n \in Nodes, Crash(n), LoseRuns(n) PROVE VerdictInv'
    BY <1>0, <1>17, SessionsAssumption DEF Crash, Stop, Mishap, LoseRuns
  <1>18. ASSUME NEW r \in Runs, Acquire(r) PROVE VerdictInv'
    BY <1>0, <1>18, SessionsAssumption DEF Acquire
  <1>19. ASSUME NEW r \in Runs, InsertRun(r) PROVE VerdictInv'
    BY <1>0, <1>19, SessionsAssumption DEF InsertRun
  <1>20. ASSUME NEW r \in Runs, PublishStart(r) PROVE VerdictInv'
    BY <1>0, <1>20, SessionsAssumption DEF PublishStart
  <1>21. ASSUME NEW r \in Runs, Subscribe(r) PROVE VerdictInv'
    BY <1>0, <1>21, SessionsAssumption DEF Subscribe
  <1>22. ASSUME NEW r \in Runs, RunTimeout(r) PROVE VerdictInv'
    BY <1>0, <1>22, SessionsAssumption DEF RunTimeout
  <1>23. ASSUME NEW r \in Runs, UpdateRun(r) PROVE VerdictInv'
    BY <1>0, <1>23, SessionsAssumption DEF UpdateRun
  <1>24. ASSUME NEW r \in Runs, ArchiveRun(r) PROVE VerdictInv'
    BY <1>0, <1>24, SessionsAssumption DEF ArchiveRun
  <1>25. ASSUME NEW r \in Runs, RecordRun(r) PROVE VerdictInv'
    BY <1>0, <1>25, SessionsAssumption DEF RecordRun
  <1>26. ASSUME NEW r \in Runs, RunFails(r) PROVE VerdictInv'
    BY <1>0, <1>26, SessionsAssumption DEF RunFails, Mishap, Executing
  <1>27. ASSUME NEW r \in Runs, CheckLock(r) PROVE VerdictInv'
    BY <1>0, <1>27, SessionsAssumption DEF CheckLock
  <1>28. ASSUME NEW r \in Runs, Unlock(r) PROVE VerdictInv'
    BY <1>0, <1>28, SessionsAssumption DEF Unlock
  <1>29. ASSUME NEW r \in Runs, TtlPasses(r) PROVE VerdictInv'
    BY <1>0, <1>29, SessionsAssumption DEF TtlPasses
  <1>30. ASSUME NEW r \in Runs, NEW v \in {"ended", "error"},
               Complete(r, v)
        PROVE  VerdictInv'
    BY <1>0, <1>30, SessionsAssumption DEF Complete
  <1>31. CASE UNCHANGED vars
    BY <1>0, <1>31 DEF vars
  <1> QED
    BY <1>1, <1>2, <1>3, <1>4, <1>5, <1>6, <1>7, <1>8, <1>9, <1>10, <1>11,
       <1>12, <1>13, <1>14, <1>15, <1>16, <1>17, <1>18, <1>19, <1>20, <1>21,
       <1>22, <1>23, <1>24, <1>25, <1>26, <1>27, <1>28, <1>29, <1>30, <1>31
       DEF Next, SessionStep, ReapStep, RunStep, vars

LEMMA RowsStep == IInv /\ [Next]_vars => RowsInv'
  <1> SUFFICES ASSUME IInv, [Next]_vars PROVE RowsInv'
    OBVIOUS
  <1> USE DEF RowsInv, Goto, sessionVars, runVars,
              tables, process, reaper
  <1>0. /\ row \in [Sessions -> {"absent", "active", "ended", "error"}]
       /\ step \in [Runs -> Steps]
       /\ verdict \in [Runs -> {"none", "ended", "error"}]
       /\ current \in [Nodes -> Sessions \cup {NoSession}]
       /\ todo \in [Nodes -> SUBSET Sessions]
       /\ tracked \in [Nodes -> SUBSET Chats]
       /\ toEnd \in [Nodes -> SUBSET Chats]
       /\ stage \in [Chats -> {"new", "inserted", "stocked", "open",
                            "failed", "left"}]
       /\ RowsInv
       /\ ReaperInv
       /\ VerdictInv
    BY DEF IInv, Types, TypeOK, RunsTypeOK
  <1>1. ASSUME NEW s \in Chats, Insert(s), UNCHANGED runVars PROVE RowsInv'
    BY <1>0, <1>1, SessionsAssumption DEF Insert, Sessions
  <1>2. ASSUME NEW s \in Chats, SetContext(s), UNCHANGED runVars PROVE RowsInv'
    BY <1>0, <1>2, SessionsAssumption DEF SetContext
  <1>3. ASSUME NEW s \in Chats, Track(s), UNCHANGED runVars PROVE RowsInv'
    BY <1>0, <1>3, SessionsAssumption DEF Track
  <1>4. ASSUME NEW s \in Chats,
               CreateFails(s), UNCHANGED runVars
        PROVE  RowsInv'
    BY <1>0, <1>4, SessionsAssumption DEF CreateFails, Mishap
  <1>5. ASSUME NEW s \in Sessions, Expire(s), UNCHANGED runVars PROVE RowsInv'
    BY <1>0, <1>5, SessionsAssumption DEF Expire, Sessions
  <1>6. ASSUME NEW n \in Nodes, NEW s \in Sessions,
               End(n, s), UNCHANGED runVars
        PROVE  RowsInv'
    BY <1>0, <1>6, SessionsAssumption DEF End, EndAt, Sessions
  <1>7. ASSUME NEW n \in Nodes, Scan(n), UNCHANGED runVars PROVE RowsInv'
    BY <1>0, <1>7, SessionsAssumption DEF Scan, Expired, Sessions
  <1>8. ASSUME NEW n \in Nodes, NEW s \in Sessions,
               Archive(n, s), UNCHANGED runVars
        PROVE  RowsInv'
    BY <1>0, <1>8, SessionsAssumption DEF Archive
  <1>9. ASSUME NEW n \in Nodes, EndRow(n), UNCHANGED runVars PROVE RowsInv'
    BY <1>0, <1>9, SessionsAssumption DEF EndRow, ReaperInv, Sessions
  <1>10. ASSUME NEW n \in Nodes, Clean(n), UNCHANGED runVars PROVE RowsInv'
    BY <1>0, <1>10, SessionsAssumption DEF Clean, NextRow
  <1>11. ASSUME NEW n \in Nodes, ReapFails(n), UNCHANGED runVars PROVE RowsInv'
    BY <1>0, <1>11, SessionsAssumption DEF ReapFails, NextRow, Mishap
  <1>12. ASSUME NEW n \in Nodes, Shutdown(n), UNCHANGED runVars PROVE RowsInv'
    BY <1>0, <1>12, SessionsAssumption DEF Shutdown, Mishap
  <1>13. ASSUME NEW n \in Nodes, NEW s \in Chats,
               DrainOne(n, s), UNCHANGED runVars
        PROVE  RowsInv'
    BY <1>0, <1>13, SessionsAssumption DEF DrainOne, EndAt, Sessions
  <1>14. ASSUME NEW n \in Nodes, NEW s \in Chats,
               DrainFails(n, s), UNCHANGED runVars
        PROVE  RowsInv'
    BY <1>0, <1>14, SessionsAssumption DEF DrainFails, Mishap
  <1>15. ASSUME NEW n \in Nodes, Restart(n), UNCHANGED runVars PROVE RowsInv'
    BY <1>0, <1>15, SessionsAssumption DEF Restart
  <1>16. ASSUME NEW n \in Nodes, Exit(n), LoseRuns(n) PROVE RowsInv'
    BY <1>0, <1>16, SessionsAssumption DEF Exit, Stop, LoseRuns
  <1>17. ASSUME NEW n \in Nodes, Crash(n), LoseRuns(n) PROVE RowsInv'
    BY <1>0, <1>17, SessionsAssumption DEF Crash, Stop, Mishap, LoseRuns
  <1>18. ASSUME NEW r \in Runs, Acquire(r) PROVE RowsInv'
    BY <1>0, <1>18, SessionsAssumption DEF Acquire, Sessions
  <1>19. ASSUME NEW r \in Runs, InsertRun(r) PROVE RowsInv'
    BY <1>0, <1>19, SessionsAssumption DEF InsertRun, Sessions
  <1>20. ASSUME NEW r \in Runs, PublishStart(r) PROVE RowsInv'
    BY <1>0, <1>20, SessionsAssumption DEF PublishStart
  <1>21. ASSUME NEW r \in Runs, Subscribe(r) PROVE RowsInv'
    BY <1>0, <1>21, SessionsAssumption DEF Subscribe
  <1>22. ASSUME NEW r \in Runs, RunTimeout(r) PROVE RowsInv'
    BY <1>0, <1>22, SessionsAssumption DEF RunTimeout
  <1>23. ASSUME NEW r \in Runs, UpdateRun(r) PROVE RowsInv'
    BY <1>0, <1>23, SessionsAssumption DEF UpdateRun, VerdictInv, Sessions
  <1>24. ASSUME NEW r \in Runs, ArchiveRun(r) PROVE RowsInv'
    BY <1>0, <1>24, SessionsAssumption DEF ArchiveRun
  <1>25. ASSUME NEW r \in Runs, RecordRun(r) PROVE RowsInv'
    BY <1>0, <1>25, SessionsAssumption DEF RecordRun
  <1>26. ASSUME NEW r \in Runs, RunFails(r) PROVE RowsInv'
    BY <1>0, <1>26, SessionsAssumption DEF RunFails, Mishap, Executing
  <1>27. ASSUME NEW r \in Runs, CheckLock(r) PROVE RowsInv'
    BY <1>0, <1>27, SessionsAssumption DEF CheckLock
  <1>28. ASSUME NEW r \in Runs, Unlock(r) PROVE RowsInv'
    BY <1>0, <1>28, SessionsAssumption DEF Unlock
  <1>29. ASSUME NEW r \in Runs, TtlPasses(r) PROVE RowsInv'
    BY <1>0, <1>29, SessionsAssumption DEF TtlPasses
  <1>30. ASSUME NEW r \in Runs, NEW v \in {"ended", "error"},
               Complete(r, v)
        PROVE  RowsInv'
    BY <1>0, <1>30, SessionsAssumption DEF Complete
  <1>31. CASE UNCHANGED vars
    BY <1>0, <1>31 DEF vars
  <1> QED
    BY <1>1, <1>2, <1>3, <1>4, <1>5, <1>6, <1>7, <1>8, <1>9, <1>10, <1>11,
       <1>12, <1>13, <1>14, <1>15, <1>16, <1>17, <1>18, <1>19, <1>20, <1>21,
       <1>22, <1>23, <1>24, <1>25, <1>26, <1>27, <1>28, <1>29, <1>30, <1>31
       DEF Next, SessionStep, ReapStep, RunStep, vars

LEMMA ReaperStep == IInv /\ [Next]_vars => ReaperInv'
  <1> SUFFICES ASSUME IInv, [Next]_vars PROVE ReaperInv'
    OBVIOUS
  <1> USE DEF ReaperInv, Goto, sessionVars, runVars,
              tables, process, reaper
  <1>0. /\ row \in [Sessions -> {"absent", "active", "ended", "error"}]
       /\ step \in [Runs -> Steps]
       /\ verdict \in [Runs -> {"none", "ended", "error"}]
       /\ current \in [Nodes -> Sessions \cup {NoSession}]
       /\ todo \in [Nodes -> SUBSET Sessions]
       /\ at \in [Nodes -> {"next", "end", "clean"}]
       /\ RowsInv
       /\ VerdictInv
       /\ ReaperInv
    BY DEF IInv, Types, TypeOK, RunsTypeOK
  <1>1. ASSUME NEW s \in Chats, Insert(s), UNCHANGED runVars PROVE ReaperInv'
    BY <1>0, <1>1, SessionsAssumption DEF Insert, RowsInv, Sessions
  <1>2. ASSUME NEW s \in Chats,
               SetContext(s), UNCHANGED runVars
        PROVE  ReaperInv'
    BY <1>0, <1>2, SessionsAssumption DEF SetContext
  <1>3. ASSUME NEW s \in Chats, Track(s), UNCHANGED runVars PROVE ReaperInv'
    BY <1>0, <1>3, SessionsAssumption DEF Track
  <1>4. ASSUME NEW s \in Chats,
               CreateFails(s), UNCHANGED runVars
        PROVE  ReaperInv'
    BY <1>0, <1>4, SessionsAssumption DEF CreateFails, Mishap
  <1>5. ASSUME NEW s \in Sessions,
               Expire(s), UNCHANGED runVars
        PROVE  ReaperInv'
    BY <1>0, <1>5, SessionsAssumption DEF Expire
  <1>6. ASSUME NEW n \in Nodes, NEW s \in Sessions,
               End(n, s), UNCHANGED runVars
        PROVE  ReaperInv'
    BY <1>0, <1>6, SessionsAssumption DEF End, EndAt
  <1>7. ASSUME NEW n \in Nodes, Scan(n), UNCHANGED runVars PROVE ReaperInv'
    BY <1>0, <1>7, SessionsAssumption DEF Scan, Expired
  <1>8. ASSUME NEW n \in Nodes, NEW s \in Sessions,
               Archive(n, s), UNCHANGED runVars
        PROVE  ReaperInv'
    BY <1>0, <1>8, SessionsAssumption DEF Archive
  <1>9. ASSUME NEW n \in Nodes, EndRow(n), UNCHANGED runVars PROVE ReaperInv'
    BY <1>0, <1>9, SessionsAssumption DEF EndRow
  <1>10. ASSUME NEW n \in Nodes, Clean(n), UNCHANGED runVars PROVE ReaperInv'
    BY <1>0, <1>10, SessionsAssumption DEF Clean, NextRow
  <1>11. ASSUME NEW n \in Nodes,
               ReapFails(n), UNCHANGED runVars
        PROVE  ReaperInv'
    BY <1>0, <1>11, SessionsAssumption DEF ReapFails, NextRow, Mishap
  <1>12. ASSUME NEW n \in Nodes,
               Shutdown(n), UNCHANGED runVars
        PROVE  ReaperInv'
    BY <1>0, <1>12, SessionsAssumption DEF Shutdown, Mishap
  <1>13. ASSUME NEW n \in Nodes, NEW s \in Chats,
               DrainOne(n, s), UNCHANGED runVars
        PROVE  ReaperInv'
    BY <1>0, <1>13, SessionsAssumption DEF DrainOne, EndAt
  <1>14. ASSUME NEW n \in Nodes, NEW s \in Chats,
               DrainFails(n, s), UNCHANGED runVars
        PROVE  ReaperInv'
    BY <1>0, <1>14, SessionsAssumption DEF DrainFails, Mishap
  <1>15. ASSUME NEW n \in Nodes, Restart(n), UNCHANGED runVars PROVE ReaperInv'
    BY <1>0, <1>15, SessionsAssumption DEF Restart
  <1>16. ASSUME NEW n \in Nodes, Exit(n), LoseRuns(n) PROVE ReaperInv'
    BY <1>0, <1>16, SessionsAssumption DEF Exit, Stop, LoseRuns
  <1>17. ASSUME NEW n \in Nodes, Crash(n), LoseRuns(n) PROVE ReaperInv'
    BY <1>0, <1>17, SessionsAssumption DEF Crash, Stop, Mishap, LoseRuns
  <1>18. ASSUME NEW r \in Runs, Acquire(r) PROVE ReaperInv'
    BY <1>0, <1>18, SessionsAssumption DEF Acquire
  <1>19. ASSUME NEW r \in Runs, InsertRun(r) PROVE ReaperInv'
    BY <1>0, <1>19, SessionsAssumption DEF InsertRun, RowsInv, Sessions
  <1>20. ASSUME NEW r \in Runs, PublishStart(r) PROVE ReaperInv'
    BY <1>0, <1>20, SessionsAssumption DEF PublishStart
  <1>21. ASSUME NEW r \in Runs, Subscribe(r) PROVE ReaperInv'
    BY <1>0, <1>21, SessionsAssumption DEF Subscribe
  <1>22. ASSUME NEW r \in Runs, RunTimeout(r) PROVE ReaperInv'
    BY <1>0, <1>22, SessionsAssumption DEF RunTimeout
  <1>23. ASSUME NEW r \in Runs, UpdateRun(r) PROVE ReaperInv'
    BY <1>0, <1>23, SessionsAssumption DEF UpdateRun, VerdictInv, Sessions
  <1>24. ASSUME NEW r \in Runs, ArchiveRun(r) PROVE ReaperInv'
    BY <1>0, <1>24, SessionsAssumption DEF ArchiveRun
  <1>25. ASSUME NEW r \in Runs, RecordRun(r) PROVE ReaperInv'
    BY <1>0, <1>25, SessionsAssumption DEF RecordRun
  <1>26. ASSUME NEW r \in Runs, RunFails(r) PROVE ReaperInv'
    BY <1>0, <1>26, SessionsAssumption DEF RunFails, Mishap, Executing
  <1>27. ASSUME NEW r \in Runs, CheckLock(r) PROVE ReaperInv'
    BY <1>0, <1>27, SessionsAssumption DEF CheckLock
  <1>28. ASSUME NEW r \in Runs, Unlock(r) PROVE ReaperInv'
    BY <1>0, <1>28, SessionsAssumption DEF Unlock
  <1>29. ASSUME NEW r \in Runs, TtlPasses(r) PROVE ReaperInv'
    BY <1>0, <1>29, SessionsAssumption DEF TtlPasses
  <1>30. ASSUME NEW r \in Runs, NEW v \in {"ended", "error"},
               Complete(r, v)
        PROVE  ReaperInv'
    BY <1>0, <1>30, SessionsAssumption DEF Complete
  <1>31. CASE UNCHANGED vars
    BY <1>0, <1>31 DEF vars
  <1> QED
    BY <1>1, <1>2, <1>3, <1>4, <1>5, <1>6, <1>7, <1>8, <1>9, <1>10, <1>11,
       <1>12, <1>13, <1>14, <1>15, <1>16, <1>17, <1>18, <1>19, <1>20, <1>21,
       <1>22, <1>23, <1>24, <1>25, <1>26, <1>27, <1>28, <1>29, <1>30, <1>31
       DEF Next, SessionStep, ReapStep, RunStep, vars

LEMMA SessionsStep == IInv /\ [Next]_vars => SessionsInv'
  <1> SUFFICES ASSUME IInv, [Next]_vars PROVE SessionsInv'
    OBVIOUS
  <1> USE DEF SessionsInv, ActiveHasContext, CleanedIsArchived,
             TrackedForDrain, Goto, sessionVars, runVars,
              tables, process, reaper
  <1>0. /\ row \in [Sessions -> {"absent", "active", "ended", "error"}]
       /\ tracked \in [Nodes -> SUBSET Chats]
       /\ RowsInv
       /\ ReaperInv
       /\ SessionsInv
       /\ stage \in [Chats -> {"new", "inserted", "stocked", "open",
                            "failed", "left"}]
    BY DEF IInv, Types, TypeOK, RunsTypeOK
  <1>1. ASSUME NEW s \in Chats, Insert(s), UNCHANGED runVars PROVE SessionsInv'
    BY <1>0, <1>1, SessionsAssumption DEF Insert, Sessions
  <1>2. ASSUME NEW s \in Chats,
               SetContext(s), UNCHANGED runVars
        PROVE  SessionsInv'
    BY <1>0, <1>2, SessionsAssumption DEF SetContext
  <1>3. ASSUME NEW s \in Chats, Track(s), UNCHANGED runVars PROVE SessionsInv'
    BY <1>0, <1>3, SessionsAssumption DEF Track, Sessions
  <1>4. ASSUME NEW s \in Chats,
               CreateFails(s), UNCHANGED runVars
        PROVE  SessionsInv'
    BY <1>0, <1>4, SessionsAssumption DEF CreateFails, Mishap
  <1>5. ASSUME NEW s \in Sessions,
               Expire(s), UNCHANGED runVars
        PROVE  SessionsInv'
    BY <1>0, <1>5, SessionsAssumption DEF Expire
  <1>6. ASSUME NEW n \in Nodes, NEW s \in Sessions,
               End(n, s), UNCHANGED runVars
        PROVE  SessionsInv'
    BY <1>0, <1>6, SessionsAssumption DEF End, EndAt, Sessions
  <1>7. ASSUME NEW n \in Nodes, Scan(n), UNCHANGED runVars PROVE SessionsInv'
    BY <1>0, <1>7, SessionsAssumption DEF Scan, Expired
  <1>8. ASSUME NEW n \in Nodes, NEW s \in Sessions,
               Archive(n, s), UNCHANGED runVars
        PROVE  SessionsInv'
    BY <1>0, <1>8, SessionsAssumption DEF Archive
  <1>9. ASSUME NEW n \in Nodes, EndRow(n), UNCHANGED runVars PROVE SessionsInv'
    BY <1>0, <1>9, SessionsAssumption DEF EndRow, Sessions
  <1>10. ASSUME NEW n \in Nodes, Clean(n), UNCHANGED runVars PROVE SessionsInv'
    BY <1>0, <1>10, SessionsAssumption DEF Clean, NextRow, ReaperInv, Sessions
  <1>11. ASSUME NEW n \in Nodes,
               ReapFails(n), UNCHANGED runVars
        PROVE  SessionsInv'
    BY <1>0, <1>11, SessionsAssumption DEF ReapFails, NextRow, Mishap
  <1>12. ASSUME NEW n \in Nodes,
               Shutdown(n), UNCHANGED runVars
        PROVE  SessionsInv'
    BY <1>0, <1>12, SessionsAssumption DEF Shutdown, Mishap
  <1>13. ASSUME NEW n \in Nodes, NEW s \in Chats,
               DrainOne(n, s), UNCHANGED runVars
        PROVE  SessionsInv'
    BY <1>0, <1>13, SessionsAssumption DEF DrainOne, EndAt, Sessions
  <1>14. ASSUME NEW n \in Nodes, NEW s \in Chats,
               DrainFails(n, s), UNCHANGED runVars
        PROVE  SessionsInv'
    BY <1>0, <1>14, SessionsAssumption DEF DrainFails, Mishap
  <1>15. ASSUME NEW n \in Nodes,
               Restart(n), UNCHANGED runVars
        PROVE  SessionsInv'
    BY <1>0, <1>15, SessionsAssumption DEF Restart
  <1>16. ASSUME NEW n \in Nodes, Exit(n), LoseRuns(n) PROVE SessionsInv'
    BY <1>0, <1>16, SessionsAssumption DEF Exit, Stop, LoseRuns
  <1>17. ASSUME NEW n \in Nodes, Crash(n), LoseRuns(n) PROVE SessionsInv'
    BY <1>0, <1>17, SessionsAssumption DEF Crash, Stop, Mishap, LoseRuns
  <1>18. ASSUME NEW r \in Runs, Acquire(r) PROVE SessionsInv'
    BY <1>0, <1>18, SessionsAssumption DEF Acquire
  <1>19. ASSUME NEW r \in Runs, InsertRun(r) PROVE SessionsInv'
    BY <1>0, <1>19, SessionsAssumption DEF InsertRun, Sessions
  <1>20. ASSUME NEW r \in Runs, PublishStart(r) PROVE SessionsInv'
    BY <1>0, <1>20, SessionsAssumption DEF PublishStart
  <1>21. ASSUME NEW r \in Runs, Subscribe(r) PROVE SessionsInv'
    BY <1>0, <1>21, SessionsAssumption DEF Subscribe
  <1>22. ASSUME NEW r \in Runs, RunTimeout(r) PROVE SessionsInv'
    BY <1>0, <1>22, SessionsAssumption DEF RunTimeout
  <1>23. ASSUME NEW r \in Runs, UpdateRun(r) PROVE SessionsInv'
    BY <1>0, <1>23, SessionsAssumption DEF UpdateRun, Sessions
  <1>24. ASSUME NEW r \in Runs, ArchiveRun(r) PROVE SessionsInv'
    BY <1>0, <1>24, SessionsAssumption DEF ArchiveRun
  <1>25. ASSUME NEW r \in Runs, RecordRun(r) PROVE SessionsInv'
    BY <1>0, <1>25, SessionsAssumption DEF RecordRun
  <1>26. ASSUME NEW r \in Runs, RunFails(r) PROVE SessionsInv'
    BY <1>0, <1>26, SessionsAssumption DEF RunFails, Mishap, Executing
  <1>27. ASSUME NEW r \in Runs, CheckLock(r) PROVE SessionsInv'
    BY <1>0, <1>27, SessionsAssumption DEF CheckLock
  <1>28. ASSUME NEW r \in Runs, Unlock(r) PROVE SessionsInv'
    BY <1>0, <1>28, SessionsAssumption DEF Unlock
  <1>29. ASSUME NEW r \in Runs, TtlPasses(r) PROVE SessionsInv'
    BY <1>0, <1>29, SessionsAssumption DEF TtlPasses
  <1>30. ASSUME NEW r \in Runs, NEW v \in {"ended", "error"},
               Complete(r, v)
        PROVE  SessionsInv'
    BY <1>0, <1>30, SessionsAssumption DEF Complete
  <1>31. CASE UNCHANGED vars
    BY <1>0, <1>31 DEF vars
  <1> QED
    BY <1>1, <1>2, <1>3, <1>4, <1>5, <1>6, <1>7, <1>8, <1>9, <1>10, <1>11,
       <1>12, <1>13, <1>14, <1>15, <1>16, <1>17, <1>18, <1>19, <1>20, <1>21,
       <1>22, <1>23, <1>24, <1>25, <1>26, <1>27, <1>28, <1>29, <1>30, <1>31
       DEF Next, SessionStep, ReapStep, RunStep, vars

LEMMA LockStep == IInv /\ [Next]_vars => NoLockLeftBehind'
  <1> SUFFICES ASSUME IInv, [Next]_vars PROVE NoLockLeftBehind'
    OBVIOUS
  <1> USE DEF NoLockLeftBehind, Executing, Goto, sessionVars, runVars,
              tables, process, reaper
  <1>0. /\ step \in [Runs -> Steps]
       /\ lock \in Runs \cup {NoSession}
       /\ NoSession \notin Runs
       /\ NoLockLeftBehind
    BY SessionsAssumption DEF IInv, Types, RunsTypeOK, Sessions
  <1>1. ASSUME NEW s \in Chats,
               Insert(s), UNCHANGED runVars
        PROVE  NoLockLeftBehind'
    BY <1>0, <1>1, SessionsAssumption DEF Insert
  <1>2. ASSUME NEW s \in Chats,
               SetContext(s), UNCHANGED runVars
        PROVE  NoLockLeftBehind'
    BY <1>0, <1>2, SessionsAssumption DEF SetContext
  <1>3. ASSUME NEW s \in Chats,
               Track(s), UNCHANGED runVars
        PROVE  NoLockLeftBehind'
    BY <1>0, <1>3, SessionsAssumption DEF Track
  <1>4. ASSUME NEW s \in Chats,
               CreateFails(s), UNCHANGED runVars
        PROVE  NoLockLeftBehind'
    BY <1>0, <1>4, SessionsAssumption DEF CreateFails, Mishap
  <1>5. ASSUME NEW s \in Sessions,
               Expire(s), UNCHANGED runVars
        PROVE  NoLockLeftBehind'
    BY <1>0, <1>5, SessionsAssumption DEF Expire
  <1>6. ASSUME NEW n \in Nodes, NEW s \in Sessions,
               End(n, s), UNCHANGED runVars
        PROVE  NoLockLeftBehind'
    BY <1>0, <1>6, SessionsAssumption DEF End, EndAt
  <1>7. ASSUME NEW n \in Nodes,
               Scan(n), UNCHANGED runVars
        PROVE  NoLockLeftBehind'
    BY <1>0, <1>7, SessionsAssumption DEF Scan, Expired
  <1>8. ASSUME NEW n \in Nodes, NEW s \in Sessions,
               Archive(n, s), UNCHANGED runVars
        PROVE  NoLockLeftBehind'
    BY <1>0, <1>8, SessionsAssumption DEF Archive
  <1>9. ASSUME NEW n \in Nodes,
               EndRow(n), UNCHANGED runVars
        PROVE  NoLockLeftBehind'
    BY <1>0, <1>9, SessionsAssumption DEF EndRow
  <1>10. ASSUME NEW n \in Nodes,
               Clean(n), UNCHANGED runVars
        PROVE  NoLockLeftBehind'
    BY <1>0, <1>10, SessionsAssumption DEF Clean, NextRow
  <1>11. ASSUME NEW n \in Nodes,
               ReapFails(n), UNCHANGED runVars
        PROVE  NoLockLeftBehind'
    BY <1>0, <1>11, SessionsAssumption DEF ReapFails, NextRow, Mishap
  <1>12. ASSUME NEW n \in Nodes,
               Shutdown(n), UNCHANGED runVars
        PROVE  NoLockLeftBehind'
    BY <1>0, <1>12, SessionsAssumption DEF Shutdown, Mishap
  <1>13. ASSUME NEW n \in Nodes, NEW s \in Chats,
               DrainOne(n, s), UNCHANGED runVars
        PROVE  NoLockLeftBehind'
    BY <1>0, <1>13, SessionsAssumption DEF DrainOne, EndAt
  <1>14. ASSUME NEW n \in Nodes, NEW s \in Chats,
               DrainFails(n, s), UNCHANGED runVars
        PROVE  NoLockLeftBehind'
    BY <1>0, <1>14, SessionsAssumption DEF DrainFails, Mishap
  <1>15. ASSUME NEW n \in Nodes,
               Restart(n), UNCHANGED runVars
        PROVE  NoLockLeftBehind'
    BY <1>0, <1>15, SessionsAssumption DEF Restart
  <1>16. ASSUME NEW n \in Nodes, Exit(n), LoseRuns(n) PROVE NoLockLeftBehind'
    BY <1>0, <1>16, SessionsAssumption DEF Exit, Stop, LoseRuns
  <1>17. ASSUME NEW n \in Nodes, Crash(n), LoseRuns(n) PROVE NoLockLeftBehind'
    BY <1>0, <1>17, SessionsAssumption DEF Crash, Stop, Mishap, LoseRuns
  <1>18. ASSUME NEW r \in Runs, Acquire(r) PROVE NoLockLeftBehind'
    BY <1>0, <1>18, SessionsAssumption DEF Acquire
  <1>19. ASSUME NEW r \in Runs, InsertRun(r) PROVE NoLockLeftBehind'
    BY <1>0, <1>19, SessionsAssumption DEF InsertRun
  <1>20. ASSUME NEW r \in Runs, PublishStart(r) PROVE NoLockLeftBehind'
    BY <1>0, <1>20, SessionsAssumption DEF PublishStart
  <1>21. ASSUME NEW r \in Runs, Subscribe(r) PROVE NoLockLeftBehind'
    BY <1>0, <1>21, SessionsAssumption DEF Subscribe
  <1>22. ASSUME NEW r \in Runs, RunTimeout(r) PROVE NoLockLeftBehind'
    BY <1>0, <1>22, SessionsAssumption DEF RunTimeout
  <1>23. ASSUME NEW r \in Runs, UpdateRun(r) PROVE NoLockLeftBehind'
    BY <1>0, <1>23, SessionsAssumption DEF UpdateRun
  <1>24. ASSUME NEW r \in Runs, ArchiveRun(r) PROVE NoLockLeftBehind'
    BY <1>0, <1>24, SessionsAssumption DEF ArchiveRun
  <1>25. ASSUME NEW r \in Runs, RecordRun(r) PROVE NoLockLeftBehind'
    BY <1>0, <1>25, SessionsAssumption DEF RecordRun
  <1>26. ASSUME NEW r \in Runs, RunFails(r) PROVE NoLockLeftBehind'
    BY <1>0, <1>26, SessionsAssumption DEF RunFails, Mishap
  <1>27. ASSUME NEW r \in Runs, CheckLock(r) PROVE NoLockLeftBehind'
    BY <1>0, <1>27, SessionsAssumption DEF CheckLock
  <1>28. ASSUME NEW r \in Runs, Unlock(r) PROVE NoLockLeftBehind'
    BY <1>0, <1>28, SessionsAssumption DEF Unlock
  <1>29. ASSUME NEW r \in Runs, TtlPasses(r) PROVE NoLockLeftBehind'
    BY <1>0, <1>29, SessionsAssumption DEF TtlPasses
  <1>30. ASSUME NEW r \in Runs, NEW v \in {"ended", "error"},
               Complete(r, v)
        PROVE  NoLockLeftBehind'
    BY <1>0, <1>30, SessionsAssumption DEF Complete
  <1>31. CASE UNCHANGED vars
    BY <1>0, <1>31 DEF vars
  <1> QED
    BY <1>1, <1>2, <1>3, <1>4, <1>5, <1>6, <1>7, <1>8, <1>9, <1>10, <1>11,
       <1>12, <1>13, <1>14, <1>15, <1>16, <1>17, <1>18, <1>19, <1>20, <1>21,
       <1>22, <1>23, <1>24, <1>25, <1>26, <1>27, <1>28, <1>29, <1>30, <1>31
       DEF Next, SessionStep, ReapStep, RunStep, vars

-----------------------------------------------------------------------------
THEOREM Invariant == Spec => []IInv
  <1>1. IInv /\ [Next]_vars => IInv'
    BY TypesStep, VerdictStep, RowsStep, ReaperStep, SessionsStep, LockStep
    DEF IInv
  <1> QED
    BY InitIInv, <1>1, PTL DEF Spec

\* Types, for any nodes, chats and runs.
THEOREM TypeCorrect == Spec => [](TypeOK /\ RunsTypeOK)
  <1>1. IInv => TypeOK /\ RunsTypeOK
    BY DEF IInv, Types
  <1> QED
    BY Invariant, <1>1, PTL

\* An active session keeps its context (manager.ts:66-77, reaper.ts:76-86).
THEOREM ContextKept == Spec => []ActiveHasContext
  <1>1. IInv => ActiveHasContext
    BY DEF IInv, SessionsInv
  <1> QED
    BY Invariant, <1>1, PTL

\* A conversation is archived before its session loses the context
\* (reaper.ts:65-86).
THEOREM ArchivedFirst == Spec => []CleanedIsArchived
  <1>1. IInv => CleanedIsArchived
    BY DEF IInv, SessionsInv
  <1> QED
    BY Invariant, <1>1, PTL

\* A shutdown knows all active sessions its process created
\* (manager.ts:85, 131, 136-140).
THEOREM DrainComplete == Spec => []TrackedForDrain
  <1>1. IInv => TrackedForDrain
    BY DEF IInv, SessionsInv
  <1> QED
    BY Invariant, <1>1, PTL

\* Both: active sessions have their context and are known to the shutdown.
THEOREM ActiveKept == Spec => []ActiveIsKept
  <1>1. IInv => ActiveIsKept
    BY DEF IInv, SessionsInv, ActiveIsKept
  <1> QED
    BY Invariant, <1>1, PTL

\* No run that is over holds the lock (scheduler/index.ts:198-205).
THEOREM LockReleased == Spec => []NoLockLeftBehind
  <1>1. IInv => NoLockLeftBehind
    BY DEF IInv
  <1> QED
    BY Invariant, <1>1, PTL
=============================================================================
