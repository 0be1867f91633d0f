---------------------------- MODULE WaitingProofs ----------------------------
(***************************************************************************)
(* Proofs about two parts that wait for answers which may never come: the  *)
(* approval gate, for any number of calls, and the agent runtime, for any  *)
(* messages, rounds and tool calls and any number of lost connections.     *)
(*                                                                         *)
(* The gate.  Its safety invariants are not inductive: that a call in      *)
(* "approved" may be dispatched rests on its row being approved, which no  *)
(* resolver can take back, and that a refused call was never dispatched    *)
(* rests on what every earlier stage says of tool and reply.  IInv adds    *)
(* both.                                                                   *)
(*                                                                         *)
(* The runtime.  What the checkpoints hold rests on the order of the queue *)
(* of commands; what a request shows the model rests on what the context   *)
(* of the handler holds of its results, from the first of them on.         *)
(***************************************************************************)
EXTENDS MCWaiting, SequenceProofs

-----------------------------------------------------------------------------
(* The approval gate.                                                      *)

Granted == [status |-> "approved", by |-> "admin"]

\* What the stage of a handler says of the rest of the state of its call.
StageInv(c) ==
    /\ stage[c] = "asked" => row[c].status = "absent"
    /\ stage[c] \in {"asked", "polling", "approved", "expired"} =>
           tool[c] = "idle" /\ reply[c] = "none"
    /\ stage[c] \in {"polling", "approved", "expired"} =>
           c \in Gated /\ row[c].status # "absent"
    /\ stage[c] = "approved" => row[c] = Granted
    /\ stage[c] = "awaiting" => tool[c] # "idle" /\ reply[c] = "none"
    /\ stage[c] \in {"answered", "stored", "done"} => reply[c] # "none"
    /\ stage[c] = "expired" /\ row[c].status = "approved" => c \in tooLate
    /\ stage[c] \in {"answered", "stored", "done"} =>
           IF reply[c] = "refused" THEN c \in Gated
           ELSE tool[c] # "idle" /\ (c \in Gated => row[c] = Granted)
    /\ announced[c] # "none" => stage[c] = "done"

\* Who wrote a row, and which rows exist.
RowInv(c) ==
    /\ c \notin Gated => row[c].status = "absent"
    /\ row[c].status = "approved" => row[c].by = "admin"

IInv ==
    /\ TypeOK
    /\ RunsOnlyApproved
    /\ ReplyMatchesExecution
    /\ AnnouncedMatchesGate
    /\ AnsweredIsSettled
    /\ NotifiedTimedOut
    /\ \A c \in Calls : StageInv(c) /\ RowInv(c)

-----------------------------------------------------------------------------
LEMMA InitIInv == Init => IInv
  BY GatedAssumption DEF Init, IInv, TypeOK, Rows, Statuses, Resolvers, Stages,
     RunsOnlyApproved, ReplyMatchesExecution, AnnouncedMatchesGate,
     AnsweredIsSettled, NotifiedTimedOut, StageInv, RowInv, Pending

\* Resolving a row changes nothing unless the row is pending.
LEMMA ResolvedRow ==
    ASSUME TypeOK, NEW c \in Calls, NEW s \in Statuses, NEW b \in Resolvers,
           Resolve(c, s, b)
    PROVE  /\ row' \in [Calls -> Rows]
           /\ \A d \in Calls : d # c => row'[d] = row[d]
           /\ Pending(c) => row'[c] = [status |-> s, by |-> b]
           /\ ~Pending(c) => row'[c] = row[c]
  BY DEF TypeOK, Resolve, Rows, Pending

LEMMA TypeStep == IInv /\ [Next]_vars => TypeOK'
  <1> SUFFICES ASSUME IInv, [Next]_vars PROVE TypeOK'
    OBVIOUS
  <1> USE DEF TypeOK, Rows, Statuses, Resolvers, Stages, handler, clocks, alerts
  <1>0. TypeOK
    BY DEF IInv
  <1>1. ASSUME NEW c \in Calls, RequestApproval(c) PROVE TypeOK'
    BY <1>0, <1>1 DEF RequestApproval
  <1>2. ASSUME NEW c \in Calls, Poll(c) PROVE TypeOK'
    BY <1>0, <1>2 DEF Poll
  <1>3. ASSUME NEW c \in Calls, Close(c) PROVE TypeOK'
    <2>1. row' \in [Calls -> Rows]
      BY <1>0, <1>3, ResolvedRow DEF Close
    <2>. QED
      BY <1>0, <1>3, <2>1 DEF Close
  <1>4. ASSUME NEW c \in Calls, Dispatch(c) PROVE TypeOK'
    BY <1>0, <1>4 DEF Dispatch
  <1>5. ASSUME NEW c \in Calls, Await(c) PROVE TypeOK'
    BY <1>0, <1>5 DEF Await
  <1>6. ASSUME NEW c \in Calls, Store(c) PROVE TypeOK'
    BY <1>0, <1>6 DEF Store
  <1>7. ASSUME NEW c \in Calls, Announce(c) PROVE TypeOK'
    BY <1>0, <1>7 DEF Announce
  <1>8. ASSUME NEW c \in Calls, Fail(c) PROVE TypeOK'
    BY <1>0, <1>8 DEF Fail
  <1>9. ASSUME NEW c \in Calls, Approve(c) \/ Reject(c) PROVE TypeOK'
    <2>1. row' \in [Calls -> Rows]
      BY <1>0, <1>9, ResolvedRow DEF Approve, Reject
    <2>. QED
      BY <1>0, <1>9, <2>1 DEF Approve, Reject
  <1>10. ASSUME NEW c \in Calls, NEW d \in {"approve", "reject"},
                ChatDecision(c, d) PROVE TypeOK'
    BY <1>0, <1>10 DEF ChatDecision
  <1>11. ASSUME NEW c \in Calls, MonitorNotify(c) PROVE TypeOK'
    BY <1>0, <1>11 DEF MonitorNotify
  <1>12. ASSUME NEW c \in Calls, DeadlinePasses(c) PROVE TypeOK'
    BY <1>0, <1>12 DEF DeadlinePasses
  <1>13. ASSUME NEW c \in Calls, PollTimeoutPasses(c) PROVE TypeOK'
    BY <1>0, <1>13 DEF PollTimeoutPasses
  <1>14. ASSUME NEW c \in Calls, RunTool(c) PROVE TypeOK'
    BY <1>0, <1>14 DEF RunTool
  <1>15. CASE MonitorSweep
    BY <1>0, <1>15 DEF MonitorSweep, TimeOut
  <1>16. CASE MonitorFails
    BY <1>0, <1>16 DEF MonitorFails
  <1>17. CASE UNCHANGED vars
    BY <1>0, <1>17 DEF vars
  <1>. QED
    BY <1>1, <1>2, <1>3, <1>4, <1>5, <1>6, <1>7, <1>8, <1>9, <1>10, <1>11,
       <1>12, <1>13, <1>14, <1>15, <1>16, <1>17
       DEF Next, CallStep, HandlerStep

\* The part of IInv that speaks of one call at a time.
CallInv(c) ==
    /\ StageInv(c)
    /\ RowInv(c)
    /\ c \in Gated => /\ tool[c] # "idle" => row[c] = Granted
                      /\ reply[c] # "none" => ~Pending(c)
    /\ reply[c] = "refused" =>
           tool[c] = "idle" /\ (row[c].status = "approved" => c \in tooLate)
    /\ announced[c] = "success" => c \notin Gated /\ tool[c] # "idle"
    /\ announced[c] = "approved_and_executed" =>
           reply[c] = "refused" \/ (tool[c] # "idle" /\ row[c] = Granted)
    /\ reply[c] = "result" => tool[c] = "finished"
    /\ c \in toNotify \cup notified =>
           row[c] = [status |-> "timeout", by |-> "monitor"]

LEMMA IInvByCall == IInv <=> TypeOK /\ \A c \in Calls : CallInv(c)
  BY GatedAssumption DEF IInv, CallInv, TypeOK, RunsOnlyApproved,
     ReplyMatchesExecution, AnnouncedMatchesGate, AnsweredIsSettled, NotifiedTimedOut, Granted

LEMMA CallStepInv == IInv /\ [Next]_vars => \A d \in Calls : CallInv(d)'
  <1> SUFFICES ASSUME IInv, [Next]_vars, NEW d \in Calls PROVE CallInv(d)'
    OBVIOUS
  <1> USE DEF CallInv, StageInv, RowInv, Granted, Pending, handler, clocks, alerts
  <1>0. TypeOK /\ TypeOK' /\ CallInv(d)
    BY IInvByCall, TypeStep
  <1>t. /\ stage \in [Calls -> Stages]
        /\ row \in [Calls -> Rows]
        /\ tool \in [Calls -> {"idle", "requested", "finished"}]
        /\ reply \in [Calls -> {"none", "result", "timed_out", "refused"}]
    BY <1>0 DEF TypeOK
  <1>1. ASSUME NEW c \in Calls, RequestApproval(c) PROVE CallInv(d)'
    <2>1. c \notin toNotify \cup notified
      BY <1>1, IInvByCall DEF RequestApproval
    <2>. QED
      BY <1>0, <1>t, <1>1, <2>1 DEF RequestApproval
  <1>2. ASSUME NEW c \in Calls, Poll(c) PROVE CallInv(d)'
    <2>1. CallInv(c)
      BY IInvByCall
    <2>2. c \in Gated
      BY <1>2, <2>1 DEF Poll
    <2>3. row[c].status = "approved" => row[c] = Granted
      BY <1>t, <2>1 DEF Rows
    <2>. QED
      BY <1>0, <1>t, <1>2, <2>2, <2>3 DEF Poll
  <1>3. ASSUME NEW c \in Calls, Close(c) PROVE CallInv(d)'
    <2>1. /\ \A e \in Calls : e # c => row'[e] = row[e]
          /\ Pending(c) => row'[c] = [status |-> "rejected", by |-> "handler"]
          /\ ~Pending(c) => row'[c] = row[c]
      BY <1>0, <1>3, ResolvedRow DEF Close, Statuses, Resolvers
    <2>. QED
      BY <1>0, <1>t, <1>3, <2>1 DEF Close
  <1>4. ASSUME NEW c \in Calls, Dispatch(c) PROVE CallInv(d)'
    BY <1>0, <1>t, <1>4 DEF Dispatch
  <1>5. ASSUME NEW c \in Calls, Await(c) PROVE CallInv(d)'
    BY <1>0, <1>t, <1>5 DEF Await
  <1>6. ASSUME NEW c \in Calls, Store(c) PROVE CallInv(d)'
    BY <1>0, <1>t, <1>6 DEF Store
  <1>7. ASSUME NEW c \in Calls, Announce(c) PROVE CallInv(d)'
    BY <1>0, <1>t, <1>7 DEF Announce
  <1>8. ASSUME NEW c \in Calls, Fail(c) PROVE CallInv(d)'
    BY <1>0, <1>t, <1>8 DEF Fail
  <1>9. ASSUME NEW c \in Calls, Approve(c) PROVE CallInv(d)'
    <2>1. /\ \A e \in Calls : e # c => row'[e] = row[e]
          /\ row'[c] = Granted
      BY <1>0, <1>9, ResolvedRow DEF Approve, Statuses, Resolvers
    <2>. QED
      BY <1>0, <1>t, <1>9, <2>1 DEF Approve
  <1>10. ASSUME NEW c \in Calls, Reject(c) PROVE CallInv(d)'
    <2>1. /\ \A e \in Calls : e # c => row'[e] = row[e]
          /\ row'[c] = [status |-> "rejected", by |-> "admin"]
      BY <1>0, <1>10, ResolvedRow DEF Reject, Statuses, Resolvers
    <2>. QED
      BY <1>0, <1>t, <1>10, <2>1 DEF Reject
  <1>11. ASSUME NEW c \in Calls, NEW e \in {"approve", "reject"},
                ChatDecision(c, e) PROVE CallInv(d)'
    BY <1>0, <1>11 DEF ChatDecision
  <1>12. ASSUME NEW c \in Calls, MonitorNotify(c) PROVE CallInv(d)'
    BY <1>0, <1>12 DEF MonitorNotify
  <1>13. ASSUME NEW c \in Calls, DeadlinePasses(c) PROVE CallInv(d)'
    BY <1>0, <1>13 DEF DeadlinePasses
  <1>14. ASSUME NEW c \in Calls, PollTimeoutPasses(c) PROVE CallInv(d)'
    BY <1>0, <1>14 DEF PollTimeoutPasses
  <1>15. ASSUME NEW c \in Calls, RunTool(c) PROVE CallInv(d)'
    BY <1>0, <1>t, <1>15 DEF RunTool
  <1>16. CASE MonitorSweep
    BY <1>0, <1>t, <1>16 DEF MonitorSweep, TimeOut
  <1>17. CASE MonitorFails
    BY <1>0, <1>17 DEF MonitorFails
  <1>18. CASE UNCHANGED vars
    BY <1>0, <1>18 DEF vars
  <1>. QED
    BY <1>1, <1>2, <1>3, <1>4, <1>5, <1>6, <1>7, <1>8, <1>9, <1>10, <1>11,
       <1>12, <1>13, <1>14, <1>15, <1>16, <1>17, <1>18
       DEF Next, CallStep, HandlerStep

LEMMA IInvInvariant == Spec => []IInv
  <1>1. IInv /\ [Next]_vars => IInv'
    <2> SUFFICES ASSUME IInv, [Next]_vars PROVE IInv'
      OBVIOUS
    <2>1. TypeOK' /\ \A c \in Calls : CallInv(c)'
      BY TypeStep, CallStepInv
    <2>. QED
      BY <2>1, GatedAssumption DEF IInv, CallInv, TypeOK, RunsOnlyApproved,
         ReplyMatchesExecution, AnnouncedMatchesGate, AnsweredIsSettled, NotifiedTimedOut, Granted,
         Pending
  <1>. QED
    BY InitIInv, <1>1, PTL DEF Spec

-----------------------------------------------------------------------------
\* Every variable stays in its declared range.
THEOREM TypeCorrect == Spec => []TypeOK
  BY IInvInvariant, PTL DEF IInv

\* No call of a tool that requires approval runs without an approval that
\* still stands, whatever the handlers, administrators and monitor do.
THEOREM OnlyApprovedRun == Spec => []RunsOnlyApproved
  BY IInvInvariant, PTL DEF IInv

\* The model is told "was not approved" only of a call that was not executed and
\* that nobody had approved when its handler gave up.
THEOREM RepliesAreTrue == Spec => []ReplyMatchesExecution
  BY IInvInvariant, PTL DEF IInv

\* No row is left pending behind an answered call.
THEOREM AnsweredSettled == Spec => []AnsweredIsSettled
  BY IInvInvariant, PTL DEF IInv

\* Timeout notifications are about rows that timed out and stay so.
THEOREM NotifiedRight == Spec => []NotifiedTimedOut
  BY IInvInvariant, PTL DEF IInv

\* What the tool_result event says of a call follows the gate, except that of a
\* refused call it says "approved_and_executed" (agent-loop.ts:361).
THEOREM AnnouncementsFollow == Spec => []AnnouncedMatchesGate
  BY IInvInvariant, PTL DEF IInv

\* What the gate tells the model, the chat page, the administrators and in
\* notifications agrees with what became of the call, whatever the calls and in
\* every order, but for approvals that came too late and for the status the chat
\* page is told of a refused call.
THEOREM TruthIsTold == Spec => []ToldIsTrue
  <1>1. IInv => ToldIsTrue
    BY DEF IInv, ToldIsTrue
  <1>. QED
    BY IInvInvariant, <1>1, PTL

-----------------------------------------------------------------------------
\* A step of the gate writes the row of c only while it is absent or pending.
LEMMA RowWrites ==
    ASSUME IInv, [Next]_vars, NEW c \in Calls,
           row[c].status \notin {"absent", "pending"}
    PROVE  row'[c] = row[c]
  <1> USE DEF Pending, handler, clocks, alerts
  <1>0. TypeOK /\ \A e \in Calls : StageInv(e)
    BY DEF IInv
  <1>1. ASSUME NEW d \in Calls, RequestApproval(d) PROVE row'[c] = row[c]
    BY <1>0, <1>1 DEF RequestApproval, StageInv, TypeOK
  <1>2. ASSUME NEW d \in Calls, Close(d) \/ Approve(d) \/ Reject(d)
        PROVE  row'[c] = row[c]
    BY <1>0, <1>2, ResolvedRow
       DEF Close, Approve, Reject, Statuses, Resolvers
  <1>3. CASE MonitorSweep
    BY <1>0, <1>3 DEF MonitorSweep, TimeOut, TypeOK
  <1>4. CASE UNCHANGED row
    BY <1>4
  <1>. QED
    BY <1>1, <1>2, <1>3, <1>4
       DEF Next, CallStep, HandlerStep, Poll, Dispatch, Await, Store, Announce,
           Fail, ChatDecision, MonitorNotify, DeadlinePasses,
           PollTimeoutPasses, RunTool, MonitorFails, vars

\* Once resolved, a row is never written again: the first of administrator,
\* monitor and handler wins, and the others' updates find nothing to do.
THEOREM FirstResolutionWins == Spec => ResolutionIsFinal
  <1>1. IInv /\ [Next]_vars =>
            [\A c \in Calls :
                row[c].status \notin {"absent", "pending"} => row'[c] = row[c]]_vars
    BY RowWrites
  <1>. QED
    BY <1>1, IInvInvariant, PTL DEF Spec, ResolutionIsFinal

-----------------------------------------------------------------------------
(* Refinement.  The state functions Verdict and Phase map a state of the   *)
(* gate to one of GatedCall.                                               *)

LEMMA AbstractInit == Init => Abstract!Init
  BY DEF Init, Abstract!Init, Verdict, Phase, VerdictOf, PhaseOf

\* A step that changes neither stages, replies nor rows is a stutter.
LEMMA AbstractStutter ==
    ASSUME UNCHANGED <<stage, reply, row>>
    PROVE  UNCHANGED Abstract!vars
  BY DEF Abstract!vars, Verdict, Phase

\* How the mapped verdict and phase of the other calls fare when one handler
\* moves from stage to stage.
LEMMA PhaseMoves ==
    ASSUME TypeOK, NEW c \in Calls, NEW s \in Stages,
           stage' = [stage EXCEPT ![c] = s],
           \A d \in Calls : d # c => reply'[d] = reply[d]
    PROVE  Phase' = [Phase EXCEPT ![c] = Phase'[c]]
  BY DEF TypeOK, Phase

LEMMA VerdictMoves ==
    ASSUME NEW c \in Calls, \A d \in Calls : d # c => row'[d] = row[d]
    PROVE  Verdict' = [Verdict EXCEPT ![c] = Verdict'[c]]
  BY DEF Verdict

LEMMA AbstractStep == IInv /\ [Next]_vars => [Abstract!Next]_(Abstract!vars)
  <1> SUFFICES ASSUME IInv, [Next]_vars PROVE [Abstract!Next]_(Abstract!vars)
    OBVIOUS
  <1> USE DEF handler, clocks, alerts, Pending, VerdictOf, PhaseOf
  <1>0. TypeOK /\ \A c \in Calls : StageInv(c) /\ RowInv(c)
    BY DEF IInv
  <1>1. ASSUME NEW c \in Calls, RequestApproval(c)
        PROVE UNCHANGED Abstract!vars
    <2>1. Verdict' = Verdict
      BY <1>0, <1>1 DEF RequestApproval, Verdict, TypeOK, StageInv
    <2>2. Phase' = Phase
      BY <1>0, <1>1 DEF RequestApproval, Phase, TypeOK
    <2>. QED
      BY <2>1, <2>2 DEF Abstract!vars
  <1>2. ASSUME NEW c \in Calls, Poll(c) PROVE UNCHANGED Abstract!vars
    <2>1. Verdict' = Verdict
      BY <1>2 DEF Poll, Verdict
    <2>2. Phase' = Phase
      BY <1>0, <1>2 DEF Poll, Phase, TypeOK
    <2>. QED
      BY <2>1, <2>2 DEF Abstract!vars
  <1>3. ASSUME NEW c \in Calls, Close(c) PROVE Abstract!Refuse(c)
    <2>1. /\ row' \in [Calls -> Rows]
          /\ \A d \in Calls : d # c => row'[d] = row[d]
          /\ Pending(c) => row'[c] = [status |-> "rejected", by |-> "handler"]
          /\ ~Pending(c) => row'[c] = row[c]
      BY <1>0, <1>3, ResolvedRow DEF Close, Statuses, Resolvers
    <2>2. c \in Gated /\ Phase[c] = "waiting"
      BY <1>0, <1>3 DEF Close, StageInv, Phase
    <2>3. Phase'[c] = "refused"
      BY <1>0, <1>3 DEF Close, TypeOK, Phase
    <2>4. Phase' = [Phase EXCEPT ![c] = "refused"]
      BY <1>0, <1>3, <2>3, PhaseMoves DEF Close, Stages, TypeOK
    <2>5. row[c].status # "absent"
      BY <1>0, <1>3 DEF Close, StageInv, TypeOK
    <2>6. Verdict'[c] = IF Verdict[c] = "none" THEN "denied" ELSE Verdict[c]
      BY <1>0, <2>1, <2>5 DEF Verdict, TypeOK, Rows, Statuses
    <2>7. Verdict' = [Verdict EXCEPT ![c] = IF @ = "none" THEN "denied" ELSE @]
      BY <2>1, <2>6, VerdictMoves DEF Verdict
    <2>. QED
      BY <2>2, <2>4, <2>7 DEF Abstract!Refuse
  <1>4. ASSUME NEW c \in Calls, Dispatch(c) PROVE Abstract!Start(c)
    <2>1. Verdict' = Verdict
      BY <1>4 DEF Dispatch, Verdict
    <2>2. Phase[c] = "waiting" /\ Phase'[c] = "running"
      BY <1>0, <1>4 DEF Dispatch, TypeOK, Phase
    <2>3. Phase' = [Phase EXCEPT ![c] = "running"]
      BY <1>0, <1>4, <2>2, PhaseMoves DEF Dispatch, Stages
    <2>4. c \in Gated => Verdict[c] = "granted"
      BY <1>0, <1>4 DEF Dispatch, StageInv, Verdict, Granted
    <2>. QED
      BY <2>1, <2>2, <2>3, <2>4 DEF Abstract!Start
  <1>5. ASSUME NEW c \in Calls, Await(c) PROVE Abstract!Return(c)
    <2>1. Verdict' = Verdict
      BY <1>5 DEF Await, Verdict
    <2>2. Phase[c] = "running" /\ Phase'[c] = "returned"
      BY <1>0, <1>5 DEF Await, TypeOK, Phase
    <2>3. Phase' = [Phase EXCEPT ![c] = "returned"]
      BY <1>0, <1>5, <2>2, PhaseMoves DEF Await, Stages, TypeOK
    <2>. QED
      BY <2>1, <2>2, <2>3 DEF Abstract!Return
  <1>6. ASSUME NEW c \in Calls, Store(c) \/ Announce(c)
        PROVE UNCHANGED Abstract!vars
    <2>1. Verdict' = Verdict
      BY <1>6 DEF Store, Announce, Verdict
    <2>2. Phase' = Phase
      BY <1>0, <1>6 DEF Store, Announce, Phase, TypeOK
    <2>. QED
      BY <2>1, <2>2 DEF Abstract!vars
  <1>7. ASSUME NEW c \in Calls, Fail(c) PROVE Abstract!Abandon(c)
    <2>1. Verdict' = Verdict
      BY <1>7 DEF Fail, Verdict
    <2>2. Phase[c] # "abandoned" /\ Phase'[c] = "abandoned"
      BY <1>0, <1>7 DEF Fail, TypeOK, Phase
    <2>3. Phase' = [Phase EXCEPT ![c] = "abandoned"]
      BY <1>0, <1>7, <2>2, PhaseMoves DEF Fail, Stages
    <2>. QED
      BY <2>1, <2>2, <2>3 DEF Abstract!Abandon
  <1>8. ASSUME NEW c \in Calls, Approve(c) \/ Reject(c)
        PROVE \E v \in {"granted", "denied"} : Abstract!Decide({c}, v)
    <2>1. /\ \A d \in Calls : d # c => row'[d] = row[d]
          /\ row'[c].status \in {"approved", "rejected"}
      BY <1>0, <1>8, ResolvedRow DEF Approve, Reject, Statuses, Resolvers
    <2>2. Phase' = Phase
      BY <1>8 DEF Approve, Reject, Phase
    <2>3. c \in Gated /\ Verdict[c] = "none"
      BY <1>0, <1>8 DEF Approve, Reject, RowInv, Verdict
    <2>4. PICK v \in {"granted", "denied"} : Verdict'[c] = v
      BY <2>1 DEF Verdict
    <2>5. Verdict' = [e \in Calls |-> IF e \in {c} THEN v ELSE Verdict[e]]
      BY <2>1, <2>4 DEF Verdict
    <2>. QED
      BY <2>2, <2>3, <2>4, <2>5 DEF Abstract!Decide
  <1>9. ASSUME NEW c \in Calls,
               \/ \E e \in {"approve", "reject"} : ChatDecision(c, e)
               \/ MonitorNotify(c) \/ DeadlinePasses(c)
               \/ PollTimeoutPasses(c) \/ RunTool(c)
        PROVE UNCHANGED Abstract!vars
    BY <1>9, AbstractStutter
       DEF ChatDecision, MonitorNotify, DeadlinePasses, PollTimeoutPasses, RunTool
  <1>10. CASE MonitorFails \/ UNCHANGED vars
    BY <1>10, AbstractStutter DEF MonitorFails, vars
  <1>11. ASSUME MonitorSweep
         PROVE \E S \in SUBSET Gated : Abstract!Decide(S, "denied")
    <2> DEFINE S == {c \in due : Pending(c)}
    <2>1. S \in SUBSET Gated /\ S # {} /\ S \subseteq Calls
      BY <1>0, <1>11 DEF MonitorSweep, RowInv, TypeOK
    <2>2. \A c \in S : Verdict[c] = "none"
      BY <2>1 DEF Verdict
    <2>3. row' = [c \in Calls |-> IF c \in S
                                 THEN [status |-> "timeout", by |-> "monitor"]
                                 ELSE row[c]]
      BY <1>11 DEF MonitorSweep, TimeOut
    <2> HIDE DEF S
    <2>4. Verdict' = [c \in Calls |-> IF c \in S THEN "denied" ELSE Verdict[c]]
      BY <2>3 DEF Verdict
    <2>5. Phase' = Phase
      BY <1>11 DEF MonitorSweep, Phase
    <2>. QED
      BY <2>1, <2>2, <2>4, <2>5 DEF Abstract!Decide
  <1>. QED
    <2>1. ASSUME NEW c \in Calls, CallStep(c)
          PROVE  Abstract!Next \/ UNCHANGED Abstract!vars
      <3>1. CASE Close(c) \/ Dispatch(c) \/ Await(c) \/ Fail(c)
        BY <1>3, <1>4, <1>5, <1>7, <3>1 DEF Abstract!Next
      <3>2. CASE Approve(c) \/ Reject(c)
        <4>1. c \in Gated
          BY <1>0, <3>2 DEF Approve, Reject, RowInv
        <4>. QED
          BY <1>8, <3>2, <4>1 DEF Abstract!Next
      <3>. QED
        BY <1>1, <1>2, <1>6, <1>9, <2>1, <3>1, <3>2 DEF CallStep, HandlerStep
    <2>. QED
      BY <1>10, <1>11, <2>1 DEF Next, Abstract!Next

\* The rows, the polling and the clocks implement the abstract gate: verdicts
\* are given once, gated calls start on a grant only, every call ends once.
THEOREM GateImplementsGatedCall == Spec => ImplementsGatedCall
  BY AbstractInit, AbstractStep, IInvInvariant, PTL
     DEF Spec, Abstract!Spec, ImplementsGatedCall

-----------------------------------------------------------------------------
(* The agent runtime.                                                      *)

Places == {"new", "context", "model", "tool", "saving", "done", "failed",
           "ignored"}

Answers == {"none", "text", "empty", "calls", "result", "malformed"}

\* The handler of m has a command on the connection.
Waiting == {"context", "model", "tool", "saving"}

Waits(m) == at[m] \in Waiting

\* s is the beginning of t.
Begins(s, t) == Len(s) <= Len(t) /\ \A k \in 1 .. Len(s) : s[k] = t[k]

-----------------------------------------------------------------------------
(* The inductive invariant.                                                *)

\* The types, those of the selections sent to the model left out; calls are
\* only answered while rounds are left.
RuntimeTypes ==
    /\ conversation \in Seq(Entry)
    /\ at \in [Inputs -> Places]
    /\ round \in [Inputs -> 0 .. MaxRounds]
    /\ toolCalls \in [Inputs -> 0 .. MaxToolCalls]
    /\ call \in [Inputs -> 0 .. MaxToolCalls]
    /\ \A m \in Inputs : at[m] = "tool" => call[m] \in 1 .. toolCalls[m]
    /\ shared \subseteq Inputs
    /\ pushed \in [Inputs -> Answers]
    /\ snapshot \in [Inputs -> Seq(Entry)]
    /\ commands \in Seq(Inputs \cup {"quit"})
    /\ checkpoint \in Seq(Entry)
    /\ draining \in BOOLEAN
    /\ lifecycle \in {"up", "unsubscribed", "unpublishing", "quitting", "exited"}
    /\ losses \in 0 .. MaxLosses

\* A round that is under way, or that an answer starts, is one of those left.
RoundsLeft ==
    \A m \in Inputs :
        at[m] = "tool" \/ pushed[m] = "calls" => round[m] < MaxRounds

\* A handler that waits has one command on the connection, and nobody else.
QueueOK ==
    /\ \A i, j \in 1 .. Len(commands) :
           commands[i] = commands[j] /\ commands[i] \in Inputs => i = j
    /\ \A i \in 1 .. Len(commands) :
           commands[i] \in Inputs => Waits(commands[i])
    /\ \A m \in Inputs : Waits(m) =>
           \E i \in 1 .. Len(commands) : commands[i] = m

\* What is stored, and what will be, is the beginning of the conversation, and
\* the longer the later it is stored.
SavedInOrder ==
    /\ Begins(checkpoint, conversation)
    /\ \A m \in Inputs : at[m] = "saving" =>
           /\ Begins(snapshot[m], conversation)
           /\ Len(checkpoint) <= Len(snapshot[m])
    /\ \A i, j \in 1 .. Len(commands) :
           /\ i <= j
           /\ commands[i] \in Inputs /\ commands[j] \in Inputs
           /\ at[commands[i]] = "saving" /\ at[commands[j]] = "saving"
           => Len(snapshot[commands[i]]) <= Len(snapshot[commands[j]])

\* The exchange of a message is in what its handler stores, and then in what is
\* stored, whoever stored it.
ExchangesSaved ==
    \A m \in Inputs : \A k \in 1 .. Len(conversation) :
        conversation[k].of = m =>
            /\ at[m] \notin {"new", "ignored"}
            /\ at[m] = "saving" => k <= Len(snapshot[m])
            /\ at[m] = "done" => k <= Len(checkpoint)

RuntimeInv == RuntimeTypes /\ RoundsLeft /\ QueueOK /\ SavedInOrder
              /\ ExchangesSaved

LEMMA RuntimeInitInv == RuntimeInit => RuntimeInv
  <1> SUFFICES ASSUME RuntimeInit PROVE RuntimeInv
    OBVIOUS
  <1> USE RuntimeAssumption DEF RuntimeInit
  <1>1. RuntimeTypes
    <2>1. <<>> \in Seq(Entry) /\ <<>> \in Seq(Inputs \cup {"quit"})
      OBVIOUS
    <2>2. snapshot \in [Inputs -> Seq(Entry)]
      BY <2>1
    <2>3. at \in [Inputs -> Places] /\ pushed \in [Inputs -> Answers]
      BY DEF Places, Answers
    <2>4. /\ 0 \in 0 .. MaxRounds /\ 0 \in 0 .. MaxToolCalls /\ 0 \in 0 .. MaxLosses
      OBVIOUS
    <2>5. /\ round \in [Inputs -> 0 .. MaxRounds]
          /\ toolCalls \in [Inputs -> 0 .. MaxToolCalls]
          /\ call \in [Inputs -> 0 .. MaxToolCalls]
      BY <2>4
    <2>6. QED BY <2>1, <2>2, <2>3, <2>4, <2>5 DEF RuntimeTypes
  <1>2. RoundsLeft
    BY DEF RoundsLeft
  <1>3. QueueOK
    BY DEF QueueOK, Waits, Waiting
  <1>4. SavedInOrder
    BY DEF SavedInOrder, Begins
  <1>5. ExchangesSaved
    BY DEF ExchangesSaved
  <1>6. QED BY <1>1, <1>2, <1>3, <1>4, <1>5 DEF RuntimeInv

-----------------------------------------------------------------------------
(* Types.                                                                  *)

\* The types of the variables that only the handlers' own steps disturb.
LEMMA QueueTyped ==
    ASSUME NEW S, NEW s \in Seq(S), NEW x \in S
    PROVE  /\ Append(s, x) \in Seq(S)
           /\ s # <<>> => Tail(s) \in Seq(S) /\ Append(Tail(s), x) \in Seq(S)
  OBVIOUS

\* The commands after one is served, and after one more is issued.
LEMMA CommandsTyped ==
    ASSUME RuntimeTypes, NEW m \in Inputs, NEW place \in Places,
           Served(m), ThenAwait(m, place) \/ ThenEnd(m, place)
    PROVE  commands' \in Seq(Inputs \cup {"quit"}) /\ at' \in [Inputs -> Places]
           /\ at' = [at EXCEPT ![m] = place]
  <1>1. commands \in Seq(Inputs \cup {"quit"}) /\ commands # <<>>
        /\ at \in [Inputs -> Places]
    BY DEF RuntimeTypes, Served
  <1>2. CASE ThenAwait(m, place)
    BY <1>1, <1>2, QueueTyped DEF ThenAwait
  <1>3. CASE ThenEnd(m, place)
    BY <1>1, <1>3, QueueTyped DEF ThenEnd
  <1>4. QED BY <1>2, <1>3

LEMMA EntryTyped ==
    ASSUME RuntimeTypes, NEW m \in Inputs, NEW kind \in EntryKinds
    PROVE  /\ [of |-> m, kind |-> kind, round |-> round[m], call |-> 0] \in Entry
           /\ [of |-> m, kind |-> kind, round |-> round[m], call |-> call[m]]
                  \in Entry
           /\ [of |-> m, kind |-> kind, round |-> 0, call |-> 0] \in Entry
  <1>1. /\ round[m] \in 0 .. MaxRounds /\ call[m] \in 0 .. MaxToolCalls
        /\ 0 \in 0 .. MaxRounds /\ 0 \in 0 .. MaxToolCalls
    BY RuntimeAssumption DEF RuntimeTypes
  <1>2. QED BY <1>1 DEF Entry

LEMMA ResultsTyped ==
    ASSUME RuntimeTypes, NEW m \in Inputs, AddResult(m)
    PROVE  conversation' \in Seq(Entry)
  <1>1. PICK e \in Entry :
            conversation' = conversation \o
                (IF m \in shared THEN <<e, e>> ELSE <<e>>)
    BY EntryTyped DEF AddResult, EntryKinds
  <1>2. conversation \in Seq(Entry) /\ <<e, e>> \in Seq(Entry) /\ <<e>> \in Seq(Entry)
    BY DEF RuntimeTypes
  <1>3. QED BY <1>1, <1>2

LEMMA RuntimeTypeStep ==
    ASSUME RuntimeTypes, RoundsLeft, [RuntimeNext]_runtimeVars
    PROVE  RuntimeTypes' /\ RoundsLeft'
  <1> USE RuntimeAssumption DEF Answers
  <1> DEFINE Typed == RuntimeTypes' /\ RoundsLeft'
  <1>1. ASSUME NEW m \in Inputs, AskFirst(m) PROVE Typed
    <2>1. PICK place \in {"failed", "model"} :
              ThenAwait(m, place) \/ ThenEnd(m, place)
      BY <1>1 DEF AskFirst, CannotPublish
    <2>2. commands' \in Seq(Inputs \cup {"quit"}) /\ at' \in [Inputs -> Places]
          /\ at' = [at EXCEPT ![m] = place]
      BY <1>1, <2>1, CommandsTyped DEF AskFirst, Places
    <2>3. shared' \subseteq Inputs
          /\ UNCHANGED <<conversation, pushed, round, toolCalls, call, snapshot,
                         checkpoint, draining, lifecycle, losses>>
      BY <1>1 DEF AskFirst, CannotPublish, RuntimeTypes
    <2>4. QED BY <2>2, <2>3 DEF RuntimeTypes, RoundsLeft
  <1>2. ASSUME NEW m \in Inputs, Finish(m) PROVE Typed
    <2>1. PICK place \in {"failed", "saving"} :
              ThenAwait(m, place) \/ ThenEnd(m, place)
      BY <1>2 DEF Finish, FinishSaving, CannotPublish
    <2>2. commands' \in Seq(Inputs \cup {"quit"}) /\ at' \in [Inputs -> Places]
          /\ at' = [at EXCEPT ![m] = place]
      BY <1>2, <2>1, CommandsTyped DEF Finish, FinishSaving, Places
    <2>3. conversation' \in Seq(Entry)
      <3>1. [of |-> m, kind |-> "final", round |-> round[m], call |-> 0] \in Entry
        BY EntryTyped DEF EntryKinds
      <3>2. conversation \in Seq(Entry)
        BY DEF RuntimeTypes
      <3>3. QED BY <1>2, <3>1, <3>2, QueueTyped DEF Finish, FinishSaving
    <2>4. snapshot' = snapshot
          \/ snapshot' = [snapshot EXCEPT ![m] = conversation']
      BY <1>2 DEF Finish, FinishSaving, CannotPublish
    <2>5. pushed' = [pushed EXCEPT ![m] = "none"]
          /\ UNCHANGED <<round, toolCalls, call, shared, checkpoint, draining,
                         lifecycle, losses>>
      BY <1>2 DEF Finish, FinishSaving, CannotPublish
    <2>6. snapshot' \in [Inputs -> Seq(Entry)]
      BY <2>3, <2>4 DEF RuntimeTypes
    <2>7. QED BY <2>2, <2>3, <2>5, <2>6 DEF RuntimeTypes, RoundsLeft
  <1>3. ASSUME NEW m \in Inputs, ModelTimeout(m) PROVE Typed
    <2>1. PICK place \in {"failed", "saving"} :
              ThenAwait(m, place) \/ ThenEnd(m, place)
      BY <1>3 DEF ModelTimeout, CannotPublish
    <2>2. commands' \in Seq(Inputs \cup {"quit"}) /\ at' \in [Inputs -> Places]
          /\ at' = [at EXCEPT ![m] = place]
      BY <1>3, <2>1, CommandsTyped DEF ModelTimeout, Places
    <2>3. snapshot' = snapshot
          \/ snapshot' = [snapshot EXCEPT ![m] = conversation]
      BY <1>3 DEF ModelTimeout, CannotPublish
    <2>4. UNCHANGED <<conversation, pushed, round, toolCalls, call, shared,
                      checkpoint, draining, lifecycle, losses>>
      BY <1>3 DEF ModelTimeout, CannotPublish
    <2>5. snapshot' \in [Inputs -> Seq(Entry)]
      BY <2>3 DEF RuntimeTypes
    <2>6. QED BY <2>2, <2>4, <2>5 DEF RuntimeTypes, RoundsLeft
  <1>4. ASSUME NEW m \in Inputs, CallTools(m) PROVE Typed
    <2>1. conversation' \in Seq(Entry)
      <3>1. [of |-> m, kind |-> "calls", round |-> round[m], call |-> 0] \in Entry
        BY EntryTyped DEF EntryKinds
      <3>2. conversation \in Seq(Entry)
        BY DEF RuntimeTypes
      <3>3. QED BY <1>4, <3>1, <3>2, QueueTyped DEF CallTools
    <2>2. pushed' = [pushed EXCEPT ![m] = "none"] /\ pushed[m] = "calls"
          /\ UNCHANGED <<round, shared, snapshot, checkpoint, draining, lifecycle,
                         losses>>
      BY <1>4 DEF CallTools, CannotPublish
    <2>3. CASE CannotPublish(m)
      <3>1. commands' \in Seq(Inputs \cup {"quit"}) /\ at' \in [Inputs -> Places]
            /\ at' = [at EXCEPT ![m] = "failed"]
        BY <1>4, <2>3, CommandsTyped DEF CallTools, CannotPublish, Places
      <3>2. UNCHANGED <<toolCalls, call>>
        BY <2>3 DEF CannotPublish
      <3>3. QED BY <2>1, <2>2, <3>1, <3>2 DEF RuntimeTypes, RoundsLeft
    <2>4. CASE ~CannotPublish(m)
      <3>1. commands' \in Seq(Inputs \cup {"quit"}) /\ at' \in [Inputs -> Places]
            /\ at' = [at EXCEPT ![m] = "tool"]
        BY <1>4, <2>4, CommandsTyped DEF CallTools, Places
      <3>2. PICK n \in 1 .. MaxToolCalls : toolCalls' = [toolCalls EXCEPT ![m] = n]
        BY <1>4, <2>4 DEF CallTools
      <3>3. call' = [call EXCEPT ![m] = 1]
        BY <1>4, <2>4 DEF CallTools
      <3>4. QED BY <2>1, <2>2, <3>1, <3>2, <3>3, SMTT(30) DEF RuntimeTypes, RoundsLeft
    <2>5. QED BY <2>3, <2>4
  <1>5. ASSUME NEW m \in Inputs, TakeResult(m) PROVE Typed
    <2>1. conversation' \in Seq(Entry)
      BY <1>5, ResultsTyped DEF TakeResult, NextCallAfter
    <2>2. pushed' = [pushed EXCEPT ![m] = "none"] /\ at[m] = "tool"
          /\ UNCHANGED <<toolCalls, shared, snapshot, checkpoint, draining,
                         lifecycle, losses>>
      BY <1>5 DEF TakeResult, NextCallAfter, CannotPublish
    <2>3. PICK place \in {"failed", "tool", "model"} :
              ThenAwait(m, place) \/ ThenEnd(m, place)
      BY <1>5 DEF TakeResult, NextCallAfter, CannotPublish
    <2>4. commands' \in Seq(Inputs \cup {"quit"}) /\ at' \in [Inputs -> Places]
          /\ at' = [at EXCEPT ![m] = place]
      BY <1>5, <2>3, CommandsTyped DEF TakeResult, NextCallAfter, Places
    <2>5. \/ at'[m] = "tool" /\ call[m] # toolCalls[m]
             /\ call' = [call EXCEPT ![m] = @ + 1] /\ round' = round
          \/ at'[m] # "tool" /\ call' = call
             /\ (round' = round \/ round' = [round EXCEPT ![m] = @ + 1])
      BY <1>5 DEF TakeResult, NextCallAfter, CannotPublish, ThenAwait, ThenEnd,
                 RuntimeTypes
    <2>6. round[m] \in 0 .. MaxRounds /\ round[m] < MaxRounds
          /\ call[m] \in 1 .. toolCalls[m] /\ toolCalls[m] \in 0 .. MaxToolCalls
      BY <2>2 DEF RuntimeTypes, RoundsLeft
    <2>7. round' \in [Inputs -> 0 .. MaxRounds]
          /\ call' \in [Inputs -> 0 .. MaxToolCalls]
      <3>1. round \in [Inputs -> 0 .. MaxRounds] /\ round[m] + 1 \in 0 .. MaxRounds
        BY <2>6 DEF RuntimeTypes
      <3>2. round' \in [Inputs -> 0 .. MaxRounds]
        BY <2>5, <3>1
      <3>3. call \in [Inputs -> 0 .. MaxToolCalls]
            /\ (call[m] # toolCalls[m] => call[m] + 1 \in 0 .. MaxToolCalls)
        BY <2>6 DEF RuntimeTypes
      <3>4. call' \in [Inputs -> 0 .. MaxToolCalls]
        BY <2>5, <3>3
      <3>5. QED BY <3>2, <3>4
    <2>8. \A o \in Inputs : at'[o] = "tool" => call'[o] \in 1 .. toolCalls'[o]
      BY <2>2, <2>4, <2>5, <2>6, SMTT(30) DEF RuntimeTypes
    <2>9. RoundsLeft'
      BY <2>2, <2>4, <2>5, <2>6 DEF RuntimeTypes, RoundsLeft
    <2>10. QED BY <2>1, <2>2, <2>4, <2>7, <2>8, <2>9 DEF RuntimeTypes
  <1>6. ASSUME NEW m \in Inputs, Malformed(m) PROVE Typed
    <2>1. commands' \in Seq(Inputs \cup {"quit"}) /\ at' \in [Inputs -> Places]
          /\ at' = [at EXCEPT ![m] = "failed"]
      BY <1>6, CommandsTyped DEF Malformed, Places
    <2>2. QED BY <1>6, <2>1 DEF Malformed, RuntimeTypes, RoundsLeft
  <1>7. ASSUME NEW m \in Inputs, Save(m) PROVE Typed
    <2>1. commands' \in Seq(Inputs \cup {"quit"}) /\ at' \in [Inputs -> Places]
          /\ at' = [at EXCEPT ![m] = "done"]
      BY <1>7, CommandsTyped DEF Save, Places
    <2>2. QED BY <1>7, <2>1 DEF Save, RuntimeTypes, RoundsLeft
  <1>8. ASSUME NEW m \in Inputs, Receive(m) PROVE Typed
    <2>1. at' = [at EXCEPT ![m] = "ignored"] \/ at' = [at EXCEPT ![m] = "context"]
      BY <1>8 DEF Receive
    <2>2. commands' \in Seq(Inputs \cup {"quit"})
      <3>1. commands \in Seq(Inputs \cup {"quit"})
        BY DEF RuntimeTypes
      <3>2. Append(commands, m) \in Seq(Inputs \cup {"quit"})
        BY <3>1
      <3>3. QED BY <1>8, <3>1, <3>2 DEF Receive
    <2>3. conversation' \in Seq(Entry)
      <3>1. [of |-> m, kind |-> "user", round |-> 0, call |-> 0] \in Entry
        BY EntryTyped DEF EntryKinds
      <3>2. conversation \in Seq(Entry)
        BY DEF RuntimeTypes
      <3>3. Append(conversation, [of |-> m, kind |-> "user", round |-> 0, call |-> 0])
                \in Seq(Entry)
        BY <3>1, <3>2, QueueTyped
      <3>4. QED BY <1>8, <3>2, <3>3 DEF Receive
    <2>4. QED BY <1>8, <2>1, <2>2, <2>3 DEF Receive, RuntimeTypes, RoundsLeft, Places
  <1>9. ASSUME NEW m \in Inputs, Answer(m) \/ Execute(m) PROVE Typed
    <2>1. PICK a \in Answers : pushed' = [pushed EXCEPT ![m] = a]
                               /\ (a = "calls" => round[m] < MaxRounds)
      BY <1>9 DEF Answer, Execute
    <2>2. QED BY <1>9, <2>1 DEF Answer, Execute, handlerVars, RuntimeTypes, RoundsLeft
  <1>10. CASE LoseConnection \/ RuntimeExits
    <2>1. commands' = <<>> /\ at' \in [Inputs -> Places] /\ losses' \in 0 .. MaxLosses
          /\ \A m \in Inputs : at'[m] = "tool" => at[m] = "tool"
      BY <1>10 DEF LoseConnection, RuntimeExits, RuntimeTypes, Places
    <2>2. lifecycle' \in {"up", "unsubscribed", "unpublishing", "quitting", "exited"}
          /\ UNCHANGED <<conversation, round, toolCalls, call, shared, pushed,
                         snapshot, checkpoint, draining>>
      BY <1>10 DEF LoseConnection, RuntimeExits, RuntimeTypes
    <2>3. QED BY <2>1, <2>2 DEF RuntimeTypes, RoundsLeft
  <1>11. CASE Drain \/ Sigterm \/ Unpublish \/ Quit
    <2>1. commands' \in Seq(Inputs \cup {"quit"})
      <3>1. commands \in Seq(Inputs \cup {"quit"})
        BY DEF RuntimeTypes
      <3>2. QED BY <1>11, <3>1, QueueTyped DEF Drain, Sigterm, Unpublish, Quit
    <2>2. QED BY <1>11, <2>1 DEF Drain, Sigterm, Unpublish, Quit, handlerVars,
                                RuntimeTypes, RoundsLeft
  <1>12. CASE UNCHANGED runtimeVars
    BY <1>12 DEF runtimeVars, handlerVars, RuntimeTypes, RoundsLeft
  <1>13. QED
    BY <1>1, <1>2, <1>3, <1>4, <1>5, <1>6, <1>7, <1>8, <1>9, <1>10, <1>11, <1>12
       DEF RuntimeNext, Serve

-----------------------------------------------------------------------------
(* The queue of commands.                                                  *)

\* What a step of m's handler does to the queue: it is served and waits again
\* or does not, or it is new and waits or does not.
QueueStep(m) ==
    /\ \A o \in Inputs \ {m} : at'[o] = at[o]
    /\ \/ Served(m) /\ Waits(m)' /\ commands' = Append(Tail(commands), m)
       \/ Served(m) /\ ~Waits(m)' /\ commands' = Tail(commands)
       \/ at[m] = "new" /\ Waits(m)' /\ commands' = Append(commands, m)
       \/ at[m] = "new" /\ ~Waits(m)' /\ commands' = commands

\* The commands of the others move up by d; one of m is the last.
MovesUp(m, d) ==
    /\ \A i \in 1 .. Len(commands') :
           \/ commands'[i] = m /\ i = Len(commands') /\ Waits(m)'
           \/ /\ commands'[i] # m
              /\ i + d \in 1 .. Len(commands) /\ commands'[i] = commands[i + d]
    /\ \A i \in 1 .. Len(commands) : commands[i] # m =>
           i - d \in 1 .. Len(commands') /\ commands'[i - d] = commands[i]
    /\ Waits(m)' => \E i \in 1 .. Len(commands') : commands'[i] = m

LEMMA AppendedAt ==
    ASSUME NEW S, NEW s \in Seq(S), NEW x \in S
    PROVE  /\ Len(Append(s, x)) = Len(s) + 1
           /\ \A i \in 1 .. Len(s) : Append(s, x)[i] = s[i]
           /\ Append(s, x)[Len(s) + 1] = x
           /\ Len(s) \in Nat
  OBVIOUS

LEMMA TailAt ==
    ASSUME NEW S, NEW s \in Seq(S), s # <<>>
    PROVE  /\ Tail(s) \in Seq(S) /\ Len(Tail(s)) = Len(s) - 1
           /\ \A i \in 1 .. Len(s) - 1 : Tail(s)[i] = s[i + 1]
           /\ Len(s) \in Nat \ {0}
  OBVIOUS

LEMMA QueueMoves ==
    ASSUME RuntimeTypes, QueueOK, NEW m \in Inputs, QueueStep(m)
    PROVE  \E d \in {0, 1} : MovesUp(m, d)
  <1> DEFINE S == Inputs \cup {"quit"}
  <1>1. commands \in Seq(S) /\ m \in S /\ Len(commands) \in Nat
    BY DEF RuntimeTypes
  <1>2. CASE Served(m)
    <2>1. commands # <<>> /\ commands[1] = m
      BY <1>2 DEF Served
    <2>2. \A i \in 1 .. Len(commands) : commands[i] = m => i = 1
      BY <1>1, <2>1, TailAt DEF QueueOK
    <2>3. Tail(commands) \in Seq(S) /\ Len(Tail(commands)) = Len(commands) - 1
          /\ Len(commands) \in Nat \ {0}
      BY <1>1, <2>1, TailAt
    <2>4. \A i \in 1 .. Len(commands) - 1 : Tail(commands)[i] = commands[i + 1]
      BY <1>1, <2>1, TailAt
    <2>5. CASE Waits(m)' /\ commands' = Append(Tail(commands), m)
      <3>1. Len(commands') = Len(commands) /\ commands'[Len(commands)] = m
            /\ \A i \in 1 .. Len(commands) - 1 : commands'[i] = Tail(commands)[i]
        BY <1>1, <2>3, <2>5, AppendedAt
      <3>2. ASSUME NEW i \in 1 .. Len(commands')
            PROVE  \/ commands'[i] = m /\ i = Len(commands')
                   \/ /\ commands'[i] # m
                      /\ i + 1 \in 1 .. Len(commands) /\ commands'[i] = commands[i + 1]
        <4>1. CASE i = Len(commands)
          BY <3>1, <4>1
        <4>2. CASE i # Len(commands)
          <5>1. i \in 1 .. Len(commands) - 1 /\ i + 1 \in 1 .. Len(commands) /\ i + 1 # 1
            <6>1. i \in 1 .. Len(commands)
              BY <3>1
            <6>2. Len(commands) \in Nat
              BY <2>3
            <6>3. QED BY <4>2, <6>1, <6>2
          <5>2. commands'[i] = Tail(commands)[i] /\ Tail(commands)[i] = commands[i + 1]
            BY <2>4, <3>1, <5>1
          <5>3. commands[i + 1] # m
            BY <2>2, <5>1
          <5>4. QED BY <5>1, <5>2, <5>3
        <4>3. QED BY <4>1, <4>2
      <3>3. ASSUME NEW i \in 1 .. Len(commands), commands[i] # m
            PROVE  i - 1 \in 1 .. Len(commands') /\ commands'[i - 1] = commands[i]
        <4>1. i - 1 \in 1 .. Len(commands) - 1 /\ (i - 1) + 1 = i
          BY <2>1, <2>3, <3>3
        <4>2. commands'[i - 1] = Tail(commands)[i - 1]
          BY <3>1, <4>1
        <4>3. Tail(commands)[i - 1] = commands[(i - 1) + 1]
          BY <2>4, <4>1
        <4>4. i - 1 \in 1 .. Len(commands')
          BY <2>3, <3>1, <4>1
        <4>5. QED BY <4>1, <4>2, <4>3, <4>4
      <3>4. Len(commands') \in 1 .. Len(commands')
        BY <2>3, <3>1
      <3>5. MovesUp(m, 1)
        BY <2>5, <3>1, <3>2, <3>3, <3>4 DEF MovesUp
      <3>6. QED BY <3>5
    <2>6. CASE ~Waits(m)' /\ commands' = Tail(commands)
      <3>1. ASSUME NEW i \in 1 .. Len(commands')
            PROVE  /\ commands'[i] # m
                   /\ i + 1 \in 1 .. Len(commands) /\ commands'[i] = commands[i + 1]
        <4>1. i \in 1 .. Len(commands) - 1 /\ i + 1 \in 1 .. Len(commands) /\ i + 1 # 1
          BY <2>3, <2>6
        <4>2. QED BY <2>2, <2>4, <2>6, <4>1
      <3>2. ASSUME NEW i \in 1 .. Len(commands), commands[i] # m
            PROVE  i - 1 \in 1 .. Len(commands') /\ commands'[i - 1] = commands[i]
        <4>1. i - 1 \in 1 .. Len(commands) - 1 /\ (i - 1) + 1 = i
          BY <2>1, <2>3, <3>2
        <4>2. QED BY <2>3, <2>4, <2>6, <4>1
      <3>3. MovesUp(m, 1)
        BY <2>6, <3>1, <3>2 DEF MovesUp
      <3>4. QED BY <3>3
    <2>7. at[m] # "new"
      BY <2>1, <2>3 DEF QueueOK, Waits, Waiting
    <2>8. QED BY <2>5, <2>6, <2>7 DEF QueueStep
  <1>3. CASE at[m] = "new"
    <2>1. \A i \in 1 .. Len(commands) : commands[i] # m
      BY <1>3 DEF QueueOK, Waits, Waiting
    <2>2. ~Served(m)
      BY <1>1, <2>1, TailAt DEF Served
    <2>3. CASE Waits(m)' /\ commands' = Append(commands, m)
      <3>1. Len(commands') = Len(commands) + 1 /\ commands'[Len(commands) + 1] = m
            /\ \A i \in 1 .. Len(commands) : commands'[i] = commands[i]
        BY <1>1, <2>3, AppendedAt
      <3>2. MovesUp(m, 0)
        BY <1>1, <2>1, <2>3, <3>1 DEF MovesUp
      <3>3. QED BY <3>2
    <2>4. CASE ~Waits(m)' /\ commands' = commands
      <3>1. MovesUp(m, 0)
        BY <1>1, <2>1, <2>4 DEF MovesUp
      <3>2. QED BY <3>1
    <2>5. QED BY <1>3, <2>2, <2>3, <2>4 DEF QueueStep
  <1>4. QED BY <1>2, <1>3 DEF QueueStep

LEMMA QueueKept ==
    ASSUME RuntimeTypes, RuntimeTypes', QueueOK, NEW m \in Inputs, QueueStep(m)
    PROVE  QueueOK'
  <1>1. PICK d \in {0, 1} : MovesUp(m, d)
    BY QueueMoves
  <1>2. Len(commands) \in Nat /\ Len(commands') \in Nat
    BY SMTT(30) DEF RuntimeTypes
  <1>3. \A o \in Inputs \ {m} : Waits(o)' <=> Waits(o)
    BY DEF QueueStep, Waits
  <1>4. ASSUME NEW i \in 1 .. Len(commands'), NEW j \in 1 .. Len(commands'),
               commands'[i] = commands'[j], commands'[i] \in Inputs
        PROVE  i = j
    <2>1. CASE commands'[i] = m
      BY <1>1, <1>4, <2>1 DEF MovesUp
    <2>2. CASE commands'[i] # m
      <3>1. /\ i + d \in 1 .. Len(commands) /\ commands'[i] = commands[i + d]
            /\ j + d \in 1 .. Len(commands) /\ commands'[j] = commands[j + d]
        BY <1>1, <1>4, <2>2 DEF MovesUp
      <3>2. i + d = j + d
        BY <1>4, <3>1 DEF QueueOK
      <3>3. QED BY <1>2, <3>2
    <2>3. QED BY <2>1, <2>2
  <1>5. ASSUME NEW i \in 1 .. Len(commands'), commands'[i] \in Inputs
        PROVE  at'[commands'[i]] \in Waiting
    <2>1. CASE commands'[i] = m
      BY <1>1, <2>1 DEF MovesUp, Waits
    <2>2. CASE commands'[i] # m
      <3>1. i + d \in 1 .. Len(commands) /\ commands'[i] = commands[i + d]
        BY <1>1, <2>2 DEF MovesUp
      <3>2. Waits(commands[i + d])
        BY <1>5, <3>1 DEF QueueOK
      <3>3. QED BY <1>5, <2>2, <3>1, <3>2 DEF QueueStep, Waits
    <2>3. QED BY <2>1, <2>2
  <1>6. ASSUME NEW o \in Inputs, Waits(o)'
        PROVE  \E i \in 1 .. Len(commands') : commands'[i] = o
    <2>1. CASE o = m
      BY <1>1, <1>6, <2>1 DEF MovesUp
    <2>2. CASE o # m
      <3>1. PICK i \in 1 .. Len(commands) : commands[i] = o
        BY <1>3, <1>6, <2>2 DEF QueueOK
      <3>2. QED BY <1>1, <2>2, <3>1 DEF MovesUp
    <2>3. QED BY <2>1, <2>2
  <1>7. QED
    <2>1. \A i \in 1 .. Len(commands') :
              commands'[i] \in Inputs => at'[commands'[i]] \in Waiting
      BY <1>5
    <2>2. QED BY <1>4, <1>6, <2>1 DEF QueueOK, Waits

-----------------------------------------------------------------------------
(* What is stored.                                                         *)

(* What a step of m's handler does, short of storing the checkpoint: it may *)
(* add entries of m to the conversation while m is not about to be stored, *)
(* and what it is about to store is the conversation.                      *)
HandlerMove(m) ==
    /\ QueueStep(m)
    /\ at[m] \in {"new", "context", "model", "tool"}
    /\ at'[m] \in Waiting \cup {"failed", "ignored"}
    /\ checkpoint' = checkpoint
    /\ \A o \in Inputs \ {m} : snapshot'[o] = snapshot[o]
    /\ at'[m] = "saving" => snapshot'[m] = conversation'
    /\ Begins(conversation, conversation')
    /\ \A k \in 1 .. Len(conversation') :
           k > Len(conversation) => conversation'[k].of = m
    /\ at'[m] = "ignored" => at[m] = "new" /\ conversation' = conversation

LEMMA BeginsTransitive ==
    ASSUME NEW S, NEW s \in Seq(S), NEW t \in Seq(S), NEW u \in Seq(S),
           Begins(s, t), Begins(t, u)
    PROVE  Begins(s, u)
  BY DEF Begins

LEMMA LengthsTyped ==
    ASSUME RuntimeTypes
    PROVE  /\ Len(conversation) \in Nat /\ Len(checkpoint) \in Nat
           /\ Len(commands) \in Nat
           /\ \A m \in Inputs : Len(snapshot[m]) \in Nat
  BY DEF RuntimeTypes

LEMMA HandlerKeepsOrder ==
    ASSUME RuntimeInv, RuntimeTypes', NEW m \in Inputs, HandlerMove(m)
    PROVE  SavedInOrder'
  <1>1. RuntimeTypes /\ QueueOK /\ SavedInOrder /\ QueueStep(m)
    BY DEF RuntimeInv, HandlerMove
  <1>2. PICK d \in {0, 1} : MovesUp(m, d)
    BY <1>1, QueueMoves
  <1>3. /\ Len(conversation) \in Nat /\ Len(conversation') \in Nat
        /\ Len(checkpoint) \in Nat /\ Len(commands) \in Nat
        /\ Len(commands') \in Nat
        /\ \A o \in Inputs : Len(snapshot[o]) \in Nat
        /\ \A o \in Inputs : Len(snapshot'[o]) \in Nat
    <2>1. \A o \in Inputs : Len(snapshot'[o]) \in Nat
      BY DEF RuntimeTypes
    <2>2. Len(conversation') \in Nat /\ Len(commands') \in Nat
      BY DEF RuntimeTypes
    <2>3. QED BY <1>1, <2>1, <2>2, LengthsTyped
  <1>4. conversation \in Seq(Entry) /\ conversation' \in Seq(Entry)
        /\ checkpoint \in Seq(Entry) /\ \A o \in Inputs : snapshot[o] \in Seq(Entry)
    BY <1>1 DEF RuntimeTypes
  <1>5. Begins(conversation, conversation') /\ checkpoint' = checkpoint
        /\ Len(conversation) <= Len(conversation')
    BY DEF HandlerMove, Begins
  <1>6. Begins(checkpoint', conversation')
    BY <1>1, <1>4, <1>5, BeginsTransitive DEF SavedInOrder
  <1>7. ASSUME NEW o \in Inputs, at'[o] = "saving"
        PROVE  /\ Begins(snapshot'[o], conversation')
               /\ Len(checkpoint') <= Len(snapshot'[o])
    <2>1. CASE o = m
      <3>1. snapshot'[m] = conversation'
        BY <1>7, <2>1 DEF HandlerMove
      <3>2. Begins(conversation', conversation')
        BY <1>3 DEF Begins
      <3>3. Len(checkpoint) <= Len(conversation)
        BY <1>1 DEF SavedInOrder, Begins
      <3>4. QED BY <1>3, <1>5, <2>1, <3>1, <3>2, <3>3
    <2>2. CASE o # m
      <3>1. at[o] = "saving" /\ snapshot'[o] = snapshot[o]
        BY <1>1, <1>7, <2>2 DEF HandlerMove, QueueStep
      <3>2. Begins(snapshot[o], conversation) /\ Len(checkpoint) <= Len(snapshot[o])
        BY <1>1, <3>1 DEF SavedInOrder
      <3>3. Begins(snapshot[o], conversation')
        BY <1>4, <1>5, <3>2, BeginsTransitive
      <3>4. QED BY <1>5, <3>1, <3>2, <3>3
    <2>3. QED BY <2>1, <2>2
  <1>8. ASSUME NEW i \in 1 .. Len(commands'), NEW j \in 1 .. Len(commands'),
               i <= j, commands'[i] \in Inputs, commands'[j] \in Inputs,
               at'[commands'[i]] = "saving", at'[commands'[j]] = "saving"
        PROVE  Len(snapshot'[commands'[i]]) <= Len(snapshot'[commands'[j]])
    <2>1. CASE commands'[j] = m
      <3>1. snapshot'[commands'[j]] = conversation'
        BY <1>8, <2>1 DEF HandlerMove
      <3>2. Begins(snapshot'[commands'[i]], conversation')
        BY <1>7, <1>8
      <3>3. QED BY <3>1, <3>2 DEF Begins
    <2>2. CASE commands'[j] # m
      <3>1. commands'[i] # m
        BY <1>2, <1>3, <1>8, <2>2 DEF MovesUp
      <3>2. PICK p \in 1 .. Len(commands), q \in 1 .. Len(commands) :
                p <= q /\ commands'[i] = commands[p] /\ commands'[j] = commands[q]
        <4>1. /\ i + d \in 1 .. Len(commands) /\ commands'[i] = commands[i + d]
              /\ j + d \in 1 .. Len(commands) /\ commands'[j] = commands[j + d]
          BY <1>2, <2>2, <3>1 DEF MovesUp
        <4>2. i + d <= j + d
          BY <1>3, <1>8
        <4>3. QED BY <4>1, <4>2
      <3>3. at[commands[p]] = "saving" /\ at[commands[q]] = "saving"
            /\ snapshot'[commands[p]] = snapshot[commands[p]]
            /\ snapshot'[commands[q]] = snapshot[commands[q]]
        BY <1>1, <1>8, <2>2, <3>1, <3>2 DEF HandlerMove, QueueStep
      <3>4. QED BY <1>1, <1>8, <3>2, <3>3 DEF SavedInOrder
    <2>3. QED BY <2>1, <2>2
  <1>9. QED BY <1>6, <1>7, <1>8 DEF SavedInOrder

LEMMA HandlerKeepsExchanges ==
    ASSUME RuntimeInv, RuntimeTypes', NEW m \in Inputs, HandlerMove(m)
    PROVE  ExchangesSaved'
  <1>1. Len(conversation) \in Nat /\ Len(conversation') \in Nat
    BY LengthsTyped, SMTT(30) DEF RuntimeInv, RuntimeTypes
  <1>2. SUFFICES ASSUME NEW o \in Inputs, NEW k \in 1 .. Len(conversation'),
                        conversation'[k].of = o
                 PROVE  /\ at'[o] \notin {"new", "ignored"}
                        /\ at'[o] = "saving" => k <= Len(snapshot'[o])
                        /\ at'[o] = "done" => k <= Len(checkpoint')
    BY DEF ExchangesSaved
  <1>3. CASE k > Len(conversation)
    <2>1. o = m
      BY <1>2, <1>3 DEF HandlerMove
    <2>2. at'[m] # "ignored"
      BY <1>1, <1>3 DEF HandlerMove
    <2>3. QED BY <1>1, <1>2, <2>1, <2>2 DEF HandlerMove, Waiting
  <1>4. CASE k <= Len(conversation)
    <2>1. k \in 1 .. Len(conversation) /\ conversation[k].of = o
      BY <1>1, <1>2, <1>4 DEF HandlerMove, Begins
    <2>2. /\ at[o] \notin {"new", "ignored"}
          /\ at[o] = "saving" => k <= Len(snapshot[o])
          /\ at[o] = "done" => k <= Len(checkpoint)
      BY <2>1 DEF RuntimeInv, ExchangesSaved
    <2>3. CASE o = m
      BY <1>1, <1>2, <2>2, <2>3 DEF HandlerMove, Waiting
    <2>4. CASE o # m
      BY <2>2, <2>4 DEF HandlerMove, QueueStep
    <2>5. QED BY <2>3, <2>4
  <1>5. QED BY <1>1, <1>3, <1>4

LEMMA HandlerKeeps ==
    ASSUME RuntimeInv, RuntimeTypes' /\ RoundsLeft', NEW m \in Inputs, HandlerMove(m)
    PROVE  RuntimeInv'
  <1>1. QueueOK'
    BY QueueKept DEF RuntimeInv, HandlerMove
  <1>2. QED
    BY <1>1, HandlerKeepsOrder, HandlerKeepsExchanges DEF RuntimeInv

-----------------------------------------------------------------------------
(* The steps.                                                              *)

\* One entry more, of m, or two.
LEMMA ConversationGrows ==
    ASSUME NEW m \in Inputs, conversation \in Seq(Entry), NEW e \in Entry, e.of = m,
           \/ conversation' = conversation
           \/ conversation' = Append(conversation, e)
           \/ conversation' = conversation \o <<e>>
           \/ conversation' = conversation \o <<e, e>>
    PROVE  /\ Begins(conversation, conversation')
           /\ \A k \in 1 .. Len(conversation') :
                  k > Len(conversation) => conversation'[k].of = m
  <1>1. CASE conversation' = conversation
    BY <1>1 DEF Begins
  <1>2. CASE conversation' = Append(conversation, e)
    BY <1>2 DEF Begins
  <1>3. CASE conversation' = conversation \o <<e>>
    BY <1>3 DEF Begins
  <1>4. CASE conversation' = conversation \o <<e, e>>
    BY <1>4 DEF Begins
  <1>5. QED BY <1>1, <1>2, <1>3, <1>4

LEMMA HandlerSteps ==
    ASSUME RuntimeInv, NEW m \in Inputs,
           \/ AskFirst(m) \/ Finish(m) \/ ModelTimeout(m) \/ CallTools(m)
           \/ TakeResult(m) \/ Malformed(m) \/ Receive(m)
    PROVE  HandlerMove(m)
  <1>1. /\ conversation \in Seq(Entry) /\ at \in [Inputs -> Places]
        /\ snapshot \in [Inputs -> Seq(Entry)]
    BY DEF RuntimeInv, RuntimeTypes
  <1> DEFINE E(kind, r, c) == [of |-> m, kind |-> kind, round |-> r, call |-> c]
  <1>2. Begins(conversation, conversation)
    BY <1>1 DEF Begins
  <1> USE DEF Waiting, Waits, HandlerMove, QueueStep, ThenAwait, ThenEnd, CannotPublish
  <1>3. CASE AskFirst(m)
    BY <1>1, <1>2, <1>3 DEF AskFirst
  <1>4. CASE Finish(m)
    <2>1. E("final", round[m], 0) \in Entry /\ E("final", round[m], 0).of = m
      BY EntryTyped DEF RuntimeInv, EntryKinds
    <2>2. conversation' = conversation
          \/ conversation' = Append(conversation, E("final", round[m], 0))
      BY <1>4 DEF Finish, FinishSaving
    <2>3. /\ Begins(conversation, conversation')
          /\ \A k \in 1 .. Len(conversation') :
                 k > Len(conversation) => conversation'[k].of = m
      BY <1>1, <2>1, <2>2, ConversationGrows
    <2>4. QED BY <1>1, <1>4, <2>3 DEF Finish, FinishSaving
  <1>5. CASE ModelTimeout(m)
    BY <1>1, <1>2, <1>5 DEF ModelTimeout
  <1>6. CASE CallTools(m)
    <2>1. E("calls", round[m], 0) \in Entry /\ E("calls", round[m], 0).of = m
      BY EntryTyped DEF RuntimeInv, EntryKinds
    <2>2. conversation' = Append(conversation, E("calls", round[m], 0))
      BY <1>6 DEF CallTools
    <2>3. /\ Begins(conversation, conversation')
          /\ \A k \in 1 .. Len(conversation') :
                 k > Len(conversation) => conversation'[k].of = m
      BY <1>1, <2>1, <2>2, ConversationGrows
    <2>4. QED BY <1>1, <1>6, <2>3 DEF CallTools
  <1>7. CASE TakeResult(m)
    <2>1. E("result", round[m], call[m]) \in Entry
          /\ E("result", round[m], call[m]).of = m
      BY EntryTyped DEF RuntimeInv, EntryKinds
    <2>2. \/ conversation' = conversation \o <<E("result", round[m], call[m])>>
          \/ conversation' = conversation \o <<E("result", round[m], call[m]),
                                              E("result", round[m], call[m])>>
      BY <1>7 DEF TakeResult, NextCallAfter, AddResult
    <2>3. /\ Begins(conversation, conversation')
          /\ \A k \in 1 .. Len(conversation') :
                 k > Len(conversation) => conversation'[k].of = m
      BY <1>1, <2>1, <2>2, ConversationGrows
    <2>4. QED BY <1>1, <1>7, <2>3 DEF TakeResult, NextCallAfter
  <1>8. CASE Malformed(m)
    BY <1>1, <1>2, <1>8 DEF Malformed
  <1>9. CASE Receive(m)
    <2>1. E("user", 0, 0) \in Entry /\ E("user", 0, 0).of = m
      BY EntryTyped DEF RuntimeInv, EntryKinds
    <2>2. conversation' = conversation
          \/ conversation' = Append(conversation, E("user", 0, 0))
      BY <1>9 DEF Receive
    <2>3. /\ Begins(conversation, conversation')
          /\ \A k \in 1 .. Len(conversation') :
                 k > Len(conversation) => conversation'[k].of = m
      BY <1>1, <2>1, <2>2, ConversationGrows
    <2>4. QED BY <1>1, <1>9, <2>3 DEF Receive
  <1>10. QED BY <1>3, <1>4, <1>5, <1>6, <1>7, <1>8, <1>9

LEMMA SaveKeeps ==
    ASSUME RuntimeInv, RuntimeTypes' /\ RoundsLeft', NEW m \in Inputs, Save(m)
    PROVE  RuntimeInv' /\ Begins(checkpoint, checkpoint')
  <1>1. /\ RuntimeTypes /\ QueueOK /\ SavedInOrder /\ ExchangesSaved
        /\ at \in [Inputs -> Places] /\ at[m] = "saving"
        /\ at' = [at EXCEPT ![m] = "done"] /\ commands' = Tail(commands)
        /\ checkpoint' = snapshot[m] /\ snapshot' = snapshot
        /\ conversation' = conversation /\ commands[1] = m /\ commands # <<>>
    BY DEF RuntimeInv, RuntimeTypes, Save, ThenEnd, Served
  <1>2. QueueStep(m)
    BY <1>1 DEF Save, QueueStep, Waits, Waiting
  <1>3. QueueOK'
    BY <1>1, <1>2, QueueKept
  <1>4. PICK d \in {0, 1} : MovesUp(m, d)
    BY <1>1, <1>2, QueueMoves
  <1>5. /\ Len(conversation) \in Nat /\ Len(checkpoint) \in Nat
        /\ Len(commands) \in Nat \ {0}
        /\ \A o \in Inputs : Len(snapshot[o]) \in Nat
    <2>1. commands \in Seq(Inputs \cup {"quit"})
      BY <1>1 DEF RuntimeTypes
    <2>2. QED BY <1>1, <2>1, LengthsTyped, TailAt
  <1>6. Begins(snapshot[m], conversation) /\ Begins(checkpoint, conversation)
        /\ Len(checkpoint) <= Len(snapshot[m])
    BY <1>1 DEF SavedInOrder
  <1>7. Begins(checkpoint, checkpoint')
    BY <1>1, <1>5, <1>6 DEF Begins
  <1>8. ASSUME NEW i \in 1 .. Len(commands'), commands'[i] \in Inputs
        PROVE  /\ commands'[i] # m
               /\ i + d \in 1 .. Len(commands) /\ commands'[i] = commands[i + d]
               /\ at'[commands'[i]] = at[commands'[i]]
    <2>1. ~Waits(m)'
      BY <1>1 DEF Waits, Waiting
    <2>2. QED BY <1>1, <1>4, <1>8, <2>1 DEF MovesUp
  <1>9. ASSUME NEW o \in Inputs, at'[o] = "saving"
        PROVE  /\ Begins(snapshot'[o], conversation')
               /\ Len(checkpoint') <= Len(snapshot'[o])
    <2>1. o # m /\ at[o] = "saving"
      BY <1>1, <1>9
    <2>2. PICK i \in 1 .. Len(commands) : commands[i] = o
      BY <1>1, <2>1 DEF QueueOK, Waits, Waiting
    <2>3. 1 \in 1 .. Len(commands) /\ 1 <= i
      BY <1>5
    <2>4. Len(snapshot[m]) <= Len(snapshot[o])
      BY <1>1, <2>1, <2>2, <2>3 DEF SavedInOrder
    <2>5. QED BY <1>1, <2>1, <2>4 DEF SavedInOrder
  <1>10. ASSUME NEW i \in 1 .. Len(commands'), NEW j \in 1 .. Len(commands'),
                i <= j, commands'[i] \in Inputs, commands'[j] \in Inputs,
                at'[commands'[i]] = "saving", at'[commands'[j]] = "saving"
         PROVE  Len(snapshot'[commands'[i]]) <= Len(snapshot'[commands'[j]])
    <2>1. /\ i + d \in 1 .. Len(commands) /\ commands'[i] = commands[i + d]
          /\ j + d \in 1 .. Len(commands) /\ commands'[j] = commands[j + d]
          /\ at[commands'[i]] = "saving" /\ at[commands'[j]] = "saving"
      BY <1>8, <1>10
    <2>2. Len(commands') \in Nat /\ i + d <= j + d
      <3>1. Len(commands') \in Nat
        BY DEF RuntimeTypes
      <3>2. QED BY <1>10, <3>1
    <2>3. QED BY <1>1, <1>10, <2>1, <2>2 DEF SavedInOrder
  <1>11. SavedInOrder'
    BY <1>1, <1>6, <1>9, <1>10 DEF SavedInOrder
  <1>12. ExchangesSaved'
    <2>1. SUFFICES ASSUME NEW o \in Inputs, NEW k \in 1 .. Len(conversation),
                          conversation[k].of = o
                   PROVE  /\ at'[o] \notin {"new", "ignored"}
                          /\ at'[o] = "saving" => k <= Len(snapshot[o])
                          /\ at'[o] = "done" => k <= Len(snapshot[m])
      BY <1>1 DEF ExchangesSaved
    <2>2. /\ at[o] \notin {"new", "ignored"}
          /\ at[o] = "saving" => k <= Len(snapshot[o])
          /\ at[o] = "done" => k <= Len(checkpoint)
      BY <1>1, <2>1 DEF ExchangesSaved
    <2>3. QED BY <1>1, <1>5, <1>6, <2>2
  <1>13. QED BY <1>3, <1>7, <1>11, <1>12 DEF RuntimeInv

\* The end of a connection and that of the process: every handler that waits
\* reports an error.
LEMMA EndKeeps ==
    ASSUME RuntimeInv, RuntimeTypes' /\ RoundsLeft', LoseConnection \/ RuntimeExits
    PROVE  RuntimeInv'
  <1>1. /\ commands' = <<>>
        /\ at' = [m \in Inputs |-> IF m \in ToSet(commands) THEN "failed" ELSE at[m]]
        /\ UNCHANGED <<conversation, snapshot, checkpoint>>
    BY DEF LoseConnection, RuntimeExits
  <1>2. ToSet(commands) = {commands[i] : i \in 1 .. Len(commands)}
    BY DEF ToSet, RuntimeInv, RuntimeTypes
  <1>3. \A m \in Inputs : ~Waits(m)' /\ (at'[m] # "failed" => at'[m] = at[m])
    BY <1>1, <1>2 DEF RuntimeInv, QueueOK, Waits, Waiting
  <1>4. QueueOK'
    BY <1>1, <1>3 DEF QueueOK
  <1>5. SavedInOrder'
    BY <1>1, <1>3 DEF RuntimeInv, SavedInOrder, Waits, Waiting
  <1>6. ExchangesSaved'
    BY <1>1, <1>3 DEF RuntimeInv, ExchangesSaved
  <1>7. QED BY <1>4, <1>5, <1>6 DEF RuntimeInv

LEMMA QuitKeeps ==
    ASSUME RuntimeInv, RuntimeTypes' /\ RoundsLeft', Quit
    PROVE  RuntimeInv'
  <1>1. commands' = Append(commands, "quit")
        /\ UNCHANGED <<conversation, at, snapshot, checkpoint>>
    BY DEF Quit, handlerVars
  <1>2. /\ Len(commands') = Len(commands) + 1 /\ commands'[Len(commands) + 1] = "quit"
        /\ \A i \in 1 .. Len(commands) : commands'[i] = commands[i]
        /\ Len(commands) \in Nat
    <2>1. commands \in Seq(Inputs \cup {"quit"})
      BY DEF RuntimeInv, RuntimeTypes
    <2>2. QED BY <1>1, <2>1, AppendedAt
  <1>3. \A i \in 1 .. Len(commands') : commands'[i] \in Inputs =>
            i \in 1 .. Len(commands) /\ commands'[i] = commands[i]
    BY <1>2, RuntimeAssumption
  <1>4. QueueOK'
    BY <1>1, <1>2, <1>3 DEF RuntimeInv, QueueOK, Waits
  <1>5. SavedInOrder'
    BY <1>1, <1>2, <1>3 DEF RuntimeInv, SavedInOrder
  <1>6. ExchangesSaved'
    BY <1>1 DEF RuntimeInv, ExchangesSaved
  <1>7. QED BY <1>4, <1>5, <1>6 DEF RuntimeInv

LEMMA RuntimeStep ==
    ASSUME RuntimeInv, [RuntimeNext]_runtimeVars
    PROVE  RuntimeInv' /\ Begins(checkpoint, checkpoint')
  <1>1. RuntimeTypes' /\ RoundsLeft'
    BY RuntimeTypeStep DEF RuntimeInv
  <1>2. checkpoint' = checkpoint => Begins(checkpoint, checkpoint')
    BY DEF RuntimeInv, RuntimeTypes, Begins
  <1>3. ASSUME NEW m \in Inputs,
               \/ AskFirst(m) \/ Finish(m) \/ ModelTimeout(m) \/ CallTools(m)
               \/ TakeResult(m) \/ Malformed(m) \/ Receive(m)
        PROVE  RuntimeInv' /\ Begins(checkpoint, checkpoint')
    <2>1. HandlerMove(m)
      BY <1>3, HandlerSteps
    <2>2. QED BY <1>1, <1>2, <2>1, HandlerKeeps DEF HandlerMove
  <1>4. ASSUME NEW m \in Inputs, Save(m)
        PROVE  RuntimeInv' /\ Begins(checkpoint, checkpoint')
    BY <1>1, <1>4, SaveKeeps
  <1>5. CASE LoseConnection \/ RuntimeExits
    BY <1>1, <1>2, <1>5, EndKeeps DEF LoseConnection, RuntimeExits
  <1>6. CASE Quit
    BY <1>1, <1>2, <1>6, QuitKeeps DEF Quit
  <1>7. CASE \/ \E m \in Inputs : Answer(m) \/ Execute(m)
             \/ Drain \/ Sigterm \/ Unpublish \/ UNCHANGED runtimeVars
    <2>1. UNCHANGED <<conversation, at, snapshot, commands, checkpoint>>
      BY <1>7 DEF Answer, Execute, Drain, Sigterm, Unpublish, runtimeVars, handlerVars
    <2>2. QueueOK' /\ SavedInOrder' /\ ExchangesSaved'
      BY <2>1 DEF RuntimeInv, QueueOK, Waits, SavedInOrder, ExchangesSaved
    <2>3. QED BY <1>1, <1>2, <2>1, <2>2 DEF RuntimeInv
  <1>8. QED BY <1>3, <1>4, <1>5, <1>6, <1>7 DEF RuntimeNext, Serve

-----------------------------------------------------------------------------
(* The theorems.                                                           *)

\* The variables keep their types, with the queue of the connection and the
\* checkpoints in order (transport.ts:46-64, runtime.ts:157-161).
THEOREM RuntimeInvariant == RuntimeSpec => []RuntimeInv
  <1>1. RuntimeInit => RuntimeInv
    BY RuntimeInitInv
  <1>2. RuntimeInv /\ [RuntimeNext]_runtimeVars => RuntimeInv'
    BY RuntimeStep
  <1>3. QED BY <1>1, <1>2, PTL DEF RuntimeSpec

LEMMA BeginsIsPrefix ==
    ASSUME NEW S, NEW s \in Seq(S), NEW t \in Seq(S), Begins(s, t)
    PROVE  IsPrefix(s, t)
  <1>1. Len(s) \in Nat /\ Len(t) \in Nat /\ Len(s) <= Len(t)
    BY DEF Begins
  <1>2. SubSeq(s, 1, Len(s)) = SubSeq(t, 1, Len(s))
    BY <1>1 DEF Begins
  <1>3. QED BY <1>1, <1>2 DEF IsPrefix

\* A checkpoint never forgets, however the handlers of however many messages
\* overlap, fail and are cut off (runtime.ts:157-161).
THEOREM CheckpointsGrow == RuntimeSpec => CheckpointGrows
  <1>1. RuntimeInv /\ [RuntimeNext]_runtimeVars
            => [IsPrefix(checkpoint, checkpoint')]_runtimeVars
    <2>1. SUFFICES ASSUME RuntimeInv, [RuntimeNext]_runtimeVars
                   PROVE  IsPrefix(checkpoint, checkpoint')
      OBVIOUS
    <2>2. checkpoint \in Seq(Entry) /\ checkpoint' \in Seq(Entry)
          /\ Begins(checkpoint, checkpoint')
      BY <2>1, RuntimeStep DEF RuntimeInv, RuntimeTypes
    <2>3. QED BY <2>2, BeginsIsPrefix
  <1>2. QED BY <1>1, RuntimeInvariant, PTL DEF RuntimeSpec, CheckpointGrows

\* What is said and done about a message is in the checkpoint once the message
\* is done (runtime.ts:144-161).
THEOREM DoneSaved == RuntimeSpec => []DoneIsSaved
  <1>1. RuntimeInv => DoneIsSaved
    <2>1. SUFFICES ASSUME RuntimeInv, NEW m \in Inputs, at[m] = "done",
                          NEW e \in ToSet(conversation), e.of = m
                   PROVE  e \in ToSet(checkpoint)
      BY DEF DoneIsSaved
    <2>2. conversation \in Seq(Entry) /\ checkpoint \in Seq(Entry)
          /\ Len(conversation) \in Nat /\ Len(checkpoint) \in Nat
      BY <2>1, LengthsTyped DEF RuntimeInv, RuntimeTypes
    <2>3. PICK k \in 1 .. Len(conversation) : conversation[k] = e
      BY <2>1, <2>2 DEF ToSet
    <2>4. k \in 1 .. Len(checkpoint)
      BY <2>1, <2>2, <2>3 DEF RuntimeInv, ExchangesSaved
    <2>5. checkpoint[k] = e
      BY <2>1, <2>3, <2>4 DEF RuntimeInv, SavedInOrder, Begins
    <2>6. QED BY <2>2, <2>4, <2>5 DEF ToSet
  <1>2. QED BY <1>1, RuntimeInvariant, PTL

-----------------------------------------------------------------------------
(* The selection of a long conversation.                                   *)

LEMMA TokensOfNone == Tokens(<<>>) = 0
  <1> DEFINE Is(f) == f = [i \in 0 .. 0 |-> IF i = 0 THEN 0
                                            ELSE f[i - 1] + TokensOf[<<>>[i].kind]]
             zero == [i \in 0 .. 0 |-> 0]
  <1>1. 0 .. 0 = {0} /\ Len(<<>>) = 0
    OBVIOUS
  <1>2. Is(zero)
    BY <1>1
  <1>3. Is(CHOOSE f : Is(f))
    BY <1>2
  <1>4. Tokens(<<>>) = (CHOOSE f : Is(f))[0]
    BY <1>1 DEF Tokens
  <1> HIDE DEF zero
  <1> QED BY <1>1, <1>3, <1>4

LEMMA LastOfTyped ==
    ASSUME NEW T, NEW s \in Seq(T), NEW n \in 0 .. Len(s)
    PROVE  /\ LastOf(s, n) \in Seq(T) /\ Len(LastOf(s, n)) = n
           /\ \A i \in 1 .. n : LastOf(s, n)[i] = s[Len(s) - n + i]
  <1>1. Len(s) \in Nat /\ n \in Nat /\ n <= Len(s)
    OBVIOUS
  <1> QED BY <1>1 DEF LastOf

\* Newest is the longest end that fits, or none of the sequence.
LEMMA NewestIs ==
    ASSUME NEW T, NEW s \in Seq(T), NEW budget
    PROVE  \E n \in 0 .. Len(s) :
              /\ Newest(s, budget) = LastOf(s, n)
              /\ Tokens(LastOf(s, n)) <= budget
                 \/ (n = 0 /\ \A k \in 0 .. Len(s) : ~(Tokens(LastOf(s, k)) <= budget))
              /\ \A k \in 0 .. Len(s) : Tokens(LastOf(s, k)) <= budget => k <= n
  <1> DEFINE fits == {n \in 0 .. Len(s) : Tokens(LastOf(s, n)) <= budget}
             n == CHOOSE n \in fits \cup {0} : \A k \in fits : k <= n
  <1>1. fits \subseteq 0 .. Len(s) /\ Len(s) \in Nat
    OBVIOUS
  <1>2. Newest(s, budget) = LastOf(s, n)
    BY DEF Newest
  <1>3. \E m \in fits \cup {0} : \A k \in fits : k <= m
    <2>1. CASE fits = {}
      BY <2>1
    <2>2. CASE fits # {}
      <3> HIDE DEF fits
      <3>1. PICK m \in fits : \A k \in fits : k <= m
        BY <1>1, <2>2, GreatestMember
      <3> QED BY <3>1
    <2> QED BY <2>1, <2>2
  <1>4. n \in fits \cup {0} /\ \A k \in fits : k <= n
    BY <1>3
  <1> HIDE DEF n, fits
  <1>5. n \in 0 .. Len(s) /\ (n \in fits \/ (n = 0 /\ n \notin fits))
    BY <1>1, <1>4
  <1>6. n = 0 /\ n \notin fits => fits = {}
    <2>1. ASSUME n = 0, n \notin fits, NEW k \in fits PROVE FALSE
      <3>1. k \in Nat /\ k <= n
        BY <1>1, <1>4, <2>1
      <3>2. k = 0
        BY <2>1, <3>1
      <3> QED BY <2>1, <3>2
    <2> QED BY <2>1
  <1>7. \A k \in 0 .. Len(s) : k \in fits <=> Tokens(LastOf(s, k)) <= budget
    BY DEF fits
  <1> QED BY <1>2, <1>4, <1>5, <1>6, <1>7

\* The recent messages, and what is selected of the others.
LEMMA PrepareParts ==
    ASSUME NEW s \in Seq(Entry)
    PROVE  \E recent \in Seq(Entry), kept \in Seq(Entry) :
              /\ recent = Window(s)
              /\ Prepare(s) = IF Tokens(kept \o recent) <= TokenBudget
                              THEN kept \o recent ELSE Newest(recent, TokenBudget)
  <1>1. Len(s) \in Nat /\ RecentCount \in Nat
    BY RuntimeAssumption
  <1>2. PICK recent \in Seq(Entry) : recent = Window(s) /\ Len(recent) <= Len(s)
    <2>1. PICK n \in 0 .. Len(s) : Window(s) = LastOf(s, n)
      BY <1>1 DEF Window
    <2>2. LastOf(s, n) \in Seq(Entry) /\ Len(LastOf(s, n)) = n
      BY LastOfTyped
    <2> QED BY <1>1, <2>1, <2>2
  <1>3. PICK middle \in Seq(Entry) :
            middle = Kept(s, ToolRelated)[Len(s) - Len(recent)]
    <2>1. Kept(s, ToolRelated) \in [0 .. Len(s) -> Seq(Entry)]
      BY KeptStep
    <2>2. Len(recent) \in Nat /\ Len(s) - Len(recent) \in 0 .. Len(s)
      BY <1>1, <1>2
    <2> QED BY <2>1, <2>2
  <1>4. PICK kept \in Seq(Entry) : kept = Newest(middle, TokenBudget - Tokens(recent))
    <2>1. PICK n \in 0 .. Len(middle) :
              Newest(middle, TokenBudget - Tokens(recent)) = LastOf(middle, n)
      BY NewestIs
    <2>2. LastOf(middle, n) \in Seq(Entry)
      BY LastOfTyped
    <2> QED BY <2>1, <2>2
  <1>5. Prepare(s) = IF Tokens(kept \o recent) <= TokenBudget
                     THEN kept \o recent ELSE Newest(recent, TokenBudget)
    BY <1>2, <1>3, <1>4 DEF Prepare
  <1> QED BY <1>2, <1>5

LEMMA PrepareTyped ==
    ASSUME NEW s \in Seq(Entry)
    PROVE  Prepare(s) \in Seq(Entry)
  <1>1. PICK recent \in Seq(Entry), kept \in Seq(Entry) :
            Prepare(s) = IF Tokens(kept \o recent) <= TokenBudget
                         THEN kept \o recent ELSE Newest(recent, TokenBudget)
    BY PrepareParts
  <1>2. PICK n \in 0 .. Len(recent) : Newest(recent, TokenBudget) = LastOf(recent, n)
    BY NewestIs
  <1>3. LastOf(recent, n) \in Seq(Entry) /\ kept \o recent \in Seq(Entry)
    BY LastOfTyped
  <1> QED BY <1>1, <1>2, <1>3

LEMMA EndsAreSuffixes ==
    ASSUME NEW s \in Seq(Entry), NEW t \in Seq(Entry)
    PROVE  IsSuffix(t, s \o t) /\ IsSuffix(t, t)
  <1>1. ASSUME NEW u \in Seq(Entry), Len(t) <= Len(u),
               \A i \in 1 .. Len(t) : u[Len(u) - i + 1] = t[Len(t) - i + 1]
        PROVE  IsSuffix(t, u)
    <2>1. Len(t) \in Nat /\ Len(u) \in Nat
      OBVIOUS
    <2>r. ASSUME NEW v \in Seq(Entry) PROVE Reverse(v) \in Seq(Entry)
      <3>1. Len(v) \in Nat /\ \A i \in 1 .. Len(v) : v[(Len(v) - i) + 1] \in Entry
        OBVIOUS
      <3> QED BY <3>1 DEF Reverse
    <2>2. PICK a \in Seq(Entry) : a = Reverse(t)
      BY <2>r
    <2>3. PICK b \in Seq(Entry) : b = Reverse(u)
      BY <2>r
    <2>4. Len(a) = Len(t) /\ \A i \in 1 .. Len(a) : a[i] = t[Len(t) - i + 1]
      BY <2>1, <2>2 DEF Reverse
    <2>5. Len(b) = Len(u) /\ \A i \in 1 .. Len(b) : b[i] = u[Len(u) - i + 1]
      BY <2>1, <2>3 DEF Reverse
    <2>6. Begins(a, b)
      <3>1. ASSUME NEW k \in 1 .. Len(a) PROVE a[k] = b[k]
        <4>1. k \in 1 .. Len(t) /\ k \in 1 .. Len(b)
          BY <1>1, <2>1, <2>4, <2>5
        <4> QED BY <1>1, <2>4, <2>5, <4>1
      <3> QED BY <1>1, <2>4, <2>5, <3>1 DEF Begins
    <2>7. IsPrefix(a, b)
      BY <2>6, BeginsIsPrefix
    <2> QED BY <2>2, <2>3, <2>7 DEF IsSuffix
  <1>2. IsSuffix(t, s \o t)
    <2>0. PICK u : u = s \o t
      OBVIOUS
    <2>1. u \in Seq(Entry) /\ u = s \o t
      BY <2>0
    <2>2. /\ Len(u) = Len(s) + Len(t) /\ Len(s) \in Nat /\ Len(t) \in Nat
          /\ \A j \in 1 .. Len(t) : u[Len(s) + j] = t[j]
      BY <2>1
    <2>3. ASSUME NEW i \in 1 .. Len(t) PROVE u[Len(u) - i + 1] = t[Len(t) - i + 1]
      <3>1. Len(t) - i + 1 \in 1 .. Len(t)
        BY <2>2
      <3>2. Len(s) + (Len(t) - i + 1) = Len(u) - i + 1
        BY <2>2
      <3> QED BY <2>2, <3>1, <3>2
    <2>4. Len(t) <= Len(u)
      BY <2>2
    <2>5. IsSuffix(t, u)
      BY <1>1, <2>1, <2>3, <2>4
    <2> QED BY <2>0, <2>5, Zenon
  <1>3. IsSuffix(t, t)
    BY <1>1
  <1> QED BY <1>2, <1>3

LEMMA SelectionFits == conversation \in Seq(Entry) => ContextFits
  <1> SUFFICES ASSUME conversation \in Seq(Entry) PROVE ContextFits
    OBVIOUS
  <1>1. PICK recent \in Seq(Entry), kept \in Seq(Entry) :
            /\ recent = Window(conversation)
            /\ Prepare(conversation) =
                  IF Tokens(kept \o recent) <= TokenBudget
                  THEN kept \o recent ELSE Newest(recent, TokenBudget)
    BY PrepareParts
  <1>2. CASE Tokens(kept \o recent) <= TokenBudget
    BY <1>1, <1>2, EndsAreSuffixes DEF ContextFits
  <1>3. CASE ~(Tokens(kept \o recent) <= TokenBudget)
    <2>1. PICK n \in 0 .. Len(recent) :
              /\ Newest(recent, TokenBudget) = LastOf(recent, n)
              /\ Tokens(LastOf(recent, n)) <= TokenBudget
                 \/ (n = 0 /\ \A k \in 0 .. Len(recent) :
                                 ~(Tokens(LastOf(recent, k)) <= TokenBudget))
              /\ \A k \in 0 .. Len(recent) :
                     Tokens(LastOf(recent, k)) <= TokenBudget => k <= n
      BY NewestIs
    <2>2. Len(recent) \in Nat /\ 0 \in 0 .. Len(recent) /\ Len(recent) \in 0 .. Len(recent)
      OBVIOUS
    <2>3. Tokens(LastOf(recent, 0)) <= TokenBudget
      <3>1. LastOf(recent, 0) = <<>>
        BY <2>2, LastOfTyped
      <3>2. 0 <= TokenBudget
        BY RuntimeAssumption
      <3> QED BY <3>1, <3>2, TokensOfNone
    <2>4. Tokens(LastOf(recent, n)) <= TokenBudget
      BY <2>1, <2>2, <2>3
    <2>5. LastOf(recent, Len(recent)) = recent
      BY <2>2 DEF LastOf
    <2>6. Tokens(recent) <= TokenBudget => n = Len(recent)
      BY <2>1, <2>2, <2>5
    <2>7. IsSuffix(recent, recent)
      BY EndsAreSuffixes
    <2> QED BY <1>1, <1>3, <2>1, <2>4, <2>5, <2>6, <2>7 DEF ContextFits
  <1> QED BY <1>2, <1>3

-----------------------------------------------------------------------------
(* What a request shows.                                                   *)

ResultsOf(m, s) == {e \in ToSet(s) : IsResult(e, m)}

\* The results of m, none before its first request, are in the context of its
\* handler, and were in its last request.
Shown(m) ==
    /\ at[m] \in {"new", "context", "ignored"} => ResultsOf(m, conversation) = {}
    /\ at[m] \in {"model", "tool"} /\ m \notin shared =>
          ResultsOf(m, conversation) \subseteq ToSet(copy[m])
    /\ at[m] = "model" => ResultsOf(m, conversation) \subseteq ToSet(request[m])

SelectionTypes == copy \in [Inputs -> Seq(Entry)] /\ request \in [Inputs -> Seq(Entry)]

ShowsInv == RuntimeInv /\ SelectionTypes /\ \A m \in Inputs : Shown(m)

LEMMA ToSetAppend ==
    ASSUME NEW s \in Seq(Entry), NEW e \in Entry
    PROVE  /\ ToSet(Append(s, e)) = ToSet(s) \cup {e}
           /\ ToSet(s \o <<e>>) = ToSet(s) \cup {e}
           /\ ToSet(s \o <<e, e>>) = ToSet(s) \cup {e}
  <1>1. ASSUME NEW t \in Seq(Entry), Len(t) >= Len(s) + 1,
               \A i \in 1 .. Len(s) : t[i] = s[i],
               \A i \in 1 .. Len(t) : i > Len(s) => t[i] = e
        PROVE  ToSet(t) = ToSet(s) \cup {e}
    <2>1. Len(s) \in Nat /\ Len(t) \in Nat
      OBVIOUS
    <2>2. DOMAIN s = 1 .. Len(s) /\ DOMAIN t = 1 .. Len(t)
      OBVIOUS
    <2>3. \A i \in DOMAIN s : i \in DOMAIN t /\ t[i] = s[i]
      BY <1>1, <2>1, <2>2
    <2>4. Len(s) + 1 \in DOMAIN t /\ t[Len(s) + 1] = e
      BY <1>1, <2>1, <2>2
    <2>5. \A i \in DOMAIN t : t[i] = e \/ i \in DOMAIN s
      BY <1>1, <2>1, <2>2
    <2> QED BY <2>3, <2>4, <2>5 DEF ToSet
  <1>2. ToSet(Append(s, e)) = ToSet(s) \cup {e}
    <2>1. PICK t : t = Append(s, e)
      OBVIOUS
    <2>2. /\ t \in Seq(Entry) /\ Len(t) >= Len(s) + 1
          /\ \A i \in 1 .. Len(s) : t[i] = s[i]
          /\ \A i \in 1 .. Len(t) : i > Len(s) => t[i] = e
      BY <2>1
    <2>3. ToSet(t) = ToSet(s) \cup {e}
      BY <1>1, <2>2
    <2> QED BY <2>1, <2>3, Zenon
  <1>3. ToSet(s \o <<e>>) = ToSet(s) \cup {e}
    <2>1. PICK t : t = s \o <<e>>
      OBVIOUS
    <2>2. /\ t \in Seq(Entry) /\ Len(t) >= Len(s) + 1
          /\ \A i \in 1 .. Len(s) : t[i] = s[i]
          /\ \A i \in 1 .. Len(t) : i > Len(s) => t[i] = e
      BY <2>1
    <2>3. ToSet(t) = ToSet(s) \cup {e}
      BY <1>1, <2>2
    <2> QED BY <2>1, <2>3, Zenon
  <1>4. ToSet(s \o <<e, e>>) = ToSet(s) \cup {e}
    <2>1. PICK t : t = s \o <<e, e>>
      OBVIOUS
    <2>2. /\ t \in Seq(Entry) /\ Len(t) >= Len(s) + 1
          /\ \A i \in 1 .. Len(s) : t[i] = s[i]
          /\ \A i \in 1 .. Len(t) : i > Len(s) => t[i] = e
      BY <2>1
    <2>3. ToSet(t) = ToSet(s) \cup {e}
      BY <1>1, <2>2
    <2> QED BY <2>1, <2>3, Zenon
  <1> QED BY <1>2, <1>3, <1>4

\* What a step of a handler does to its context and its requests: it adds no
\* result, or one that both contexts get; what it asks is its context.
ContextMove(o) ==
    /\ \A p \in Inputs \ {o} : /\ at'[p] = at[p] /\ copy'[p] = copy[p]
                               /\ request'[p] = request[p]
    /\ \/ /\ \E e \in Entry : e.kind # "result" /\ e.of = o
                              /\ ToSet(conversation') \subseteq ToSet(conversation) \cup {e}
          /\ \/ at'[o] \notin {"new", "context", "ignored", "model", "tool"}
             \/ at[o] \in {"new", "context"} /\ at'[o] \in {"context", "ignored", "model"}
             \/ at[o] = "model" /\ at'[o] = "tool" /\ copy' = copy
          /\ \A p \in Inputs \ {o} : p \in shared' <=> p \in shared
          /\ at[o] \in {"model", "tool"} => shared' = shared
       \/ /\ at[o] = "tool" /\ shared' = shared
          /\ \E e \in Entry :
                /\ e.of = o
                /\ ToSet(conversation') \subseteq ToSet(conversation) \cup {e}
                /\ o \notin shared => ToSet(copy'[o]) = ToSet(copy[o]) \cup {e}
          /\ at'[o] = "model" => request'[o] = IF o \in shared THEN conversation' ELSE copy'[o]
          /\ at'[o] \in {"model", "tool", "failed"}

LEMMA ShownKept ==
    ASSUME NEW m \in Inputs, Shown(m), NEW o \in Inputs, ContextMove(o)
    PROVE  Shown(m)'
  <1>1. CASE o # m
    <2>1. /\ at'[m] = at[m] /\ copy'[m] = copy[m] /\ request'[m] = request[m]
          /\ m \in shared' <=> m \in shared
      BY <1>1 DEF ContextMove
    <2>2. PICK e \in Entry : /\ e.of = o
                             /\ ToSet(conversation') \subseteq ToSet(conversation) \cup {e}
      BY DEF ContextMove
    <2>3. ResultsOf(m, conversation)' \subseteq ResultsOf(m, conversation)
      BY <1>1, <2>2 DEF ResultsOf, IsResult
    <2> QED BY <2>1, <2>3 DEF Shown
  <1>2. ASSUME o = m, NEW e \in Entry, e.kind # "result",
               ToSet(conversation') \subseteq ToSet(conversation) \cup {e}
        PROVE  ResultsOf(m, conversation)' \subseteq ResultsOf(m, conversation)
    BY <1>2 DEF ResultsOf, IsResult
  <1>3. CASE o = m /\ at[m] = "tool"
    <2>1. CASE at'[m] \in {"model", "tool"}
      <3>1. PICK e \in Entry :
                /\ ToSet(conversation') \subseteq ToSet(conversation) \cup {e}
                /\ m \notin shared => ToSet(copy'[m]) = ToSet(copy[m]) \cup {e}
        BY <1>3, <2>1 DEF ContextMove
      <3>2. /\ shared' = shared
            /\ at'[m] = "model" => request'[m] = IF m \in shared THEN conversation' ELSE copy'[m]
        BY <1>3, <2>1 DEF ContextMove
      <3>3. m \notin shared' => ResultsOf(m, conversation)' \subseteq ToSet(copy'[m])
        BY <1>3, <3>1, <3>2 DEF Shown, ResultsOf
      <3>4. at'[m] = "model" => ResultsOf(m, conversation)' \subseteq ToSet(request'[m])
        BY <3>2, <3>3 DEF ResultsOf
      <3> QED BY <2>1, <3>3, <3>4 DEF Shown
    <2>2. CASE at'[m] \notin {"model", "tool"}
      BY <1>3, <2>2 DEF ContextMove, Shown
    <2> QED BY <2>1, <2>2
  <1>4. CASE o = m /\ at[m] # "tool"
    <2>1. PICK e \in Entry :
              /\ e.kind # "result"
              /\ ToSet(conversation') \subseteq ToSet(conversation) \cup {e}
      BY <1>4 DEF ContextMove
    <2>2. ResultsOf(m, conversation)' \subseteq ResultsOf(m, conversation)
      BY <1>2, <1>4, <2>1
    <2> QED BY <1>4, <2>2 DEF ContextMove, Shown
  <1> QED BY <1>1, <1>3, <1>4

\* A step that adds no entry, or one that is no result.
LEMMA PlainEntry ==
    ASSUME RuntimeTypes, NEW m \in Inputs, NEW kind \in EntryKinds \ {"result"},
           NEW r \in 0 .. MaxRounds, NEW e,
           e = [of |-> m, kind |-> kind, round |-> r, call |-> 0],
           conversation' \in {conversation, Append(conversation, e)}
    PROVE  /\ e \in Entry /\ e.kind # "result" /\ e.of = m
           /\ ToSet(conversation') \subseteq ToSet(conversation) \cup {e}
  <1>1. e \in Entry /\ e.kind # "result" /\ e.of = m
    BY RuntimeAssumption DEF Entry
  <1>2. conversation \in Seq(Entry)
    BY DEF RuntimeTypes
  <1>3. ToSet(Append(conversation, e)) = ToSet(conversation) \cup {e}
    BY <1>1, <1>2, ToSetAppend
  <1> QED BY <1>1, <1>3

LEMMA ContextMoves ==
    ASSUME RuntimeTypes, SelectionTypes, NEW m \in Inputs,
           \/ AskFirst(m) \/ Finish(m) \/ ModelTimeout(m) \/ CallTools(m)
           \/ TakeResult(m) \/ Malformed(m) \/ Save(m) \/ Receive(m)
    PROVE  SelectionTypes' /\ ContextMove(m)
  <1> USE DEF ThenAwait, ThenEnd, CannotPublish
  <1>1. /\ conversation \in Seq(Entry) /\ at \in [Inputs -> Places]
        /\ round \in [Inputs -> 0 .. MaxRounds] /\ shared \subseteq Inputs
        /\ copy \in [Inputs -> Seq(Entry)] /\ request \in [Inputs -> Seq(Entry)]
    BY DEF RuntimeTypes, SelectionTypes
  <1>2. /\ 0 \in 0 .. MaxRounds /\ round[m] \in 0 .. MaxRounds
        /\ EntryKinds \ {"result"} = {"user", "calls", "final"}
    BY <1>1, RuntimeAssumption DEF EntryKinds
  <1>3. ASSUME NEW kind \in EntryKinds \ {"result"}, NEW r \in 0 .. MaxRounds,
               conversation' \in {conversation, Append(conversation,
                   [of |-> m, kind |-> kind, round |-> r, call |-> 0])}
        PROVE  \E e \in Entry :
                  /\ e.kind # "result" /\ e.of = m
                  /\ ToSet(conversation') \subseteq ToSet(conversation) \cup {e}
    <2>1. PICK e : e = [of |-> m, kind |-> kind, round |-> r, call |-> 0]
      OBVIOUS
    <2>2. conversation' \in {conversation, Append(conversation, e)}
      BY <1>3, <2>1
    <2> QED BY <2>1, <2>2, PlainEntry
  <1>4. ASSUME conversation' = conversation
        PROVE  \E e \in Entry :
                  /\ e.kind # "result" /\ e.of = m
                  /\ ToSet(conversation') \subseteq ToSet(conversation) \cup {e}
    BY <1>2, <1>3, <1>4
  <1>5. CASE AskFirst(m)
    <2>1. PICK s \in Seq(Entry) : s = Prepare(conversation)
      BY <1>1, PrepareTyped
    <2>2. copy' \in [Inputs -> Seq(Entry)]
      BY <1>1, <1>5, <2>1 DEF AskFirst
    <2>3. request' \in [Inputs -> Seq(Entry)]
      BY <1>1, <1>5, <2>1 DEF AskFirst
    <2>4. \A p \in Inputs \ {m} : /\ at'[p] = at[p] /\ copy'[p] = copy[p]
                                  /\ request'[p] = request[p]
                                  /\ p \in shared' <=> p \in shared
      BY <1>1, <1>5 DEF AskFirst
    <2>5. at[m] = "context" /\ at'[m] \in {"model", "failed"}
      BY <1>1, <1>5 DEF AskFirst
    <2>6. conversation' = conversation
      BY <1>5 DEF AskFirst
    <2> QED BY <1>4, <2>2, <2>3, <2>4, <2>5, <2>6 DEF SelectionTypes, ContextMove
  <1>6. CASE Finish(m)
    <2>1. conversation' \in {conversation, Append(conversation,
              [of |-> m, kind |-> "final", round |-> round[m], call |-> 0])}
      BY <1>6 DEF Finish, FinishSaving
    <2>2. /\ at'[m] \in {"saving", "failed"} /\ shared' = shared /\ copy' = copy
          /\ request' = request /\ \A p \in Inputs \ {m} : at'[p] = at[p]
      BY <1>1, <1>6 DEF Finish, FinishSaving
    <2> QED BY <1>1, <1>2, <1>3, <2>1, <2>2 DEF SelectionTypes, ContextMove
  <1>7. CASE CallTools(m)
    <2>1. conversation' = Append(conversation,
              [of |-> m, kind |-> "calls", round |-> round[m], call |-> 0])
      BY <1>7 DEF CallTools
    <2>2. /\ at[m] = "model" /\ at'[m] \in {"tool", "failed"} /\ shared' = shared
          /\ copy' = copy /\ request' = request
          /\ \A p \in Inputs \ {m} : at'[p] = at[p]
      BY <1>1, <1>7 DEF CallTools
    <2> QED BY <1>1, <1>2, <1>3, <2>1, <2>2 DEF SelectionTypes, ContextMove
  <1>8. CASE Receive(m)
    <2>1. conversation' \in {conversation, Append(conversation,
              [of |-> m, kind |-> "user", round |-> 0, call |-> 0])}
      BY <1>8 DEF Receive
    <2>2. /\ at[m] = "new" /\ at'[m] \in {"context", "ignored"} /\ shared' = shared
          /\ copy' = copy /\ request' = request
          /\ \A p \in Inputs \ {m} : at'[p] = at[p]
      BY <1>1, <1>8 DEF Receive
    <2> QED BY <1>1, <1>2, <1>3, <2>1, <2>2 DEF SelectionTypes, ContextMove
  <1>9. CASE ModelTimeout(m) \/ Malformed(m) \/ Save(m)
    <2>1. /\ at'[m] \in {"saving", "failed", "done"} /\ shared' = shared
          /\ copy' = copy /\ request' = request /\ conversation' = conversation
          /\ \A p \in Inputs \ {m} : at'[p] = at[p]
      BY <1>1, <1>9 DEF ModelTimeout, Malformed, Save
    <2> QED BY <1>1, <1>4, <2>1 DEF SelectionTypes, ContextMove
  <1>10. CASE TakeResult(m)
    <2>1. PICK e \in Entry :
              /\ e.of = m
              /\ conversation' = conversation \o (IF m \in shared THEN <<e, e>> ELSE <<e>>)
              /\ copy' = [copy EXCEPT ![m] = IF m \in shared THEN @ ELSE Append(@, e)]
      BY <1>10, EntryTyped DEF TakeResult, NextCallAfter, AddResult, EntryKinds
    <2>2. PICK mine \in Seq(Entry) : mine = copy[m]
      BY <1>1
    <2>3. /\ ToSet(conversation \o <<e>>) = ToSet(conversation) \cup {e}
          /\ ToSet(conversation \o <<e, e>>) = ToSet(conversation) \cup {e}
          /\ ToSet(Append(mine, e)) = ToSet(mine) \cup {e}
      BY <1>1, ToSetAppend
    <2>4. ToSet(conversation') \subseteq ToSet(conversation) \cup {e}
      BY <2>1, <2>3
    <2>5. m \notin shared => ToSet(copy'[m]) = ToSet(copy[m]) \cup {e}
      BY <1>1, <2>1, <2>2, <2>3
    <2>6. PICK grown \in Seq(Entry) : grown = Append(mine, e)
      BY QueueTyped
    <2>7. copy' \in [Inputs -> Seq(Entry)]
      BY <1>1, <2>1, <2>2, <2>6
    <2>8. conversation' \in Seq(Entry)
      <3>1. AddResult(m)
        BY <1>10 DEF TakeResult, NextCallAfter
      <3> QED BY <3>1, ResultsTyped
    <2>9. /\ at[m] = "tool" /\ at'[m] \in {"model", "tool", "failed"}
          /\ shared' = shared /\ \A p \in Inputs \ {m} : at'[p] = at[p]
      BY <1>1, <1>10 DEF TakeResult, NextCallAfter
    <2>10. \/ request' = request /\ at'[m] # "model"
           \/ request' = [request EXCEPT ![m] =
                             IF m \in shared THEN conversation' ELSE copy'[m]]
      BY <1>1, <1>10 DEF TakeResult, NextCallAfter
    <2>11. request' \in [Inputs -> Seq(Entry)]
      BY <1>1, <2>7, <2>8, <2>10
    <2>12. \A p \in Inputs \ {m} : copy'[p] = copy[p] /\ request'[p] = request[p]
      BY <1>1, <2>1, <2>10
    <2>13. at'[m] = "model" => request'[m] = IF m \in shared THEN conversation' ELSE copy'[m]
      BY <1>1, <2>10
    <2> QED BY <2>1, <2>4, <2>5, <2>7, <2>9, <2>11, <2>12, <2>13
            DEF SelectionTypes, ContextMove
  <1> QED BY <1>5, <1>6, <1>7, <1>8, <1>9, <1>10

\* A step that leaves the contexts alone, and handlers where they are or failed.
ContextsStay ==
    /\ conversation' = conversation /\ shared' = shared /\ copy' = copy
    /\ request' = request /\ \A m \in Inputs : at'[m] \in {at[m], "failed"}

LEMMA ShowsStep == ShowsInv /\ [RuntimeNext]_runtimeVars => ShowsInv'
  <1> SUFFICES ASSUME ShowsInv, [RuntimeNext]_runtimeVars PROVE ShowsInv'
    OBVIOUS
  <1>1. RuntimeInv /\ RuntimeTypes /\ SelectionTypes /\ \A m \in Inputs : Shown(m)
    BY DEF ShowsInv, RuntimeInv
  <1>2. RuntimeInv'
    BY <1>1, RuntimeStep
  <1>3. ASSUME NEW m \in Inputs,
               \/ AskFirst(m) \/ Finish(m) \/ ModelTimeout(m) \/ CallTools(m)
               \/ TakeResult(m) \/ Malformed(m) \/ Save(m) \/ Receive(m)
        PROVE  SelectionTypes' /\ \A o \in Inputs : Shown(o)'
    BY <1>1, <1>3, ContextMoves, ShownKept
  <1>4. ASSUME ContextsStay
        PROVE  SelectionTypes' /\ \A o \in Inputs : Shown(o)'
    BY <1>1, <1>4 DEF ContextsStay, SelectionTypes, Shown, ResultsOf
  <1>5. CASE LoseConnection \/ RuntimeExits
    <2>1. ContextsStay
      BY <1>5 DEF ContextsStay, LoseConnection, RuntimeExits
    <2> QED BY <1>2, <1>4, <2>1 DEF ShowsInv
  <1>6. CASE \/ \E m \in Inputs : Answer(m) \/ Execute(m)
             \/ Drain \/ Sigterm \/ Unpublish \/ Quit \/ UNCHANGED runtimeVars
    <2>1. ContextsStay
      BY <1>6 DEF ContextsStay, Answer, Execute, Drain, Sigterm, Unpublish, Quit, runtimeVars,
                  handlerVars
    <2> QED BY <1>2, <1>4, <2>1 DEF ShowsInv
  <1> QED BY <1>2, <1>3, <1>5, <1>6 DEF RuntimeNext, Serve, ShowsInv

LEMMA ShowsInit == RuntimeInit => ShowsInv
  <1> SUFFICES ASSUME RuntimeInit PROVE ShowsInv
    OBVIOUS
  <1>1. RuntimeInv
    BY RuntimeInitInv
  <1>2. <<>> \in Seq(Entry)
    OBVIOUS
  <1>3. SelectionTypes
    BY <1>2 DEF RuntimeInit, SelectionTypes
  <1>4. \A m \in Inputs : Shown(m)
    BY DEF RuntimeInit, Shown, ResultsOf, ToSet
  <1> QED BY <1>1, <1>3, <1>4 DEF ShowsInv

LEMMA ShowsInvariant == RuntimeSpec => []ShowsInv
  BY ShowsInit, ShowsStep, PTL DEF RuntimeSpec

\* A request shows the model every result its handler has stored, whether the
\* handler goes on with the conversation or with a selection of it, and a selection
\* fits the budget and ends with the recent messages where they fit, for any
\* estimates of tokens (runtime.ts:52-138, context-manager.ts:71-148).
THEOREM RequestsSound == RuntimeSpec => []RequestIsSound
  <1>1. ShowsInv => RequestIsSound
    <2>1. ShowsInv => RequestShowsResults
      BY DEF ShowsInv, Shown, ResultsOf, RequestShowsResults
    <2>2. ShowsInv => ContextFits
      BY SelectionFits DEF ShowsInv, RuntimeInv, RuntimeTypes
    <2> QED BY <2>1, <2>2 DEF RequestIsSound
  <1>2. QED BY <1>1, ShowsInvariant, PTL

\* The variables keep their types, those of the selections the handlers go on with
\* included.
THEOREM RuntimeTypeCorrect == RuntimeSpec => []RuntimeTypeOK
  <1>1. ShowsInv => RuntimeTypeOK
    BY DEF ShowsInv, RuntimeInv, RuntimeTypes, SelectionTypes, RuntimeTypeOK, Places,
           Answers
  <1>2. QED BY <1>1, ShowsInvariant, PTL

-----------------------------------------------------------------------------
\* Side by side, the gate and the runtime behave as by themselves: the theorems about
\* one hold of what TLC checks of the two.
THEOREM WaitingAreParts == FairWaiting => Spec /\ RuntimeSpec
  <1>1. WaitingInit => Init /\ RuntimeInit
    BY DEF WaitingInit
  <1>2. [WaitingNext]_waitingVars => [Next]_vars /\ [RuntimeNext]_runtimeVars
    BY DEF WaitingNext, waitingVars
  <1> QED BY <1>1, <1>2, PTL DEF FairWaiting, Spec, RuntimeSpec
=============================================================================
