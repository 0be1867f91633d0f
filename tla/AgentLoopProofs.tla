--------------------------- MODULE AgentLoopProofs ---------------------------
(***************************************************************************)
(* Proofs about AgentLoop, for any number of messages and sessions.        *)
(*                                                                         *)
(* The type invariant needs one fact more than the types: inside the loop  *)
(* the iteration is below its bound (LoopInv), so that the increment after *)
(* the last call of a response stays within it.                            *)
(***************************************************************************)
EXTENDS AgentLoop, SequenceProofs

InLoop == {"llm", "calls", "call", "gate", "dispatch", "tool", "refused",
           "result", "timed_out"}

LoopInv ==
    \A m \in Messages : pc[m] \in InLoop => iter[m] < MaxToolIterations

TInv == TypeOK /\ LoopInv

-----------------------------------------------------------------------------
(* The helpers.                                                            *)

LEMMA RowTyped ==
    ASSUME NEW role \in {"user", "assistant", "tool"}, NEW text \in Texts,
           NEW m \in Messages, NEW n \in Nat
    PROVE  Row(role, text, m, n) \in Rows
  BY DEF Row, Rows

LEMMA InsertTyped ==
    ASSUME TypeOK, NEW m \in Messages, NEW r \in Rows, Insert(m, r)
    PROVE  log' \in [Sessions -> Seq(Rows)]
  BY ConstantsAssumption DEF TypeOK, Insert

LEMMA PushTyped ==
    ASSUME TypeOK, NEW m \in Messages, NEW r \in Rows, InsertAndPush(m, r)
    PROVE  /\ log' \in [Sessions -> Seq(Rows)]
           /\ view' \in [Messages -> Seq(Rows)]
  <1>1. log' \in [Sessions -> Seq(Rows)]
    BY InsertTyped DEF InsertAndPush
  <1>2. view' \in [Messages -> Seq(Rows)]
    BY DEF TypeOK, InsertAndPush
  <1>. QED
    BY <1>1, <1>2

LEMMA PublishTyped ==
    ASSUME TypeOK, NEW m \in Messages, NEW type \in EventTypes,
           Publish(m, type)
    PROVE  client' \in [Messages -> Events \cup {Quiet, Waiting, GaveUp}]
  <1>1. [type |-> type, of |-> m] \in Events
    BY DEF Events
  <1>2. \A o \in Messages : client[o] \in Events \cup {Quiet, Waiting, GaveUp}
    BY DEF TypeOK
  <1>. QED
    BY <1>1, <1>2 DEF Publish

LEMMA LastRowsTyped ==
    ASSUME NEW rows \in Seq(Rows), NEW n \in Nat
    PROVE  LastRows(rows, n) \in Seq(Rows)
  BY DEF LastRows

LEMMA WithoutTyped ==
    ASSUME NEW S, NEW q \in Seq(S), NEW i \in DOMAIN q
    PROVE  /\ Without(q, i) \in Seq(S)
           /\ DOMAIN Without(q, i) = 1 .. Len(q) - 1
           /\ \A j \in 1 .. Len(q) - 1 :
                 Without(q, i)[j] = IF j < i THEN q[j] ELSE q[j + 1]
  <1>1. Len(q) - 1 \in Nat
    OBVIOUS
  <1>2. \A j \in 1 .. Len(q) - 1 : (IF j < i THEN q[j] ELSE q[j + 1]) \in S
    OBVIOUS
  <1>. QED
    BY <1>1, <1>2 DEF Without

LEMMA ExceptTyped ==
    ASSUME NEW S, NEW T, NEW f \in [S -> T], NEW x \in S, NEW v \in T
    PROVE  [f EXCEPT ![x] = v] \in [S -> T]
  OBVIOUS

LEMMA TailTyped ==
    ASSUME NEW S, NEW q \in Seq(S), q # <<>>
    PROVE  /\ Tail(q) \in Seq(S)
           /\ DOMAIN Tail(q) = 1 .. Len(q) - 1
           /\ \A i \in 1 .. Len(q) - 1 : Tail(q)[i] = q[i + 1]
           /\ Head(q) = q[1] /\ 1 \in DOMAIN q
  OBVIOUS

-----------------------------------------------------------------------------
LEMMA InitTInv == Init => TInv
  BY ConstantsAssumption DEF Init, TInv, TypeOK, LoopInv, InLoop, Steps, Ends,
     None, Quiet

LEMMA TypeStep == TInv /\ [Next]_vars => TInv'
  <1> SUFFICES ASSUME TInv, [Next]_vars PROVE TInv'
    OBVIOUS
  <1> USE ConstantsAssumption
      DEF TypeOK, LoopInv, InLoop, Steps, Ends, Goto, position, lists, tables
  <1>0. TypeOK /\ LoopInv
    BY DEF TInv
  <1>s. \A m \in Messages : SessionOf[m] \in Sessions
    OBVIOUS
  <1>1. ASSUME NEW m \in Messages, Listen(m) PROVE TInv'
    BY <1>0, <1>s, <1>1 DEF TInv, Listen
  <1>2. ASSUME NEW m \in Messages, SendStore(m) PROVE TInv'
    <2>1. log' \in [Sessions -> Seq(Rows)]
      BY <1>0, <1>2, RowTyped, InsertTyped DEF SendStore, Texts
    <2>. QED
      BY <1>0, <1>2, <2>1 DEF TInv, SendStore
  <1>3. ASSUME NEW m \in Messages, SendPublish(m) PROVE TInv'
    BY <1>0, <1>s, <1>3 DEF TInv, SendPublish
  <1>4. ASSUME NEW m \in Messages, ClientTimeout(m) PROVE TInv'
    BY <1>0, <1>s, <1>4 DEF TInv, ClientTimeout
  <1>5. ASSUME NEW m \in Messages, LoadContext(m) PROVE TInv'
    BY <1>0, <1>s, <1>5 DEF TInv, LoadContext
  <1>6. ASSUME NEW m \in Messages, Screen(m) PROVE TInv'
    BY <1>0, <1>s, <1>6, ZenonT(30) DEF TInv, Screen
  <1>7. ASSUME NEW m \in Messages, StoreRejection(m) PROVE TInv'
    <2>1. log' \in [Sessions -> Seq(Rows)]
      BY <1>0, <1>7, RowTyped, InsertTyped DEF StoreRejection, Texts
    <2>. QED
      BY <1>0, <1>7, <2>1 DEF TInv, StoreRejection
  <1>8. ASSUME NEW m \in Messages, PublishBlocked(m) PROVE TInv'
    <2>1. client' \in [Messages -> Events \cup {Quiet, Waiting, GaveUp}]
      BY <1>0, <1>8, PublishTyped DEF PublishBlocked, EventTypes
    <2>. QED
      BY <1>0, <1>8, <2>1 DEF TInv, PublishBlocked
  <1>9. ASSUME NEW m \in Messages, LoadHistory(m) PROVE TInv'
    <2>1. view' \in [Messages -> Seq(Rows)]
      BY <1>0, <1>s, <1>9, LastRowsTyped DEF LoadHistory
    <2>. QED
      BY <1>0, <1>9, <2>1 DEF TInv, LoadHistory
  <1>10. ASSUME NEW m \in Messages, Ask(m) PROVE TInv'
    BY <1>0, <1>s, <1>10, SMTT(30) DEF TInv, Ask
  <1>11. ASSUME NEW m \in Messages, LlmResult(m) PROVE TInv'
    <2>1. llm[m] \in Answers
      BY <1>0, <1>11 DEF LlmResult
    <2>2. brpops' \in Seq(Messages)
      BY <1>0, <1>11, TailTyped DEF LlmResult, AtHead
    <2>a. /\ llm[m].tokens \in Nat
          /\ llm[m].calls \in Seq({"free", "gated"})
      BY <2>1 DEF Answers
    <2>b. /\ total' = [total EXCEPT ![m] = @ + llm[m].tokens]
          /\ \/ batch' = [batch EXCEPT ![m] = llm[m].calls]
             \/ batch' = batch
      BY <1>11 DEF LlmResult
    <2>c. total[m] + llm[m].tokens \in Nat
      BY <1>0, <2>a
    <2>3. total' \in [Messages -> Nat] /\ batch' \in [Messages -> Seq({"free", "gated"})]
      BY <1>0, <2>a, <2>b, <2>c, ExceptTyped
    <2>d. /\ \/ pc' = [pc EXCEPT ![m] = "llm_error"]
             \/ pc' = [pc EXCEPT ![m] = "calls"]
             \/ pc' = [pc EXCEPT ![m] = "final"]
          /\ next' = next \/ next' = [next EXCEPT ![m] = 1]
      BY <1>11 DEF LlmResult
    <2>4. pc' \in [Messages -> Steps \cup Ends] /\ next' \in [Messages -> Nat]
      <3>1. pc \in [Messages -> Steps \cup Ends] /\ next \in [Messages -> Nat]
        BY <1>0
      <3>2. pc' \in [Messages -> Steps \cup Ends]
        BY <2>d, <3>1
      <3>3. next' \in [Messages -> Nat]
        BY <2>d, <3>1
      <3>. QED
        BY <3>2, <3>3
    <2>5. llm' \in [Messages -> Answers \cup {None, Asked}]
      <3>1. llm' = [llm EXCEPT ![m] = None]
        BY <1>11 DEF LlmResult
      <3>. QED
        BY <1>0, <3>1
    <2>6. LoopInv'
      BY <1>0, <1>11 DEF LlmResult
    <2>. QED
      BY <1>0, <1>11, <2>2, <2>3, <2>4, <2>5, <2>6 DEF TInv, LlmResult
  <1>12. ASSUME NEW m \in Messages, LlmTimeout(m) PROVE TInv'
    <2>1. brpops' \in Seq(Messages)
      BY <1>0, <1>12, TailTyped DEF LlmTimeout, AtHead
    <2>. QED
      BY <1>0, <1>12, <2>1 DEF TInv, LlmTimeout
  <1>13. ASSUME NEW m \in Messages, PublishError(m) PROVE TInv'
    <2>1. client' \in [Messages -> Events \cup {Quiet, Waiting, GaveUp}]
      BY <1>0, <1>13, PublishTyped DEF PublishError, EventTypes
    <2>. QED
      BY <1>0, <1>13, <2>1 DEF TInv, PublishError
  <1>14. ASSUME NEW m \in Messages, StoreCalls(m) PROVE TInv'
    <2>1. log' \in [Sessions -> Seq(Rows)] /\ view' \in [Messages -> Seq(Rows)]
      BY <1>0, <1>14, RowTyped, PushTyped DEF StoreCalls, Texts, ResultText
    <2>2. client' \in [Messages -> Events \cup {Quiet, Waiting, GaveUp}]
      BY <1>0, <1>14, PublishTyped DEF StoreCalls, EventTypes
    <2>. QED
      BY <1>0, <1>14, <2>1, <2>2 DEF TInv, StoreCalls
  <1>15. ASSUME NEW m \in Messages, RequestApproval(m) PROVE TInv'
    <2>1. client' \in [Messages -> Events \cup {Quiet, Waiting, GaveUp}]
      BY <1>0, <1>15, PublishTyped DEF RequestApproval, EventTypes
    <2>. QED
      BY <1>0, <1>15, <2>1 DEF TInv, RequestApproval
  <1>16. ASSUME NEW m \in Messages, Gate(m) PROVE TInv'
    BY <1>0, <1>s, <1>16 DEF TInv, Gate
  <1>17. ASSUME NEW m \in Messages, Dispatch(m) PROVE TInv'
    BY <1>0, <1>s, <1>17 DEF TInv, Dispatch
  <1>18. ASSUME NEW m \in Messages, ToolResult(m) PROVE TInv'
    <2>1. brpops' \in Seq(Messages)
      BY <1>0, <1>18, TailTyped DEF ToolResult, AtHead
    <2>. QED
      BY <1>0, <1>18, <2>1 DEF TInv, ToolResult
  <1>19. ASSUME NEW m \in Messages, ToolTimeout(m) PROVE TInv'
    <2>1. brpops' \in Seq(Messages)
      BY <1>0, <1>19, TailTyped DEF ToolTimeout, AtHead
    <2>. QED
      BY <1>0, <1>19, <2>1 DEF TInv, ToolTimeout
  <1>20. ASSUME NEW m \in Messages, StoreResult(m) PROVE TInv'
    <2>1. log' \in [Sessions -> Seq(Rows)] /\ view' \in [Messages -> Seq(Rows)]
      BY <1>0, <1>20, RowTyped, PushTyped DEF StoreResult, Texts, ResultText
    <2>2. client' \in [Messages -> Events \cup {Quiet, Waiting, GaveUp}]
      BY <1>0, <1>20, PublishTyped DEF StoreResult, EventTypes
    <2>3. next' \in [Messages -> Nat]
      BY <1>0, <1>20 DEF StoreResult
    <2>4. iter[m] < MaxToolIterations /\ iter[m] \in 0 .. MaxToolIterations
      BY <1>0, <1>20 DEF StoreResult
    <2>a. \/ iter' = iter /\ pc' = [pc EXCEPT ![m] = "call"]
          \/ iter' = [iter EXCEPT ![m] = @ + 1] /\ pc' = [pc EXCEPT ![m] = "ask"]
      BY <1>20 DEF StoreResult
    <2>b. iter[m] + 1 \in 0 .. MaxToolIterations
      BY <2>4
    <2>t. /\ iter \in [Messages -> 0 .. MaxToolIterations]
          /\ pc \in [Messages -> Steps \cup Ends]
      BY <1>0
    <2>5. iter' \in [Messages -> 0 .. MaxToolIterations]
      <3>1. CASE iter' = iter
        BY <2>t, <3>1
      <3>2. CASE iter' = [iter EXCEPT ![m] = @ + 1]
        BY <2>t, <2>b, <3>2
      <3>. QED
        BY <2>a, <3>1, <3>2
    <2>6. pc' \in [Messages -> Steps \cup Ends]
      BY <2>t, <2>a
    <2>7. LoopInv'
      <3>1. pc'[m] \in InLoop => iter'[m] = iter[m]
        BY <2>t, <2>a
      <3>2. \A o \in Messages \ {m} : pc'[o] = pc[o] /\ iter'[o] = iter[o]
        BY <2>t, <2>a
      <3>. QED
        BY <1>0, <2>4, <3>1, <3>2
    <2>. QED
      BY <1>0, <1>20, <2>1, <2>2, <2>3, <2>5, <2>6, <2>7 DEF TInv, StoreResult
  <1>21. ASSUME NEW m \in Messages, StoreReply(m) PROVE TInv'
    <2>1. log' \in [Sessions -> Seq(Rows)]
      BY <1>0, <1>21, RowTyped, InsertTyped DEF StoreReply, Texts
    <2>. QED
      BY <1>0, <1>21, <2>1 DEF TInv, StoreReply
  <1>22. ASSUME NEW m \in Messages, RecordTokens(m) PROVE TInv'
    <2>1. tokensUsed' \in [Sessions -> Nat]
      BY <1>0, <1>s, <1>22 DEF RecordTokens
    <2>. QED
      BY <1>0, <1>22, <2>1 DEF TInv, RecordTokens
  <1>23. ASSUME NEW m \in Messages, Reply(m) PROVE TInv'
    <2>1. client' \in [Messages -> Events \cup {Quiet, Waiting, GaveUp}]
      BY <1>0, <1>23, PublishTyped DEF Reply, EventTypes
    <2>. QED
      BY <1>0, <1>23, <2>1 DEF TInv, Reply
  <1>24. ASSUME NEW m \in Messages, Fail(m) PROVE TInv'
    <2>1. brpops' \in Seq(Messages)
      BY <1>0, <1>24, WithoutTyped DEF Fail
    <2>. QED
      BY <1>0, <1>24, <2>1 DEF TInv, Fail
  <1>25. ASSUME NEW m \in Messages, RouterRespond(m) PROVE TInv'
    BY <1>0, <1>s, <1>25 DEF TInv, RouterRespond
  <1>26. ASSUME NEW m \in Messages, RunTool(m) PROVE TInv'
    BY <1>0, <1>s, <1>26 DEF TInv, RunTool
  <1>27. ASSUME NEW s \in Sessions, DropContext(s) PROVE TInv'
    BY <1>0, <1>27 DEF TInv, DropContext
  <1>28. CASE UNCHANGED vars
    BY <1>0, <1>28 DEF TInv, vars
  <1>. QED
    BY <1>1, <1>2, <1>3, <1>4, <1>5, <1>6, <1>7, <1>8, <1>9, <1>10, <1>11, <1>12, <1>13, <1>14, <1>15, <1>16, <1>17, <1>18, <1>19, <1>20, <1>21, <1>22, <1>23, <1>24, <1>25, <1>26, <1>27, <1>28
       DEF Next, MessageStep, RequestStep, HandlerStep

\* The types of AgentLoop, and that no handler passes MAX_TOOL_ITERATIONS
\* (agent-loop.ts:212): iter is typed by the bound.
THEOREM TypeCorrect == Spec => []TypeOK
  <1>1. TInv => TypeOK
    BY DEF TInv
  <1>. QED
    BY <1>1, InitTInv, TypeStep, PTL DEF Spec

-----------------------------------------------------------------------------
(* The queue of the blocking connection.                                   *)

Waits == {"llm", "tool"}

QInv == TypeOK /\ BrpopsAreWaiters

LEMMA QueueKept ==
    ASSUME BrpopsAreWaiters, brpops' = brpops,
           \A o \in Messages : pc'[o] \in Waits <=> pc[o] \in Waits
    PROVE  BrpopsAreWaiters'
  BY DEF BrpopsAreWaiters, Queued, Waits

LEMMA QueueJoined ==
    ASSUME QInv, NEW m \in Messages, pc[m] \notin Waits,
           NEW step \in Waits, pc' = [pc EXCEPT ![m] = step],
           brpops' = Append(brpops, m)
    PROVE  BrpopsAreWaiters'
  <1>1. /\ brpops \in Seq(Messages)
        /\ pc \in [Messages -> Steps \cup Ends]
        /\ \A i, j \in DOMAIN brpops : brpops[i] = brpops[j] => i = j
        /\ \A o \in Messages :
              (\E i \in DOMAIN brpops : brpops[i] = o) <=> pc[o] \in Waits
    BY DEF QInv, TypeOK, BrpopsAreWaiters, Queued, Waits
  <1>2. /\ DOMAIN brpops' = 1 .. Len(brpops) + 1
        /\ DOMAIN brpops = 1 .. Len(brpops) /\ Len(brpops) \in Nat
        /\ \A i \in DOMAIN brpops : brpops'[i] = brpops[i]
        /\ brpops'[Len(brpops) + 1] = m
    BY <1>1
  <1>3. \A i \in DOMAIN brpops' : i \in DOMAIN brpops \/ i = Len(brpops) + 1
    BY <1>2
  <1>4. \A i \in DOMAIN brpops : brpops[i] # m
    BY <1>1
  <1>5. \A i, j \in DOMAIN brpops' : brpops'[i] = brpops'[j] => i = j
    BY <1>1, <1>2, <1>3, <1>4
  <1>6. ASSUME NEW o \in Messages
        PROVE  (\E i \in DOMAIN brpops' : brpops'[i] = o) <=> pc'[o] \in Waits
    <2>1. CASE o = m
      <3>1. Len(brpops) + 1 \in DOMAIN brpops'
        BY <1>2
      <3>. QED
        BY <1>1, <1>2, <2>1, <3>1
    <2>2. CASE o # m
      <3>1. pc'[o] = pc[o]
        BY <1>1, <2>2
      <3>2. DOMAIN brpops \subseteq DOMAIN brpops'
        BY <1>2
      <3>. QED
        BY <1>1, <1>2, <1>3, <2>2, <3>1, <3>2
    <2>. QED
      BY <2>1, <2>2
  <1>. QED
    BY <1>5, <1>6 DEF BrpopsAreWaiters, Queued, Waits

LEMMA QueueLeft ==
    ASSUME QInv, NEW m \in Messages, NEW k \in DOMAIN brpops, brpops[k] = m,
           NEW step \in (Steps \cup Ends) \ Waits, pc' = [pc EXCEPT ![m] = step],
           DOMAIN brpops' = 1 .. Len(brpops) - 1,
           \A j \in 1 .. Len(brpops) - 1 :
               brpops'[j] = IF j < k THEN brpops[j] ELSE brpops[j + 1]
    PROVE  BrpopsAreWaiters'
  <1>1. /\ brpops \in Seq(Messages)
        /\ pc \in [Messages -> Steps \cup Ends]
        /\ \A i, j \in DOMAIN brpops : brpops[i] = brpops[j] => i = j
        /\ \A o \in Messages :
              (\E i \in DOMAIN brpops : brpops[i] = o) <=> pc[o] \in Waits
    BY DEF QInv, TypeOK, BrpopsAreWaiters, Queued, Waits
  <1>2. DOMAIN brpops = 1 .. Len(brpops) /\ Len(brpops) \in Nat
    BY <1>1
  <1> DEFINE old(j) == IF j < k THEN j ELSE j + 1
  <1>3. \A j \in DOMAIN brpops' :
          /\ old(j) \in DOMAIN brpops /\ old(j) # k
          /\ brpops'[j] = brpops[old(j)]
    BY <1>2
  <1>4. \A i, j \in DOMAIN brpops' : old(i) = old(j) => i = j
    BY <1>2
  <1>5. \A i \in DOMAIN brpops : i # k => \E j \in DOMAIN brpops' : old(j) = i
    <2> SUFFICES ASSUME NEW i \in DOMAIN brpops, i # k
                 PROVE  \E j \in DOMAIN brpops' : old(j) = i
      OBVIOUS
    <2>1. CASE i < k
      BY <1>2, <2>1
    <2>2. CASE i > k
      <3>1. i - 1 \in DOMAIN brpops' /\ old(i - 1) = i
        BY <1>2, <2>2
      <3>. QED
        BY <3>1
    <2>. QED
      BY <1>2, <2>1, <2>2
  <1> HIDE DEF old
  <1>6. \A i, j \in DOMAIN brpops' : brpops'[i] = brpops'[j] => i = j
    BY <1>1, <1>3, <1>4
  <1>7. ASSUME NEW o \in Messages
        PROVE  (\E i \in DOMAIN brpops' : brpops'[i] = o) <=> pc'[o] \in Waits
    <2>1. CASE o = m
      BY <1>1, <1>3, <2>1
    <2>2. CASE o # m
      <3>1. pc'[o] = pc[o]
        BY <1>1, <2>2
      <3>. QED
        BY <1>1, <1>3, <1>5, <2>2, <3>1
    <2>. QED
      BY <2>1, <2>2
  <1>. QED
    BY <1>6, <1>7 DEF BrpopsAreWaiters, Queued, Waits

LEMMA QueueServed ==
    ASSUME QInv, NEW m \in Messages, AtHead(m), brpops' = Tail(brpops),
           NEW step \in (Steps \cup Ends) \ Waits, pc' = [pc EXCEPT ![m] = step]
    PROVE  BrpopsAreWaiters'
  <1>1. /\ 1 \in DOMAIN brpops /\ brpops[1] = m
        /\ DOMAIN brpops' = 1 .. Len(brpops) - 1
        /\ \A j \in 1 .. Len(brpops) - 1 :
              brpops'[j] = IF j < 1 THEN brpops[j] ELSE brpops[j + 1]
    BY TailTyped DEF QInv, TypeOK, AtHead
  <1>. QED
    BY <1>1, QueueLeft

LEMMA InitQueue == Init => BrpopsAreWaiters
  BY DEF Init, BrpopsAreWaiters, Queued

LEMMA QueueStep == TypeOK /\ BrpopsAreWaiters /\ [Next]_vars => BrpopsAreWaiters'
  <1> SUFFICES ASSUME TypeOK, BrpopsAreWaiters, [Next]_vars
               PROVE  BrpopsAreWaiters'
    OBVIOUS
  <1>0. QInv /\ pc \in [Messages -> Steps \cup Ends]
    BY DEF QInv, TypeOK
  <1>1. ASSUME NEW m \in Messages, Listen(m) PROVE BrpopsAreWaiters'
    BY <1>0, <1>1, QueueKept DEF Listen, Goto, Waits, lists
  <1>2. ASSUME NEW m \in Messages, SendStore(m) PROVE BrpopsAreWaiters'
    BY <1>0, <1>2, QueueKept DEF SendStore, Goto, Waits, lists
  <1>3. ASSUME NEW m \in Messages, SendPublish(m) PROVE BrpopsAreWaiters'
    BY <1>0, <1>3, QueueKept DEF SendPublish, Goto, Waits, lists
  <1>4. ASSUME NEW m \in Messages, ClientTimeout(m) PROVE BrpopsAreWaiters'
    BY <1>0, <1>4, QueueKept DEF ClientTimeout, position, lists
  <1>5. ASSUME NEW m \in Messages, LoadContext(m) PROVE BrpopsAreWaiters'
    BY <1>0, <1>5, QueueKept DEF LoadContext, Goto, Waits, lists
  <1>6. ASSUME NEW m \in Messages, Screen(m) PROVE BrpopsAreWaiters'
    BY <1>0, <1>6, QueueKept DEF Screen, Goto, Waits, lists
  <1>7. ASSUME NEW m \in Messages, StoreRejection(m) PROVE BrpopsAreWaiters'
    BY <1>0, <1>7, QueueKept DEF StoreRejection, Goto, Waits, lists
  <1>8. ASSUME NEW m \in Messages, PublishBlocked(m) PROVE BrpopsAreWaiters'
    BY <1>0, <1>8, QueueKept DEF PublishBlocked, Goto, Waits, lists
  <1>9. ASSUME NEW m \in Messages, LoadHistory(m) PROVE BrpopsAreWaiters'
    BY <1>0, <1>9, QueueKept DEF LoadHistory, Goto, Waits, lists
  <1>10. ASSUME NEW m \in Messages, PublishError(m) PROVE BrpopsAreWaiters'
    BY <1>0, <1>10, QueueKept DEF PublishError, Goto, Waits, lists
  <1>11. ASSUME NEW m \in Messages, StoreCalls(m) PROVE BrpopsAreWaiters'
    BY <1>0, <1>11, QueueKept DEF StoreCalls, Goto, Waits, lists
  <1>12. ASSUME NEW m \in Messages, RequestApproval(m) PROVE BrpopsAreWaiters'
    BY <1>0, <1>12, QueueKept DEF RequestApproval, Goto, Waits, lists
  <1>13. ASSUME NEW m \in Messages, Gate(m) PROVE BrpopsAreWaiters'
    BY <1>0, <1>13, QueueKept DEF Gate, Goto, Waits, lists
  <1>14. ASSUME NEW m \in Messages, StoreResult(m) PROVE BrpopsAreWaiters'
    BY <1>0, <1>14, QueueKept DEF StoreResult, Goto, Waits, lists
  <1>15. ASSUME NEW m \in Messages, StoreReply(m) PROVE BrpopsAreWaiters'
    BY <1>0, <1>15, QueueKept DEF StoreReply, Goto, Waits, lists
  <1>16. ASSUME NEW m \in Messages, RecordTokens(m) PROVE BrpopsAreWaiters'
    BY <1>0, <1>16, QueueKept DEF RecordTokens, Goto, Waits, lists
  <1>17. ASSUME NEW m \in Messages, Reply(m) PROVE BrpopsAreWaiters'
    BY <1>0, <1>17, QueueKept DEF Reply, Goto, Waits, lists
  <1>18. ASSUME NEW m \in Messages, RouterRespond(m) PROVE BrpopsAreWaiters'
    BY <1>0, <1>18, QueueKept DEF RouterRespond, position, lists
  <1>19. ASSUME NEW m \in Messages, RunTool(m) PROVE BrpopsAreWaiters'
    BY <1>0, <1>19, QueueKept DEF RunTool, position, lists
  <1>20. ASSUME NEW m \in Messages, Ask(m) PROVE BrpopsAreWaiters'
    <2>1. pc[m] \notin Waits /\ pc' = [pc EXCEPT ![m] = "llm"] /\ "llm" \in Waits
      BY <1>20 DEF Ask, Goto, Waits
    <2>. QED
      BY <1>0, <1>20, <2>1, QueueJoined DEF Ask
  <1>21. ASSUME NEW m \in Messages, Dispatch(m) PROVE BrpopsAreWaiters'
    <2>1. pc[m] \notin Waits /\ pc' = [pc EXCEPT ![m] = "tool"] /\ "tool" \in Waits
      BY <1>21 DEF Dispatch, Goto, Waits
    <2>. QED
      BY <1>0, <1>21, <2>1, QueueJoined DEF Dispatch
  <1>22. ASSUME NEW m \in Messages, LlmResult(m) PROVE BrpopsAreWaiters'
    <2>1. PICK step \in {"llm_error", "calls", "final"} : pc' = [pc EXCEPT ![m] = step]
      BY <1>22 DEF LlmResult, Goto
    <2>. QED
      BY <1>22, <1>0, <2>1, QueueServed DEF LlmResult, Steps, Waits
  <1>23. ASSUME NEW m \in Messages, LlmTimeout(m) PROVE BrpopsAreWaiters'
    <2>1. PICK step \in {"llm_timeout"} : pc' = [pc EXCEPT ![m] = step]
      BY <1>23 DEF LlmTimeout, Goto
    <2>. QED
      BY <1>23, <1>0, <2>1, QueueServed DEF LlmTimeout, Steps, Waits
  <1>24. ASSUME NEW m \in Messages, ToolResult(m) PROVE BrpopsAreWaiters'
    <2>1. PICK step \in {"result"} : pc' = [pc EXCEPT ![m] = step]
      BY <1>24 DEF ToolResult, Goto
    <2>. QED
      BY <1>24, <1>0, <2>1, QueueServed DEF ToolResult, Steps, Waits
  <1>25. ASSUME NEW m \in Messages, ToolTimeout(m) PROVE BrpopsAreWaiters'
    <2>1. PICK step \in {"timed_out"} : pc' = [pc EXCEPT ![m] = step]
      BY <1>25 DEF ToolTimeout, Goto
    <2>. QED
      BY <1>25, <1>0, <2>1, QueueServed DEF ToolTimeout, Steps, Waits
  <1>26. ASSUME NEW m \in Messages, Fail(m) PROVE BrpopsAreWaiters'
    <2>1. pc' = [pc EXCEPT ![m] = "failed"]
          /\ "failed" \in (Steps \cup Ends) \ Waits
      BY <1>26 DEF Fail, Goto, Ends, Waits
    <2>2. CASE Queued(m)
      <3>1. PICK k \in DOMAIN brpops :
               brpops[k] = m /\ brpops' = Without(brpops, k)
        BY <1>26, <2>2 DEF Fail
      <3>2. /\ DOMAIN brpops' = 1 .. Len(brpops) - 1
            /\ \A j \in 1 .. Len(brpops) - 1 :
                  brpops'[j] = IF j < k THEN brpops[j] ELSE brpops[j + 1]
        BY <3>1, WithoutTyped, ZenonT(30) DEF TypeOK
      <3>. QED
        BY <1>0, <2>1, <3>1, <3>2, QueueLeft
    <2>3. CASE ~Queued(m)
      <3>1. brpops' = brpops /\ pc[m] \notin Waits
        BY <1>26, <2>3 DEF Fail, BrpopsAreWaiters, Waits
      <3>. QED
        BY <1>0, <2>1, <3>1, QueueKept
    <2>. QED
      BY <2>2, <2>3
  <1>27. ASSUME NEW s \in Sessions, DropContext(s) PROVE BrpopsAreWaiters'
    BY <1>27, QueueKept DEF DropContext, position, lists
  <1>28. CASE UNCHANGED vars
    BY <1>28, QueueKept DEF vars
  <1>. QED
    BY <1>1, <1>2, <1>3, <1>4, <1>5, <1>6, <1>7, <1>8, <1>9, <1>10, <1>11, <1>12, <1>13, <1>14, <1>15, <1>16, <1>17, <1>18, <1>19, <1>20, <1>21, <1>22, <1>23, <1>24, <1>25, <1>26, <1>27, <1>28
       DEF Next, MessageStep, RequestStep, HandlerStep

\* Every handler that waits for the router or a tool has exactly one BRPOP on
\* the blocking connection, and nobody else has one (agent-loop.ts:229, 441).
THEOREM NoStrayBrpop == Spec => []BrpopsAreWaiters
  <1>1. Init => TInv /\ BrpopsAreWaiters
    BY InitTInv, InitQueue
  <1>2. TInv /\ BrpopsAreWaiters /\ [Next]_vars => TInv' /\ BrpopsAreWaiters'
    BY TypeStep, QueueStep DEF TInv
  <1>. QED
    BY <1>1, <1>2, PTL DEF Spec

-----------------------------------------------------------------------------
(* Synchronous requests.                                                   *)

\* Publish leaves no request of the session waiting, and starts none.
LEMMA Heard ==
    ASSUME TypeOK, NEW m \in Messages, NEW type \in EventTypes, Publish(m, type)
    PROVE  /\ client'[m] # Waiting
           /\ \A o \in Messages : client[o] # Waiting => client'[o] # Waiting
  <1>1. [type |-> type, of |-> m] # Waiting
    BY DEF Waiting
  <1>. QED
    BY <1>1 DEF Publish

\* EndsAreHeard as it stands is inductive: a request waits from before its
\* message is sent, and every action that ends a message publishes.
LEMMA HeardStep == TypeOK /\ EndsAreHeard /\ [Next]_vars => EndsAreHeard'
  <1> SUFFICES ASSUME TypeOK, EndsAreHeard, [Next]_vars, NEW o \in Messages,
                      pc'[o] \in {"replied", "blocked", "errored"}
               PROVE  client'[o] # Waiting
    BY DEF EndsAreHeard
  <1>t. pc \in [Messages -> Steps \cup Ends]
        /\ client \in [Messages -> Events \cup {Quiet, Waiting, GaveUp}]
    BY DEF TypeOK
  <1>0. pc[o] \in {"replied", "blocked", "errored"} => client[o] # Waiting
    BY DEF EndsAreHeard
  <1>w. GaveUp # Waiting
    BY DEF GaveUp, Waiting
  <1>1. ASSUME NEW m \in Messages, SendStore(m) PROVE client'[o] # Waiting
    BY <1>t, <1>0, <1>1 DEF SendStore, Goto
  <1>2. ASSUME NEW m \in Messages, SendPublish(m) PROVE client'[o] # Waiting
    BY <1>t, <1>0, <1>2 DEF SendPublish, Goto
  <1>3. ASSUME NEW m \in Messages, LoadContext(m) PROVE client'[o] # Waiting
    BY <1>t, <1>0, <1>3 DEF LoadContext, Goto
  <1>4. ASSUME NEW m \in Messages, Screen(m) PROVE client'[o] # Waiting
    BY <1>t, <1>0, <1>4 DEF Screen, Goto
  <1>5. ASSUME NEW m \in Messages, StoreRejection(m) PROVE client'[o] # Waiting
    BY <1>t, <1>0, <1>5 DEF StoreRejection, Goto
  <1>6. ASSUME NEW m \in Messages, LoadHistory(m) PROVE client'[o] # Waiting
    BY <1>t, <1>0, <1>6 DEF LoadHistory, Goto
  <1>7. ASSUME NEW m \in Messages, Ask(m) PROVE client'[o] # Waiting
    BY <1>t, <1>0, <1>7 DEF Ask, Goto
  <1>8. ASSUME NEW m \in Messages, LlmResult(m) PROVE client'[o] # Waiting
    BY <1>t, <1>0, <1>8 DEF LlmResult, Goto
  <1>9. ASSUME NEW m \in Messages, LlmTimeout(m) PROVE client'[o] # Waiting
    BY <1>t, <1>0, <1>9 DEF LlmTimeout, Goto
  <1>10. ASSUME NEW m \in Messages, Gate(m) PROVE client'[o] # Waiting
    BY <1>t, <1>0, <1>10 DEF Gate, Goto
  <1>11. ASSUME NEW m \in Messages, Dispatch(m) PROVE client'[o] # Waiting
    BY <1>t, <1>0, <1>11 DEF Dispatch, Goto
  <1>12. ASSUME NEW m \in Messages, ToolResult(m) PROVE client'[o] # Waiting
    BY <1>t, <1>0, <1>12 DEF ToolResult, Goto
  <1>13. ASSUME NEW m \in Messages, ToolTimeout(m) PROVE client'[o] # Waiting
    BY <1>t, <1>0, <1>13 DEF ToolTimeout, Goto
  <1>14. ASSUME NEW m \in Messages, StoreReply(m) PROVE client'[o] # Waiting
    BY <1>t, <1>0, <1>14 DEF StoreReply, Goto
  <1>15. ASSUME NEW m \in Messages, RecordTokens(m) PROVE client'[o] # Waiting
    BY <1>t, <1>0, <1>15 DEF RecordTokens, Goto
  <1>16. ASSUME NEW m \in Messages, Listen(m) PROVE client'[o] # Waiting
    BY <1>t, <1>0, <1>16 DEF Listen, Goto
  <1>17. ASSUME NEW m \in Messages, ClientTimeout(m) PROVE client'[o] # Waiting
    BY <1>t, <1>0, <1>w, <1>17 DEF ClientTimeout, Goto, position
  <1>18. ASSUME NEW m \in Messages, Fail(m) PROVE client'[o] # Waiting
    BY <1>t, <1>0, <1>w, <1>18 DEF Fail, Goto, position
  <1>19. ASSUME NEW m \in Messages, PublishBlocked(m) PROVE client'[o] # Waiting
    BY <1>t, <1>0, <1>19, Heard DEF PublishBlocked, Goto, EventTypes
  <1>20. ASSUME NEW m \in Messages, PublishError(m) PROVE client'[o] # Waiting
    BY <1>t, <1>0, <1>20, Heard DEF PublishError, Goto, EventTypes
  <1>21. ASSUME NEW m \in Messages, StoreCalls(m) PROVE client'[o] # Waiting
    BY <1>t, <1>0, <1>21, Heard DEF StoreCalls, Goto, EventTypes
  <1>22. ASSUME NEW m \in Messages, RequestApproval(m) PROVE client'[o] # Waiting
    BY <1>t, <1>0, <1>22, Heard DEF RequestApproval, Goto, EventTypes
  <1>23. ASSUME NEW m \in Messages, StoreResult(m) PROVE client'[o] # Waiting
    BY <1>t, <1>0, <1>23, Heard DEF StoreResult, Goto, EventTypes
  <1>24. ASSUME NEW m \in Messages, Reply(m) PROVE client'[o] # Waiting
    BY <1>t, <1>0, <1>24, Heard DEF Reply, Goto, EventTypes
  <1>25. ASSUME NEW m \in Messages, RouterRespond(m) PROVE client'[o] # Waiting
    BY <1>0, <1>25 DEF RouterRespond, position
  <1>26. ASSUME NEW m \in Messages, RunTool(m) PROVE client'[o] # Waiting
    BY <1>0, <1>26 DEF RunTool, position
  <1>27. ASSUME NEW s \in Sessions, DropContext(s) PROVE client'[o] # Waiting
    BY <1>0, <1>27 DEF DropContext, position
  <1>28. CASE UNCHANGED vars
    BY <1>0, <1>28 DEF vars
  <1>. QED
    BY <1>1, <1>2, <1>3, <1>4, <1>5, <1>6, <1>7, <1>8, <1>9, <1>10, <1>11, <1>12, <1>13, <1>14, <1>15, <1>16, <1>17, <1>18, <1>19, <1>20, <1>21, <1>22, <1>23, <1>24, <1>25, <1>26, <1>27, <1>28
       DEF Next, MessageStep, RequestStep, HandlerStep

\* No synchronous request is left waiting by a message that has ended, unless
\* it failed (api/sessions.ts:90-92).
THEOREM NoEndMissed == Spec => []EndsAreHeard
  <1>1. Init => TInv /\ EndsAreHeard
    BY InitTInv DEF Init, EndsAreHeard
  <1>2. TInv /\ EndsAreHeard /\ [Next]_vars => TInv' /\ EndsAreHeard'
    BY TypeStep, HeardStep DEF TInv
  <1>. QED
    BY <1>1, <1>2, PTL DEF Spec

-----------------------------------------------------------------------------
(* Requests answer every call.                                             *)
(*                                                                         *)
(* While the calls of a response are worked off, the messages array ends   *)
(* in their assistant message and the tool messages of those done; every   *)
(* earlier one of the handler is complete.  That the history it starts     *)
(* from holds none of its own rests on the log before.                     *)

BeforeLoop == {"idle", "listening", "stored", "received", "no_context",
               "loaded", "refusing", "flagging", "blocking", "screened"}
MidBatch   == {"call", "gate", "dispatch", "tool", "refused", "result",
               "timed_out"}

OwnCalls(rows, m) ==
    {i \in DOMAIN rows : rows[i].of = m /\ rows[i].text = "calls"}

\* Row i asked for n calls; those before the k-th have their tool rows, which
\* end the sequence.
OpenCalls(rows, m, i, n, k) ==
    /\ i \in OwnCalls(rows, m)
    /\ rows[i].n = n
    /\ k \in 1 .. n
    /\ Len(rows) = i + k - 1
    /\ \A j \in 1 .. k - 1 :
          rows[i + j].role = "tool" /\ rows[i + j].of = m /\ rows[i + j].n = j

HistoryInv(m) ==
    /\ pc[m] \in BeforeLoop => OwnCalls(log[SessionOf[m]], m) = {}
    /\ pc[m] \in {"ask", "llm", "calls"} =>
          \A i \in OwnCalls(view[m], m) : CallsAnswered(view[m], i)
    /\ pc[m] = "calls" => next[m] = 1 /\ batch[m] # <<>>
    /\ pc[m] \in MidBatch =>
          \E i \in Nat :
              /\ OpenCalls(view[m], m, i, Len(batch[m]), next[m])
              /\ \A j \in OwnCalls(view[m], m) :
                    j # i => CallsAnswered(view[m], j)

LEMMA AnsweredStays ==
    ASSUME NEW rows \in Seq(Rows), NEW r \in Rows, NEW i \in DOMAIN rows,
           CallsAnswered(rows, i)
    PROVE  CallsAnswered(Append(rows, r), i)
  <1>1. /\ Len(Append(rows, r)) = Len(rows) + 1
        /\ Len(rows) \in Nat /\ DOMAIN rows = 1 .. Len(rows)
        /\ \A j \in DOMAIN rows : Append(rows, r)[j] = rows[j]
    OBVIOUS
  <1>2. rows[i].n \in Nat
    <2>1. rows[i] \in Rows
      OBVIOUS
    <2>. QED
      BY <2>1 DEF Rows
  <1> SUFFICES ASSUME NEW k \in 1 .. rows[i].n
               PROVE  /\ i + k <= Len(rows) + 1
                      /\ Append(rows, r)[i + k].role = "tool"
                      /\ Append(rows, r)[i + k].of = rows[i].of
                      /\ Append(rows, r)[i + k].n = k
    BY <1>1 DEF CallsAnswered
  <1>3. i + k <= Len(rows) /\ i + k \in DOMAIN rows
    BY <1>1, <1>2 DEF CallsAnswered
  <1>. QED
    BY <1>1, <1>3 DEF CallsAnswered

LEMMA LastRowsFrom ==
    ASSUME NEW rows \in Seq(Rows), NEW n \in Nat \ {0},
           NEW i \in DOMAIN LastRows(rows, n)
    PROVE  \E j \in DOMAIN rows : LastRows(rows, n)[i] = rows[j]
  <1>1. Len(rows) \in Nat /\ DOMAIN rows = 1 .. Len(rows)
    OBVIOUS
  <1>2. CASE Len(rows) > n
    <2>1. LastRows(rows, n) = SubSeq(rows, Len(rows) - n + 1, Len(rows))
      BY <1>2 DEF LastRows
    <2>2. /\ i \in 1 .. n
          /\ LastRows(rows, n)[i] = rows[Len(rows) - n + i]
      BY <1>1, <1>2, <2>1
    <2>. QED
      BY <1>1, <1>2, <2>2
  <1>3. CASE ~(Len(rows) > n)
    <2>1. LastRows(rows, n) = SubSeq(rows, 1, Len(rows))
      BY <1>3 DEF LastRows
    <2>2. i \in 1 .. Len(rows) /\ LastRows(rows, n)[i] = rows[i]
      BY <1>1, <2>1
    <2>. QED
      BY <1>1, <2>2
  <1>. QED
    BY <1>2, <1>3

LEMMA OwnCallsAppend ==
    ASSUME NEW rows \in Seq(Rows), NEW r \in Rows, NEW m
    PROVE  /\ (r.of # m \/ r.text # "calls") =>
                 OwnCalls(Append(rows, r), m) = OwnCalls(rows, m)
           /\ OwnCalls(Append(rows, r), m)
                 \subseteq OwnCalls(rows, m) \cup {Len(rows) + 1}
           /\ OwnCalls(rows, m) \subseteq DOMAIN rows
           /\ OwnCalls(rows, m) \subseteq OwnCalls(Append(rows, r), m)
  <1>1. /\ Len(rows) \in Nat /\ DOMAIN rows = 1 .. Len(rows)
        /\ DOMAIN Append(rows, r) = 1 .. Len(rows) + 1
        /\ \A j \in DOMAIN rows : Append(rows, r)[j] = rows[j]
        /\ Append(rows, r)[Len(rows) + 1] = r
    OBVIOUS
  <1>2. \A j \in 1 .. Len(rows) + 1 : j \in DOMAIN rows \/ j = Len(rows) + 1
    BY <1>1
  <1>. QED
    BY <1>1, <1>2 DEF OwnCalls

\* The assistant message of n calls opens them.
LEMMA CallsOpen ==
    ASSUME NEW rows \in Seq(Rows), NEW r \in Rows, NEW m, NEW n \in Nat, 1 \in 1 .. n,
           r.of = m, r.text = "calls", r.n = n
    PROVE  OpenCalls(Append(rows, r), m, Len(rows) + 1, n, 1)
  BY DEF OpenCalls, OwnCalls

\* The tool message of a call leaves the next one open, or none.
LEMMA ResultAnswersCall ==
    ASSUME NEW rows \in Seq(Rows), NEW r \in Rows, NEW m, NEW n \in Nat, NEW k \in Nat,
           NEW i, OpenCalls(rows, m, i, n, k),
           r.role = "tool", r.of = m, r.n = k, r.text # "calls"
    PROVE  /\ k < n => OpenCalls(Append(rows, r), m, i, n, k + 1)
           /\ ~(k < n) => CallsAnswered(Append(rows, r), i)
  <1>1. /\ OwnCalls(Append(rows, r), m) = OwnCalls(rows, m)
        /\ OwnCalls(rows, m) \subseteq DOMAIN rows
    BY OwnCallsAppend
  <1>2. /\ i \in OwnCalls(rows, m) /\ rows[i].n = n /\ rows[i].of = m
        /\ k \in 1 .. n /\ Len(rows) = i + k - 1 /\ i \in Nat
        /\ \A j \in 1 .. k - 1 : /\ rows[i + j].role = "tool"
                                 /\ rows[i + j].of = m
                                 /\ rows[i + j].n = j
    BY <1>1 DEF OpenCalls, OwnCalls
  <1>3. /\ Len(Append(rows, r)) = i + k /\ Append(rows, r)[i + k] = r
        /\ \A j \in DOMAIN rows : Append(rows, r)[j] = rows[j]
        /\ DOMAIN rows = 1 .. Len(rows)
    BY <1>2
  <1>4. ASSUME NEW j \in 1 .. k
        PROVE  /\ Append(rows, r)[i + j].role = "tool"
               /\ Append(rows, r)[i + j].of = m
               /\ Append(rows, r)[i + j].n = j
    <2>1. CASE j = k
      BY <1>3, <2>1
    <2>2. CASE j # k
      <3>1. j \in 1 .. k - 1 /\ i + j \in DOMAIN rows
        BY <1>1, <1>2, <1>3, <2>2
      <3>. QED
        BY <1>2, <1>3, <3>1
    <2>. QED
      BY <2>1, <2>2
  <1>5. Append(rows, r)[i] = rows[i]
    BY <1>1, <1>2, <1>3
  <1>6. CASE k < n
    <2>1. k + 1 \in 1 .. n /\ Len(Append(rows, r)) = i + (k + 1) - 1
      BY <1>2, <1>3, <1>6
    <2>2. i \in OwnCalls(Append(rows, r), m) /\ Append(rows, r)[i].n = n
      BY <1>1, <1>2, <1>5
    <2>3. 1 .. (k + 1) - 1 = 1 .. k
      OBVIOUS
    <2>. QED
      BY <1>4, <1>6, <2>1, <2>2, <2>3 DEF OpenCalls
  <1>7. CASE ~(k < n)
    <2>1. k = n
      BY <1>2, <1>7
    <2>2. Append(rows, r)[i].of = m /\ Append(rows, r)[i].n = k
      BY <1>2, <1>5, <2>1
    <2>3. \A j \in 1 .. k : i + j <= Len(Append(rows, r))
      BY <1>2, <1>3
    <2>. QED
      BY <1>4, <1>7, <2>2, <2>3 DEF CallsAnswered
  <1>. QED
    BY <1>6, <1>7

\* What another handler does leaves HistoryInv alone: its rows in the log are
\* its own.
LEMMA OthersHistory ==
    ASSUME TypeOK, NEW m \in Messages, HistoryInv(m), NEW o \in Messages, o # m,
           pc'[m] = pc[m], view'[m] = view[m], batch'[m] = batch[m],
           next'[m] = next[m],
           log' = log \/ \E r \in Rows : r.of = o /\ Insert(o, r)
    PROVE  HistoryInv(m)'
  <1>1. SessionOf[m] \in Sessions /\ log[SessionOf[m]] \in Seq(Rows)
    BY ConstantsAssumption DEF TypeOK
  <1>2. OwnCalls(log'[SessionOf[m]], m) = OwnCalls(log[SessionOf[m]], m)
    <2>1. CASE log' = log
      BY <2>1
    <2>2. CASE \E r \in Rows : r.of = o /\ Insert(o, r)
      <3>1. PICK r \in Rows : r.of = o /\ Insert(o, r)
        BY <2>2
      <3>2. \/ log'[SessionOf[m]] = log[SessionOf[m]]
            \/ log'[SessionOf[m]] = Append(log[SessionOf[m]], r)
        BY <1>1, <3>1 DEF Insert, TypeOK
      <3>. QED
        BY <1>1, <3>1, <3>2, OwnCallsAppend
    <2>. QED
      BY <2>1, <2>2
  <1>. QED
    BY <1>2 DEF HistoryInv

LEMMA InitHistory == Init => \A m \in Messages : HistoryInv(m)
  BY ConstantsAssumption DEF Init, HistoryInv, OwnCalls, BeforeLoop, MidBatch

\* A step of m that changes its pc alone.
LEMMA OwnMove ==
    ASSUME TypeOK, NEW m \in Messages, HistoryInv(m),
           NEW step, pc' = [pc EXCEPT ![m] = step],
           UNCHANGED <<view, batch, next, log>>,
           \/ pc[m] \in BeforeLoop /\ step \in BeforeLoop
           \/ pc[m] \in {"ask", "llm"} /\ step \in {"ask", "llm"}
           \/ pc[m] \in MidBatch /\ step \in MidBatch
           \/ step \notin BeforeLoop \cup MidBatch \cup {"ask", "llm", "calls"}
    PROVE  HistoryInv(m)'
  <1>1. pc'[m] = step
    BY DEF TypeOK
  <1>. QED
    BY <1>1 DEF HistoryInv, BeforeLoop, MidBatch

LEMMA HistoryStep ==
    TypeOK /\ TypeOK' /\ (\A m \in Messages : HistoryInv(m)) /\ [Next]_vars
        => \A m \in Messages : HistoryInv(m)'
  <1> SUFFICES ASSUME TypeOK, TypeOK', \A o \in Messages : HistoryInv(o),
                      [Next]_vars, NEW m \in Messages
               PROVE  HistoryInv(m)'
    OBVIOUS
  <1>0. /\ HistoryInv(m)
        /\ pc \in [Messages -> Steps \cup Ends]
        /\ view \in [Messages -> Seq(Rows)]
        /\ batch \in [Messages -> Seq({"free", "gated"})]
        /\ next \in [Messages -> Nat]
        /\ log \in [Sessions -> Seq(Rows)]
        /\ SessionOf[m] \in Sessions
    BY ConstantsAssumption DEF TypeOK
  <1>1. ASSUME NEW o \in Messages, Listen(o) PROVE HistoryInv(m)'
    <2>1. CASE o # m
      BY <1>0, <1>1, <2>1, OthersHistory DEF Listen, Goto, tables
    <2>2. CASE o = m
      <3>1. PICK step \in {"listening"} : pc' = [pc EXCEPT ![m] = step]
        BY <1>1, <2>2 DEF Listen, Goto
      <3>. QED
        BY <1>0, <1>1, <2>2, <3>1, OwnMove DEF Listen, tables, BeforeLoop, MidBatch
    <2>. QED
      BY <2>1, <2>2
  <1>2. ASSUME NEW o \in Messages, SendPublish(o) PROVE HistoryInv(m)'
    <2>1. CASE o # m
      BY <1>0, <1>2, <2>1, OthersHistory DEF SendPublish, Goto, tables
    <2>2. CASE o = m
      <3>1. PICK step \in {"received"} : pc' = [pc EXCEPT ![m] = step]
        BY <1>2, <2>2 DEF SendPublish, Goto
      <3>. QED
        BY <1>0, <1>2, <2>2, <3>1, OwnMove DEF SendPublish, tables, BeforeLoop, MidBatch
    <2>. QED
      BY <2>1, <2>2
  <1>3. ASSUME NEW o \in Messages, LoadContext(o) PROVE HistoryInv(m)'
    <2>1. CASE o # m
      BY <1>0, <1>3, <2>1, OthersHistory DEF LoadContext, Goto, tables
    <2>2. CASE o = m
      <3>1. PICK step \in {"loaded", "no_context"} : pc' = [pc EXCEPT ![m] = step]
        BY <1>3, <2>2 DEF LoadContext, Goto
      <3>. QED
        BY <1>0, <1>3, <2>2, <3>1, OwnMove DEF LoadContext, tables, BeforeLoop, MidBatch
    <2>. QED
      BY <2>1, <2>2
  <1>4. ASSUME NEW o \in Messages, Screen(o) PROVE HistoryInv(m)'
    <2>1. CASE o # m
      BY <1>0, <1>4, <2>1, OthersHistory DEF Screen, Goto, tables
    <2>2. CASE o = m
      <3>1. PICK step \in {"refusing", "flagging", "screened"} : pc' = [pc EXCEPT ![m] = step]
        BY <1>4, <2>2 DEF Screen, Goto
      <3>. QED
        BY <1>0, <1>4, <2>2, <3>1, OwnMove DEF Screen, tables, BeforeLoop, MidBatch
    <2>. QED
      BY <2>1, <2>2
  <1>5. ASSUME NEW o \in Messages, PublishBlocked(o) PROVE HistoryInv(m)'
    <2>1. CASE o # m
      BY <1>0, <1>5, <2>1, OthersHistory DEF PublishBlocked, Goto, tables
    <2>2. CASE o = m
      <3>1. PICK step \in {"blocked"} : pc' = [pc EXCEPT ![m] = step]
        BY <1>5, <2>2 DEF PublishBlocked, Goto
      <3>. QED
        BY <1>0, <1>5, <2>2, <3>1, OwnMove DEF PublishBlocked, tables, BeforeLoop, MidBatch
    <2>. QED
      BY <2>1, <2>2
  <1>6. ASSUME NEW o \in Messages, Ask(o) PROVE HistoryInv(m)'
    <2>1. CASE o # m
      BY <1>0, <1>6, <2>1, OthersHistory DEF Ask, Goto, tables
    <2>2. CASE o = m
      <3>1. PICK step \in {"llm"} : pc' = [pc EXCEPT ![m] = step]
        BY <1>6, <2>2 DEF Ask, Goto
      <3>. QED
        BY <1>0, <1>6, <2>2, <3>1, OwnMove DEF Ask, tables, BeforeLoop, MidBatch
    <2>. QED
      BY <2>1, <2>2
  <1>7. ASSUME NEW o \in Messages, LlmTimeout(o) PROVE HistoryInv(m)'
    <2>1. CASE o # m
      BY <1>0, <1>7, <2>1, OthersHistory DEF LlmTimeout, Goto, tables
    <2>2. CASE o = m
      <3>1. PICK step \in {"llm_timeout"} : pc' = [pc EXCEPT ![m] = step]
        BY <1>7, <2>2 DEF LlmTimeout, Goto
      <3>. QED
        BY <1>0, <1>7, <2>2, <3>1, OwnMove DEF LlmTimeout, tables, BeforeLoop, MidBatch
    <2>. QED
      BY <2>1, <2>2
  <1>8. ASSUME NEW o \in Messages, PublishError(o) PROVE HistoryInv(m)'
    <2>1. CASE o # m
      BY <1>0, <1>8, <2>1, OthersHistory DEF PublishError, Goto, tables
    <2>2. CASE o = m
      <3>1. PICK step \in {"errored"} : pc' = [pc EXCEPT ![m] = step]
        BY <1>8, <2>2 DEF PublishError, Goto
      <3>. QED
        BY <1>0, <1>8, <2>2, <3>1, OwnMove DEF PublishError, tables, BeforeLoop, MidBatch
    <2>. QED
      BY <2>1, <2>2
  <1>9. ASSUME NEW o \in Messages, RequestApproval(o) PROVE HistoryInv(m)'
    <2>1. CASE o # m
      BY <1>0, <1>9, <2>1, OthersHistory DEF RequestApproval, Goto, tables
    <2>2. CASE o = m
      <3>1. PICK step \in {"gate"} : pc' = [pc EXCEPT ![m] = step]
        BY <1>9, <2>2 DEF RequestApproval, Goto
      <3>. QED
        BY <1>0, <1>9, <2>2, <3>1, OwnMove DEF RequestApproval, tables, BeforeLoop, MidBatch
    <2>. QED
      BY <2>1, <2>2
  <1>10. ASSUME NEW o \in Messages, Gate(o) PROVE HistoryInv(m)'
    <2>1. CASE o # m
      BY <1>0, <1>10, <2>1, OthersHistory DEF Gate, Goto, tables
    <2>2. CASE o = m
      <3>1. PICK step \in {"dispatch", "refused"} : pc' = [pc EXCEPT ![m] = step]
        BY <1>10, <2>2 DEF Gate, Goto
      <3>. QED
        BY <1>0, <1>10, <2>2, <3>1, OwnMove DEF Gate, tables, BeforeLoop, MidBatch
    <2>. QED
      BY <2>1, <2>2
  <1>11. ASSUME NEW o \in Messages, Dispatch(o) PROVE HistoryInv(m)'
    <2>1. CASE o # m
      BY <1>0, <1>11, <2>1, OthersHistory DEF Dispatch, Goto, tables
    <2>2. CASE o = m
      <3>1. PICK step \in {"tool"} : pc' = [pc EXCEPT ![m] = step]
        BY <1>11, <2>2 DEF Dispatch, Goto
      <3>. QED
        BY <1>0, <1>11, <2>2, <3>1, OwnMove DEF Dispatch, tables, BeforeLoop, MidBatch
    <2>. QED
      BY <2>1, <2>2
  <1>12. ASSUME NEW o \in Messages, ToolResult(o) PROVE HistoryInv(m)'
    <2>1. CASE o # m
      BY <1>0, <1>12, <2>1, OthersHistory DEF ToolResult, Goto, tables
    <2>2. CASE o = m
      <3>1. PICK step \in {"result"} : pc' = [pc EXCEPT ![m] = step]
        BY <1>12, <2>2 DEF ToolResult, Goto
      <3>. QED
        BY <1>0, <1>12, <2>2, <3>1, OwnMove DEF ToolResult, tables, BeforeLoop, MidBatch
    <2>. QED
      BY <2>1, <2>2
  <1>13. ASSUME NEW o \in Messages, ToolTimeout(o) PROVE HistoryInv(m)'
    <2>1. CASE o # m
      BY <1>0, <1>13, <2>1, OthersHistory DEF ToolTimeout, Goto, tables
    <2>2. CASE o = m
      <3>1. PICK step \in {"timed_out"} : pc' = [pc EXCEPT ![m] = step]
        BY <1>13, <2>2 DEF ToolTimeout, Goto
      <3>. QED
        BY <1>0, <1>13, <2>2, <3>1, OwnMove DEF ToolTimeout, tables, BeforeLoop, MidBatch
    <2>. QED
      BY <2>1, <2>2
  <1>14. ASSUME NEW o \in Messages, RecordTokens(o) PROVE HistoryInv(m)'
    <2>1. CASE o # m
      BY <1>0, <1>14, <2>1, OthersHistory DEF RecordTokens, Goto, tables
    <2>2. CASE o = m
      <3>1. PICK step \in {"reply"} : pc' = [pc EXCEPT ![m] = step]
        BY <1>14, <2>2 DEF RecordTokens, Goto
      <3>. QED
        BY <1>0, <1>14, <2>2, <3>1, OwnMove DEF RecordTokens, tables, BeforeLoop, MidBatch
    <2>. QED
      BY <2>1, <2>2
  <1>15. ASSUME NEW o \in Messages, Reply(o) PROVE HistoryInv(m)'
    <2>1. CASE o # m
      BY <1>0, <1>15, <2>1, OthersHistory DEF Reply, Goto, tables
    <2>2. CASE o = m
      <3>1. PICK step \in {"replied"} : pc' = [pc EXCEPT ![m] = step]
        BY <1>15, <2>2 DEF Reply, Goto
      <3>. QED
        BY <1>0, <1>15, <2>2, <3>1, OwnMove DEF Reply, tables, BeforeLoop, MidBatch
    <2>. QED
      BY <2>1, <2>2
  <1>16. ASSUME NEW o \in Messages, Fail(o) PROVE HistoryInv(m)'
    <2>1. CASE o # m
      BY <1>0, <1>16, <2>1, OthersHistory DEF Fail, Goto, tables
    <2>2. CASE o = m
      <3>1. PICK step \in {"failed"} : pc' = [pc EXCEPT ![m] = step]
        BY <1>16, <2>2 DEF Fail, Goto
      <3>. QED
        BY <1>0, <1>16, <2>2, <3>1, OwnMove DEF Fail, tables, BeforeLoop, MidBatch
    <2>. QED
      BY <2>1, <2>2
  <1>17. ASSUME NEW o \in Messages, SendStore(o) PROVE HistoryInv(m)'
    <2>1. CASE o # m
      <3>1. \E r \in Rows : r.of = o /\ Insert(o, r)
        BY <1>0, <1>17, RowTyped DEF SendStore, InsertAndPush, Row, Texts, TypeOK
      <3>. QED
        BY <1>0, <1>17, <2>1, <3>1, OthersHistory DEF SendStore, Goto, InsertAndPush
    <2>2. CASE o = m
      <3>1. PICK r \in Rows : r.text # "calls" /\ Insert(m, r)
        BY <1>0, <1>17, <2>2, RowTyped DEF SendStore, Row, Texts
      <3>2. log'[SessionOf[m]] = Append(log[SessionOf[m]], r)
        BY <1>0, <3>1 DEF Insert
      <3>3. OwnCalls(log'[SessionOf[m]], m) = OwnCalls(log[SessionOf[m]], m)
        BY <1>0, <3>1, <3>2, OwnCallsAppend
      <3>4. pc[m] \in BeforeLoop /\ pc'[m] \in BeforeLoop
        BY <1>0, <1>17, <2>2 DEF SendStore, Goto, BeforeLoop
      <3>5. OwnCalls(log[SessionOf[m]], m) = {}
        BY <1>0, <3>4 DEF HistoryInv
      <3>. QED
        BY <3>3, <3>4, <3>5 DEF HistoryInv, BeforeLoop, MidBatch
    <2>. QED
      BY <2>1, <2>2
  <1>18. ASSUME NEW o \in Messages, StoreRejection(o) PROVE HistoryInv(m)'
    <2>1. CASE o # m
      <3>1. \E r \in Rows : r.of = o /\ Insert(o, r)
        BY <1>0, <1>18, RowTyped DEF StoreRejection, InsertAndPush, Row, Texts, TypeOK
      <3>. QED
        BY <1>0, <1>18, <2>1, <3>1, OthersHistory DEF StoreRejection, Goto, InsertAndPush
    <2>2. CASE o = m
      <3>1. PICK r \in Rows : r.text # "calls" /\ Insert(m, r)
        BY <1>0, <1>18, <2>2, RowTyped DEF StoreRejection, Row, Texts
      <3>2. log'[SessionOf[m]] = Append(log[SessionOf[m]], r)
        BY <1>0, <3>1 DEF Insert
      <3>3. OwnCalls(log'[SessionOf[m]], m) = OwnCalls(log[SessionOf[m]], m)
        BY <1>0, <3>1, <3>2, OwnCallsAppend
      <3>4. pc[m] \in BeforeLoop /\ pc'[m] \in BeforeLoop
        BY <1>0, <1>18, <2>2 DEF StoreRejection, Goto, BeforeLoop
      <3>5. OwnCalls(log[SessionOf[m]], m) = {}
        BY <1>0, <3>4 DEF HistoryInv
      <3>. QED
        BY <3>3, <3>4, <3>5 DEF HistoryInv, BeforeLoop, MidBatch
    <2>. QED
      BY <2>1, <2>2
  <1>19. ASSUME NEW o \in Messages, StoreReply(o) PROVE HistoryInv(m)'
    <2>1. CASE o # m
      <3>1. \E r \in Rows : r.of = o /\ Insert(o, r)
        BY <1>0, <1>19, RowTyped DEF StoreReply, InsertAndPush, Row, Texts, TypeOK
      <3>. QED
        BY <1>0, <1>19, <2>1, <3>1, OthersHistory DEF StoreReply, Goto, InsertAndPush
    <2>2. CASE o = m
      BY <1>0, <1>19, <2>2 DEF StoreReply, Goto, HistoryInv, BeforeLoop, MidBatch
    <2>. QED
      BY <2>1, <2>2
  <1>20. ASSUME NEW o \in Messages, LoadHistory(o) PROVE HistoryInv(m)'
    <2>1. CASE o # m
      BY <1>0, <1>20, <2>1, OthersHistory DEF LoadHistory, Goto, tables
    <2>2. CASE o = m
      <3> DEFINE rows == log[SessionOf[m]]
      <3>1. /\ pc'[m] = "ask" /\ OwnCalls(rows, m) = {}
            /\ view'[m] = LastRows(rows, MaxHistoryMessages)
        BY <1>0, <1>20, <2>2 DEF LoadHistory, Goto, HistoryInv, BeforeLoop
      <3>2. OwnCalls(view'[m], m) = {}
        <4> SUFFICES ASSUME NEW i \in OwnCalls(view'[m], m) PROVE FALSE
          OBVIOUS
        <4>1. i \in DOMAIN LastRows(rows, MaxHistoryMessages)
              /\ LastRows(rows, MaxHistoryMessages)[i].of = m
              /\ LastRows(rows, MaxHistoryMessages)[i].text = "calls"
          BY <3>1 DEF OwnCalls
        <4>2. PICK j \in DOMAIN rows :
                 LastRows(rows, MaxHistoryMessages)[i] = rows[j]
          BY <1>0, <4>1, LastRowsFrom, ConstantsAssumption
        <4>. QED
          BY <3>1, <4>1, <4>2 DEF OwnCalls
      <3>. QED
        BY <3>1, <3>2 DEF HistoryInv, BeforeLoop, MidBatch
    <2>. QED
      BY <2>1, <2>2
  <1>21. ASSUME NEW o \in Messages, LlmResult(o) PROVE HistoryInv(m)'
    <2>1. CASE o # m
      BY <1>0, <1>21, <2>1, OthersHistory DEF LlmResult, Goto, tables
    <2>2. CASE o = m
      <3>1. /\ pc[m] = "llm" /\ view' = view
            /\ \A i \in OwnCalls(view[m], m) : CallsAnswered(view[m], i)
        BY <1>0, <1>21, <2>2 DEF LlmResult, HistoryInv
      <3>2. \/ pc'[m] \in {"llm_error", "final"}
            \/ pc'[m] = "calls" /\ next'[m] = 1 /\ batch'[m] # <<>>
        BY <1>0, <1>21, <2>2 DEF LlmResult, Goto
      <3>. QED
        BY <3>1, <3>2 DEF HistoryInv, BeforeLoop, MidBatch
    <2>. QED
      BY <2>1, <2>2
  <1>22. ASSUME NEW o \in Messages, StoreCalls(o) PROVE HistoryInv(m)'
    <2>1. CASE o # m
      <3>1. \E r \in Rows : r.of = o /\ Insert(o, r)
        BY <1>0, <1>22, RowTyped DEF StoreCalls, InsertAndPush, Row, Texts, TypeOK
      <3>. QED
        BY <1>0, <1>22, <2>1, <3>1, OthersHistory DEF StoreCalls, Goto, InsertAndPush
    <2>2. CASE o = m
      <3> DEFINE rows == view[m]
                 r    == Row("assistant", "calls", m, Len(batch[m]))
                 i    == Len(rows) + 1
      <3>1. /\ pc[m] = "calls" /\ pc'[m] = "call"
            /\ view'[m] = Append(rows, r)
            /\ batch' = batch /\ next' = next
        BY <1>0, <1>22, <2>2 DEF StoreCalls, Goto, InsertAndPush
      <3>2. /\ next[m] = 1 /\ batch[m] # <<>>
            /\ \A j \in OwnCalls(rows, m) : CallsAnswered(rows, j)
        BY <1>0, <3>1 DEF HistoryInv
      <3>3. Len(batch[m]) \in Nat /\ 1 \in 1 .. Len(batch[m])
        BY <1>0, <3>2
      <3>4. r \in Rows /\ rows \in Seq(Rows)
        BY <1>0, <3>3, RowTyped DEF Texts
      <3>5. OpenCalls(Append(rows, r), m, i, Len(batch[m]), 1)
        BY <3>2, <3>3, <3>4, CallsOpen DEF Row
      <3>6. ASSUME NEW j \in OwnCalls(Append(rows, r), m), j # i
            PROVE  CallsAnswered(Append(rows, r), j)
        BY <3>2, <3>4, <3>6, OwnCallsAppend, AnsweredStays
      <3>7. i \in Nat
        BY <3>4
      <3> HIDE DEF rows, r, i
      <3>8. pc'[m] \in MidBatch /\ pc'[m] \notin BeforeLoop \cup {"ask", "llm", "calls"}
        BY <3>1 DEF MidBatch, BeforeLoop
      <3>. QED
        BY <3>1, <3>2, <3>5, <3>6, <3>7, <3>8 DEF HistoryInv
    <2>. QED
      BY <2>1, <2>2
  <1>23. ASSUME NEW o \in Messages, StoreResult(o) PROVE HistoryInv(m)'
    <2>1. CASE o # m
      <3>1. \E r \in Rows : r.of = o /\ Insert(o, r)
        BY <1>0, <1>23, RowTyped DEF StoreResult, InsertAndPush, Row, Texts, TypeOK, ResultText
      <3>. QED
        BY <1>0, <1>23, <2>1, <3>1, OthersHistory DEF StoreResult, Goto, InsertAndPush
    <2>2. CASE o = m
      <3> DEFINE rows == view[m]
                 r    == Row("tool", ResultText(m), m, next[m])
                 k    == next[m]
                 n    == Len(batch[m])
      <3>1. /\ pc[m] \in MidBatch /\ batch' = batch
            /\ view'[m] = Append(rows, r)
            /\ next'[m] = k + 1
            /\ \/ k < n /\ pc'[m] = "call"
               \/ k >= n /\ pc'[m] = "ask"
        BY <1>0, <1>23, <2>2 DEF StoreResult, Goto, InsertAndPush, MidBatch
      <3>2. PICK i \in Nat :
               /\ OpenCalls(rows, m, i, n, k)
               /\ \A j \in OwnCalls(rows, m) : j # i => CallsAnswered(rows, j)
        BY <1>0, <3>1 DEF HistoryInv
      <3>3. r \in Rows /\ rows \in Seq(Rows) /\ r.role = "tool" /\ r.of = m
            /\ r.n = k /\ r.text # "calls" /\ n \in Nat /\ k \in Nat
        BY <1>0, RowTyped DEF Texts, ResultText, Row
      <3> HIDE DEF rows, r, k, n
      <3>4. OwnCalls(Append(rows, r), m) = OwnCalls(rows, m)
        BY <3>3, OwnCallsAppend
      <3>5. ASSUME NEW j \in OwnCalls(Append(rows, r), m), j # i
            PROVE  CallsAnswered(Append(rows, r), j)
        <4>1. j \in OwnCalls(rows, m) /\ j \in DOMAIN rows
          BY <3>3, <3>4, <3>5, OwnCallsAppend
        <4>2. CallsAnswered(rows, j)
          BY <3>2, <3>5, <4>1
        <4>. QED
          BY <3>3, <4>1, <4>2, AnsweredStays
      <3>6. CASE k < n
        <4>1. OpenCalls(Append(rows, r), m, i, n, k + 1) /\ pc'[m] = "call"
          BY <3>1, <3>2, <3>3, <3>6, ResultAnswersCall
        <4>. QED
          BY <3>1, <3>5, <4>1 DEF HistoryInv, BeforeLoop, MidBatch, n
      <3>7. CASE ~(k < n)
        <4>1. CallsAnswered(Append(rows, r), i) /\ pc'[m] = "ask"
          BY <3>1, <3>2, <3>3, <3>7, ResultAnswersCall
        <4>2. \A j \in OwnCalls(Append(rows, r), m) : CallsAnswered(Append(rows, r), j)
          BY <3>5, <4>1
        <4>. QED
          BY <3>1, <4>1, <4>2 DEF HistoryInv, BeforeLoop, MidBatch
      <3>. QED
        BY <3>6, <3>7
    <2>. QED
      BY <2>1, <2>2
  <1>24. ASSUME NEW o \in Messages, ClientTimeout(o) PROVE HistoryInv(m)'
    BY <1>0, <1>24 DEF ClientTimeout, position, tables, HistoryInv
  <1>25. ASSUME NEW o \in Messages, RouterRespond(o) PROVE HistoryInv(m)'
    BY <1>0, <1>25 DEF RouterRespond, position, tables, HistoryInv
  <1>26. ASSUME NEW o \in Messages, RunTool(o) PROVE HistoryInv(m)'
    BY <1>0, <1>26 DEF RunTool, position, tables, HistoryInv
  <1>27. ASSUME NEW s \in Sessions, DropContext(s) PROVE HistoryInv(m)'
    BY <1>0, <1>27 DEF DropContext, position, HistoryInv
  <1>28. CASE UNCHANGED vars
    BY <1>0, <1>28 DEF vars, HistoryInv
  <1>. QED
    BY <1>1, <1>2, <1>3, <1>4, <1>5, <1>6, <1>7, <1>8, <1>9, <1>10, <1>11, <1>12, <1>13, <1>14, <1>15, <1>16, <1>17, <1>18, <1>19, <1>20, <1>21, <1>22, <1>23, <1>24, <1>25, <1>26, <1>27, <1>28
       DEF Next, MessageStep, RequestStep, HandlerStep

\* Every request that goes to the model carries, for each call the handler was
\* asked for, one tool message in the place it belongs (agent-loop.ts:254-367).
THEOREM RequestsComplete == Spec => []RequestsAnswerEveryCall
  <1> DEFINE HInv == \A m \in Messages : HistoryInv(m)
  <1>1. Init => TInv /\ HInv
    BY InitTInv, InitHistory
  <1>2. TInv /\ HInv /\ [Next]_vars => TInv' /\ HInv'
    BY TypeStep, HistoryStep DEF TInv
  <1>3. TInv /\ HInv => RequestsAnswerEveryCall
    BY DEF HistoryInv, OwnCalls, RequestsAnswerEveryCall
  <1>. QED
    BY <1>1, <1>2, <1>3, PTL DEF Spec

-----------------------------------------------------------------------------
(* The history of a patient session.                                       *)
(*                                                                         *)
(* Where every message waits for the end of the one before, and none has   *)
(* failed, one handler at a time works on the session.  Its messages array *)
(* is the log, unless LIMIT cut it, and only the calls it is working on    *)
(* are open there.                                                         *)

LoopSteps == {"ask", "llm", "calls"} \cup MidBatch

OfSession(s) == {m \in Messages : SessionOf[m] = s}

Orderly(s) == \A o \in OfSession(s) : o \in Patient /\ pc[o] # "failed"

OneAtATime(s) ==
    \A m, o \in OfSession(s) : InProgress(m) /\ InProgress(o) => m = o

HistoryIsLog(s) ==
    \A m \in OfSession(s) :
        pc[m] \in LoopSteps /\ Len(view[m]) < MaxHistoryMessages => view[m] = log[s]

\* The calls of row i are answered, or m is at the k-th of them.
Settled(rows, i, m, inBatch, n, k) ==
    CallsAnswered(rows, i) \/ (inBatch /\ OpenCalls(rows, m, i, n, k))

AllCalls(rows) == {i \in DOMAIN rows : rows[i].text = "calls"}

LogIsWhole(s) ==
    \A i \in AllCalls(log[s]) :
        \/ CallsAnswered(log[s], i)
        \/ \E m \in OfSession(s) : pc[m] \in MidBatch
               /\ OpenCalls(log[s], m, i, Len(batch[m]), next[m])

SessionInv(s) ==
    Orderly(s) => OneAtATime(s) /\ HistoryIsLog(s) /\ LogIsWhole(s)

LEMMA LoopInProgress ==
    ASSUME NEW m, pc[m] \in LoopSteps
    PROVE  InProgress(m) /\ pc[m] \notin {"idle", "failed"} \cup Ends
  BY DEF LoopSteps, MidBatch, InProgress, Ends

\* A row more of other kinds leaves the calls of the log as they were.
LEMMA AllCallsAppend ==
    ASSUME NEW rows \in Seq(Rows), NEW r \in Rows
    PROVE  /\ AllCalls(rows) \subseteq DOMAIN rows
           /\ r.text # "calls" => AllCalls(Append(rows, r)) = AllCalls(rows)
           /\ AllCalls(Append(rows, r)) \subseteq AllCalls(rows) \cup {Len(rows) + 1}
  <1>1. /\ Len(rows) \in Nat /\ DOMAIN rows = 1 .. Len(rows)
        /\ DOMAIN Append(rows, r) = 1 .. Len(rows) + 1
        /\ \A j \in DOMAIN rows : Append(rows, r)[j] = rows[j]
        /\ Append(rows, r)[Len(rows) + 1] = r
    OBVIOUS
  <1>2. \A j \in 1 .. Len(rows) + 1 : j \in DOMAIN rows \/ j = Len(rows) + 1
    BY <1>1
  <1>. QED
    BY <1>1, <1>2 DEF AllCalls

LEMMA WholeHistory ==
    ASSUME NEW rows \in Seq(Rows), NEW n \in Nat \ {0}, Len(LastRows(rows, n)) < n
    PROVE  LastRows(rows, n) = rows
  <1>1. Len(rows) \in Nat
    OBVIOUS
  <1>2. CASE Len(rows) > n
    <2>1. LastRows(rows, n) = SubSeq(rows, Len(rows) - n + 1, Len(rows))
      BY <1>2 DEF LastRows
    <2>2. Len(LastRows(rows, n)) = n
      BY <1>1, <1>2, <2>1
    <2>. QED
      BY <2>2
  <1>3. CASE ~(Len(rows) > n)
    BY <1>3 DEF LastRows
  <1>. QED
    BY <1>2, <1>3

\* What m's own step has to bring about when nobody else of the session works.
LEMMA AloneKeeps ==
    ASSUME NEW s, NEW m \in OfSession(s),
           \A o \in OfSession(s) \ {m} : ~InProgress(o) /\ pc'[o] = pc[o],
           pc'[m] \in LoopSteps /\ Len(view'[m]) < MaxHistoryMessages
               => view'[m] = log'[s],
           \A i \in AllCalls(log'[s]) :
               Settled(log'[s], i, m, pc'[m] \in MidBatch, Len(batch'[m]), next'[m])
    PROVE  SessionInv(s)'
  <1>1. \A o \in OfSession(s) \ {m} : ~InProgress(o)' /\ pc'[o] \notin LoopSteps
    BY LoopInProgress DEF InProgress
  <1>2. OneAtATime(s)'
    BY <1>1 DEF OneAtATime, OfSession
  <1>3. HistoryIsLog(s)'
    BY <1>1 DEF HistoryIsLog, OfSession
  <1>4. LogIsWhole(s)'
    BY DEF LogIsWhole, Settled, OfSession
  <1>. QED
    BY <1>2, <1>3, <1>4 DEF SessionInv

LEMMA AloneBefore ==
    ASSUME NEW s, SessionInv(s), Orderly(s), NEW m \in OfSession(s),
           InProgress(m)
    PROVE  /\ \A o \in OfSession(s) \ {m} : ~InProgress(o)
           /\ \A i \in AllCalls(log[s]) :
                  Settled(log[s], i, m, pc[m] \in MidBatch, Len(batch[m]), next[m])
  <1>1. \A o \in OfSession(s) \ {m} : ~InProgress(o) /\ pc[o] \notin MidBatch
    BY LoopInProgress DEF SessionInv, OneAtATime, LoopSteps
  <1>2. ASSUME NEW i \in AllCalls(log[s]), ~CallsAnswered(log[s], i)
        PROVE  pc[m] \in MidBatch /\ OpenCalls(log[s], m, i, Len(batch[m]), next[m])
    <2>1. PICK o \in OfSession(s) : pc[o] \in MidBatch
                /\ OpenCalls(log[s], o, i, Len(batch[o]), next[o])
      BY <1>2 DEF SessionInv, LogIsWhole
    <2>2. o = m
      BY <1>1, <2>1
    <2>. QED
      BY <2>1, <2>2
  <1>. QED
    BY <1>1, <1>2 DEF Settled

\* A step of m that leaves the log alone and begins or ends no batch.
LEMMA MoveKeeps ==
    ASSUME TypeOK, NEW s, SessionInv(s), Orderly(s), NEW m \in OfSession(s),
           NEW step, pc' = [pc EXCEPT ![m] = step],
           InProgress(m) \/ \A o \in OfSession(s) : ~InProgress(o),
           UNCHANGED <<log, view>>,
           \/ pc[m] \in MidBatch /\ step \in MidBatch /\ UNCHANGED <<batch, next>>
           \/ pc[m] \in LoopSteps \ MidBatch /\ step \notin MidBatch
           \/ pc[m] \notin LoopSteps /\ step \notin LoopSteps
    PROVE  SessionInv(s)'
  <1>1. pc'[m] = step /\ \A o \in OfSession(s) \ {m} : pc'[o] = pc[o]
    BY DEF TypeOK, OfSession
  <1>2. \A o \in OfSession(s) \ {m} : ~InProgress(o)
    BY AloneBefore
  <1>3. step \in LoopSteps => pc[m] \in LoopSteps
    BY DEF LoopSteps
  <1>4. step \in LoopSteps /\ Len(view'[m]) < MaxHistoryMessages => view'[m] = log'[s]
    BY <1>3 DEF SessionInv, HistoryIsLog
  <1>5. ASSUME NEW i \in AllCalls(log[s]), ~CallsAnswered(log[s], i)
        PROVE  step \in MidBatch /\ OpenCalls(log[s], m, i, Len(batch'[m]), next'[m])
    <2>1. PICK o \in OfSession(s) : pc[o] \in MidBatch
                /\ OpenCalls(log[s], o, i, Len(batch[o]), next[o])
      BY <1>5 DEF SessionInv, LogIsWhole
    <2>2. o = m
      BY <1>2, <2>1, LoopInProgress DEF LoopSteps
    <2>. QED
      BY <2>1, <2>2 DEF LoopSteps
  <1>. QED
    BY <1>1, <1>2, <1>4, <1>5, AloneKeeps DEF Settled

\* A row of m that is none of a batch.
LEMMA InsertKeeps ==
    ASSUME TypeOK, NEW s, SessionInv(s), Orderly(s), NEW m \in OfSession(s),
           NEW step, pc' = [pc EXCEPT ![m] = step],
           InProgress(m) \/ \A o \in OfSession(s) : ~InProgress(o),
           NEW r \in Rows, Insert(m, r), r.text # "calls",
           pc[m] \notin MidBatch, step \notin LoopSteps
    PROVE  SessionInv(s)'
  <1>1. pc'[m] = step /\ \A o \in OfSession(s) \ {m} : pc'[o] = pc[o]
    BY DEF TypeOK, OfSession
  <1>2. \A o \in OfSession(s) \ {m} : ~InProgress(o)
    BY AloneBefore
  <1>3. log[s] \in Seq(Rows) /\ log'[s] = Append(log[s], r)
    <2>1. m \in Messages /\ SessionOf[m] = s /\ s \in Sessions
      BY ConstantsAssumption DEF OfSession
    <2>2. log \in [Sessions -> Seq(Rows)]
      BY DEF TypeOK
    <2>. QED
      BY <2>1, <2>2 DEF Insert
  <1>4. ASSUME NEW i \in AllCalls(log'[s]) PROVE CallsAnswered(log'[s], i)
    <2>1. i \in AllCalls(log[s]) /\ i \in DOMAIN log[s]
      BY <1>3, <1>4, AllCallsAppend
    <2>2. CallsAnswered(log[s], i)
      BY <1>2, <2>1, LoopInProgress DEF SessionInv, LogIsWhole, LoopSteps
    <2>. QED
      BY <1>3, <2>1, <2>2, AnsweredStays
  <1>. QED
    BY <1>1, <1>2, <1>4, AloneKeeps DEF Settled

\* The batch begins: its assistant message goes into the log and the array.
LEMMA BatchBegins ==
    ASSUME TypeOK, NEW s, SessionInv(s), Orderly(s), NEW m \in OfSession(s),
           HistoryInv(m), StoreCalls(m)
    PROVE  SessionInv(s)'
  <1> DEFINE r == Row("assistant", "calls", m, Len(batch[m]))
  <1>1. /\ m \in Messages /\ SessionOf[m] = s /\ s \in Sessions
        /\ log[s] \in Seq(Rows) /\ view[m] \in Seq(Rows) /\ Len(batch[m]) \in Nat
    BY ConstantsAssumption DEF TypeOK, OfSession
  <1>2. /\ pc[m] = "calls" /\ pc' = [pc EXCEPT ![m] = "call"]
        /\ batch' = batch /\ next' = next /\ Insert(m, r)
        /\ view' = [view EXCEPT ![m] = Append(@, r)]
    BY DEF StoreCalls, Goto, InsertAndPush
  <1>3. r \in Rows /\ r.of = m /\ r.text = "calls" /\ r.n = Len(batch[m])
    BY <1>1, RowTyped DEF Texts, Row
  <1>4. next[m] = 1 /\ 1 \in 1 .. Len(batch[m])
    <2>1. next[m] = 1 /\ batch[m] # <<>>
      BY <1>2 DEF HistoryInv
    <2>2. batch[m] \in Seq({"free", "gated"})
      BY <1>1 DEF TypeOK
    <2>. QED
      BY <2>1, <2>2
  <1> HIDE DEF r
  <1>5. log'[s] = Append(log[s], r) /\ view'[m] = Append(view[m], r)
        /\ pc'[m] = "call" /\ \A o \in OfSession(s) \ {m} : pc'[o] = pc[o]
    <2>1. log \in [Sessions -> Seq(Rows)] /\ view \in [Messages -> Seq(Rows)]
      BY DEF TypeOK
    <2>2. pc \in [Messages -> Steps \cup Ends]
      BY DEF TypeOK
    <2>. QED
      BY <1>1, <1>2, <2>1, <2>2 DEF Insert, OfSession
  <1>6. pc[m] \in LoopSteps /\ InProgress(m)
    BY <1>2, LoopInProgress DEF LoopSteps
  <1>7. \A o \in OfSession(s) \ {m} : ~InProgress(o)
    BY <1>6, AloneBefore
  <1>8. ASSUME Len(view'[m]) < MaxHistoryMessages PROVE view'[m] = log'[s]
    <2>1. Len(view[m]) < MaxHistoryMessages
      BY <1>1, <1>3, <1>5, <1>8, ConstantsAssumption
    <2>2. view[m] = log[s]
      BY <1>6, <2>1 DEF SessionInv, HistoryIsLog
    <2>. QED
      BY <1>5, <2>2
  <1>9. ASSUME NEW i \in AllCalls(log'[s])
        PROVE  Settled(log'[s], i, m, pc'[m] \in MidBatch, Len(batch'[m]), next'[m])
    <2>1. CASE i = Len(log[s]) + 1
      <3>1. OpenCalls(log'[s], m, i, Len(batch[m]), next[m])
        BY <1>1, <1>3, <1>4, <1>5, <2>1, CallsOpen
      <3>. QED
        BY <1>2, <1>5, <3>1 DEF Settled, MidBatch
    <2>2. CASE i # Len(log[s]) + 1
      <3>1. i \in AllCalls(log[s]) /\ i \in DOMAIN log[s]
        BY <1>1, <1>3, <1>5, <1>9, <2>2, AllCallsAppend
      <3>2. CallsAnswered(log[s], i)
        BY <1>2, <1>6, <3>1, AloneBefore DEF Settled, MidBatch
      <3>. QED
        BY <1>1, <1>3, <1>5, <3>1, <3>2, AnsweredStays DEF Settled
    <2>. QED
      BY <2>1, <2>2
  <1>. QED
    BY <1>5, <1>7, <1>8, <1>9, AloneKeeps

\* A call of the batch is answered, the last one perhaps.
LEMMA BatchGoesOn ==
    ASSUME TypeOK, NEW s, SessionInv(s), Orderly(s), NEW m \in OfSession(s),
           StoreResult(m)
    PROVE  SessionInv(s)'
  <1> DEFINE r == Row("tool", ResultText(m), m, next[m])
             k == next[m]
             n == Len(batch[m])
  <1>1. /\ m \in Messages /\ SessionOf[m] = s /\ s \in Sessions
        /\ log[s] \in Seq(Rows) /\ view[m] \in Seq(Rows)
        /\ n \in Nat /\ k \in Nat
    BY ConstantsAssumption DEF TypeOK, OfSession
  <1>2. /\ pc[m] \in MidBatch /\ batch' = batch /\ Insert(m, r)
        /\ next' = [next EXCEPT ![m] = k + 1]
        /\ view' = [view EXCEPT ![m] = Append(@, r)]
        /\ \/ k < n /\ pc' = [pc EXCEPT ![m] = "call"]
           \/ ~(k < n) /\ pc' = [pc EXCEPT ![m] = "ask"]
    BY <1>1 DEF StoreResult, Goto, InsertAndPush, MidBatch
  <1>3. r \in Rows /\ r.role = "tool" /\ r.of = m /\ r.n = k /\ r.text # "calls"
    BY <1>1, RowTyped DEF Texts, ResultText, Row
  <1> HIDE DEF r, k, n
  <1>4. /\ log'[s] = Append(log[s], r) /\ view'[m] = Append(view[m], r)
        /\ next'[m] = k + 1 /\ Len(batch'[m]) = n
        /\ \A o \in OfSession(s) \ {m} : pc'[o] = pc[o]
        /\ \/ k < n /\ pc'[m] = "call"
           \/ ~(k < n) /\ pc'[m] = "ask"
    <2>1. log \in [Sessions -> Seq(Rows)] /\ view \in [Messages -> Seq(Rows)]
      BY DEF TypeOK
    <2>2. pc \in [Messages -> Steps \cup Ends] /\ next \in [Messages -> Nat]
      BY DEF TypeOK
    <2>. QED
      BY <1>1, <1>2, <2>1, <2>2 DEF Insert, OfSession, n
  <1>5. pc[m] \in LoopSteps /\ InProgress(m)
    BY <1>2, LoopInProgress DEF LoopSteps
  <1>6. \A o \in OfSession(s) \ {m} : ~InProgress(o)
    BY <1>5, AloneBefore
  <1>7. ASSUME Len(view'[m]) < MaxHistoryMessages PROVE view'[m] = log'[s]
    <2>1. Len(view[m]) < MaxHistoryMessages
      BY <1>1, <1>3, <1>4, <1>7, ConstantsAssumption
    <2>2. view[m] = log[s]
      BY <1>5, <2>1 DEF SessionInv, HistoryIsLog
    <2>. QED
      BY <1>4, <2>2
  <1>8. ASSUME NEW i \in AllCalls(log'[s])
        PROVE  Settled(log'[s], i, m, pc'[m] \in MidBatch, Len(batch'[m]), next'[m])
    <2>1. i \in AllCalls(log[s]) /\ i \in DOMAIN log[s]
      BY <1>1, <1>3, <1>4, <1>8, AllCallsAppend
    <2>2. CASE CallsAnswered(log[s], i)
      BY <1>1, <1>3, <1>4, <2>1, <2>2, AnsweredStays DEF Settled
    <2>3. CASE OpenCalls(log[s], m, i, n, k)
      <3>1. /\ k < n => OpenCalls(log'[s], m, i, n, k + 1)
            /\ ~(k < n) => CallsAnswered(log'[s], i)
        BY <1>1, <1>3, <1>4, <2>3, ResultAnswersCall
      <3>. QED
        BY <1>4, <3>1 DEF Settled, MidBatch
    <2>4. Settled(log[s], i, m, pc[m] \in MidBatch, n, k)
      BY <1>5, <2>1, AloneBefore DEF n, k
    <2>. QED
      BY <2>2, <2>3, <2>4 DEF Settled
  <1>. QED
    BY <1>4, <1>6, <1>7, <1>8, AloneKeeps

LEMMA LoadKeeps ==
    ASSUME TypeOK, NEW s, SessionInv(s), Orderly(s), NEW m \in OfSession(s),
           LoadHistory(m)
    PROVE  SessionInv(s)'
  <1>1. /\ m \in Messages /\ SessionOf[m] = s /\ s \in Sessions
        /\ log[s] \in Seq(Rows) /\ MaxHistoryMessages \in Nat \ {0}
    BY ConstantsAssumption DEF TypeOK, OfSession
  <1>2. /\ pc[m] = "screened" /\ pc'[m] = "ask" /\ log' = log
        /\ view'[m] = LastRows(log[s], MaxHistoryMessages)
        /\ \A o \in OfSession(s) \ {m} : pc'[o] = pc[o]
    BY <1>1 DEF LoadHistory, Goto, TypeOK, OfSession, tables
  <1>3. InProgress(m) /\ pc[m] \notin MidBatch
    BY <1>2 DEF InProgress, Ends, MidBatch
  <1>4. Len(view'[m]) < MaxHistoryMessages => view'[m] = log'[s]
    BY <1>1, <1>2, WholeHistory
  <1>5. \A o \in OfSession(s) \ {m} : ~InProgress(o)
    BY <1>3, AloneBefore
  <1>6. \A i \in AllCalls(log'[s]) : CallsAnswered(log'[s], i)
    BY <1>2, <1>3, AloneBefore DEF Settled
  <1>. QED
    BY <1>2, <1>4, <1>5, <1>6, AloneKeeps DEF Settled

\* What a step of a message does to those of the others.
OwnStep(m) ==
    /\ \E step : pc' = [pc EXCEPT ![m] = step]
    /\ InProgress(m) \/ (pc[m] = "idle" /\ MaySend(m))
    /\ \A o \in Messages \ {m} : /\ view'[o] = view[o] /\ batch'[o] = batch[o]
                                 /\ next'[o] = next[o]
    /\ log' = log \/ \E r : Insert(m, r)

LEMMA OwnSteps ==
    ASSUME TypeOK, NEW m \in Messages, RequestStep(m) \/ HandlerStep(m) \/ Fail(m)
    PROVE  OwnStep(m)
  <1> USE DEF OwnStep, Goto, InProgress, Ends, tables
  <1>1. CASE Listen(m)
    BY <1>1 DEF Listen
  <1>2. CASE SendStore(m)
    BY <1>2 DEF SendStore
  <1>3. CASE SendPublish(m)
    BY <1>3 DEF SendPublish
  <1>4. CASE LoadContext(m)
    BY <1>4 DEF LoadContext
  <1>5. CASE Screen(m)
    BY <1>5 DEF Screen
  <1>6. CASE StoreRejection(m)
    BY <1>6 DEF StoreRejection
  <1>7. CASE PublishBlocked(m)
    BY <1>7 DEF PublishBlocked
  <1>8. CASE LoadHistory(m)
    BY <1>8 DEF LoadHistory, TypeOK
  <1>9. CASE Ask(m)
    BY <1>9 DEF Ask
  <1>10. CASE LlmResult(m)
    BY <1>10 DEF LlmResult, TypeOK
  <1>11. CASE LlmTimeout(m)
    BY <1>11 DEF LlmTimeout
  <1>12. CASE PublishError(m)
    BY <1>12 DEF PublishError
  <1>13. CASE StoreCalls(m)
    BY <1>13 DEF StoreCalls, InsertAndPush, TypeOK
  <1>14. CASE RequestApproval(m)
    BY <1>14 DEF RequestApproval
  <1>15. CASE Gate(m)
    BY <1>15 DEF Gate
  <1>16. CASE Dispatch(m)
    BY <1>16 DEF Dispatch
  <1>17. CASE ToolResult(m)
    BY <1>17 DEF ToolResult
  <1>18. CASE ToolTimeout(m)
    BY <1>18 DEF ToolTimeout
  <1>19. CASE StoreResult(m)
    BY <1>19 DEF StoreResult, InsertAndPush, TypeOK
  <1>20. CASE StoreReply(m)
    BY <1>20 DEF StoreReply
  <1>21. CASE RecordTokens(m)
    BY <1>21 DEF RecordTokens
  <1>22. CASE Reply(m)
    BY <1>22 DEF Reply
  <1>23. CASE Fail(m)
    BY <1>23 DEF Fail
  <1>. QED
    BY <1>1, <1>2, <1>3, <1>4, <1>5, <1>6, <1>7, <1>8, <1>9, <1>10, <1>11,
       <1>12, <1>13, <1>14, <1>15, <1>16, <1>17, <1>18, <1>19, <1>20, <1>21,
       <1>22, <1>23
       DEF RequestStep, HandlerStep

\* A step of another session.
LEMMA OthersSession ==
    ASSUME TypeOK, NEW s \in Sessions, SessionInv(s), NEW m \in Messages,
           SessionOf[m] # s, OwnStep(m)
    PROVE  SessionInv(s)'
  <1>1. \A o \in OfSession(s) : /\ pc'[o] = pc[o] /\ view'[o] = view[o]
                               /\ batch'[o] = batch[o] /\ next'[o] = next[o]
    BY DEF OwnStep, OfSession, TypeOK
  <1>2. log'[s] = log[s]
    BY DEF OwnStep, Insert, TypeOK
  <1>. QED
    BY <1>1, <1>2 DEF SessionInv, Orderly, OneAtATime, HistoryIsLog, LogIsWhole,
                      InProgress, OfSession

\* Nobody else of an orderly session is at work when m takes a step.
LEMMA OwnStepAlone ==
    ASSUME TypeOK, NEW s \in Sessions, SessionInv(s), Orderly(s)', NEW m \in OfSession(s),
           OwnStep(m)
    PROVE  /\ Orderly(s)
           /\ InProgress(m) \/ \A o \in OfSession(s) : ~InProgress(o)
  <1>1. \A o \in OfSession(s) : pc'[o] # "failed" /\ o \in Patient
    BY DEF Orderly, OfSession
  <1>2. pc[m] # "failed" /\ \A o \in OfSession(s) \ {m} : pc'[o] = pc[o]
    BY DEF OwnStep, InProgress, Ends, TypeOK, OfSession
  <1>3. Orderly(s)
    BY <1>1, <1>2 DEF Orderly
  <1>. QED
    BY <1>3 DEF Orderly, OwnStep, MaySend, OfSession

LEMMA PatientStep ==
    ASSUME TypeOK, \A m \in Messages : HistoryInv(m), NEW s \in Sessions, SessionInv(s),
           [Next]_vars
    PROVE  SessionInv(s)'
  <1>1. SUFFICES ASSUME Orderly(s)' PROVE SessionInv(s)'
    BY DEF SessionInv
  <1>2. CASE UNCHANGED <<pc, view, batch, next, log>>
    BY <1>2 DEF SessionInv, Orderly, OneAtATime, HistoryIsLog, LogIsWhole,
                InProgress, OfSession
  <1>3. ASSUME NEW m \in Messages, RequestStep(m) \/ HandlerStep(m) \/ Fail(m)
        PROVE  SessionInv(s)'
    <2>1. OwnStep(m)
      BY <1>3, OwnSteps
    <2>2. CASE SessionOf[m] # s
      BY <2>1, <2>2, OthersSession
    <2>3. CASE SessionOf[m] = s
      <3>1. m \in OfSession(s) /\ Orderly(s)
            /\ (InProgress(m) \/ \A o \in OfSession(s) : ~InProgress(o))
        BY <1>1, <2>1, <2>3, OwnStepAlone DEF OfSession
      <3>2. ~Fail(m)
        <4>1. pc'[m] # "failed"
          BY <1>1, <3>1 DEF Orderly, OfSession
        <4>. QED
          BY <4>1 DEF Fail, Goto, TypeOK
      <3>3. CASE Listen(m)
        <4>1. PICK step \in {"listening"} : pc' = [pc EXCEPT ![m] = step]
          BY <3>3 DEF Listen, Goto
        <4>2. pc[m] = "idle" /\ UNCHANGED <<log, view>>
          BY <3>3 DEF Listen, tables
        <4>. QED
          BY <3>1, <4>1, <4>2, MoveKeeps DEF LoopSteps, MidBatch
      <3>4. CASE SendPublish(m)
        <4>1. PICK step \in {"received"} : pc' = [pc EXCEPT ![m] = step]
          BY <3>4 DEF SendPublish, Goto
        <4>2. pc[m] = "stored" /\ UNCHANGED <<log, view>>
          BY <3>4 DEF SendPublish, tables
        <4>. QED
          BY <3>1, <4>1, <4>2, MoveKeeps DEF LoopSteps, MidBatch
      <3>5. CASE LoadContext(m)
        <4>1. PICK step \in {"loaded", "no_context"} : pc' = [pc EXCEPT ![m] = step]
          BY <3>5 DEF LoadContext, Goto
        <4>2. pc[m] = "received" /\ UNCHANGED <<log, view>>
          BY <3>5 DEF LoadContext, tables
        <4>. QED
          BY <3>1, <4>1, <4>2, MoveKeeps DEF LoopSteps, MidBatch
      <3>6. CASE Screen(m)
        <4>1. PICK step \in {"refusing", "flagging", "screened"} : pc' = [pc EXCEPT ![m] = step]
          BY <3>6 DEF Screen, Goto
        <4>2. pc[m] = "loaded" /\ UNCHANGED <<log, view>>
          BY <3>6 DEF Screen, tables
        <4>. QED
          BY <3>1, <4>1, <4>2, MoveKeeps DEF LoopSteps, MidBatch
      <3>7. CASE PublishBlocked(m)
        <4>1. PICK step \in {"blocked"} : pc' = [pc EXCEPT ![m] = step]
          BY <3>7 DEF PublishBlocked, Goto
        <4>2. pc[m] = "blocking" /\ UNCHANGED <<log, view>>
          BY <3>7 DEF PublishBlocked, tables
        <4>. QED
          BY <3>1, <4>1, <4>2, MoveKeeps DEF LoopSteps, MidBatch
      <3>8. CASE Ask(m)
        <4>1. PICK step \in {"llm"} : pc' = [pc EXCEPT ![m] = step]
          BY <3>8 DEF Ask, Goto
        <4>2. pc[m] = "ask" /\ UNCHANGED <<log, view>>
          BY <3>8 DEF Ask, tables
        <4>. QED
          BY <3>1, <4>1, <4>2, MoveKeeps DEF LoopSteps, MidBatch
      <3>9. CASE LlmResult(m)
        <4>1. PICK step \in {"llm_error", "calls", "final"} : pc' = [pc EXCEPT ![m] = step]
          BY <3>9 DEF LlmResult, Goto
        <4>2. pc[m] = "llm" /\ UNCHANGED <<log, view>>
          BY <3>9 DEF LlmResult, tables
        <4>. QED
          BY <3>1, <4>1, <4>2, MoveKeeps DEF LoopSteps, MidBatch
      <3>10. CASE LlmTimeout(m)
        <4>1. PICK step \in {"llm_timeout"} : pc' = [pc EXCEPT ![m] = step]
          BY <3>10 DEF LlmTimeout, Goto
        <4>2. pc[m] = "llm" /\ UNCHANGED <<log, view>>
          BY <3>10 DEF LlmTimeout, tables
        <4>. QED
          BY <3>1, <4>1, <4>2, MoveKeeps DEF LoopSteps, MidBatch
      <3>11. CASE PublishError(m)
        <4>1. PICK step \in {"errored"} : pc' = [pc EXCEPT ![m] = step]
          BY <3>11 DEF PublishError, Goto
        <4>2. pc[m] \in {"no_context", "llm_error", "llm_timeout"} /\ UNCHANGED <<log, view>>
          BY <3>11 DEF PublishError, tables
        <4>. QED
          BY <3>1, <4>1, <4>2, MoveKeeps DEF LoopSteps, MidBatch
      <3>12. CASE RequestApproval(m)
        <4>1. PICK step \in {"gate"} : pc' = [pc EXCEPT ![m] = step]
          BY <3>12 DEF RequestApproval, Goto
        <4>2. pc[m] = "call" /\ UNCHANGED <<log, view, batch, next>>
          BY <3>12 DEF RequestApproval, tables
        <4>. QED
          BY <3>1, <4>1, <4>2, MoveKeeps DEF LoopSteps, MidBatch
      <3>13. CASE Gate(m)
        <4>1. PICK step \in {"dispatch", "refused"} : pc' = [pc EXCEPT ![m] = step]
          BY <3>13 DEF Gate, Goto
        <4>2. pc[m] = "gate" /\ UNCHANGED <<log, view, batch, next>>
          BY <3>13 DEF Gate, tables
        <4>. QED
          BY <3>1, <4>1, <4>2, MoveKeeps DEF LoopSteps, MidBatch
      <3>14. CASE Dispatch(m)
        <4>1. PICK step \in {"tool"} : pc' = [pc EXCEPT ![m] = step]
          BY <3>14 DEF Dispatch, Goto
        <4>2. pc[m] \in {"dispatch", "call"} /\ UNCHANGED <<log, view, batch, next>>
          BY <3>14 DEF Dispatch, tables
        <4>. QED
          BY <3>1, <4>1, <4>2, MoveKeeps DEF LoopSteps, MidBatch
      <3>15. CASE ToolResult(m)
        <4>1. PICK step \in {"result"} : pc' = [pc EXCEPT ![m] = step]
          BY <3>15 DEF ToolResult, Goto
        <4>2. pc[m] = "tool" /\ UNCHANGED <<log, view, batch, next>>
          BY <3>15 DEF ToolResult, tables
        <4>. QED
          BY <3>1, <4>1, <4>2, MoveKeeps DEF LoopSteps, MidBatch
      <3>16. CASE ToolTimeout(m)
        <4>1. PICK step \in {"timed_out"} : pc' = [pc EXCEPT ![m] = step]
          BY <3>16 DEF ToolTimeout, Goto
        <4>2. pc[m] = "tool" /\ UNCHANGED <<log, view, batch, next>>
          BY <3>16 DEF ToolTimeout, tables
        <4>. QED
          BY <3>1, <4>1, <4>2, MoveKeeps DEF LoopSteps, MidBatch
      <3>17. CASE RecordTokens(m)
        <4>1. PICK step \in {"reply"} : pc' = [pc EXCEPT ![m] = step]
          BY <3>17 DEF RecordTokens, Goto
        <4>2. pc[m] = "tokens" /\ UNCHANGED <<log, view>>
          BY <3>17 DEF RecordTokens, tables
        <4>. QED
          BY <3>1, <4>1, <4>2, MoveKeeps DEF LoopSteps, MidBatch
      <3>18. CASE Reply(m)
        <4>1. PICK step \in {"replied"} : pc' = [pc EXCEPT ![m] = step]
          BY <3>18 DEF Reply, Goto
        <4>2. pc[m] = "reply" /\ UNCHANGED <<log, view>>
          BY <3>18 DEF Reply, tables
        <4>. QED
          BY <3>1, <4>1, <4>2, MoveKeeps DEF LoopSteps, MidBatch
      <3>19. CASE SendStore(m)
        <4>1. PICK step \in {"stored"} : pc' = [pc EXCEPT ![m] = step] /\ pc[m] \in {"listening", "idle"}
          BY <3>19 DEF SendStore, Goto
        <4>2. PICK text \in Texts \ {"calls"} :
                  Insert(m, Row("user", text, m, 0))
          BY <3>19 DEF SendStore, Texts
        <4>3. PICK r \in Rows : Insert(m, r) /\ r.text # "calls"
          BY <4>2, RowTyped DEF Row
        <4>4. pc[m] \notin MidBatch /\ step \notin LoopSteps
          BY <4>1 DEF LoopSteps, MidBatch
        <4>. QED
          BY <3>1, <4>1, <4>3, <4>4, InsertKeeps
      <3>20. CASE StoreRejection(m)
        <4>1. PICK step \in {"blocking"} : pc' = [pc EXCEPT ![m] = step] /\ pc[m] \in {"refusing", "flagging"}
          BY <3>20 DEF StoreRejection, Goto
        <4>2. PICK text \in Texts \ {"calls"} :
                  Insert(m, Row("assistant", text, m, 0))
          BY <3>20 DEF StoreRejection, Texts
        <4>3. PICK r \in Rows : Insert(m, r) /\ r.text # "calls"
          BY <4>2, RowTyped DEF Row
        <4>4. pc[m] \notin MidBatch /\ step \notin LoopSteps
          BY <4>1 DEF LoopSteps, MidBatch
        <4>. QED
          BY <3>1, <4>1, <4>3, <4>4, InsertKeeps
      <3>21. CASE StoreReply(m)
        <4>1. PICK step \in {"tokens"} : pc' = [pc EXCEPT ![m] = step] /\ pc[m] \in {"final", "ask"}
          BY <3>21 DEF StoreReply, Goto
        <4>2. PICK text \in Texts \ {"calls"} :
                  Insert(m, Row("assistant", text, m, 0))
          BY <3>21 DEF StoreReply, Texts
        <4>3. PICK r \in Rows : Insert(m, r) /\ r.text # "calls"
          BY <4>2, RowTyped DEF Row
        <4>4. pc[m] \notin MidBatch /\ step \notin LoopSteps
          BY <4>1 DEF LoopSteps, MidBatch
        <4>. QED
          BY <3>1, <4>1, <4>3, <4>4, InsertKeeps
      <3>22. CASE LoadHistory(m)
        BY <3>1, <3>22, LoadKeeps
      <3>23. CASE StoreCalls(m)
        BY <3>1, <3>23, BatchBegins
      <3>24. CASE StoreResult(m)
        BY <3>1, <3>24, BatchGoesOn
      <3>. QED
        BY <1>3, <3>2, <3>3, <3>4, <3>5, <3>6, <3>7, <3>8, <3>9, <3>10, <3>11,
           <3>12, <3>13, <3>14, <3>15, <3>16, <3>17, <3>18, <3>19, <3>20, <3>21,
           <3>22, <3>23, <3>24
           DEF RequestStep, HandlerStep
    <2>. QED
      BY <2>2, <2>3
  <1>4. ASSUME NEW m \in Messages, ClientTimeout(m) \/ RouterRespond(m) \/ RunTool(m)
        PROVE  SessionInv(s)'
    BY <1>2, <1>4 DEF ClientTimeout, RouterRespond, RunTool, position, tables
  <1>5. ASSUME NEW o \in Sessions, DropContext(o) PROVE SessionInv(s)'
    BY <1>2, <1>5 DEF DropContext, position
  <1>. QED
    BY <1>2, <1>3, <1>4, <1>5 DEF Next, MessageStep, vars

\* While the users of a session wait for each answer and no handler fails, every
\* call in a request is answered, those of earlier messages too, for any number
\* of messages and whatever the other sessions do (agent-loop.ts:176-208).
THEOREM PatientHistoryWhole == Spec => []PatientHistoryIsWhole
  <1> DEFINE HInv == \A m \in Messages : HistoryInv(m)
             SInv == \A s \in Sessions : SessionInv(s)
  <1>1. Init => TInv /\ HInv /\ SInv
    <2>1. Init => SInv
      BY ConstantsAssumption
         DEF Init, SessionInv, OneAtATime, HistoryIsLog, LogIsWhole, AllCalls,
             LoopSteps, MidBatch, OfSession, InProgress
    <2>. QED
      BY <2>1, InitTInv, InitHistory
  <1>2. TInv /\ HInv /\ SInv /\ [Next]_vars => TInv' /\ HInv' /\ SInv'
    <2>1. TInv /\ HInv /\ SInv /\ [Next]_vars => SInv'
      BY PatientStep DEF TInv
    <2>. QED
      BY <2>1, TypeStep, HistoryStep DEF TInv
  <1>3. TInv /\ SInv => PatientHistoryIsWhole
    <2>1. SUFFICES ASSUME TInv, SInv, NEW m \in Messages, pc[m] = "llm",
                          Len(view[m]) < MaxHistoryMessages,
                          Orderly(SessionOf[m]),
                          NEW i \in AllCalls(view[m])
                   PROVE  CallsAnswered(view[m], i)
      BY DEF PatientHistoryIsWhole, Orderly, OfSession, AllCalls
    <2> DEFINE s == SessionOf[m]
    <2>2. s \in Sessions /\ m \in OfSession(s) /\ SessionInv(s)
      BY <2>1, ConstantsAssumption DEF OfSession
    <2>3. pc[m] \in LoopSteps /\ pc[m] \notin MidBatch /\ InProgress(m)
      BY <2>1 DEF LoopSteps, MidBatch, InProgress, Ends
    <2>4. view[m] = log[s]
      BY <2>1, <2>2, <2>3 DEF SessionInv, HistoryIsLog
    <2>. QED
      BY <2>1, <2>2, <2>3, <2>4, AloneBefore DEF Settled
  <1>. QED
    BY <1>1, <1>2, <1>3, PTL DEF Spec

-----------------------------------------------------------------------------
(* Sums over a finite set, whatever the order they are made in.            *)

Pick(U) == CHOOSE x \in U : TRUE

\* g is the sum of f over each of the sets in D.
Sums(g, f, D) ==
    \A U \in D : g[U] = IF U = {} THEN 0 ELSE f[Pick(U)] + g[U \ {Pick(U)}]

SumsOver(g, f, S) ==
    g = [U \in SUBSET S |->
            IF U = {} THEN 0 ELSE f[Pick(U)] + g[U \ {Pick(U)}]]

LEMMA SumExpanded ==
    ASSUME NEW f, NEW S
    PROVE  SumOver(f, S) =
              (CHOOSE g : SumsOver(g, f, S))[S]
  BY DEF SumOver, MapThenSumSet, MapThenFoldSet, Pick, SumsOver

LEMMA PickIn ==
    ASSUME NEW U, U # {}
    PROVE  Pick(U) \in U
  BY DEF Pick

LEMMA Smaller ==
    ASSUME NEW U, IsFiniteSet(U), NEW x \in U
    PROVE  /\ IsFiniteSet(U \ {x}) /\ Cardinality(U \ {x}) \in Nat
           /\ Cardinality(U \ {x}) = Cardinality(U) - 1 /\ Cardinality(U) \in Nat
  BY FS_RemoveElement, FS_CardinalityType

LEMMA SumsAgree ==
    ASSUME NEW f, NEW g, NEW h, NEW A, NEW B, NEW S, IsFiniteSet(S),
           S \subseteq A, S \subseteq B,
           Sums(g, f, SUBSET A), Sums(h, f, SUBSET B)
    PROVE  g[S] = h[S]
  <1> DEFINE P == {n \in Nat : \A U \in SUBSET S : Cardinality(U) = n => g[U] = h[U]}
  <1>1. \A U \in SUBSET S : IsFiniteSet(U) /\ Cardinality(U) \in Nat
    BY FS_Subset, FS_CardinalityType
  <1>2. 0 \in P
    <2>1. ASSUME NEW U \in SUBSET S, Cardinality(U) = 0 PROVE g[U] = h[U]
      <3>1. U = {}
        BY <1>1, <2>1, FS_EmptySet
      <3> QED BY <3>1 DEF Sums
    <2> QED BY <2>1
  <1>3. ASSUME NEW n \in Nat, n \in P PROVE n + 1 \in P
    <2> SUFFICES ASSUME NEW U \in SUBSET S, Cardinality(U) = n + 1
                 PROVE  g[U] = h[U]
      OBVIOUS
    <2>1. U # {}
      BY <1>1, FS_EmptySet
    <2> DEFINE x == Pick(U)
               V == U \ {x}
    <2>2. x \in U
      BY <2>1, PickIn
    <2> HIDE DEF x
    <2>3. V \in SUBSET S /\ Cardinality(V) = n
      BY <1>1, <2>2, Smaller
    <2>4. g[V] = h[V]
      BY <1>3, <2>3
    <2>5. g[U] = f[x] + g[V] /\ h[U] = f[x] + h[V]
      <3>1. U \in SUBSET A /\ U \in SUBSET B
        OBVIOUS
      <3> QED BY <2>1, <3>1 DEF Sums, x
    <2> QED BY <2>4, <2>5
  <1> HIDE DEF P
  <1>4. Cardinality(S) \in P
    BY <1>1, <1>2, <1>3, SetInduction
  <1> QED BY <1>4 DEF P

\* The sums over the subsets of a finite set exist.
LEMMA SumsExist ==
    ASSUME NEW f, NEW S, IsFiniteSet(S)
    PROVE  \E g : SumsOver(g, f, S)
  <1> DEFINE D(n) == {U \in SUBSET S : Cardinality(U) <= n}
             P == {n \in Nat : \E g : Sums(g, f, D(n))}
  <1>1. \A U \in SUBSET S : IsFiniteSet(U) /\ Cardinality(U) \in Nat
    BY FS_Subset, FS_CardinalityType
  <1>2. 0 \in P
    <2>1. \A U \in D(0) : U = {}
      BY <1>1, FS_EmptySet
    <2>2. Sums([U \in D(0) |-> 0], f, D(0))
      BY <2>1 DEF Sums
    <2> QED BY <2>2
  <1>3. ASSUME NEW n \in Nat, n \in P PROVE n + 1 \in P
    <2>1. PICK g : Sums(g, f, D(n))
      BY <1>3
    <2> DEFINE h == [U \in D(n + 1) |->
                        IF Cardinality(U) <= n THEN g[U]
                        ELSE f[Pick(U)] + g[U \ {Pick(U)}]]
    <2>2. ASSUME NEW U \in D(n + 1)
          PROVE  h[U] = IF U = {} THEN 0 ELSE f[Pick(U)] + h[U \ {Pick(U)}]
      <3>0. U \in SUBSET S /\ Cardinality(U) <= n + 1 /\ Cardinality(U) \in Nat
            /\ IsFiniteSet(U)
        BY <1>1
      <3>1. CASE U = {}
        <4>1. Cardinality(U) = 0
          BY <3>1, FS_EmptySet
        <4>2. U \in D(n)
          BY <3>0, <4>1
        <4>3. g[U] = 0
          BY <2>1, <3>1, <4>2 DEF Sums
        <4> QED BY <3>1, <4>1, <4>3
      <3>2. CASE U # {}
        <4> DEFINE x == Pick(U)
                   V == U \ {x}
        <4>1. x \in U
          BY <3>2, PickIn
        <4> HIDE DEF x
        <4>2. V \in SUBSET S /\ Cardinality(V) <= n /\ Cardinality(V) \in Nat
          BY <3>0, <4>1, Smaller
        <4>3. V \in D(n + 1) /\ h[V] = g[V]
          BY <4>2
        <4>4. h[U] = f[x] + g[V]
          <5>1. CASE Cardinality(U) <= n
            <6>1. U \in D(n)
              BY <3>0, <5>1
            <6>2. g[U] = f[x] + g[V]
              BY <2>1, <3>2, <6>1 DEF Sums, x
            <6> QED BY <5>1, <6>2
          <5>2. CASE ~(Cardinality(U) <= n)
            BY <5>2 DEF x
          <5> QED BY <5>1, <5>2
        <4> QED BY <3>2, <4>3, <4>4 DEF x
      <3> QED BY <3>1, <3>2
    <2>3. Sums(h, f, D(n + 1))
      <3> HIDE DEF h, D
      <3> QED BY <2>2 DEF Sums
    <2> HIDE DEF h, D
    <2>4. \E k : Sums(k, f, D(n + 1))
      BY <2>3
    <2> QED BY <2>4
  <1> HIDE DEF P
  <1>4. Cardinality(S) \in P
    BY <1>1, <1>2, <1>3, SetInduction
  <1>5. PICK g : Sums(g, f, D(Cardinality(S)))
    BY <1>4 DEF P
  <1>6. \A U \in SUBSET S : U \in D(Cardinality(S))
    <2> SUFFICES ASSUME NEW U \in SUBSET S PROVE Cardinality(U) <= Cardinality(S)
      OBVIOUS
    <2> QED BY FS_Subset
  <1> HIDE DEF D
  <1> DEFINE h == [U \in SUBSET S |-> g[U]]
  <1>7. ASSUME NEW U \in SUBSET S
        PROVE  h[U] = IF U = {} THEN 0 ELSE f[Pick(U)] + h[U \ {Pick(U)}]
    <2>1. g[U] = IF U = {} THEN 0 ELSE f[Pick(U)] + g[U \ {Pick(U)}]
      BY <1>5, <1>6 DEF Sums
    <2>2. U \ {Pick(U)} \in SUBSET S
      OBVIOUS
    <2> QED BY <2>1, <2>2
  <1>8. h = [U \in SUBSET S |-> IF U = {} THEN 0 ELSE f[Pick(U)] + h[U \ {Pick(U)}]]
    BY <1>7
  <1> HIDE DEF h
  <1> QED BY <1>8 DEF SumsOver

\* The sum over S is made of sums over its subsets.
LEMMA SumIsSums ==
    ASSUME NEW f, NEW S, IsFiniteSet(S)
    PROVE  \E g : Sums(g, f, SUBSET S) /\ SumOver(f, S) = g[S]
  <1>1. PICK g : g = CHOOSE k : SumsOver(k, f, S)
    OBVIOUS
  <1>2. SumsOver(g, f, S)
    BY <1>1, SumsExist
  <1>3. SumOver(f, S) = g[S]
    BY <1>1, SumExpanded
  <1>4. \A U \in SUBSET S : g[U] = IF U = {} THEN 0 ELSE f[Pick(U)] + g[U \ {Pick(U)}]
    BY <1>2 DEF SumsOver
  <1> QED BY <1>3, <1>4 DEF Sums

LEMMA SumOfNone ==
    ASSUME NEW f
    PROVE  SumOver(f, {}) = 0
  <1>1. IsFiniteSet({})
    BY FS_EmptySet
  <1>2. PICK g : Sums(g, f, SUBSET {}) /\ SumOver(f, {}) = g[{}]
    BY <1>1, SumIsSums
  <1> QED BY <1>2 DEF Sums

LEMMA SumByPick ==
    ASSUME NEW f, NEW S, IsFiniteSet(S), S # {}
    PROVE  SumOver(f, S) = f[Pick(S)] + SumOver(f, S \ {Pick(S)})
  <1> DEFINE V == S \ {Pick(S)}
  <1>1. IsFiniteSet(V)
    BY FS_Subset
  <1>2. PICK g : Sums(g, f, SUBSET S) /\ SumOver(f, S) = g[S]
    BY SumIsSums
  <1>3. PICK h : Sums(h, f, SUBSET V) /\ SumOver(f, V) = h[V]
    BY <1>1, SumIsSums
  <1>4. g[V] = h[V]
    <2>1. V \subseteq S /\ V \subseteq V
      OBVIOUS
    <2> HIDE DEF V
    <2> QED BY <1>1, <1>2, <1>3, <2>1, SumsAgree, SMTT(30)
  <1>5. g[S] = f[Pick(S)] + g[V]
    BY <1>2 DEF Sums
  <1> QED BY <1>2, <1>3, <1>4, <1>5

\* A sum of numbers is a number, and any member can be taken out of it.
LEMMA SumTakesOut ==
    ASSUME NEW S, IsFiniteSet(S), NEW f, \A x \in S : f[x] \in Nat
    PROVE  /\ SumOver(f, S) \in Nat
           /\ \A x \in S : SumOver(f, S) = f[x] + SumOver(f, S \ {x})
  <1> DEFINE OK(U) == /\ SumOver(f, U) \in Nat
                      /\ \A x \in U : SumOver(f, U) = f[x] + SumOver(f, U \ {x})
             P == {n \in Nat : \A U \in SUBSET S : Cardinality(U) <= n => OK(U)}
  <1>1. \A U \in SUBSET S : IsFiniteSet(U) /\ Cardinality(U) \in Nat
    BY FS_Subset, FS_CardinalityType
  <1>2. 0 \in P
    <2>1. ASSUME NEW U \in SUBSET S, Cardinality(U) <= 0 PROVE OK(U)
      <3>1. U = {}
        BY <1>1, <2>1, FS_EmptySet
      <3> QED BY <3>1, SumOfNone
    <2> QED BY <2>1
  <1>3. ASSUME NEW n \in Nat, n \in P PROVE n + 1 \in P
    <2> SUFFICES ASSUME NEW U \in SUBSET S, Cardinality(U) <= n + 1, U # {}
                 PROVE  OK(U)
      BY SumOfNone
    <2>1. U # {}
      OBVIOUS
    <2>2. PICK y : y = Pick(U)
      OBVIOUS
    <2>3. y \in U /\ f[y] \in Nat
      BY <2>1, <2>2, PickIn
    <2>4. SumOver(f, U) = f[y] + SumOver(f, U \ {y})
      BY <1>1, <2>1, <2>2, SumByPick
    <2>5. \A x \in U : U \ {x} \in SUBSET S /\ Cardinality(U \ {x}) <= n
      BY <1>1, Smaller
    <2>6. \A x \in U : OK(U \ {x})
      BY <1>3, <2>5
    <2>7. ASSUME NEW x \in U PROVE SumOver(f, U) = f[x] + SumOver(f, U \ {x})
      <3>1. CASE x = y
        BY <2>4, <3>1
      <3>2. CASE x # y
        <4>1. SumOver(f, U \ {y}) = f[x] + SumOver(f, (U \ {y}) \ {x})
          BY <2>3, <2>6, <3>2
        <4>2. SumOver(f, U \ {x}) = f[y] + SumOver(f, (U \ {x}) \ {y})
          BY <2>3, <2>6, <3>2
        <4>3. (U \ {y}) \ {x} = (U \ {x}) \ {y}
          OBVIOUS
        <4>4. PICK z : z = SumOver(f, (U \ {y}) \ {x})
          OBVIOUS
        <4>5. z \in Nat
          <5>1. (U \ {y}) \ {x} \in SUBSET S
            OBVIOUS
          <5>2. Cardinality((U \ {y}) \ {x}) <= n
            <6>1. x \in U \ {y}
              BY <3>2
            <6>2. PICK a \in Int, b \in Int :
                      a = Cardinality((U \ {y}) \ {x}) /\ b = Cardinality(U \ {y})
              BY <1>1, <2>3, <2>5, <5>1
            <6>3. a = b - 1
              BY <1>1, <2>3, <2>5, <6>1, <6>2, Smaller
            <6>4. b <= n
              BY <2>3, <2>5, <6>2
            <6> QED BY <6>2, <6>3, <6>4
          <5> QED BY <1>3, <4>4, <5>1, <5>2
        <4>6. f[x] \in Nat
          OBVIOUS
        <4>7. SumOver(f, U \ {y}) = f[x] + z /\ SumOver(f, U \ {x}) = f[y] + z
          BY <4>1, <4>2, <4>3, <4>4
        <4>8. f[y] + (f[x] + z) = f[x] + (f[y] + z)
          BY <2>3, <4>5, <4>6
        <4> QED BY <2>4, <4>7, <4>8
      <3> QED BY <3>1, <3>2
    <2> QED BY <2>3, <2>4, <2>6, <2>7
  <1> HIDE DEF P
  <1>4. Cardinality(S) \in P
    BY <1>1, <1>2, <1>3, SetInduction
  <1> QED BY <1>4 DEF P

\* The sum over S is that of any function with the same values on S.
LEMMA SumDependsOn ==
    ASSUME NEW S, IsFiniteSet(S), NEW f, NEW g, \A x \in S : f[x] = g[x]
    PROVE  SumOver(f, S) = SumOver(g, S)
  <1>1. PICK a : Sums(a, f, SUBSET S) /\ SumOver(f, S) = a[S]
    BY SumIsSums
  <1>2. PICK b : Sums(b, g, SUBSET S) /\ SumOver(g, S) = b[S]
    BY SumIsSums
  <1>3. Sums(b, f, SUBSET S)
    <2>1. ASSUME NEW U \in SUBSET S
          PROVE  b[U] = IF U = {} THEN 0 ELSE f[Pick(U)] + b[U \ {Pick(U)}]
      <3>1. b[U] = IF U = {} THEN 0 ELSE g[Pick(U)] + b[U \ {Pick(U)}]
        BY <1>2 DEF Sums
      <3>2. U # {} => Pick(U) \in S
        BY PickIn
      <3> QED BY <3>1, <3>2
    <2> QED BY <2>1 DEF Sums
  <1>4. a[S] = b[S]
    <2>1. S \subseteq S
      OBVIOUS
    <2> QED BY <1>1, <1>3, <2>1, SumsAgree
  <1> QED BY <1>1, <1>2, <1>4

-----------------------------------------------------------------------------
(* The transcript of a message.                                            *)
(*                                                                         *)
(* Before the loop the log holds no row of the handler's calls; from then  *)
(* on each of them goes into the log and the messages array, and rows of   *)
(* other handlers into the log between them.                               *)

Told == {"ask", "llm", "calls", "final", "tokens", "reply"} \cup MidBatch

Transcript(m) ==
    /\ pc[m] \in BeforeLoop =>
          \A i \in DOMAIN log[SessionOf[m]] : log[SessionOf[m]][i] \notin OwnRows(m)
    /\ pc[m] \in Told =>
          Keep(log[SessionOf[m]], OwnRows(m)) = Keep(view[m], OwnRows(m))

\* What a step of m may do to its transcript.
TranscriptMove(m) ==
    \E step \in Steps \cup Ends :
        /\ pc' = [pc EXCEPT ![m] = step]
        /\ \/ /\ step \in BeforeLoop => pc[m] \in BeforeLoop
              /\ step \in Told => pc[m] \in Told
              /\ view' = view
              /\ \/ log' = log
                 \/ \E r \in Rows : /\ r.of = m /\ r \notin OwnRows(m)
                                    /\ Insert(m, r)
           \/ /\ pc[m] \in Told /\ step \in Told
              /\ \E r \in Rows : r.of = m /\ InsertAndPush(m, r)
           \/ /\ pc[m] \in BeforeLoop /\ step \in Told
              /\ log' = log
              /\ view' = [view EXCEPT ![m] =
                             LastRows(log[SessionOf[m]], MaxHistoryMessages)]

LEMMA TranscriptMoves ==
    ASSUME TypeOK, NEW m \in Messages, RequestStep(m) \/ HandlerStep(m) \/ Fail(m)
    PROVE  TranscriptMove(m)
  <1> USE DEF TranscriptMove, Goto, tables, Steps, Ends, BeforeLoop, Told, MidBatch
  <1>0. \A text \in Texts, role \in {"user", "assistant", "tool"}, n \in Nat :
            /\ Row(role, text, m, n) \in Rows /\ Row(role, text, m, n).of = m
            /\ text \notin {"calls", "result", "refusal", "timeout"} =>
                   Row(role, text, m, n) \notin OwnRows(m)
    BY DEF Row, Rows, OwnRows, Own
  <1>t. {"raw", "clean", "calls", "reply", "fallback", "rejection", "flag",
         "result", "refusal", "timeout"} \subseteq Texts /\ 0 \in Nat
    BY DEF Texts
  <1>1. CASE Listen(m)
    BY <1>1 DEF Listen
  <1>2. CASE SendStore(m)
    BY <1>0, <1>t, <1>2 DEF SendStore
  <1>3. CASE SendPublish(m)
    BY <1>3 DEF SendPublish
  <1>4. CASE LoadContext(m)
    <2>1. PICK step \in {"loaded", "no_context"} : pc' = [pc EXCEPT ![m] = step]
      BY <1>4 DEF LoadContext
    <2> QED BY <1>4, <2>1 DEF LoadContext
  <1>5. CASE Screen(m)
    BY <1>5 DEF Screen
  <1>6. CASE StoreRejection(m)
    BY <1>0, <1>t, <1>6 DEF StoreRejection
  <1>7. CASE PublishBlocked(m)
    BY <1>7 DEF PublishBlocked
  <1>8. CASE LoadHistory(m)
    BY <1>8 DEF LoadHistory
  <1>9. CASE Ask(m)
    BY <1>9 DEF Ask
  <1>10. CASE LlmResult(m)
    BY <1>10 DEF LlmResult
  <1>11. CASE LlmTimeout(m)
    BY <1>11 DEF LlmTimeout
  <1>12. CASE PublishError(m)
    BY <1>12 DEF PublishError
  <1>13. CASE StoreCalls(m)
    <2>1. Len(batch[m]) \in Nat
      BY DEF TypeOK
    <2> QED BY <1>0, <1>t, <1>13, <2>1 DEF StoreCalls
  <1>14. CASE RequestApproval(m)
    BY <1>14 DEF RequestApproval
  <1>15. CASE Gate(m)
    BY <1>15 DEF Gate
  <1>16. CASE Dispatch(m)
    BY <1>16 DEF Dispatch
  <1>17. CASE ToolResult(m)
    BY <1>17 DEF ToolResult
  <1>18. CASE ToolTimeout(m)
    BY <1>18 DEF ToolTimeout
  <1>19. CASE StoreResult(m)
    <2>1. next[m] \in Nat /\ ResultText(m) \in {"result", "refusal", "timeout"}
      BY DEF TypeOK, ResultText
    <2>2. \E r \in Rows : r.of = m /\ InsertAndPush(m, r)
      BY <1>0, <1>t, <1>19, <2>1 DEF StoreResult
    <2>3. PICK step \in {"call", "ask"} : pc' = [pc EXCEPT ![m] = step]
      BY <1>19 DEF StoreResult
    <2>4. pc[m] \in MidBatch
      BY <1>19 DEF StoreResult
    <2> QED BY <2>2, <2>3, <2>4
  <1>20. CASE StoreReply(m)
    BY <1>0, <1>t, <1>20 DEF StoreReply
  <1>21. CASE RecordTokens(m)
    BY <1>21 DEF RecordTokens
  <1>22. CASE Reply(m)
    BY <1>22 DEF Reply
  <1>23. CASE Fail(m)
    BY <1>23 DEF Fail
  <1> QED BY <1>1, <1>2, <1>3, <1>4, <1>5, <1>6, <1>7, <1>8, <1>9, <1>10, <1>11,
       <1>12, <1>13, <1>14, <1>15, <1>16, <1>17, <1>18, <1>19, <1>20, <1>21,
       <1>22, <1>23
       DEF RequestStep, HandlerStep

\* A row that is not of m's calls leaves what the log says of them.
LEMMA OthersRow ==
    ASSUME NEW rows \in Seq(Rows), NEW r \in Rows, NEW m \in Messages,
           r \notin OwnRows(m)
    PROVE  /\ Keep(Append(rows, r), OwnRows(m)) = Keep(rows, OwnRows(m))
           /\ (\A i \in DOMAIN rows : rows[i] \notin OwnRows(m)) =>
                 \A i \in DOMAIN Append(rows, r) : Append(rows, r)[i] \notin OwnRows(m)
  <1>1. Keep(Append(rows, r), OwnRows(m)) = Keep(rows, OwnRows(m))
    BY KeepAppend
  <1>2. ASSUME NEW i \in DOMAIN Append(rows, r), i \notin DOMAIN rows
        PROVE  Append(rows, r)[i] = r
    BY <1>2
  <1>3. \A i \in DOMAIN rows : Append(rows, r)[i] = rows[i]
    OBVIOUS
  <1> QED BY <1>1, <1>2, <1>3

LEMMA LastRowsNotOwn ==
    ASSUME NEW rows \in Seq(Rows), NEW m \in Messages,
           \A i \in DOMAIN rows : rows[i] \notin OwnRows(m)
    PROVE  Keep(LastRows(rows, MaxHistoryMessages), OwnRows(m)) = Keep(rows, OwnRows(m))
  <1>1. MaxHistoryMessages \in Nat \ {0}
    BY ConstantsAssumption
  <1>2. PICK last \in Seq(Rows) : last = LastRows(rows, MaxHistoryMessages)
    BY <1>1, LastRowsTyped
  <1>3. \A i \in DOMAIN last : \E j \in DOMAIN rows : last[i] = rows[j]
    BY <1>1, <1>2, LastRowsFrom
  <1>4. /\ \A i \in 1 .. Len(last) : last[i] \notin OwnRows(m)
        /\ \A i \in 1 .. Len(rows) : rows[i] \notin OwnRows(m)
    BY <1>3
  <1>5. Keep(last, OwnRows(m)) = << >> /\ Keep(rows, OwnRows(m)) = << >>
    BY <1>4, KeepNone
  <1> QED BY <1>2, <1>5

LEMMA TranscriptKept ==
    ASSUME TypeOK, NEW m \in Messages, Transcript(m), NEW o \in Messages,
           TranscriptMove(o)
    PROVE  Transcript(m)'
  <1>1. PICK s \in Sessions, rows \in Seq(Rows), mine \in Seq(Rows) :
            s = SessionOf[m] /\ rows = log[s] /\ mine = view[m]
    <2>1. SessionOf[m] \in Sessions
      BY ConstantsAssumption
    <2>2. log[SessionOf[m]] \in Seq(Rows) /\ view[m] \in Seq(Rows)
      BY <2>1 DEF TypeOK
    <2> QED BY <2>1, <2>2
  <1>2. s \in Sessions /\ SessionOf[o] \in Sessions
    BY <1>1, ConstantsAssumption
  <1>3. PICK step \in Steps \cup Ends : TranscriptMove(o)!(step)
    BY DEF TranscriptMove
  <1>4. pc'[o] = step /\ \A p \in Messages \ {o} : pc'[p] = pc[p]
    BY <1>3 DEF TypeOK
  <1>old. /\ pc[m] \in BeforeLoop => \A i \in DOMAIN rows : rows[i] \notin OwnRows(m)
          /\ pc[m] \in Told => Keep(rows, OwnRows(m)) = Keep(mine, OwnRows(m))
    BY <1>1 DEF Transcript
  <1>a. ASSUME pc'[m] \in BeforeLoop => pc[m] \in BeforeLoop,
               pc'[m] \in Told => pc[m] \in Told,
               view'[m] = mine, log'[s] = rows
        PROVE  Transcript(m)'
    BY <1>1, <1>a, <1>old DEF Transcript
  <1>b. ASSUME pc'[m] \in BeforeLoop => pc[m] \in BeforeLoop,
               pc'[m] \in Told => pc[m] \in Told,
               view'[m] = mine, NEW r \in Rows, r \notin OwnRows(m),
               log'[s] = Append(rows, r)
        PROVE  Transcript(m)'
    BY <1>1, <1>b, <1>old, OthersRow DEF Transcript
  <1>c. \A r \in Rows : Insert(o, r) =>
            log'[s] = IF SessionOf[o] = s THEN Append(rows, r) ELSE rows
    BY <1>1, <1>2 DEF Insert, TypeOK
  <1>d. \A r \in Rows : r.of = o /\ o # m => r \notin OwnRows(m)
    BY DEF OwnRows, Own
  <1>5. CASE o # m
    <2>1. pc'[m] = pc[m]
      BY <1>4, <1>5
    <2>2. view'[m] = mine
      BY <1>1, <1>3, <1>5 DEF InsertAndPush, TypeOK
    <2>3. log' = log \/ \E r \in Rows : r.of = o /\ Insert(o, r)
      BY <1>3 DEF InsertAndPush
    <2>4. CASE log' = log
      BY <1>1, <1>a, <2>1, <2>2, <2>4
    <2>5. ASSUME NEW r \in Rows, r.of = o, Insert(o, r) PROVE Transcript(m)'
      BY <1>5, <1>a, <1>b, <1>c, <1>d, <2>1, <2>2, <2>5
    <2> QED BY <2>3, <2>4, <2>5
  <1>6. CASE o = m
    <2>1. CASE /\ step \in BeforeLoop => pc[m] \in BeforeLoop
               /\ step \in Told => pc[m] \in Told
               /\ view' = view
               /\ \/ log' = log
                  \/ \E r \in Rows : /\ r.of = m /\ r \notin OwnRows(m)
                                     /\ Insert(m, r)
      <3>1. CASE log' = log
        BY <1>1, <1>4, <1>6, <1>a, <2>1, <3>1
      <3>2. ASSUME NEW r \in Rows, r \notin OwnRows(m), Insert(m, r)
            PROVE Transcript(m)'
        BY <1>1, <1>4, <1>6, <1>b, <1>c, <2>1, <3>2
      <3> QED BY <2>1, <3>1, <3>2
    <2>2. CASE /\ pc[m] \in Told /\ step \in Told
               /\ \E r \in Rows : r.of = m /\ InsertAndPush(m, r)
      <3>1. PICK r \in Rows : r.of = m /\ InsertAndPush(m, r)
        BY <2>2
      <3>2. log'[s] = Append(rows, r) /\ view'[m] = Append(mine, r)
        BY <1>1, <1>6, <1>c, <3>1 DEF InsertAndPush, TypeOK
      <3>3. Keep(Append(rows, r), OwnRows(m)) = Keep(Append(mine, r), OwnRows(m))
        <4>1. Keep(Append(rows, r), OwnRows(m)) =
                  IF r \in OwnRows(m) THEN Append(Keep(rows, OwnRows(m)), r)
                  ELSE Keep(rows, OwnRows(m))
          BY KeepAppend
        <4>2. Keep(Append(mine, r), OwnRows(m)) =
                  IF r \in OwnRows(m) THEN Append(Keep(mine, OwnRows(m)), r)
                  ELSE Keep(mine, OwnRows(m))
          BY KeepAppend
        <4> QED BY <1>old, <2>2, <4>1, <4>2
      <3>4. step \notin BeforeLoop
        BY <2>2 DEF Told, BeforeLoop, MidBatch
      <3> QED BY <1>1, <1>4, <1>6, <3>2, <3>3, <3>4 DEF Transcript
    <2>3. CASE /\ pc[m] \in BeforeLoop /\ step \in Told
               /\ log' = log
               /\ view' = [view EXCEPT ![m] =
                             LastRows(log[SessionOf[m]], MaxHistoryMessages)]
      <3>1. log'[s] = rows /\ view'[m] = LastRows(rows, MaxHistoryMessages)
        BY <1>1, <2>3 DEF TypeOK
      <3>2. Keep(rows, OwnRows(m))
              = Keep(LastRows(rows, MaxHistoryMessages), OwnRows(m))
        BY <1>old, <2>3, LastRowsNotOwn
      <3>3. step \notin BeforeLoop
        BY <2>3 DEF Told, BeforeLoop, MidBatch
      <3> QED BY <1>1, <1>4, <1>6, <3>1, <3>2, <3>3 DEF Transcript
    <2> QED BY <1>3, <1>6, <2>1, <2>2, <2>3
  <1> QED BY <1>5, <1>6

LEMMA InitTranscripts == Init => \A m \in Messages : Transcript(m)
  BY ConstantsAssumption DEF Init, Transcript, Told, MidBatch

LEMMA TranscriptStep ==
    TypeOK /\ (\A m \in Messages : Transcript(m)) /\ [Next]_vars
        => \A m \in Messages : Transcript(m)'
  <1> SUFFICES ASSUME TypeOK, \A o \in Messages : Transcript(o), [Next]_vars,
                      NEW m \in Messages
               PROVE  Transcript(m)'
    OBVIOUS
  <1>1. ASSUME NEW o \in Messages, RequestStep(o) \/ HandlerStep(o) \/ Fail(o)
        PROVE  Transcript(m)'
    BY <1>1, TranscriptMoves, TranscriptKept
  <1>2. ASSUME pc' = pc, log' = log, view' = view PROVE Transcript(m)'
    BY <1>2 DEF Transcript
  <1>3. ASSUME NEW o \in Messages, ClientTimeout(o) \/ RouterRespond(o) \/ RunTool(o)
        PROVE  Transcript(m)'
    BY <1>2, <1>3 DEF ClientTimeout, RouterRespond, RunTool, position, tables
  <1>4. ASSUME NEW s \in Sessions, DropContext(s) PROVE Transcript(m)'
    BY <1>2, <1>4 DEF DropContext, position
  <1>5. CASE UNCHANGED vars
    BY <1>2, <1>5, SMTT(30) DEF vars
  <1> QED BY <1>1, <1>3, <1>4, <1>5 DEF Next, MessageStep

-----------------------------------------------------------------------------
(* The count of tokens.                                                    *)

Answered == {"reply", "replied"}
Over     == {"reply", "replied", "failed"}

Started == {m \in Messages : pc[m] # "idle"}

TokensInv == AnsweredTokensCounted /\ IsFiniteSet(Started)

\* What a step of m may do to the counts.
TokensMove(m) ==
    \E step \in Steps \cup Ends :
        /\ pc' = [pc EXCEPT ![m] = step] /\ pc[m] # "failed"
        /\ \/ /\ tokensUsed' = tokensUsed
              /\ \/ total' = total
                 \/ /\ pc[m] \notin Over /\ step \notin Over
                    /\ \E n \in Nat : total' = [total EXCEPT ![m] = n]
              /\ step \in Answered <=> (pc[m] \in Answered /\ step # "failed")
           \/ /\ pc[m] \notin Over /\ step \in Answered
              /\ total' = total
              /\ tokensUsed' = [tokensUsed EXCEPT ![SessionOf[m]] = @ + total[m]]

LEMMA TokensMoves ==
    ASSUME TypeOK, NEW m \in Messages, RequestStep(m) \/ HandlerStep(m) \/ Fail(m)
    PROVE  TokensMove(m)
  <1> USE DEF TokensMove, Goto, tables, Steps, Ends, Answered, Over
  <1>1. CASE Listen(m)
    BY <1>1 DEF Listen
  <1>2. CASE SendStore(m)
    BY <1>2 DEF SendStore
  <1>3. CASE SendPublish(m)
    BY <1>3 DEF SendPublish
  <1>4. CASE LoadContext(m)
    <2>1. PICK step \in {"loaded", "no_context"} : pc' = [pc EXCEPT ![m] = step]
      BY <1>4 DEF LoadContext
    <2> QED BY <1>4, <2>1 DEF LoadContext
  <1>5. CASE Screen(m)
    BY <1>5 DEF Screen
  <1>6. CASE StoreRejection(m)
    BY <1>6 DEF StoreRejection
  <1>7. CASE PublishBlocked(m)
    BY <1>7 DEF PublishBlocked
  <1>8. CASE LoadHistory(m)
    BY <1>8 DEF LoadHistory
  <1>9. CASE Ask(m)
    BY <1>9 DEF Ask
  <1>10. CASE LlmResult(m)
    <2>1. PICK r \in Answers : r = llm[m]
      BY <1>10 DEF LlmResult, TypeOK
    <2>2. total[m] + r.tokens \in Nat
      BY DEF Answers, TypeOK
    <2>3. PICK n \in Nat : total' = [total EXCEPT ![m] = n]
      BY <1>10, <2>1, <2>2 DEF LlmResult
    <2>4. PICK step \in {"llm_error", "calls", "final"} : pc' = [pc EXCEPT ![m] = step]
      BY <1>10 DEF LlmResult
    <2> QED BY <1>10, <2>3, <2>4 DEF LlmResult
  <1>11. CASE LlmTimeout(m)
    BY <1>11 DEF LlmTimeout
  <1>12. CASE PublishError(m)
    BY <1>12 DEF PublishError
  <1>13. CASE StoreCalls(m)
    BY <1>13 DEF StoreCalls
  <1>14. CASE RequestApproval(m)
    BY <1>14 DEF RequestApproval
  <1>15. CASE Gate(m)
    BY <1>15 DEF Gate
  <1>16. CASE Dispatch(m)
    BY <1>16 DEF Dispatch
  <1>17. CASE ToolResult(m)
    BY <1>17 DEF ToolResult
  <1>18. CASE ToolTimeout(m)
    BY <1>18 DEF ToolTimeout
  <1>19. CASE StoreResult(m)
    BY <1>19 DEF StoreResult
  <1>20. CASE StoreReply(m)
    BY <1>20 DEF StoreReply
  <1>21. CASE RecordTokens(m)
    BY <1>21 DEF RecordTokens
  <1>22. CASE Reply(m)
    BY <1>22 DEF Reply
  <1>23. CASE Fail(m)
    BY <1>23 DEF Fail
  <1> QED BY <1>1, <1>2, <1>3, <1>4, <1>5, <1>6, <1>7, <1>8, <1>9, <1>10, <1>11,
       <1>12, <1>13, <1>14, <1>15, <1>16, <1>17, <1>18, <1>19, <1>20, <1>21,
       <1>22, <1>23
       DEF RequestStep, HandlerStep

\* One more or one less in a sum of numbers.
LEMMA SumWith ==
    ASSUME NEW S, IsFiniteSet(S), NEW f, NEW m, m \notin S,
           \A x \in S \cup {m} : f[x] \in Nat
    PROVE  /\ SumOver(f, S) \in Nat
           /\ SumOver(f, S \cup {m}) = f[m] + SumOver(f, S)
  <1>1. IsFiniteSet(S \cup {m})
    BY FS_AddElement
  <1>2. (S \cup {m}) \ {m} = S
    OBVIOUS
  <1>3. SumOver(f, S) \in Nat
    BY SumTakesOut
  <1>4. SumOver(f, S \cup {m}) = f[m] + SumOver(f, (S \cup {m}) \ {m})
    BY <1>1, SumTakesOut
  <1> QED BY <1>2, <1>3, <1>4

LEMMA SumsOrdered ==
    ASSUME NEW S, IsFiniteSet(S), NEW f, NEW m, \A x \in S \cup {m} : f[x] \in Nat
    PROVE  /\ SumOver(f, S) \in Nat
           /\ SumOver(f, S \cup {m}) \in Nat /\ SumOver(f, S) <= SumOver(f, S \cup {m})
           /\ SumOver(f, S \ {m}) \in Nat /\ SumOver(f, S \ {m}) <= SumOver(f, S)
  <1>1. IsFiniteSet(S \ {m})
    BY FS_Subset
  <1>2. CASE m \in S
    <2>1. S \cup {m} = S /\ m \notin S \ {m} /\ (S \ {m}) \cup {m} = S
      BY <1>2
    <2>2. /\ SumOver(f, S \ {m}) \in Nat
          /\ SumOver(f, (S \ {m}) \cup {m}) = f[m] + SumOver(f, S \ {m})
      BY <1>1, <2>1, SumWith
    <2>3. SumOver(f, S \cup {m}) = SumOver(f, S)
      BY <2>1, Zenon
    <2>4. SumOver(f, S) = f[m] + SumOver(f, S \ {m})
      BY <2>1, <2>2, Zenon
    <2> QED BY <1>2, <2>2, <2>3, <2>4
  <1>3. CASE m \notin S
    <2>1. S \ {m} = S
      BY <1>3
    <2>2. /\ SumOver(f, S) \in Nat
          /\ SumOver(f, S \cup {m}) = f[m] + SumOver(f, S)
      BY <1>3, SumWith
    <2> QED BY <2>1, <2>2
  <1> QED BY <1>2, <1>3

LEMMA TokensKept ==
    ASSUME TypeOK, TokensInv, NEW m \in Messages, TokensMove(m)
    PROVE  TokensInv'
  <1> USE DEF Answered, Over
  <1>1. PICK step \in Steps \cup Ends : TokensMove(m)!(step)
    BY DEF TokensMove
  <1>2. PICK f \in [Messages -> Nat], g \in [Messages -> Nat] : f = total /\ g = total'
    BY <1>1 DEF TypeOK
  <1>3. \A x \in Messages \ {m} : f[x] = g[x]
    BY <1>1, <1>2
  <1>4. IsFiniteSet(Started')
    <2>1. PICK U : U = Started
      OBVIOUS
    <2>2. PICK V : V = Started'
      OBVIOUS
    <2>3. V \subseteq U \cup {m}
      BY <1>1, <2>1, <2>2 DEF Started, TypeOK
    <2>4. IsFiniteSet(U \cup {m})
      BY <2>1, FS_AddElement DEF TokensInv
    <2>5. IsFiniteSet(V)
      BY <2>3, <2>4, FS_Subset
    <2> QED BY <2>2, <2>5
  <1>5. ASSUME NEW s \in Sessions
        PROVE  /\ SumOver(total, HandlersAt(s, Answered))' <= tokensUsed'[s]
               /\ tokensUsed'[s] <= SumOver(total, HandlersAt(s, Over))'
    <2>1. PICK A, B : A = HandlersAt(s, Answered) /\ B = HandlersAt(s, Over)
      OBVIOUS
    <2>2. PICK A1, B1 : A1 = HandlersAt(s, Answered)' /\ B1 = HandlersAt(s, Over)'
      OBVIOUS
    <2>3. PICK u \in Nat : u = tokensUsed[s]
      BY DEF TypeOK
    <2>4. A \subseteq B /\ B \subseteq Messages /\ B \subseteq Started
      BY <2>1 DEF HandlersAt, Started
    <2>5. IsFiniteSet(A) /\ IsFiniteSet(B) /\ IsFiniteSet(B \cup {m})
      BY <2>4, FS_Subset, FS_AddElement DEF TokensInv
    <2>6. SumOver(f, A) <= u /\ u <= SumOver(f, B)
      BY <1>2, <2>1, <2>3 DEF TokensInv, AnsweredTokensCounted
    <2>7. A1 = IF SessionOf[m] = s /\ step \in Answered THEN A \cup {m} ELSE A \ {m}
      BY <1>1, <2>1, <2>2 DEF HandlersAt, TypeOK
    <2>8. B1 = IF SessionOf[m] = s /\ step \in Over THEN B \cup {m} ELSE B \ {m}
      BY <1>1, <2>1, <2>2, SMTT(30) DEF HandlersAt, TypeOK
    <2>9. /\ SumOver(f, A) \in Nat
          /\ SumOver(f, A \cup {m}) \in Nat /\ SumOver(f, A) <= SumOver(f, A \cup {m})
          /\ SumOver(f, A \ {m}) \in Nat /\ SumOver(f, A \ {m}) <= SumOver(f, A)
      BY <2>4, <2>5, SumsOrdered
    <2>10. /\ SumOver(f, B) \in Nat
           /\ SumOver(f, B \cup {m}) \in Nat /\ SumOver(f, B) <= SumOver(f, B \cup {m})
      BY <2>4, <2>5, SumsOrdered
    <2>11. m \in A <=> SessionOf[m] = s /\ pc[m] \in Answered
      BY <2>1 DEF HandlersAt
    <2>12. m \in B <=> SessionOf[m] = s /\ pc[m] \in Over
      BY <2>1 DEF HandlersAt
    <2>13. IsFiniteSet(A1) /\ IsFiniteSet(B1)
      <3>1. A1 \subseteq B \cup {m} /\ B1 \subseteq B \cup {m}
        BY <2>4, <2>7, <2>8
      <3> QED BY <2>5, <3>1, FS_Subset
    <2>a. SUFFICES /\ SumOver(g, A1) <= tokensUsed'[s]
                   /\ tokensUsed'[s] <= SumOver(g, B1)
      BY <1>2, <2>2
    <2>b. ASSUME \A x \in A1 \cup B1 : f[x] = g[x]
          PROVE  SumOver(g, A1) = SumOver(f, A1) /\ SumOver(g, B1) = SumOver(f, B1)
      BY <2>13, <2>b, SumDependsOn
    <2>14. CASE SessionOf[m] # s
      <3>1. m \notin A /\ m \notin B /\ A1 = A /\ B1 = B
        BY <2>7, <2>8, <2>11, <2>12, <2>14
      <3>2. \A x \in A1 \cup B1 : f[x] = g[x]
        BY <1>3, <2>4, <3>1
      <3>3. tokensUsed'[s] = u
        BY <1>1, <2>3, <2>14 DEF TypeOK
      <3> QED BY <2>6, <2>b, <3>1, <3>2, <3>3
    <2>15. ASSUME SessionOf[m] = s, tokensUsed' = tokensUsed,
                  \/ total' = total
                  \/ pc[m] \notin Over /\ step \notin Over,
                  step \in Answered <=> (pc[m] \in Answered /\ step # "failed")
           PROVE  /\ SumOver(g, A1) <= tokensUsed'[s]
                  /\ tokensUsed'[s] <= SumOver(g, B1)
      <3>1. A1 = A \/ A1 = A \ {m}
        BY <2>7, <2>11, <2>15
      <3>2. B1 = B \/ B1 = B \cup {m}
        BY <1>1, <2>8, <2>12, <2>15
      <3>3. \A x \in A1 \cup B1 : f[x] = g[x]
        <4>1. CASE total' = total
          BY <1>2, <4>1
        <4>2. CASE pc[m] \notin Over /\ step \notin Over
          <5>1. m \notin A1 /\ m \notin B1 /\ A1 \subseteq B /\ B1 \subseteq B
            BY <2>4, <2>7, <2>8, <2>11, <2>12, <4>2
          <5> QED BY <1>3, <2>4, <5>1
        <4> QED BY <2>15, <4>1, <4>2
      <3>4. tokensUsed'[s] = u
        BY <2>3, <2>15
      <3>5. SumOver(f, A1) \in Nat /\ SumOver(f, A1) <= SumOver(f, A)
        BY <2>9, <3>1
      <3>6. SumOver(f, B1) \in Nat /\ SumOver(f, B) <= SumOver(f, B1)
        <4>1. CASE B1 = B
          BY <2>10, <4>1
        <4>2. CASE B1 = B \cup {m}
          <5>1. SumOver(f, B1) = SumOver(f, B \cup {m})
            BY <4>2, Zenon
          <5> QED BY <2>10, <5>1
        <4> QED BY <3>2, <4>1, <4>2
      <3>7. SumOver(g, A1) = SumOver(f, A1) /\ SumOver(g, B1) = SumOver(f, B1)
        BY <2>b, <3>3
      <3>8. SumOver(f, A1) <= u /\ u <= SumOver(f, B1)
        BY <2>6, <2>9, <2>10, <3>5, <3>6
      <3> QED BY <3>4, <3>7, <3>8
    <2>16. ASSUME SessionOf[m] = s, pc[m] \notin Over, step \in Answered,
                  total' = total,
                  tokensUsed' = [tokensUsed EXCEPT ![SessionOf[m]] = @ + total[m]]
           PROVE  /\ SumOver(g, A1) <= tokensUsed'[s]
                  /\ tokensUsed'[s] <= SumOver(g, B1)
      <3>1. m \notin A /\ m \notin B /\ A1 = A \cup {m} /\ B1 = B \cup {m}
        BY <2>7, <2>8, <2>11, <2>12, <2>16
      <3>2. f = g
        BY <1>2, <2>16
      <3>3. tokensUsed'[s] = u + f[m]
        BY <1>2, <2>3, <2>16 DEF TypeOK
      <3>4. SumOver(f, A1) = f[m] + SumOver(f, A) /\ SumOver(f, B1) = f[m] + SumOver(f, B)
        BY <2>4, <2>5, <3>1, SumWith
      <3>5. f[m] \in Nat
        OBVIOUS
      <3>6. f[m] + SumOver(f, A) <= u + f[m] /\ u + f[m] <= f[m] + SumOver(f, B)
        BY <2>6, <2>9, <2>10, <3>5
      <3> QED BY <3>2, <3>3, <3>4, <3>6
    <2> QED BY <1>1, <2>14, <2>15, <2>16
  <1> QED BY <1>4, <1>5 DEF TokensInv, AnsweredTokensCounted

LEMMA InitTokens == Init => TokensInv
  <1> SUFFICES ASSUME Init PROVE TokensInv
    OBVIOUS
  <1>1. Started = {}
    BY DEF Init, Started
  <1>2. ASSUME NEW s \in Sessions
        PROVE  /\ HandlersAt(s, Answered) = {}
               /\ HandlersAt(s, Over) = {}
               /\ tokensUsed[s] = 0
    BY DEF Init, HandlersAt, Answered, Over
  <1>3. SumOver(total, {}) = 0
    BY SumOfNone
  <1>4. ASSUME NEW s \in Sessions
        PROVE  /\ SumOver(total, HandlersAt(s, Answered)) <= tokensUsed[s]
               /\ tokensUsed[s] <= SumOver(total, HandlersAt(s, Over))
    BY <1>2, <1>3
  <1>5. IsFiniteSet(Started)
    BY <1>1, FS_EmptySet
  <1> QED BY <1>4, <1>5 DEF TokensInv, AnsweredTokensCounted, Answered, Over

LEMMA TokensStep == TypeOK /\ TokensInv /\ [Next]_vars => TokensInv'
  <1> SUFFICES ASSUME TypeOK, TokensInv, [Next]_vars PROVE TokensInv'
    OBVIOUS
  <1>1. ASSUME NEW m \in Messages, RequestStep(m) \/ HandlerStep(m) \/ Fail(m)
        PROVE  TokensInv'
    BY <1>1, TokensMoves, TokensKept
  <1>2. ASSUME pc' = pc, total' = total, tokensUsed' = tokensUsed PROVE TokensInv'
    BY <1>2 DEF TokensInv, AnsweredTokensCounted, HandlersAt, Started
  <1>3. ASSUME NEW m \in Messages, ClientTimeout(m) \/ RouterRespond(m) \/ RunTool(m)
        PROVE  TokensInv'
    BY <1>2, <1>3 DEF ClientTimeout, RouterRespond, RunTool, position, tables
  <1>4. ASSUME NEW s \in Sessions, DropContext(s) PROVE TokensInv'
    BY <1>2, <1>4 DEF DropContext, position
  <1>5. CASE UNCHANGED vars
    BY <1>2, <1>5 DEF vars
  <1> QED BY <1>1, <1>3, <1>4, <1>5 DEF Next, MessageStep

\* However the handlers of a session interleave, the rows a handler wrote of its
\* calls are in the log of the session as the handler told them to the model, in
\* the same order, and the counter of the session holds the tokens of every
\* answered message once, whatever else an UPDATE of another handler adds
\* (agent-loop.ts:250-254, 347-384).
THEOREM AccountsKept == Spec => []SessionKeepsAccounts
  <1> DEFINE Inv == TInv /\ (\A m \in Messages : Transcript(m)) /\ TokensInv
  <1>1. Init => Inv
    BY InitTInv, InitTranscripts, InitTokens
  <1>2. Inv /\ [Next]_vars => Inv'
    BY TypeStep, TranscriptStep, TokensStep DEF TInv
  <1>3. Inv => SessionKeepsAccounts
    BY DEF SessionKeepsAccounts, TranscriptMatchesMemory, TokensInv, Transcript, Told
  <1>. QED
    BY <1>1, <1>2, <1>3, PTL DEF Spec
=============================================================================
