--------------------------- MODULE ServicesProofs ---------------------------
(***************************************************************************)
(* Proofs about the three services that MCServices checks, each for any    *)
(* number of events, entries and consumers, and for any bounds.            *)
(***************************************************************************)
EXTENDS MCServices, FiniteSetTheorems, TLAPS

-----------------------------------------------------------------------------
(* Deliveries.  A delivery that pauses has attempts left, and one that has *)
(* seen the subscription gone is about to be dropped: the log refuses its  *)
(* row.                                                                    *)

PauseInv == \A e \in Events : phase[e] = "pausing" => attempt[e] <= Retries

LateInv ==
    \A e \in Events :
        late[e] # 0 => ~exists /\ late[e] = 1
                       /\ phase[e] \in {"logging", "dropped"}

WebhookInv == WebhookTypeOK /\ PauseInv /\ LateInv /\ FailingIsDisabled

\* How long the log of a delivery is, as long as it can grow.
AllPending(e) == \A i \in 1 .. Len(log[e]) : log[e][i] = "pending_retry"

HistoryOf(e) ==
    /\ phase[e] = "new" => attempt[e] = 1 /\ log[e] = <<>>
    /\ exists /\ phase[e] \in {"sending", "logging"} =>
           Len(log[e]) = attempt[e] - 1 /\ AllPending(e)
    /\ exists /\ phase[e] = "pausing" =>
           Len(log[e]) = attempt[e] /\ AllPending(e)
    /\ \A i \in 1 .. Len(log[e]) - 1 : log[e][i] = "pending_retry"

HistoryInv == \A e \in Events : HistoryOf(e)

LEMMA WebhookInitInv == WebhookInit => WebhookInv
  BY WebhookAssumption
     DEF WebhookInit, WebhookInv, WebhookTypeOK, Phases, LastAttempt, PauseInv,
         LateInv, FailingIsDisabled

LEMMA WebhookStep == WebhookInv /\ [WebhookNext]_webhookVars => WebhookInv'
  <1> SUFFICES ASSUME WebhookInv, [WebhookNext]_webhookVars
               PROVE  WebhookInv'
    OBVIOUS
  <1> USE WebhookAssumption
      DEF WebhookInv, WebhookTypeOK, Phases, LastAttempt, Enter
  <1>1. ASSUME NEW e \in Events, Dispatch(e) PROVE WebhookInv'
    BY <1>1 DEF Dispatch, PauseInv, LateInv, FailingIsDisabled
  <1>2. ASSUME NEW e \in Events, Send(e) PROVE WebhookInv'
    BY <1>2 DEF Send, PauseInv, LateInv, FailingIsDisabled
  <1>3. ASSUME NEW e \in Events, LogDelivery(e) PROVE WebhookInv'
    <2>1. Status(e) \in {"success", "failed", "pending_retry"}
      BY DEF Status
    <2>2. log' \in [Events -> Seq({"success", "failed", "pending_retry"})]
      <3>1. log[e] \in Seq({"success", "failed", "pending_retry"})
        OBVIOUS
      <3>2. Append(log[e], Status(e))
                \in Seq({"success", "failed", "pending_retry"})
        BY <2>1, <3>1
      <3>3. CASE UNCHANGED log
        BY <3>3
      <3>4. CASE log' = [log EXCEPT ![e] = Append(@, Status(e))]
        BY <3>2, <3>4
      <3> QED
        BY <1>3, <3>3, <3>4 DEF LogDelivery
    <2>5. WebhookTypeOK'
      BY <1>3, <2>2 DEF LogDelivery, AfterAttempt
    <2>3. PauseInv' /\ LateInv'
      BY <1>3 DEF LogDelivery, AfterAttempt, PauseInv, LateInv
    <2>4. FailingIsDisabled'
      BY <1>3 DEF LogDelivery, AfterAttempt, FailingIsDisabled
    <2> QED
      BY <2>3, <2>4, <2>5
  <1>4. ASSUME NEW e \in Events, ResetCounter(e) PROVE WebhookInv'
    BY <1>4 DEF ResetCounter, PauseInv, LateInv, FailingIsDisabled
  <1>5. ASSUME NEW e \in Events, Retry(e) PROVE WebhookInv'
    BY <1>5 DEF Retry, PauseInv, LateInv, FailingIsDisabled
  <1>6. ASSUME NEW e \in Events, Count(e) PROVE WebhookInv'
    BY <1>6 DEF Count, PauseInv, LateInv, FailingIsDisabled
  <1>7. ASSUME NEW e \in Events, Disable(e) PROVE WebhookInv'
    BY <1>7 DEF Disable, PauseInv, LateInv, FailingIsDisabled
  <1>8. ASSUME NEW e \in Events, DeliveryThrows(e) PROVE WebhookInv'
    BY <1>8 DEF DeliveryThrows, WebhookMishap, Underway, Cut, PauseInv,
                LateInv, FailingIsDisabled
  <1>9. CASE ProcessDies
    BY <1>9 DEF ProcessDies, WebhookMishap, Underway, Cut, PauseInv,
                LateInv, FailingIsDisabled
  <1>10. CASE EnableSubscription
    BY <1>10 DEF EnableSubscription, Edit, deliveryVars, PauseInv, LateInv,
                 FailingIsDisabled
  <1>11. CASE DisableSubscription
    <2>1. WebhookTypeOK'
      <3>1. enabled' \in BOOLEAN
        BY <1>11, Zenon DEF DisableSubscription
      <3> QED
        BY <1>11, <3>1 DEF DisableSubscription, Edit, deliveryVars
    <2>2. PauseInv' /\ LateInv' /\ FailingIsDisabled'
      BY <1>11 DEF DisableSubscription, Edit, deliveryVars, PauseInv, LateInv,
                   FailingIsDisabled
    <2> QED
      BY <2>1, <2>2
  <1>12. CASE DeleteSubscription
    <2>1. log' \in [Events -> Seq({"success", "failed", "pending_retry"})]
      BY <1>12 DEF DeleteSubscription
    <2>2. WebhookTypeOK'
      <3>1. exists' \in BOOLEAN
        BY <1>12, Zenon DEF DeleteSubscription
      <3> QED
        BY <1>12, <2>1, <3>1 DEF DeleteSubscription, Edit
    <2>3. PauseInv' /\ LateInv' /\ FailingIsDisabled'
      BY <1>12 DEF DeleteSubscription, Edit, PauseInv, LateInv,
                   FailingIsDisabled
    <2> QED
      BY <2>2, <2>3
  <1>13. CASE UNCHANGED webhookVars
    BY <1>13 DEF webhookVars, deliveryVars, PauseInv, LateInv,
                 FailingIsDisabled
  <1> QED
    BY <1>1, <1>2, <1>3, <1>4, <1>5, <1>6, <1>7, <1>8, <1>9, <1>10, <1>11,
       <1>12, <1>13
    DEF WebhookNext, DeliveryStep

LEMMA HistoryStep ==
    WebhookInv /\ HistoryInv /\ [WebhookNext]_webhookVars => HistoryInv'
  <1> SUFFICES ASSUME WebhookInv, HistoryInv, [WebhookNext]_webhookVars
               PROVE  HistoryInv'
    OBVIOUS
  <1> USE WebhookAssumption
      DEF WebhookInv, WebhookTypeOK, LastAttempt, Phases, Enter
  <1>1. ASSUME NEW e \in Events,
               Dispatch(e) \/ Send(e) \/ ResetCounter(e) \/ Retry(e)
               \/ Count(e) \/ Disable(e) \/ DeliveryThrows(e)
        PROVE  HistoryInv'
    <2>1. UNCHANGED <<exists, log>>
      BY <1>1 DEF Dispatch, Send, ResetCounter, Retry, Count, Disable,
                  DeliveryThrows
    <2>2. ASSUME NEW d \in Events \ {e}
          PROVE  phase'[d] = phase[d] /\ attempt'[d] = attempt[d]
      BY <1>1 DEF Dispatch, Send, ResetCounter, Retry, Count, Disable,
                  DeliveryThrows
    <2>3. \/ phase[e] = "new" /\ phase'[e] = "sending" /\ attempt' = attempt
          \/ phase[e] = "sending" /\ phase'[e] = "logging" /\ attempt' = attempt
          \/ phase[e] = "pausing" /\ phase'[e] = "sending"
                /\ attempt'[e] = attempt[e] + 1
          \/ phase'[e] \notin {"new", "sending", "logging", "pausing"}
      BY <1>1 DEF Dispatch, Send, ResetCounter, Retry, Count, Disable,
                  DeliveryThrows, Cut
    <2> QED
      BY <2>1, <2>2, <2>3 DEF HistoryInv, HistoryOf, AllPending
  <1>2. ASSUME NEW e \in Events, LogDelivery(e) PROVE HistoryInv'
    <2>1. UNCHANGED <<exists, attempt, success>> /\ phase[e] = "logging"
      BY <1>2 DEF LogDelivery
    <2>2. ASSUME NEW d \in Events \ {e}
          PROVE  phase'[d] = phase[d] /\ log'[d] = log[d]
      BY <1>2 DEF LogDelivery
    <2>3. CASE ~exists
      BY <1>2, <2>1, <2>2, <2>3 DEF LogDelivery, HistoryInv, HistoryOf, AllPending
    <2>4. CASE exists
      <3>1. /\ log[e] \in Seq({"success", "failed", "pending_retry"})
            /\ log'[e] = Append(log[e], Status(e))
            /\ phase'[e] = AfterAttempt(e)
        BY <1>2, <2>4 DEF LogDelivery
      <3>2. Len(log[e]) = attempt[e] - 1 /\ AllPending(e)
        BY <2>1, <2>4 DEF HistoryInv, HistoryOf
      <3>3. /\ Len(log'[e]) = attempt[e]
            /\ \A i \in 1 .. Len(log'[e]) - 1 : log'[e][i] = "pending_retry"
            /\ log'[e][Len(log'[e])] = Status(e)
        BY <3>1, <3>2 DEF AllPending
      <3>4. /\ phase'[e] \notin {"new", "sending", "logging"}
            /\ phase'[e] = "pausing" => Status(e) = "pending_retry"
        BY <3>1 DEF AfterAttempt, Status
      <3>5. phase'[e] = "pausing" => AllPending(e)'
        BY <3>3, <3>4 DEF AllPending
      <3> SUFFICES ASSUME NEW d \in Events PROVE HistoryOf(d)'
        BY DEF HistoryInv
      <3>6. CASE d = e
        BY <2>1, <2>4, <3>3, <3>4, <3>5, <3>6 DEF HistoryOf
      <3>7. CASE d # e
        BY <2>1, <2>2, <2>4, <3>7 DEF HistoryInv, HistoryOf, AllPending
      <3> QED
        BY <3>6, <3>7
    <2> QED
      BY <2>3, <2>4
  <1>3. CASE ProcessDies
    <2>1. \A e \in Events : phase'[e] = phase[e]
              \/ phase'[e] \notin {"new", "sending", "logging", "pausing"}
      BY <1>3 DEF ProcessDies, Cut
    <2> QED
      BY <1>3, <2>1 DEF ProcessDies, HistoryInv, HistoryOf, AllPending
  <1>4. CASE EnableSubscription \/ DisableSubscription
    BY <1>4 DEF EnableSubscription, DisableSubscription, deliveryVars,
                HistoryInv, HistoryOf, AllPending
  <1>5. CASE DeleteSubscription
    BY <1>5 DEF DeleteSubscription, HistoryInv, HistoryOf
  <1>6. CASE UNCHANGED webhookVars
    BY <1>6 DEF webhookVars, deliveryVars, HistoryInv, HistoryOf, AllPending
  <1> QED
    BY <1>1, <1>2, <1>3, <1>4, <1>5, <1>6 DEF WebhookNext, DeliveryStep

\* The inductive invariants hold of every delivery, whatever the requests do.
THEOREM WebhookInvariant == WebhookSpec => [](WebhookInv /\ HistoryInv)
  <1>1. WebhookInit => HistoryInv
    <2> SUFFICES ASSUME WebhookInit, NEW e \in Events PROVE HistoryOf(e)
      BY DEF HistoryInv
    <2>1. phase[e] = "new" /\ attempt[e] = 1 /\ log[e] = <<>>
      BY DEF WebhookInit
    <2>2. Len(log[e]) = 0
      BY <2>1
    <2> QED
      BY <2>1, <2>2 DEF HistoryOf
  <1> QED
    BY WebhookInitInv, WebhookStep, HistoryStep, <1>1, PTL DEF WebhookSpec

\* The log tells what was sent, in order (dispatcher.ts:67-80, 173).
THEOREM LogIsHistory == WebhookSpec => []LogTellsHistory
  <1>1. HistoryInv => LogTellsHistory
    BY DEF HistoryInv, HistoryOf, AllPending, LogTellsHistory
  <1> QED
    BY WebhookInvariant, <1>1, PTL

\* Types, with the bound of the attempts (dispatcher.ts:64).
THEOREM WebhookTypes == WebhookSpec => []WebhookTypeOK
  <1>1. WebhookInv => WebhookTypeOK
    BY DEF WebhookInv
  <1> QED
    BY WebhookInvariant, <1>1, PTL

\* A subscription at its bound is being disabled (dispatcher.ts:83-96).
THEOREM FailingDisabled == WebhookSpec => []FailingIsDisabled
  <1>1. WebhookInv => FailingIsDisabled
    BY DEF WebhookInv
  <1> QED
    BY WebhookInvariant, <1>1, PTL

\* One attempt after the deletion, at most (dispatcher.ts:65-67).
THEOREM DeletedStops == WebhookSpec => []DeletedStopsSoon
  <1>1. WebhookInv => DeletedStopsSoon
    <2> SUFFICES ASSUME WebhookTypeOK, LateInv, NEW e \in Events
                 PROVE  late[e] <= 1
      BY DEF WebhookInv, DeletedStopsSoon
    <2>1. late[e] \in Nat
      BY DEF WebhookTypeOK
    <2>2. late[e] # 0 => late[e] = 1
      BY DEF LateInv
    <2> QED
      BY <2>1, <2>2
  <1> QED
    BY WebhookInvariant, <1>1, PTL

-----------------------------------------------------------------------------
(* Audit events.  EveryEventOnce is inductive together with the types, and *)
(* with what an event is before it is emitted.                             *)

UnemittedInv == \A e \in Entries \ emitted : rows[e] = 0 /\ e \notin givenUp

Places ==
    /\ buffer \cup Flying \subseteq emitted
    /\ EveryEventOnce

\* The batch of the shutdown is under way until it is done.
OwnDone == \A e \in own : rows[e] = 1 \/ e \in givenUp

OwnInv ==
    /\ process = "flushing" => own \in flights \/ OwnDone
    /\ process \in {"closing", "exited"} => OwnDone

AuditTypes ==
    /\ AuditTypeOK
    /\ IsFiniteSet(buffer)

AuditInv == AuditTypes /\ UnemittedInv /\ Places /\ OwnInv

LEMMA AuditInitInv == AuditInit => AuditInv
  <1> SUFFICES ASSUME AuditInit PROVE AuditInv
    OBVIOUS
  <1> USE AuditAssumption DEF AuditInit
  <1>1. IsFiniteSet({}) /\ Cardinality({}) = 0
    BY FS_EmptySet
  <1>2. AuditTypes
    BY <1>1 DEF AuditTypes, AuditTypeOK
  <1>3. UnemittedInv /\ Places
    BY DEF UnemittedInv, Places, EveryEventOnce, Flying, Alive
  <1>4. OwnInv
    BY DEF OwnInv
  <1> QED
    BY <1>2, <1>3, <1>4 DEF AuditInv

LEMMA AuditTypesStep == AuditInv /\ [AuditNext]_auditVars => AuditTypes'
  <1> SUFFICES ASSUME AuditInv, [AuditNext]_auditVars PROVE AuditTypes'
    OBVIOUS
  <1> USE AuditAssumption DEF AuditInv, AuditTypes, AuditTypeOK, WithRowsOf
  <1>0. IsFiniteSet({}) /\ Cardinality({}) = 0
    BY FS_EmptySet
  <1>1. ASSUME NEW e \in Entries, Emit(e) PROVE AuditTypes'
    <2> DEFINE events == buffer \cup {e}
    <2>1. IsFiniteSet(events) /\ Cardinality(events) \in Nat
      BY FS_AddElement, FS_CardinalityType
    <2>2. CASE Cardinality(events) >= FlushAt
      <3>1. buffer' = {} /\ flights' \in {flights, flights \cup {events}}
        BY <1>1, <2>2 DEF Emit, TakeBuffer
      <3>2. flights' \subseteq SUBSET Entries
        BY <3>1
      <3> QED
        BY <1>0, <1>1, <3>1, <3>2 DEF Emit
    <2>3. CASE ~(Cardinality(events) >= FlushAt)
      <3>1. buffer' = events /\ UNCHANGED flights
        BY <1>1, <2>3 DEF Emit
      <3>2. Cardinality(buffer') < FlushAt /\ IsFiniteSet(buffer')
        BY <2>1, <2>3, <3>1
      <3> QED
        BY <1>1, <3>1, <3>2 DEF Emit, Alive
    <2> QED
      BY <2>2, <2>3
  <1>2. CASE TimerFlush
    BY <1>0, <1>2 DEF TimerFlush, TakeBuffer, Alive
  <1>3. ASSUME NEW b \in flights, Inserted(b) PROVE AuditTypes'
    BY <1>3 DEF Inserted
  <1>4. ASSUME NEW b \in flights, InsertFails(b) PROVE AuditTypes'
    BY <1>4 DEF InsertFails
  <1>5. CASE LastFlush
    BY <1>0, <1>5 DEF LastFlush, TakeBuffer
  <1>6. CASE Close
    BY <1>6 DEF Close
  <1>7. CASE Exit
    BY <1>0, <1>7 DEF Exit, Stop
  <1>8. CASE Crash
    BY <1>0, <1>8 DEF Crash, Stop
  <1>9. CASE UNCHANGED auditVars
    BY <1>9 DEF auditVars
  <1> QED
    BY <1>1, <1>2, <1>3, <1>4, <1>5, <1>6, <1>7, <1>8, <1>9 DEF AuditNext

Disjoint(sets) == \A a, b \in sets : a # b => a \cap b = {}

LEMMA StillDisjoint ==
    ASSUME NEW sets, NEW more, NEW new, Disjoint(sets),
           \A b \in sets : new \cap b = {},
           \A b \in more : b \in sets \/ b = new
    PROVE  Disjoint(more)
  <1> SUFFICES ASSUME NEW a \in more, NEW b \in more, a # b
               PROVE  a \cap b = {}
    BY DEF Disjoint
  <1>1. CASE a = new
    BY <1>1
  <1>2. CASE b = new
    BY <1>2
  <1>3. CASE a \in sets /\ b \in sets
    BY <1>3 DEF Disjoint
  <1> QED
    BY <1>1, <1>2, <1>3

\* What a flush takes changes places, and nothing else does.
LEMMA TakeKeepsPlaces ==
    ASSUME NEW events \in SUBSET Entries, TakeBuffer(events)
    PROVE  /\ buffer' \cup Flying' = events \cup Flying
           /\ buffer' \cap Flying' = {}
           /\ \A b \in flights' : b \in flights \/ b = events
  BY DEF TakeBuffer, Flying

LEMMA EmitKeeps ==
    ASSUME AuditInv, NEW e \in Entries, Emit(e)
    PROVE  UnemittedInv' /\ Places' /\ OwnInv'
  <1> DEFINE events == buffer \cup {e}
  <1> USE DEF AuditInv, AuditTypes, AuditTypeOK
  <1>1. /\ e \notin buffer \cup Flying /\ rows[e] = 0 /\ e \notin givenUp
        /\ emitted' = emitted \cup {e}
        /\ UNCHANGED <<rows, givenUp, process, own>>
        /\ Alive
    BY DEF Emit, Places, UnemittedInv
  <1>2. TakeBuffer(events) \/ (buffer' = events /\ UNCHANGED flights)
    BY DEF Emit
  <1>3. /\ buffer' \cup Flying' = events \cup Flying
        /\ buffer' \cap Flying' = {}
        /\ \A b \in flights' : b \in flights \/ b = events
    <2>1. CASE TakeBuffer(events)
      BY <2>1, TakeKeepsPlaces
    <2>2. CASE buffer' = events /\ UNCHANGED flights
      BY <1>1, <2>2 DEF Flying, Places, EveryEventOnce
    <2> QED
      BY <1>2, <2>1, <2>2
  <1>4. UnemittedInv'
    BY <1>1 DEF UnemittedInv
  <1>5. \A b \in flights : events \cap b = {}
    BY <1>1 DEF Flying, Places, EveryEventOnce
  <1>6. EveryEventOnce'
    <2>1. \A a, b \in flights' : a # b => a \cap b = {}
      <3>1. Disjoint(flights)
        BY DEF Places, EveryEventOnce, Disjoint
      <3> HIDE DEF events
      <3>2. Disjoint(flights')
        BY ONLY <1>3, <1>5, <3>1, StillDisjoint
      <3> QED
        BY <3>2 DEF Disjoint
    <2>2. \A x \in buffer' \cup Flying' : rows'[x] = 0 /\ x \notin givenUp'
      BY <1>1, <1>3 DEF Places, EveryEventOnce
    <2>3. emitted' = buffer' \cup Flying' \cup givenUp'
                        \cup {x \in Entries : rows'[x] = 1}
      BY <1>1, <1>3 DEF Places, EveryEventOnce
    <2>4. \A x \in Entries : rows'[x] <= 1
      BY <1>1 DEF Places, EveryEventOnce
    <2> QED
      BY <1>3, <2>1, <2>2, <2>3, <2>4 DEF EveryEventOnce
  <1>7. Places'
    BY <1>1, <1>3, <1>6 DEF Places
  <1>8. OwnInv'
    <2>1. flights \subseteq flights'
      BY <1>2 DEF TakeBuffer
    <2> QED
      BY <1>1, <2>1 DEF OwnInv, OwnDone
  <1> QED
    BY <1>4, <1>7, <1>8

LEMMA FlushKeeps ==
    ASSUME AuditInv, TakeBuffer(buffer), Alive,
           UNCHANGED <<emitted, rows, givenUp>>
    PROVE  UnemittedInv' /\ Places' /\ flights \subseteq flights'
  <1> USE DEF AuditInv, AuditTypes, AuditTypeOK
  <1>1. /\ buffer' \cup Flying' = buffer \cup Flying
        /\ buffer' \cap Flying' = {}
        /\ \A b \in flights' : b \in flights \/ b = buffer
    BY TakeKeepsPlaces
  <1>2. \A b \in flights : buffer \cap b = {}
    BY DEF Flying, Places, EveryEventOnce
  <1>3. Disjoint(flights')
    <2>1. Disjoint(flights)
      BY DEF Places, EveryEventOnce, Disjoint
    <2> QED
      BY <1>1, <1>2, <2>1, StillDisjoint
  <1>4. \A x \in buffer' \cup Flying' : rows'[x] = 0 /\ x \notin givenUp'
    BY <1>1 DEF Places, EveryEventOnce
  <1>5. emitted' = buffer' \cup Flying' \cup givenUp'
                      \cup {x \in Entries : rows'[x] = 1}
    BY <1>1 DEF Places, EveryEventOnce
  <1>6. EveryEventOnce'
    BY <1>1, <1>3, <1>4, <1>5 DEF Disjoint, Places, EveryEventOnce
  <1>7. UnemittedInv' /\ Places'
    BY <1>1, <1>6 DEF UnemittedInv, Places
  <1> QED
    BY <1>7 DEF TakeBuffer

\* The end of a batch, in the table or given up.
LEMMA BatchKeeps ==
    ASSUME AuditInv, NEW b \in flights, Inserted(b) \/ InsertFails(b)
    PROVE  UnemittedInv' /\ Places' /\ OwnInv'
  <1> USE DEF AuditInv, AuditTypes, AuditTypeOK
  <1>1. /\ b \subseteq Flying /\ b \subseteq Entries /\ b \subseteq emitted
        /\ \A x \in b : rows[x] = 0 /\ x \notin givenUp
    BY DEF Flying, Places, EveryEventOnce
  <1>2. /\ flights' = flights \ {b}
        /\ UNCHANGED <<emitted, buffer, process, own>>
        /\ \/ rows' = WithRowsOf(b) /\ givenUp' = givenUp
           \/ rows' = WithRowsOf(b) /\ givenUp' = givenUp \cup b
           \/ rows' = rows /\ givenUp' = givenUp \cup b
    BY DEF Inserted, InsertFails
  <1>3. Flying' = Flying \ b
    <2>1. \A x \in b, a \in flights : a # b => x \notin a
      BY DEF Places, EveryEventOnce
    <2> QED
      BY <1>2, <2>1 DEF Flying
  <1>4. /\ \A x \in Entries \ b : rows'[x] = rows[x]
                                  /\ (x \in givenUp' <=> x \in givenUp)
        /\ \A x \in b : /\ rows'[x] = 0 \/ rows'[x] = 1
                        /\ rows'[x] = 1 \/ x \in givenUp'
    BY <1>1, <1>2 DEF WithRowsOf
  <1>5. UnemittedInv'
    BY <1>1, <1>2, <1>4 DEF UnemittedInv
  <1>6. EveryEventOnce'
    <2>1. ASSUME NEW x \in Entries PROVE rows'[x] <= 1
      <3>1. CASE x \in b
        <4>1. rows'[x] = 0 \/ rows'[x] = 1
          BY ONLY <1>4, <3>1
        <4> QED
          BY <4>1
      <3>2. CASE x \notin b
        <4>1. rows'[x] = rows[x] /\ rows[x] <= 1
          BY <1>4, <3>2 DEF Places, EveryEventOnce
        <4> QED
          BY <4>1
      <3> QED
        BY <3>1, <3>2
    <2>2. \A x \in buffer' \cup Flying' : rows'[x] = 0 /\ x \notin givenUp'
      <3>1. \A x \in buffer \cup Flying : x \in Entries
        BY DEF Flying
      <3>2. \A x \in buffer : x \notin b
        BY <1>1 DEF Places, EveryEventOnce
      <3> QED
        BY <1>2, <1>3, <1>4, <3>1, <3>2 DEF Places, EveryEventOnce
    <2>3. ASSUME Alive'
          PROVE  emitted' = buffer' \cup Flying' \cup givenUp'
                               \cup {x \in Entries : rows'[x] = 1}
      <3>1. emitted = buffer \cup Flying \cup givenUp
                         \cup {x \in Entries : rows[x] = 1}
        BY <1>2, <2>3 DEF Alive, Places, EveryEventOnce
      <3>2. givenUp' \subseteq givenUp \cup b
        BY <1>2
      <3>3. givenUp \subseteq Entries
        OBVIOUS
      <3> QED
        BY <1>1, <1>2, <1>3, <1>4, <3>1, <3>2, <3>3
    <2> QED
      BY <1>2, <1>3, <2>1, <2>2, <2>3 DEF Places, EveryEventOnce
  <1>7. Places'
    BY <1>2, <1>3, <1>6 DEF Places
  <1>8. OwnInv'
    <2>1. OwnDone => OwnDone'
      BY <1>2, <1>4 DEF OwnDone
    <2>2. own = b => OwnDone'
      BY <1>2, <1>4 DEF OwnDone
    <2> QED
      BY <1>2, <2>1, <2>2 DEF OwnInv
  <1> QED
    BY <1>5, <1>7, <1>8

\* The end of the process: its statements are executed or not.
LEMMA StopKeeps ==
    ASSUME AuditInv, NEW end \in {"exited", "crashed"}, Stop(end),
           end = "exited" => process = "closing"
    PROVE  UnemittedInv' /\ Places' /\ OwnInv'
  <1> USE DEF AuditInv, AuditTypes, AuditTypeOK
  <1>1. PICK over \in SUBSET flights : rows' = WithRowsOf(UNION over)
    BY DEF Stop
  <1>2. /\ process' = end /\ buffer' = {} /\ flights' = {} /\ Flying' = {}
        /\ UNCHANGED <<emitted, givenUp, own>>
    BY DEF Stop, Flying
  <1>3. \A x \in UNION over : /\ x \in emitted /\ x \in Entries
                              /\ rows[x] = 0 /\ x \notin givenUp
    BY DEF Flying, Places, EveryEventOnce
  <1>4. \A x \in Entries : /\ x \in UNION over => rows'[x] = 1
                           /\ x \notin UNION over => rows'[x] = rows[x]
    BY <1>1, <1>3 DEF WithRowsOf
  <1>5. UnemittedInv'
    BY <1>2, <1>3, <1>4 DEF UnemittedInv
  <1>6. EveryEventOnce'
    <2>1. ASSUME NEW x \in Entries PROVE rows'[x] <= 1
      <3>1. rows[x] <= 1
        BY DEF Places, EveryEventOnce
      <3> QED
        BY <1>4, <3>1
    <2>2. ~Alive'
      BY <1>2 DEF Alive
    <2> QED
      BY <1>2, <2>1, <2>2 DEF EveryEventOnce
  <1>7. Places'
    BY <1>2, <1>6 DEF Places
  <1>8. OwnInv'
    <2>1. OwnDone => OwnDone'
      BY <1>2, <1>3, <1>4 DEF OwnDone
    <2> QED
      BY <1>2, <2>1 DEF OwnInv
  <1> QED
    BY <1>5, <1>7, <1>8

LEMMA AuditStep == AuditInv /\ [AuditNext]_auditVars => AuditInv'
  <1> SUFFICES ASSUME AuditInv, [AuditNext]_auditVars
               PROVE  UnemittedInv' /\ Places' /\ OwnInv'
    BY AuditTypesStep DEF AuditInv
  <1>1. ASSUME NEW e \in Entries, Emit(e)
        PROVE  UnemittedInv' /\ Places' /\ OwnInv'
    BY <1>1, EmitKeeps
  <1>2. CASE TimerFlush
    <2>1. UnemittedInv' /\ Places' /\ flights \subseteq flights'
      BY <1>2, FlushKeeps DEF TimerFlush
    <2>2. UNCHANGED <<own, process, rows, givenUp>>
      BY <1>2 DEF TimerFlush
    <2> QED
      BY <2>1, <2>2 DEF AuditInv, OwnInv, OwnDone
  <1>3. ASSUME NEW b \in flights, Inserted(b) \/ InsertFails(b)
        PROVE  UnemittedInv' /\ Places' /\ OwnInv'
    BY <1>3, BatchKeeps
  <1>4. CASE LastFlush
    <2>1. UnemittedInv' /\ Places'
      <3>1. Alive /\ TakeBuffer(buffer) /\ UNCHANGED <<emitted, rows, givenUp>>
        BY <1>4 DEF LastFlush, Alive
      <3>2. Alive'
        BY <1>4 DEF LastFlush, Alive
      <3> QED
        BY <3>1, <3>2, FlushKeeps
    <2>2. process' = "flushing" /\ own' = buffer
      BY <1>4 DEF LastFlush
    <2>3. buffer # {} => buffer \in flights'
      BY <1>4 DEF LastFlush, TakeBuffer
    <2> QED
      BY <2>1, <2>2, <2>3 DEF OwnInv, OwnDone
  <1>5. CASE Close
    BY <1>5 DEF Close, AuditInv, UnemittedInv, Places, EveryEventOnce, Flying,
                Alive, OwnInv, OwnDone
  <1>6. CASE Exit
    BY <1>6, StopKeeps DEF Exit
  <1>7. CASE Crash
    BY <1>7, StopKeeps DEF Crash
  <1>8. CASE UNCHANGED auditVars
    BY <1>8 DEF auditVars, AuditInv, UnemittedInv, Places, EveryEventOnce,
                Flying, Alive, OwnInv, OwnDone
  <1> QED
    BY <1>1, <1>2, <1>3, <1>4, <1>5, <1>6, <1>7, <1>8 DEF AuditNext

\* The inductive invariant of the buffer, its flushes and the shutdown.
THEOREM AuditInvariant == AuditSpec => []AuditInv
  BY AuditInitInv, AuditStep, PTL DEF AuditSpec

\* Types, with the length the buffer never reaches (emitter.ts:19).
THEOREM AuditTypesHold == AuditSpec => []AuditTypeOK
  <1>1. AuditInv => AuditTypeOK
    BY DEF AuditInv, AuditTypes
  <1> QED
    BY AuditInvariant, <1>1, PTL

\* Every event is in one place, however flushes overlap (emitter.ts:17-53).
THEOREM EventsOnce == AuditSpec => []EveryEventOnce
  <1>1. AuditInv => EveryEventOnce
    BY DEF AuditInv, Places
  <1> QED
    BY AuditInvariant, <1>1, PTL

\* The shutdown's batch is inserted or given up (main.ts:554-556).
THEOREM LastBatchInserted == AuditSpec => []ShutdownFlushes
  <1>1. AuditInv => ShutdownFlushes
    BY DEF AuditInv, OwnInv, OwnDone, ShutdownFlushes
  <1> QED
    BY AuditInvariant, <1>1, PTL

\* Both.
THEOREM EventsKept == AuditSpec => []AuditKeepsEvents
  BY EventsOnce, LastBatchInserted, PTL DEF AuditKeepsEvents

-----------------------------------------------------------------------------
(* The queue.  What a consumer has pending it has been given, nobody else  *)
(* has, and it takes it up in the order of the stream.                     *)

\* Entries the group has given out, and to whom.
GivenInv ==
    /\ acked \cup UNION {pending[c] : c \in Consumers} = 1 .. given
    /\ \A c \in Consumers :
        /\ batch[c] \subseteq pending[c]
        /\ pending[c] \cup handled[c] \subseteq 1 .. given
        /\ \A d \in Consumers \ {c} :
            /\ pending[c] \cap pending[d] = {}
            /\ handled[c] \cap (handled[d] \cup pending[d]) = {}

\* A consumer's batch lies ahead of what it has taken up, except for the
\* entry that waits for its acknowledgement, whose handler has returned.
BatchInv ==
    \A c \in Consumers : \A id \in batch[c] :
        /\ \A old \in handled[c] :
               old < id \/ (old = id /\ place[c] = "acking" /\ IsNext(c, id))
        /\ place[c] = "acking" /\ IsNext(c, id) => id \in completed

QueueInv == QueueTypeOK /\ GivenInv /\ BatchInv /\ AckedWasHandled

LEMMA QueueInitInv == QueueInit => QueueInv
  <1> SUFFICES ASSUME QueueInit PROVE QueueInv
    OBVIOUS
  <1> USE QueueAssumption DEF QueueInit
  <1>1. QueueTypeOK
    BY DEF QueueTypeOK, Ids
  <1>2. GivenInv
    BY DEF GivenInv
  <1>3. BatchInv /\ AckedWasHandled
    BY DEF BatchInv, AckedWasHandled
  <1> QED
    BY <1>1, <1>2, <1>3 DEF QueueInv

\* The entries that a read gives out are new.
LEMMA GiveOutNew ==
    ASSUME QueueTypeOK, GivenInv, NEW c \in Consumers, given < added, GiveOut(c)
    PROVE  /\ given' \in given + 1 .. added
           /\ (given + 1) .. given' \subseteq Ids
           /\ (given + 1) .. given' # {}
           /\ (given + 1) .. given' \cap 1 .. given = {}
           /\ 1 .. given' = 1 .. given \cup (given + 1) .. given'
           /\ pending' = [pending EXCEPT ![c] = @ \cup (given + 1) .. given']
  BY QueueAssumption DEF GiveOut, QueueTypeOK, Ids

LEMMA QueueTypesStep == QueueInv /\ [QueueNext]_queueVars => QueueTypeOK'
  <1> SUFFICES ASSUME QueueInv, [QueueNext]_queueVars PROVE QueueTypeOK'
    OBVIOUS
  <1> USE QueueAssumption DEF QueueInv, QueueTypeOK, MoveTo
  <1>1. CASE Add
    BY <1>1 DEF Add, Ids
  <1>2. ASSUME NEW c \in Consumers, Subscribe(c) PROVE QueueTypeOK'
    BY <1>2 DEF Subscribe
  <1>3. ASSUME NEW c \in Consumers, Poll(c) PROVE QueueTypeOK'
    BY <1>3 DEF Poll
  <1>4. ASSUME NEW c \in Consumers, Read(c) PROVE QueueTypeOK'
    <2>1. given < added /\ GiveOut(c)
      BY <1>4 DEF Read
    <2>2. /\ given' \in 0 .. added
          /\ (given + 1) .. given' \subseteq Ids
          /\ (given + 1) .. given' # {}
          /\ pending' = [pending EXCEPT ![c] = @ \cup (given + 1) .. given']
      BY <2>1, GiveOutNew
    <2> DEFINE ids == (given + 1) .. given'
    <2>3. batch' = [batch EXCEPT ![c] = ids]
      BY <1>4 DEF Read
    <2> HIDE DEF ids
    <2> QED
      BY <1>4, <2>2, <2>3 DEF Read, ids
  <1>5. ASSUME NEW c \in Consumers, ReadNothing(c) PROVE QueueTypeOK'
    BY <1>5 DEF ReadNothing
  <1>6. ASSUME NEW c \in Consumers, ReadThrows(c) PROVE QueueTypeOK'
    BY <1>6 DEF ReadThrows, GiveOut, Ids
  <1>7. ASSUME NEW c \in Consumers, Handle(c) PROVE QueueTypeOK'
    BY <1>7 DEF Handle, IsNext
  <1>8. ASSUME NEW c \in Consumers, HandleThrows(c) PROVE QueueTypeOK'
    BY <1>8 DEF HandleThrows, IsNext
  <1>9. ASSUME NEW c \in Consumers, Ack(c) PROVE QueueTypeOK'
    BY <1>9 DEF Ack, IsNext, Acknowledge
  <1>10. ASSUME NEW c \in Consumers, AckThrows(c) PROVE QueueTypeOK'
    BY <1>10 DEF AckThrows, IsNext, Acknowledge
  <1>11. ASSUME NEW c \in Consumers, WaitOver(c) PROVE QueueTypeOK'
    BY <1>11 DEF WaitOver
  <1>12. ASSUME NEW c \in Consumers, Unsubscribe(c) PROVE QueueTypeOK'
    BY <1>12 DEF Unsubscribe
  <1>13. ASSUME NEW c \in Consumers, ConsumerDies(c) PROVE QueueTypeOK'
    BY <1>13 DEF ConsumerDies
  <1>14. CASE UNCHANGED queueVars
    BY <1>14 DEF queueVars
  <1> QED
    BY <1>1, <1>2, <1>3, <1>4, <1>5, <1>6, <1>7, <1>8, <1>9, <1>10, <1>11,
       <1>12, <1>13, <1>14
    DEF QueueNext, QueueStep, QueueThrows

\* The two ways in which entries come to a consumer, and leave it.
LEMMA GiveOutKeeps ==
    ASSUME QueueInv, NEW c \in Consumers, given < added, GiveOut(c),
           UNCHANGED <<acked, handled>>,
           \/ UNCHANGED batch
           \/ batch' = [batch EXCEPT ![c] = (given + 1) .. given']
    PROVE  GivenInv'
  <1> DEFINE ids == (given + 1) .. given'
  <1>1. /\ ids \cap 1 .. given = {}
        /\ 1 .. given' = 1 .. given \cup ids
        /\ pending' = [pending EXCEPT ![c] = @ \cup ids]
    BY GiveOutNew DEF QueueInv
  <1>2. UNCHANGED batch \/ batch' = [batch EXCEPT ![c] = ids]
    OBVIOUS
  <1> HIDE DEF ids
  <1> USE DEF QueueInv, QueueTypeOK, GivenInv
  <1>3. acked' \cup UNION {pending'[d] : d \in Consumers} = 1 .. given'
    <2>1. UNION {pending'[d] : d \in Consumers}
              = (UNION {pending[d] : d \in Consumers}) \cup ids
      BY <1>1
    <2> QED
      BY <1>1, <2>1
  <1>4. ASSUME NEW d \in Consumers
        PROVE  /\ batch'[d] \subseteq pending'[d]
               /\ pending'[d] \cup handled'[d] \subseteq 1 .. given'
    BY <1>1, <1>2
  <1>5. ASSUME NEW d \in Consumers, NEW o \in Consumers \ {d}
        PROVE  /\ pending'[d] \cap pending'[o] = {}
               /\ handled'[d] \cap (handled'[o] \cup pending'[o]) = {}
    BY <1>1
  <1> QED
    BY <1>3, <1>4, <1>5

LEMMA AcknowledgeKeeps ==
    ASSUME QueueInv, NEW c \in Consumers, NEW id \in batch[c],
           Acknowledge(c, {id}), UNCHANGED <<given, handled>>,
           batch' \in { [batch EXCEPT ![c] = @ \ {id}],
                        [batch EXCEPT ![c] = {}] }
    PROVE  GivenInv'
  <1> USE DEF QueueInv, QueueTypeOK, GivenInv
  <1>1. /\ acked' = acked \cup {id}
        /\ pending' = [pending EXCEPT ![c] = @ \ {id}]
        /\ id \in pending[c] /\ id \in 1 .. given
    BY DEF Acknowledge
  <1>2. acked' \cup UNION {pending'[d] : d \in Consumers} = 1 .. given'
    <2>1. \A x : x \in UNION {pending[d] : d \in Consumers} =>
                    x = id \/ x \in UNION {pending'[d] : d \in Consumers}
      BY <1>1
    <2>2. ASSUME NEW x \in UNION {pending'[d] : d \in Consumers}
          PROVE  x \in UNION {pending[d] : d \in Consumers}
      <3>1. PICK d \in Consumers : x \in pending'[d]
        OBVIOUS
      <3>2. x \in pending[d]
        BY <1>1, <3>1
      <3> QED
        BY ONLY <3>2, d \in Consumers
    <2> QED
      BY <1>1, <2>1, <2>2
  <1>3. ASSUME NEW d \in Consumers
        PROVE  /\ batch'[d] \subseteq pending'[d]
               /\ pending'[d] \cup handled'[d] \subseteq 1 .. given'
    BY <1>1
  <1>4. ASSUME NEW d \in Consumers, NEW o \in Consumers \ {d}
        PROVE  /\ pending'[d] \cap pending'[o] = {}
               /\ handled'[d] \cap (handled'[o] \cup pending'[o]) = {}
    BY <1>1
  <1> QED
    BY <1>2, <1>3, <1>4

\* Whatever else a consumer does leaves what Redis has of it alone.
LEMMA WorkKeeps ==
    ASSUME QueueInv, NEW c \in Consumers, UNCHANGED <<given, pending, acked>>,
           UNCHANGED batch \/ batch' = [batch EXCEPT ![c] = {}],
           \/ UNCHANGED handled
           \/ \E id \in batch[c] : handled' = [handled EXCEPT ![c] = @ \cup {id}]
    PROVE  GivenInv'
  <1> USE DEF QueueInv, QueueTypeOK, GivenInv
  <1>1. ASSUME NEW d \in Consumers
        PROVE  /\ batch'[d] \subseteq pending'[d]
               /\ pending'[d] \cup handled'[d] \subseteq 1 .. given'
    OBVIOUS
  <1>2. \A d \in Consumers : handled'[d] \subseteq handled[d] \cup pending[d]
                             /\ (d # c => handled'[d] = handled[d])
    OBVIOUS
  <1>3. ASSUME NEW d \in Consumers, NEW o \in Consumers \ {d}
        PROVE  /\ pending'[d] \cap pending'[o] = {}
               /\ handled'[d] \cap (handled'[o] \cup pending'[o]) = {}
    BY <1>2
  <1> QED
    BY <1>1, <1>3

LEMMA GivenStep == QueueInv /\ [QueueNext]_queueVars => GivenInv'
  <1> SUFFICES ASSUME QueueInv, [QueueNext]_queueVars PROVE GivenInv'
    OBVIOUS
  <1>0. GivenInv
    BY DEF QueueInv
  <1>1. CASE Add
    BY <1>0, <1>1 DEF Add, GivenInv
  <1>2. ASSUME NEW c \in Consumers, Subscribe(c) \/ Poll(c) \/ ReadNothing(c)
        PROVE  GivenInv'
    BY <1>0, <1>2 DEF Subscribe, Poll, ReadNothing, GivenInv
  <1>3. ASSUME NEW c \in Consumers, Read(c) PROVE GivenInv'
    BY <1>3, GiveOutKeeps DEF Read
  <1>4. ASSUME NEW c \in Consumers, ReadThrows(c) PROVE GivenInv'
    <2>1. CASE GiveOut(c) /\ given < added
      BY <1>4, <2>1, GiveOutKeeps DEF ReadThrows
    <2>2. CASE GiveOut(c) /\ ~(given < added)
      <3>1. given' = given /\ (given + 1) .. given' = {}
        BY <2>2, QueueAssumption DEF GiveOut, QueueInv, QueueTypeOK
      <3>2. \A d \in Consumers : pending'[d] = pending[d]
        BY <2>2, <3>1 DEF GiveOut, QueueInv, QueueTypeOK
      <3>3. UNCHANGED <<acked, batch, handled>>
        BY <1>4 DEF ReadThrows
      <3> QED
        BY <1>0, <3>1, <3>2, <3>3 DEF GivenInv
    <2>3. CASE UNCHANGED <<given, pending>>
      BY <1>0, <1>4, <2>3 DEF ReadThrows, GivenInv
    <2> QED
      BY <1>4, <2>1, <2>2, <2>3 DEF ReadThrows
  <1>5. ASSUME NEW c \in Consumers, Handle(c) \/ HandleThrows(c)
        PROVE  GivenInv'
    <2>1. \E id \in batch[c] : handled' = [handled EXCEPT ![c] = @ \cup {id}]
      BY <1>5 DEF Handle, HandleThrows, IsNext
    <2>2. /\ UNCHANGED <<given, pending, acked>>
          /\ UNCHANGED batch \/ batch' = [batch EXCEPT ![c] = {}]
      BY <1>5 DEF Handle, HandleThrows
    <2> QED
      BY <2>1, <2>2, WorkKeeps
  <1>6. ASSUME NEW c \in Consumers, Ack(c) PROVE GivenInv'
    <2>1. PICK id \in Ids : /\ IsNext(c, id) /\ Acknowledge(c, {id})
                           /\ batch' = [batch EXCEPT ![c] = @ \ {id}]
      BY <1>6 DEF Ack
    <2>2. id \in batch[c] /\ UNCHANGED <<given, handled>>
      BY <1>6, <2>1 DEF Ack, IsNext
    <2> QED
      BY <2>1, <2>2, AcknowledgeKeeps
  <1>7. ASSUME NEW c \in Consumers, AckThrows(c) PROVE GivenInv'
    <2>1. batch' = [batch EXCEPT ![c] = {}] /\ UNCHANGED <<given, handled>>
      BY <1>7 DEF AckThrows
    <2>2. ASSUME NEW id \in Ids, IsNext(c, id), Acknowledge(c, {id})
          PROVE  GivenInv'
      BY <2>1, <2>2, AcknowledgeKeeps DEF IsNext
    <2>3. CASE UNCHANGED <<acked, pending>>
      BY <2>1, <2>3, WorkKeeps
    <2> QED
      BY <1>7, <2>2, <2>3 DEF AckThrows
  <1>8. ASSUME NEW c \in Consumers,
               WaitOver(c) \/ Unsubscribe(c) \/ ConsumerDies(c)
        PROVE  GivenInv'
    BY <1>8, WorkKeeps DEF WaitOver, Unsubscribe, ConsumerDies
  <1>9. CASE UNCHANGED queueVars
    BY <1>0, <1>9 DEF queueVars, GivenInv
  <1> QED
    BY <1>1, <1>2, <1>3, <1>4, <1>5, <1>6, <1>7, <1>8, <1>9
    DEF QueueNext, QueueStep, QueueThrows

LEMMA BatchStep ==
    QueueInv /\ [QueueNext]_queueVars => BatchInv' /\ AckedWasHandled'
  <1> SUFFICES ASSUME QueueInv, [QueueNext]_queueVars
               PROVE  BatchInv' /\ AckedWasHandled'
    OBVIOUS
  <1> USE DEF QueueInv, QueueTypeOK, BatchInv, AckedWasHandled, MoveTo, IsNext
  <1>1. CASE Add
    BY <1>1 DEF Add
  <1>2. ASSUME NEW c \in Consumers, Subscribe(c) \/ Poll(c) \/ ReadNothing(c)
        PROVE  BatchInv' /\ AckedWasHandled'
    BY <1>2 DEF Subscribe, Poll, ReadNothing
  <1>3. ASSUME NEW c \in Consumers, Read(c)
        PROVE  BatchInv' /\ AckedWasHandled'
    <2>1. \A id \in (given + 1) .. given', old \in handled[c] : old < id
      BY DEF GivenInv
    <2>2. /\ batch' = [batch EXCEPT ![c] = (given + 1) .. given']
          /\ place' = [place EXCEPT ![c] = "handling"]
          /\ UNCHANGED <<handled, completed, acked>>
      BY <1>3 DEF Read
    <2> DEFINE ids == (given + 1) .. given'
    <2> HIDE DEF ids
    <2> QED
      BY <2>1, <2>2 DEF ids
  <1>4. ASSUME NEW c \in Consumers, ReadThrows(c) \/ WaitOver(c)
        PROVE  BatchInv' /\ AckedWasHandled'
    BY <1>4 DEF ReadThrows, WaitOver
  <1>5. ASSUME NEW c \in Consumers, Handle(c)
        PROVE  BatchInv' /\ AckedWasHandled'
    <2>1. PICK id \in Ids :
              /\ id \in batch[c] /\ \A other \in batch[c] : id <= other
              /\ handled' = [handled EXCEPT ![c] = @ \cup {id}]
              /\ completed' = completed \cup {id}
      BY <1>5 DEF Handle
    <2>2. /\ place[c] = "handling" /\ place' = [place EXCEPT ![c] = "acking"]
          /\ UNCHANGED <<batch, acked>>
      BY <1>5 DEF Handle
    <2>3. \A x \in batch[c] : x \in Int
      BY DEF Ids
    <2>4. ASSUME NEW x \in batch[c]
          PROVE  /\ \A old \in handled[c] \cup {id} :
                        old < x \/ (old = x /\ \A other \in batch[c] : x <= other)
                 /\ (\A other \in batch[c] : x <= other) => x = id
      BY <2>1, <2>2, <2>3
    <2> QED
      BY <2>1, <2>2, <2>4
  <1>6. ASSUME NEW c \in Consumers, Ack(c)
        PROVE  BatchInv' /\ AckedWasHandled'
    <2>1. PICK id \in Ids :
              /\ IsNext(c, id) /\ acked' = acked \cup {id}
              /\ batch' = [batch EXCEPT ![c] = @ \ {id}]
              /\ place'[c] # "acking"
              /\ \A d \in Consumers \ {c} : place'[d] = place[d]
      BY <1>6 DEF Ack, Acknowledge
    <2>2. place[c] = "acking" /\ UNCHANGED <<handled, completed>>
      BY <1>6 DEF Ack
    <2>3. \A x \in batch[c] : x \in Int
      BY DEF Ids
    <2>4. \A x \in batch[c] \ {id} : \A old \in handled[c] : old < x
      BY <2>1, <2>2, <2>3
    <2> QED
      BY <2>1, <2>2, <2>4
  <1>7. ASSUME NEW c \in Consumers, AckThrows(c)
        PROVE  BatchInv' /\ AckedWasHandled'
    BY <1>7 DEF AckThrows, Acknowledge
  <1>8. ASSUME NEW c \in Consumers,
               HandleThrows(c) \/ Unsubscribe(c) \/ ConsumerDies(c)
        PROVE  BatchInv' /\ AckedWasHandled'
    BY <1>8 DEF HandleThrows, Unsubscribe, ConsumerDies
  <1>9. CASE UNCHANGED queueVars
    BY <1>9 DEF queueVars
  <1> QED
    BY <1>1, <1>2, <1>3, <1>4, <1>5, <1>6, <1>7, <1>8, <1>9
    DEF QueueNext, QueueStep, QueueThrows

\* The inductive invariant of the group and its consumers.
THEOREM QueueInvariant == QueueSpec => []QueueInv
  <1>1. QueueInv /\ [QueueNext]_queueVars => QueueInv'
    BY QueueTypesStep, GivenStep, BatchStep DEF QueueInv
  <1> QED
    BY QueueInitInv, <1>1, PTL DEF QueueSpec

\* No two consumers take up an entry, and none does twice (queue.ts:37-53).
THEOREM HandledOnce == QueueSpec => []HandledOnceInOrder
  <1>1. QueueInv => HandledOnceInOrder
    BY DEF QueueInv, GivenInv, BatchInv, HandledOnceInOrder
  <1> QED
    BY QueueInvariant, <1>1, PTL

\* An acknowledged entry's handler has returned (queue.ts:48-53).
THEOREM AckedHandled == QueueSpec => []AckedWasHandled
  <1>1. QueueInv => AckedWasHandled
    BY DEF QueueInv
  <1> QED
    BY QueueInvariant, <1>1, PTL

\* What was given out is acknowledged or pending (queue.ts:37-53).
THEOREM NothingLost == QueueSpec => []NothingVanishes
  <1>1. QueueInv => NothingVanishes
    BY DEF QueueInv, GivenInv, NothingVanishes
  <1> QED
    BY QueueInvariant, <1>1, PTL

\* All three.
THEOREM QueueAccounts == QueueSpec => []QueueAccountsForEntries
  BY HandledOnce, AckedHandled, NothingLost, PTL DEF QueueAccountsForEntries

-----------------------------------------------------------------------------
\* Side by side, each service behaves as by itself: the theorems about one hold of
\* what TLC checks of the three.
THEOREM ServicesAreParts == FairSpec => WebhookSpec /\ AuditSpec /\ QueueSpec
  <1>1. Init => WebhookInit /\ AuditInit /\ QueueInit
    BY DEF Init
  <1>2. [Next]_vars => [WebhookNext]_webhookVars /\ [AuditNext]_auditVars
                                                /\ [QueueNext]_queueVars
    BY DEF Next, vars
  <1> QED BY <1>1, <1>2, PTL DEF FairSpec, WebhookSpec, AuditSpec, QueueSpec
=============================================================================
