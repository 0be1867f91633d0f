--------------------------- MODULE ChannelProofs ---------------------------
(***************************************************************************)
(* Proofs about the channels: for any mails, polls and restarts; for any   *)
(* deliveries, threads and clicks of Slack; for any sockets and agents of  *)
(* the chat page; and for any lines and messages of the other adapters.    *)
(***************************************************************************)
EXTENDS MailPolling, SlackThreads, ChatConnection, ChannelAdapters,
        SequenceProofs

-----------------------------------------------------------------------------
(* The mails.                                                              *)

PollStages == {"off", "waiting", "loop", "awaiting", "flagging"}
PollRecords ==
    [at: PollStages, on: 0 .. MaxStarts, left: SUBSET Mails, mail: Mails \cup {0}]

MailTypes ==
    /\ inbox \in [Mails -> {"outside", "unseen", "seen"}]
    /\ connection \in {0, starts} /\ starts \in 0 .. MaxStarts
    /\ threadMap \in [Mails -> Mails \cup {0}] /\ handed \in [Mails -> 0 .. 2]
    /\ again \subseteq Mails /\ astray \subseteq Mails
    /\ poll \in [Polls -> PollRecords]

OneHolds == \A p, q \in Polls : Holds(p) /\ Holds(q) /\ poll[p].on = poll[q].on => p = q

(* A poll works on a connection that was made; the mail it is at was handed*)
(* over; and what its own connection has marked seen behind its back will  *)
(* be handed over again.                                                   *)
PollOK(p) ==
    /\ poll[p].at = "off" => poll[p].on = 0
    /\ poll[p].at # "off" => poll[p].on \in 1 .. starts
    /\ poll[p].at \in {"awaiting", "flagging"} <=> poll[p].mail # 0
    /\ poll[p].mail # 0 => handed[poll[p].mail] > 0 \/ poll[p].mail \in NoEnvelope
    /\ poll[p].at \in {"off", "waiting"} => poll[p].left = {}
    /\ poll[p].mail \notin poll[p].left
    /\ \A m \in poll[p].left : inbox[m] # "outside"
    /\ poll[p].on = connection => \A m \in poll[p].left : inbox[m] = "seen" => m \in again

AwaitedBy(m) == {p \in Polls : poll[p].mail = m}

(* A mail with an envelope is handed over before it is marked seen, and one*)
(* that was handed over is marked seen, or that did not follow, or         *)
(* a poll is still at it.                                                  *)
MailOK(m) ==
    /\ inbox[m] = "seen" => handed[m] > 0 \/ m \in NoEnvelope
    /\ m \in NoEnvelope => handed[m] = 0
    /\ handed[m] > 0 => inbox[m] = "seen" \/ m \in again \/ AwaitedBy(m) # {}
    /\ handed[m] > 1 => m \in again \/ \E p \in AwaitedBy(m) : poll[p].on # connection

(* A mail that answers none is the thread; all that another one answers,   *)
(* directly or not, are in the map with it, or it is astray.               *)
ThreadOK(m) ==
    /\ threadMap[m] # 0 /\ InReplyTo[m] = 0 => threadMap[m] = m
    /\ threadMap[m] # 0 /\ m \notin astray /\ InReplyTo[m] # 0 =>
        /\ threadMap[InReplyTo[m]] # 0 /\ InReplyTo[m] \notin astray
        /\ threadMap[m] = threadMap[InReplyTo[m]]

MailInv ==
    /\ MailTypes /\ OneHolds
    /\ \A p \in Polls : PollOK(p)
    /\ \A m \in Mails : MailOK(m)
    /\ \A m \in Mails : ThreadOK(m)

LEMMA NextMailIsLeft ==
    ASSUME MailTypes, NEW p \in Polls, poll[p].left # {}
    PROVE  NextMail(p) \in poll[p].left /\ NextMail(p) \in Mails /\ NextMail(p) # 0
  <1>1. poll[p].left \subseteq Mails
    BY DEF MailTypes, PollRecords
  <1>2. poll[p].left \subseteq Nat
    BY <1>1, MailAssumption
  <1>3. \E m \in poll[p].left : \A n \in poll[p].left : m <= n
    BY <1>2, LeastMember
  <1>4. NextMail(p) \in poll[p].left
    BY <1>3 DEF NextMail
  <1> QED BY <1>1, <1>4, MailAssumption

LEMMA ThreadForTypes ==
    ASSUME MailTypes, NEW m \in Mails
    PROVE  ThreadFor(m) \in Mails
  BY MailAssumption DEF MailTypes, ThreadFor

LEMMA OffIsRecord == Off \in PollRecords
  BY MailAssumption DEF Off, PollRecords, PollStages

LEMMA MailInitInv == MailInit => MailInv
  <1> SUFFICES ASSUME MailInit PROVE MailInv
    OBVIOUS
  <1>1. poll = [p \in Polls |-> Off] /\ poll \in [Polls -> PollRecords]
    BY OffIsRecord DEF MailInit
  <1>2. MailTypes
    BY <1>1, MailAssumption DEF MailInit, MailTypes
  <1>3. OneHolds /\ \A p \in Polls : PollOK(p)
    BY <1>1, MailAssumption DEF MailInit, OneHolds, Holds, PollOK, Off
  <1>4. \A m \in Mails : MailOK(m) /\ ThreadOK(m)
    BY DEF MailInit, MailOK, ThreadOK
  <1> QED BY <1>2, <1>3, <1>4 DEF MailInv

-----------------------------------------------------------------------------
(* A step of one poll: the others keep what they had.                      *)

LEMMA PollChanges ==
    ASSUME MailTypes, NEW p \in Polls, NEW r \in PollRecords,
           poll' = [poll EXCEPT ![p] = r]
    PROVE  /\ poll' \in [Polls -> PollRecords] /\ poll'[p] = r
           /\ \A q \in Polls \ {p} : poll'[q] = poll[q]
  BY DEF MailTypes

LEMMA MailComesStep ==
    ASSUME MailInv, NEW n \in Mails, MailComes(n)
    PROVE  MailInv'
  <1> USE DEF MailComes
  <1>1. MailTypes' /\ OneHolds'
    BY DEF MailInv, MailTypes, OneHolds, Holds
  <1>2. ASSUME NEW p \in Polls PROVE PollOK(p)'
    <2>1. PollOK(p) /\ poll[p] \in PollRecords /\ poll[p].left \subseteq Mails
      BY DEF MailInv, MailTypes, PollRecords
    <2>2. n \notin poll[p].left
      BY <2>1 DEF PollOK
    <2>3. \A m \in poll[p].left : inbox'[m] = inbox[m]
      BY <2>1, <2>2 DEF MailInv, MailTypes
    <2> QED BY <2>1, <2>3 DEF PollOK
  <1>3. ASSUME NEW m \in Mails PROVE MailOK(m)' /\ ThreadOK(m)'
    <2>1. MailOK(m) /\ ThreadOK(m)
      BY DEF MailInv
    <2>2. inbox'[m] = IF m = n THEN "unseen" ELSE inbox[m]
      BY DEF MailInv, MailTypes
    <2>3. inbox[m] = "seen" <=> inbox'[m] = "seen"
      BY <2>2
    <2> QED BY <2>1, <2>3 DEF MailOK, ThreadOK, AwaitedBy
  <1> QED BY <1>1, <1>2, <1>3 DEF MailInv

LEMMA StartMailStep == ASSUME MailInv, StartMail PROVE MailInv'
  <1> USE DEF StartMail
  <1>1. MailTypes' /\ OneHolds'
    BY MailAssumption DEF MailInv, MailTypes, OneHolds, Holds
  <1>2. starts \in Nat /\ starts' = starts + 1 /\ connection' = starts + 1
    BY DEF MailInv, MailTypes
  <1>3. ASSUME NEW p \in Polls PROVE PollOK(p)' /\ poll[p].on # connection'
    <2>1. PollOK(p) /\ poll[p] \in PollRecords
      BY DEF MailInv, MailTypes
    <2>2. poll[p].on \in 0 .. starts
      BY <2>1, <1>2 DEF PollOK, PollRecords
    <2> QED BY <2>1, <2>2, <1>2 DEF PollOK
  <1>4. ASSUME NEW m \in Mails PROVE MailOK(m)' /\ ThreadOK(m)'
    BY <1>3 DEF MailInv, MailOK, ThreadOK, AwaitedBy
  <1> QED BY <1>1, <1>3, <1>4 DEF MailInv

LEMMA StopMailStep == ASSUME MailInv, StopMail PROVE MailInv'
  <1> USE DEF StopMail
  <1>1. MailTypes' /\ OneHolds'
    BY MailAssumption DEF MailInv, MailTypes, OneHolds, Holds
  <1>2. ASSUME NEW p \in Polls PROVE PollOK(p)' /\ (poll[p].mail # 0 => poll[p].on # connection')
    <2>1. PollOK(p) /\ poll[p] \in PollRecords
      BY DEF MailInv, MailTypes
    <2> QED BY <2>1 DEF PollOK, PollRecords, PollStages, MailInv, MailTypes
  <1>3. ASSUME NEW m \in Mails PROVE MailOK(m)' /\ ThreadOK(m)'
    <2>1. MailOK(m) /\ m # 0
      BY MailAssumption DEF MailInv
    <2> QED BY <2>1, <1>2 DEF MailOK, ThreadOK, AwaitedBy
  <1> QED BY <1>1, <1>2, <1>3 DEF MailInv

LEMMA BeginPollStep ==
    ASSUME MailInv, NEW p \in Polls, BeginPoll(p)
    PROVE  MailInv'
  <1> USE DEF BeginPoll
  <1> DEFINE r == [Off EXCEPT !.at = "waiting", !.on = connection]
  <1>1. /\ r \in PollRecords /\ r.at = "waiting" /\ r.on = connection
        /\ r.left = {} /\ r.mail = 0
    BY MailAssumption DEF MailInv, MailTypes, Off, PollRecords, PollStages
  <1>2. poll' = [poll EXCEPT ![p] = r]
    OBVIOUS
  <1> HIDE DEF r
  <1>3. /\ poll' \in [Polls -> PollRecords] /\ poll'[p] = r
        /\ \A q \in Polls \ {p} : poll'[q] = poll[q]
    BY <1>1, <1>2, PollChanges DEF MailInv
  <1>4. MailTypes'
    BY <1>3 DEF MailInv, MailTypes
  <1>5. OneHolds'
    BY <1>1, <1>3 DEF MailInv, OneHolds, Holds
  <1>6. ASSUME NEW q \in Polls PROVE PollOK(q)'
    <2>1. connection \in 1 .. starts
      BY DEF MailInv, MailTypes
    <2>2. CASE q = p
      BY <1>1, <1>3, <2>1, <2>2 DEF PollOK
    <2>3. CASE q # p
      BY <1>3, <2>3 DEF MailInv, PollOK
    <2> QED BY <2>2, <2>3
  <1>7. ASSUME NEW m \in Mails PROVE AwaitedBy(m)' = AwaitedBy(m)
    BY <1>1, <1>3, MailAssumption DEF AwaitedBy, Off
  <1>8. ASSUME NEW m \in Mails PROVE MailOK(m)' /\ ThreadOK(m)'
    <2>1. \A q \in AwaitedBy(m) : poll'[q].on = poll[q].on
      BY <1>3, MailAssumption DEF AwaitedBy, Off
    <2> QED BY <2>1, <1>7 DEF MailInv, MailOK, ThreadOK
  <1> QED BY <1>4, <1>5, <1>6, <1>8 DEF MailInv

LEMMA LockInboxStep ==
    ASSUME MailInv, NEW p \in Polls, LockInbox(p)
    PROVE  MailInv'
  <1> USE DEF LockInbox
  <1>0. poll[p] \in PollRecords /\ PollOK(p)
    BY DEF MailInv, MailTypes
  <1> DEFINE r == [poll[p] EXCEPT !.at = "loop", !.left = Unseen]
  <1>1. /\ r \in PollRecords /\ r.at = "loop" /\ r.on = poll[p].on
        /\ r.left = Unseen /\ r.mail = 0
    BY <1>0, MailAssumption DEF PollOK, PollRecords, PollStages, Unseen
  <1>2. poll' = [poll EXCEPT ![p] = r]
    BY DEF MailInv, MailTypes
  <1> HIDE DEF r
  <1>3. /\ poll' \in [Polls -> PollRecords] /\ poll'[p] = r
        /\ \A q \in Polls \ {p} : poll'[q] = poll[q]
    BY <1>1, <1>2, PollChanges DEF MailInv
  <1>4. MailTypes'
    BY <1>3 DEF MailInv, MailTypes
  <1>5. OneHolds'
    BY <1>1, <1>3 DEF MailInv, OneHolds, Holds
  <1>6. ASSUME NEW q \in Polls PROVE PollOK(q)'
    <2>1. CASE q = p
      <3>1. 0 \notin Unseen /\ \A m \in Unseen : inbox[m] = "unseen"
        BY MailAssumption DEF Unseen
      <3> QED BY <2>1, <3>1, <1>0, <1>1, <1>3 DEF PollOK
    <2>2. CASE q # p
      BY <2>2, <1>3 DEF MailInv, PollOK
    <2> QED BY <2>1, <2>2
  <1>7. ASSUME NEW m \in Mails PROVE MailOK(m)' /\ ThreadOK(m)'
    <2>1. p \notin AwaitedBy(m) /\ poll'[p].mail # m
      BY <1>0, <1>1, <1>3, MailAssumption DEF AwaitedBy, PollOK
    <2>2. AwaitedBy(m)' = AwaitedBy(m) /\ \A q \in AwaitedBy(m) : poll'[q].on = poll[q].on
      BY <2>1, <1>3 DEF AwaitedBy
    <2> QED BY <2>2 DEF MailInv, MailOK, ThreadOK
  <1> QED BY <1>4, <1>5, <1>6, <1>7 DEF MailInv

(* A reply to a mail that is in place is put in its place, and a mail that *)
(* is handed over again leaves those in place that are.                    *)
LEMMA HandOverThreads ==
    ASSUME MailInv, NEW n \in Mails, NEW m \in Mails,
           threadMap' = [threadMap EXCEPT ![n] = ThreadFor(n)],
           astray' = IF Late(n) THEN astray \cup {n} ELSE astray \ {n}
    PROVE  ThreadOK(m)'
  <1>1. /\ threadMap'[n] = ThreadFor(n)
        /\ \A k \in Mails \ {n} : threadMap'[k] = threadMap[k]
    BY DEF MailInv, MailTypes
  <1>2. \A k \in Mails \ {n} : k \in astray' <=> k \in astray
    OBVIOUS
  <1>3. n \in astray' <=> Late(n)
    OBVIOUS
  <1>4. ThreadOK(n) /\ ThreadOK(m) /\ ThreadFor(n) \in Mails
    BY ThreadForTypes DEF MailInv
  <1> DEFINE parent == InReplyTo[m]
  <1>a. threadMap'[m] # 0 /\ parent = 0 => threadMap'[m] = m
    BY <1>1, <1>4 DEF ThreadOK, ThreadFor
  <1> SUFFICES ASSUME threadMap'[m] # 0, m \notin astray', parent # 0
               PROVE  /\ threadMap'[parent] # 0 /\ parent \notin astray'
                      /\ threadMap'[m] = threadMap'[parent]
    BY <1>a DEF ThreadOK
  <1>5. parent \in Mails
    BY MailAssumption
  <1>6. CASE m = n
    <2>1. threadMap[parent] # 0 /\ parent \notin astray
      BY <1>3, <1>6 DEF Late
    <2>2. threadMap'[m] = threadMap[parent]
      BY <1>1, <1>6, <2>1 DEF ThreadFor
    <2>3. CASE parent = n
      BY <1>1, <1>3, <1>4, <1>6, <2>2, <2>1, <2>3
    <2>4. CASE parent # n
      BY <1>1, <1>2, <1>5, <2>1, <2>2, <2>4
    <2> QED BY <2>3, <2>4
  <1>7. CASE m # n
    <2>1. /\ threadMap[parent] # 0 /\ parent \notin astray
          /\ threadMap[m] = threadMap[parent]
      BY <1>1, <1>2, <1>4, <1>7 DEF ThreadOK
    <2>2. CASE parent # n
      BY <1>1, <1>2, <1>5, <1>7, <2>1, <2>2
    <2>3. CASE parent = n
      <3>1. CASE InReplyTo[n] = 0
        <4>1. ThreadFor(n) = n /\ ~Late(n) /\ threadMap[n] = n
          BY <1>4, <2>1, <2>3, <3>1 DEF ThreadFor, Late, ThreadOK
        <4> QED BY <4>1, <1>1, <1>3, <1>7, <2>1, <2>3
      <3>2. CASE InReplyTo[n] # 0
        <4>1. /\ threadMap[InReplyTo[n]] # 0 /\ InReplyTo[n] \notin astray
              /\ threadMap[n] = threadMap[InReplyTo[n]]
          BY <1>4, <2>1, <2>3, <3>2 DEF ThreadOK
        <4>2. ~Late(n) /\ ThreadFor(n) = threadMap[n]
          BY <3>2, <4>1 DEF Late, ThreadFor
        <4> QED BY <4>2, <1>1, <1>3, <1>7, <2>1, <2>3
      <3> QED BY <3>1, <3>2
    <2> QED BY <2>2, <2>3
  <1> QED BY <1>6, <1>7

(* The poll that hands over n is the only one at work on its connection: n *)
(* was handed over before only if its marking did not follow, or if a poll *)
(* of an earlier connection is at it.                                      *)
LEMMA HandOverStep ==
    ASSUME MailInv, NEW p \in Polls, HandOver(p)
    PROVE  MailInv'
  <1> USE DEF HandOver
  <1>0. poll[p] \in PollRecords /\ PollOK(p) /\ poll[p].left \subseteq Mails
    BY DEF MailInv, MailTypes, PollRecords
  <1>1. PICK n \in Mails : n = NextMail(p) /\ n \in poll[p].left /\ n # 0
    BY NextMailIsLeft DEF MailInv
  <1> DEFINE r == [poll[p] EXCEPT !.at = "awaiting", !.mail = n, !.left = @ \ {n}]
  <1>2. /\ r \in PollRecords /\ r.at = "awaiting" /\ r.on = poll[p].on
        /\ r.left = poll[p].left \ {n} /\ r.mail = n
    BY <1>0, <1>1 DEF PollRecords, PollStages
  <1>3. poll' = [poll EXCEPT ![p] = r]
    BY <1>1 DEF MailInv, MailTypes
  <1>4. /\ handed' = [handed EXCEPT ![n] = IF @ < 2 THEN @ + 1 ELSE @] /\ n \notin NoEnvelope
        /\ \/ UNCHANGED <<threadMap, astray>>
           \/ /\ threadMap' = [threadMap EXCEPT ![n] = ThreadFor(n)]
              /\ astray' = IF Late(n) THEN astray \cup {n} ELSE astray \ {n}
    BY <1>1
  <1> HIDE DEF r
  <1>5. /\ poll' \in [Polls -> PollRecords] /\ poll'[p] = r
        /\ \A q \in Polls \ {p} : poll'[q] = poll[q]
    BY <1>2, <1>3, PollChanges DEF MailInv
  <1>6. /\ handed' \in [Mails -> 0 .. 2] /\ handed'[n] > 0
        /\ handed'[n] > 1 => handed[n] > 0
        /\ \A m \in Mails \ {n} : handed'[m] = handed[m]
    BY <1>1, <1>4 DEF MailInv, MailTypes
  <1>7. MailTypes'
    <2>1. threadMap' \in [Mails -> Mails \cup {0}]
      <3>1. PICK t \in Mails : t = ThreadFor(n)
        BY <1>1, ThreadForTypes DEF MailInv
      <3>2. /\ threadMap \in [Mails -> Mails \cup {0}]
            /\ threadMap' = threadMap \/ threadMap' = [threadMap EXCEPT ![n] = t]
        BY <1>4, <3>1 DEF MailInv, MailTypes
      <3> QED BY <3>2
    <2>2. astray' \subseteq Mails
      BY <1>4 DEF MailInv, MailTypes
    <2> QED BY <1>5, <1>6, <2>1, <2>2 DEF MailInv, MailTypes
  <1>8. OneHolds'
    BY <1>2, <1>5 DEF MailInv, OneHolds, Holds
  <1>9. ASSUME NEW q \in Polls PROVE PollOK(q)'
    <2>1. CASE q = p
      BY <1>0, <1>1, <1>2, <1>5, <1>6, <2>1 DEF PollOK
    <2>2. CASE q # p
      <3>1. PollOK(q) /\ poll'[q] = poll[q] /\ poll[q].mail \in Mails \cup {0}
        BY <2>2, <1>5 DEF MailInv, MailTypes, PollRecords
      <3>2. poll[q].mail # 0 => handed'[poll[q].mail] > 0 \/ poll[q].mail \in NoEnvelope
        BY <3>1, <1>6 DEF PollOK
      <3> QED BY <3>1, <3>2 DEF PollOK
    <2> QED BY <2>1, <2>2
  <1>10. ASSUME NEW q \in Polls, q # p, poll[q].mail # 0 PROVE poll[q].on # connection
    <2>1. PollOK(q) /\ Holds(p)
      BY DEF MailInv, Holds
    <2> QED BY <1>10, <2>1 DEF MailInv, PollOK, OneHolds, Holds
  <1>11. ASSUME NEW m \in Mails PROVE MailOK(m)'
    <2>1. MailOK(m)
      BY DEF MailInv
    <2>2. CASE m = n
      <3>1. p \in AwaitedBy(m)'
        BY <2>2, <1>2, <1>5 DEF AwaitedBy
      <3>2. ASSUME handed[n] > 0
            PROVE  n \in again \/ \E q \in AwaitedBy(n)' : poll'[q].on # connection'
        <4>1. CASE inbox[n] = "seen"
          BY <1>0, <1>1, <4>1 DEF PollOK
        <4>2. CASE AwaitedBy(n) # {}
          <5>1. PICK q \in Polls : poll[q].mail = n
            BY <4>2 DEF AwaitedBy
          <5>2. q # p
            BY <5>1, <1>0, <1>1 DEF PollOK
          <5> QED BY <1>1, <1>5, <1>10, <5>1, <5>2 DEF AwaitedBy
        <4> QED BY <1>1, <2>1, <2>2, <3>2, <4>1, <4>2 DEF MailOK
      <3> QED BY <2>2, <3>1, <3>2, <1>4, <1>6 DEF MailOK
    <2>3. CASE m # n
      <3>1. \A q \in AwaitedBy(m) : q # p
        BY <1>0, <1>1, MailAssumption DEF AwaitedBy, PollOK
      <3>2. AwaitedBy(m)' = AwaitedBy(m) /\ \A q \in AwaitedBy(m) : poll'[q].on = poll[q].on
        BY <3>1, <2>3, <1>2, <1>5 DEF AwaitedBy
      <3> QED BY <2>1, <2>3, <3>2, <1>6 DEF MailOK
    <2> QED BY <2>2, <2>3
  <1>12. ASSUME NEW m \in Mails PROVE ThreadOK(m)'
    <2>1. CASE UNCHANGED <<threadMap, astray>>
      BY <2>1 DEF MailInv, ThreadOK
    <2>2. CASE /\ threadMap' = [threadMap EXCEPT ![n] = ThreadFor(n)]
               /\ astray' = IF Late(n) THEN astray \cup {n} ELSE astray \ {n}
      BY <1>1, <2>2, HandOverThreads
    <2> QED BY <1>4, <2>1, <2>2
  <1> QED BY <1>7, <1>8, <1>9, <1>11, <1>12 DEF MailInv

LEMMA PassOverStep ==
    ASSUME MailInv, NEW p \in Polls, PassOver(p)
    PROVE  MailInv'
  <1> USE DEF PassOver
  <1>0. poll[p] \in PollRecords /\ PollOK(p) /\ poll[p].left \subseteq Mails
    BY DEF MailInv, MailTypes, PollRecords
  <1>1. PICK n \in Mails : n = NextMail(p) /\ n \in poll[p].left /\ n # 0 /\ n \in NoEnvelope
    BY NextMailIsLeft DEF MailInv
  <1> DEFINE r == [poll[p] EXCEPT !.at = "flagging", !.mail = n, !.left = @ \ {n}]
  <1>2. /\ r \in PollRecords /\ r.at = "flagging" /\ r.on = poll[p].on
        /\ r.left = poll[p].left \ {n} /\ r.mail = n
    BY <1>0, <1>1 DEF PollRecords, PollStages
  <1>3. poll' = [poll EXCEPT ![p] = r]
    BY <1>1 DEF MailInv, MailTypes
  <1> HIDE DEF r
  <1>4. /\ poll' \in [Polls -> PollRecords] /\ poll'[p] = r
        /\ \A q \in Polls \ {p} : poll'[q] = poll[q]
    BY <1>2, <1>3, PollChanges DEF MailInv
  <1>5. MailTypes' /\ OneHolds'
    BY <1>2, <1>4 DEF MailInv, MailTypes, OneHolds, Holds
  <1>6. ASSUME NEW q \in Polls PROVE PollOK(q)'
    <2>1. CASE q = p
      BY <1>0, <1>1, <1>2, <1>4, <2>1 DEF PollOK
    <2>2. CASE q # p
      BY <2>2, <1>4 DEF MailInv, PollOK
    <2> QED BY <2>1, <2>2
  <1>7. ASSUME NEW m \in Mails PROVE MailOK(m)' /\ ThreadOK(m)'
    <2>1. MailOK(m) /\ ThreadOK(m)
      BY DEF MailInv
    <2>2. \A q \in AwaitedBy(m) : q # p
      BY <1>0, MailAssumption DEF AwaitedBy, PollOK
    <2>3. CASE m = n
      BY <1>1, <2>1, <2>3 DEF MailOK, ThreadOK
    <2>4. CASE m # n
      <3>1. AwaitedBy(m)' = AwaitedBy(m) /\ \A q \in AwaitedBy(m) : poll'[q].on = poll[q].on
        BY <2>2, <2>4, <1>2, <1>4 DEF AwaitedBy
      <3> QED BY <2>1, <3>1 DEF MailOK, ThreadOK
    <2> QED BY <2>3, <2>4
  <1> QED BY <1>5, <1>6, <1>7 DEF MailInv

LEMMA MailTakenStep ==
    ASSUME MailInv, NEW p \in Polls, MailTaken(p)
    PROVE  MailInv'
  <1> USE DEF MailTaken
  <1>0. poll[p] \in PollRecords /\ PollOK(p) /\ poll[p].mail \in Mails
    BY DEF MailInv, MailTypes, PollRecords, PollOK
  <1> DEFINE r == [poll[p] EXCEPT !.at = "flagging"]
  <1>1. /\ r \in PollRecords /\ r.at = "flagging" /\ r.on = poll[p].on
        /\ r.left = poll[p].left /\ r.mail = poll[p].mail
    BY <1>0 DEF PollRecords, PollStages
  <1>2. poll' = [poll EXCEPT ![p] = r]
    BY DEF MailInv, MailTypes
  <1> HIDE DEF r
  <1>3. /\ poll' \in [Polls -> PollRecords] /\ poll'[p] = r
        /\ \A q \in Polls \ {p} : poll'[q] = poll[q]
    BY <1>1, <1>2, PollChanges DEF MailInv
  <1>4. again \subseteq again' /\ again' \subseteq Mails
    BY <1>0 DEF MailInv, MailTypes
  <1>5. MailTypes'
    BY <1>3, <1>4 DEF MailInv, MailTypes
  <1>6. OneHolds'
    BY <1>1, <1>3 DEF MailInv, OneHolds, Holds
  <1>7. ASSUME NEW q \in Polls PROVE PollOK(q)'
    <2>1. CASE q = p
      BY <2>1, <1>0, <1>1, <1>3, <1>4 DEF PollOK
    <2>2. CASE q # p
      BY <2>2, <1>3, <1>4 DEF MailInv, PollOK
    <2> QED BY <2>1, <2>2
  <1>8. ASSUME NEW m \in Mails PROVE MailOK(m)' /\ ThreadOK(m)'
    <2>1. AwaitedBy(m)' = AwaitedBy(m) /\ \A q \in Polls : poll'[q].on = poll[q].on
      BY <1>1, <1>3 DEF AwaitedBy
    <2> QED BY <2>1, <1>4 DEF MailInv, MailOK, ThreadOK, AwaitedBy
  <1> QED BY <1>5, <1>6, <1>7, <1>8 DEF MailInv

LEMMA MarkSeenStep ==
    ASSUME MailInv, NEW p \in Polls, MarkSeen(p)
    PROVE  MailInv'
  <1> USE DEF MarkSeen
  <1> DEFINE n == poll[p].mail
             r == [poll[p] EXCEPT !.at = "loop", !.mail = 0]
  <1>0. poll[p] \in PollRecords /\ PollOK(p) /\ n \in Mails /\ n # 0
        /\ (handed[n] > 0 \/ n \in NoEnvelope)
    BY MailAssumption DEF MailInv, MailTypes, PollRecords, PollOK
  <1>1. /\ r \in PollRecords /\ r.at = "loop" /\ r.on = poll[p].on
        /\ r.left = poll[p].left /\ r.mail = 0
    BY <1>0 DEF PollRecords, PollStages
  <1>2. poll' = [poll EXCEPT ![p] = r] /\ inbox' = [inbox EXCEPT ![n] = "seen"]
    BY DEF MailInv, MailTypes
  <1>a. poll[p].on # connection => n \in again'
    OBVIOUS
  <1>4. again \subseteq again' /\ again' \subseteq Mails
    BY <1>0 DEF MailInv, MailTypes
  <1> HIDE DEF r, n
  <1>3. /\ poll' \in [Polls -> PollRecords] /\ poll'[p] = r
        /\ \A q \in Polls \ {p} : poll'[q] = poll[q]
    BY <1>1, <1>2, PollChanges DEF MailInv
  <1>b. inbox'[n] = "seen" /\ \A m \in Mails \ {n} : inbox'[m] = inbox[m]
    BY <1>0, <1>2 DEF MailInv, MailTypes
  <1>5. MailTypes'
    BY <1>0, <1>2, <1>3, <1>4 DEF MailInv, MailTypes
  <1>6. OneHolds'
    BY <1>1, <1>3 DEF MailInv, OneHolds, Holds
  <1>7. ASSUME NEW q \in Polls PROVE PollOK(q)'
    <2>1. PollOK(q) /\ poll[q].left \subseteq Mails /\ poll'[q].left = poll[q].left
      BY <1>1, <1>3 DEF MailInv, MailTypes, PollRecords
    <2>2. ASSUME poll[q].on = connection, n \in poll[q].left PROVE n \in again'
      <3>1. q # p
        BY <1>0, <2>2 DEF PollOK, n
      <3>2. Holds(p) /\ Holds(q)
        BY <2>1, <2>2, <1>0 DEF Holds, PollOK, MailInv, MailTypes, PollRecords, PollStages
      <3>3. poll[q].on # poll[p].on
        BY <3>1, <3>2 DEF MailInv, OneHolds
      <3> QED BY <3>3, <2>2, <1>a
    <2>3. poll[q].on = connection =>
            \A m \in poll[q].left : inbox'[m] = "seen" => m \in again'
      BY <2>1, <2>2, <1>4, <1>b DEF PollOK
    <2>4. \A m \in poll[q].left : inbox'[m] # "outside"
      BY <2>1, <1>b DEF PollOK
    <2>5. CASE q = p
      BY <2>1, <2>3, <2>4, <2>5, <1>0, <1>1, <1>3, MailAssumption DEF PollOK
    <2>6. CASE q # p
      BY <2>1, <2>3, <2>4, <2>6, <1>3 DEF PollOK
    <2> QED BY <2>5, <2>6
  <1>8. ASSUME NEW m \in Mails PROVE MailOK(m)' /\ ThreadOK(m)'
    <2>1. MailOK(m) /\ ThreadOK(m)
      BY DEF MailInv
    <2>2. CASE m = n
      <3>1. ASSUME handed[m] > 1
            PROVE  m \in again' \/ \E q \in AwaitedBy(m)' : poll'[q].on # connection'
        <4>1. CASE m \in again
          BY <4>1, <1>4
        <4>2. CASE \E q \in AwaitedBy(m) : poll[q].on # connection
          <5>1. PICK q \in Polls : poll[q].mail = m /\ poll[q].on # connection
            BY <4>2 DEF AwaitedBy
          <5>2. CASE q = p
            BY <5>1, <5>2, <2>2, <1>a
          <5>3. CASE q # p
            BY <5>1, <5>3, <1>3 DEF AwaitedBy
          <5> QED BY <5>2, <5>3
        <4> QED BY <2>1, <3>1, <4>1, <4>2 DEF MailOK
      <3> QED BY <3>1, <2>1, <2>2, <1>0, <1>b DEF MailOK, ThreadOK
    <2>3. CASE m # n
      <3>1. p \notin AwaitedBy(m) /\ p \notin AwaitedBy(m)'
        BY <2>3, <1>1, <1>3, MailAssumption DEF AwaitedBy, n
      <3>2. AwaitedBy(m)' = AwaitedBy(m) /\ \A q \in AwaitedBy(m) : poll'[q].on = poll[q].on
        BY <3>1, <1>3 DEF AwaitedBy
      <3> QED BY <2>1, <2>3, <3>2, <1>4, <1>b DEF MailOK, ThreadOK
    <2> QED BY <2>2, <2>3
  <1> QED BY <1>5, <1>6, <1>7, <1>8 DEF MailInv

LEMMA PollEndsStep ==
    ASSUME MailInv, NEW p \in Polls, PollEnds(p)
    PROVE  MailInv'
  <1> USE DEF PollEnds
  <1>0. poll[p] \in PollRecords /\ PollOK(p)
    BY DEF MailInv, MailTypes
  <1>1. Off \in PollRecords /\ Off.at = "off" /\ Off.on = 0 /\ Off.left = {} /\ Off.mail = 0
    BY OffIsRecord DEF Off
  <1>3. /\ poll' \in [Polls -> PollRecords] /\ poll'[p] = Off
        /\ \A q \in Polls \ {p} : poll'[q] = poll[q]
    BY <1>1, PollChanges DEF MailInv
  <1>4. /\ again \subseteq again' /\ again' \subseteq Mails
        /\ poll[p].mail # 0 => poll[p].mail \in again'
    BY <1>0 DEF MailInv, MailTypes, PollRecords
  <1>5. MailTypes'
    BY <1>3, <1>4 DEF MailInv, MailTypes
  <1>6. OneHolds'
    BY <1>1, <1>3 DEF MailInv, OneHolds, Holds
  <1>7. ASSUME NEW q \in Polls PROVE PollOK(q)'
    <2>1. CASE q = p
      BY <2>1, <1>1, <1>3 DEF PollOK
    <2>2. CASE q # p
      BY <2>2, <1>3, <1>4 DEF MailInv, PollOK
    <2> QED BY <2>1, <2>2
  <1>8. ASSUME NEW m \in Mails PROVE MailOK(m)' /\ ThreadOK(m)'
    <2>1. MailOK(m) /\ ThreadOK(m) /\ m # 0
      BY MailAssumption DEF MailInv
    <2>2. CASE poll[p].mail = m
      BY <2>1, <2>2, <1>4 DEF MailOK, ThreadOK
    <2>3. CASE poll[p].mail # m
      <3>1. AwaitedBy(m)' = AwaitedBy(m) /\ \A q \in AwaitedBy(m) : poll'[q].on = poll[q].on
        BY <2>1, <2>3, <1>1, <1>3 DEF AwaitedBy
      <3> QED BY <2>1, <3>1, <1>4 DEF MailOK, ThreadOK
    <2> QED BY <2>2, <2>3
  <1> QED BY <1>5, <1>6, <1>7, <1>8 DEF MailInv

LEMMA MailStep == MailInv /\ [MailNext]_mailVars => MailInv'
  <1> SUFFICES ASSUME MailInv, [MailNext]_mailVars PROVE MailInv'
    OBVIOUS
  <1>1. CASE StartMail
    BY <1>1, StartMailStep
  <1>2. CASE StopMail
    BY <1>2, StopMailStep
  <1>3. ASSUME NEW m \in Mails, MailComes(m) PROVE MailInv'
    BY <1>3, MailComesStep
  <1>4. ASSUME NEW p \in Polls,
               \/ BeginPoll(p) \/ LockInbox(p) \/ HandOver(p) \/ PassOver(p) \/ MailTaken(p)
               \/ MarkSeen(p) \/ PollEnds(p)
        PROVE  MailInv'
    BY <1>4, BeginPollStep, LockInboxStep, HandOverStep, PassOverStep, MailTakenStep, MarkSeenStep, PollEndsStep
  <1>5. CASE UNCHANGED mailVars
    BY <1>5 DEF mailVars, MailInv, MailTypes, OneHolds, Holds, PollOK, MailOK, AwaitedBy, ThreadOK
  <1> QED BY <1>1, <1>2, <1>3, <1>4, <1>5 DEF MailNext

LEMMA MailInvariant == MailSpec => []MailInv
  <1>1. MailInit => MailInv
    BY MailInitInv
  <1>2. MailInv /\ [MailNext]_mailVars => MailInv'
    BY MailStep
  <1> QED BY <1>1, <1>2, PTL DEF MailSpec

\* Types, and one poll at a time holds a connection's lock, for any number of polls,
\* of mails and of restarts (email/adapter.ts:36-52, 196-223).
THEOREM MailTypesHold == MailSpec => []MailTypeOK
  <1>1. MailInv => MailTypeOK
    BY DEF MailInv, MailTypes, MailTypeOK, OneHolds, PollRecords
  <1> QED BY <1>1, MailInvariant, PTL

\* Every mail with an envelope that is marked seen was handed over, and none without
\* one; none was twice unless its marking did not
\* follow or a restart was in between, and replies share the thread of what they
\* answer (email/adapter.ts:193-272).
THEOREM MailsHandedOver == MailSpec => []MailsAreHandedOver
  <1>1. ASSUME MailInv PROVE MailsAreHandedOver
    <2>1. ASSUME NEW m \in Mails PROVE MailOK(m) /\ ThreadOK(m)
      BY <1>1 DEF MailInv
    <2>2. \A m \in Mails : handed[m] > 1 =>
            m \in again \/ \E p \in Polls : poll[p].mail = m /\ poll[p].on # connection
      BY <2>1 DEF MailOK, AwaitedBy
    <2>3. /\ \A m \in Mails \ NoEnvelope : inbox[m] = "seen" => handed[m] > 0
          /\ \A m \in Mails \cap NoEnvelope : handed[m] = 0
      BY <2>1 DEF MailOK
    <2> QED BY <2>1, <2>2, <2>3 DEF MailsAreHandedOver, ThreadOK
  <1> QED BY <1>1, MailInvariant, PTL

-----------------------------------------------------------------------------
(* Slack.                                                                  *)

HandlerStages == {"unsent", "keyless", "keyed", "published", "waiting", "heard", "ended"}
Posts == SlackMessages \cup {"nothing", "hint"}
Handlers == [at: HandlerStages, session: Nat, post: Posts]
Decisions == {"approved", "rejected"}

SlackTypes ==
    /\ slackUp \in BOOLEAN /\ minted \in Nat
    /\ threadKey \in [Threads -> Nat]
    /\ handler \in [SlackMessages -> Handlers]
    /\ answered \subseteq SlackMessages
    /\ button \in [Clickers -> Decisions \cup {"none", "done"}]
    /\ asked \in [shows: Decisions \cup {"nothing", "buttons"}, published: SUBSET Decisions]
    /\ expired \subseteq Threads /\ hurried \subseteq Threads

(* A session belongs to one thread, also after its key is dropped.         *)
SessionsApart ==
    /\ \A t \in Threads : threadKey[t] <= minted
    /\ \A m \in SlackMessages : handler[m].session <= minted
    /\ \A t, u \in Threads : threadKey[t] # 0 /\ threadKey[t] = threadKey[u] => t = u
    /\ \A t \in Threads, m \in SlackMessages :
        threadKey[t] # 0 /\ threadKey[t] = handler[m].session => ThreadOf[m] = t
    /\ \A m, n \in SlackMessages :
        handler[m].session # 0 /\ handler[m].session = handler[n].session => ThreadOf[m] = ThreadOf[n]

(* What a handler has taken was published; in a patient thread it is the   *)
(* answer to its own message, and no handler with a session ends without.  *)
HandlerOK(m) ==
    /\ handler[m].at \in {"unsent", "keyless"} => handler[m].session = 0
    /\ handler[m].at \in {"keyed", "published", "waiting", "heard"} => handler[m].session # 0
    /\ handler[m].at \notin {"heard", "ended"} => handler[m].post = "nothing"
    /\ handler[m].post \in SlackMessages => handler[m].post \in answered
    /\ ThreadOf[m] \notin hurried =>
        /\ handler[m].at = "heard" => handler[m].post = m
        /\ handler[m].at = "ended" /\ handler[m].session # 0 => handler[m].post = m
        /\ handler[m].at = "ended" /\ handler[m].session = 0 => handler[m].post = "hint"

Alone ==
    \A m, n \in SlackMessages :
        /\ ThreadOf[m] = ThreadOf[n] /\ ThreadOf[m] \notin hurried
        /\ handler[m].at \notin Over /\ handler[n].at \notin Over
        => m = n

DecisionsPublished ==
    /\ \A u \in Clickers : button[u] \in Decisions => button[u] \in asked.published
    /\ asked.shows \in Decisions => asked.shows \in asked.published

SlackInv ==
    /\ SlackTypes /\ SessionsApart /\ Alone /\ DecisionsPublished
    /\ \A m \in SlackMessages : HandlerOK(m)

LEMMA ThreadIs == \A m \in SlackMessages : ThreadOf[m] \in Threads
  BY DEF Threads

LEMMA SlackInitInv == SlackInit => SlackInv
  <1> SUFFICES ASSUME SlackInit PROVE SlackInv
    OBVIOUS
  <1>1. \A m \in SlackMessages :
            /\ Fresh(m) \in Handlers /\ Fresh(m).at = "unsent"
            /\ Fresh(m).session = 0 /\ Fresh(m).post = "nothing"
    BY DEF Fresh, Handlers, HandlerStages, Posts
  <1>2. handler \in [SlackMessages -> Handlers] /\ \A m \in SlackMessages : handler[m] = Fresh(m)
    BY <1>1 DEF SlackInit
  <1>3. SlackTypes
    BY <1>2 DEF SlackInit, SlackTypes, Decisions
  <1>4. SessionsApart /\ Alone
    BY <1>1, <1>2 DEF SlackInit, SessionsApart, Alone, Over
  <1>5. DecisionsPublished
    BY DEF SlackInit, DecisionsPublished, Decisions
  <1>6. ASSUME NEW m \in SlackMessages PROVE HandlerOK(m)
    BY <1>1, <1>2, SlackAssumption DEF HandlerOK
  <1> QED BY <1>3, <1>4, <1>5, <1>6 DEF SlackInv

LEMMA HandlerChanges ==
    ASSUME SlackTypes, NEW m \in SlackMessages, NEW r \in Handlers,
           handler' = [handler EXCEPT ![m] = r]
    PROVE  /\ handler' \in [SlackMessages -> Handlers] /\ handler'[m] = r
           /\ \A n \in SlackMessages \ {m} : handler'[n] = handler[n]
  BY DEF SlackTypes

(* A handler goes on in the session it has, or ends.                       *)
LEMMA HandlerMoves ==
    ASSUME SlackInv, NEW m \in SlackMessages, NEW r \in Handlers,
           handler' = [handler EXCEPT ![m] = r],
           r.session = handler[m].session,
           r.at \in Over \/ handler[m].at \notin Over,
           UNCHANGED <<slackUp, threadKey, minted, answered, button, asked, expired>>,
           hurried \subseteq hurried', hurried' \subseteq Threads,
           HandlerOK(m)'
    PROVE  SlackInv'
  <1>1. /\ handler' \in [SlackMessages -> Handlers] /\ handler'[m] = r
        /\ \A n \in SlackMessages \ {m} : handler'[n] = handler[n]
    BY HandlerChanges DEF SlackInv
  <1>2. \A n \in SlackMessages : handler'[n].session = handler[n].session
    BY <1>1
  <1>3. \A n \in SlackMessages : handler'[n].at \notin Over => handler[n].at \notin Over
    BY <1>1
  <1>4. SlackTypes'
    BY <1>1 DEF SlackInv, SlackTypes
  <1>5. SessionsApart'
    BY <1>2 DEF SlackInv, SessionsApart
  <1>6. Alone'
    BY <1>3 DEF SlackInv, Alone
  <1>7. DecisionsPublished'
    BY DEF SlackInv, DecisionsPublished
  <1>8. ASSUME NEW n \in SlackMessages PROVE HandlerOK(n)'
    <2>1. CASE n = m
      BY <2>1
    <2>2. CASE n # m
      BY <2>2, <1>1 DEF SlackInv, HandlerOK
    <2> QED BY <2>1, <2>2
  <1> QED BY <1>4, <1>5, <1>6, <1>7, <1>8 DEF SlackInv

(* The three steps that only move a handler on.                            *)
LEMMA MovesOn ==
    ASSUME SlackInv, NEW m \in SlackMessages,
           PublishInput(m) \/ SubscribeOutput(m) \/ PostReply(m)
    PROVE  SlackInv'
  <1>1. PICK step \in HandlerStages :
            /\ Moves(m, step)
            /\ \/ step \in {"published", "waiting"} /\ handler[m].at \in {"keyed", "published"}
               \/ step = "ended" /\ handler[m].at = "heard"
    <2>1. CASE PublishInput(m)
      BY <2>1 DEF PublishInput, HandlerStages
    <2>2. CASE SubscribeOutput(m)
      BY <2>2 DEF SubscribeOutput, HandlerStages
    <2>3. CASE PostReply(m)
      BY <2>3 DEF PostReply, HandlerStages
    <2> QED BY <2>1, <2>2, <2>3
  <1>2. UNCHANGED <<slackUp, threadKey, minted, answered, button, asked, expired, hurried>>
    BY DEF PublishInput, SubscribeOutput, PostReply
  <1>3. handler[m] \in Handlers /\ HandlerOK(m)
    BY DEF SlackInv, SlackTypes
  <1> DEFINE r == [handler[m] EXCEPT !.at = step]
  <1>4. /\ r \in Handlers /\ r.at = step
        /\ r.session = handler[m].session /\ r.post = handler[m].post
    BY <1>3 DEF Handlers
  <1>5. handler' = [handler EXCEPT ![m] = r]
    BY <1>1 DEF Moves, SlackInv, SlackTypes
  <1> HIDE DEF r
  <1>6. handler'[m] = r
    BY <1>4, <1>5, HandlerChanges DEF SlackInv
  <1>7. HandlerOK(m)'
    BY <1>1, <1>2, <1>3, <1>4, <1>6 DEF HandlerOK
  <1>8. hurried' = hurried /\ hurried \subseteq Threads
    BY <1>2 DEF SlackInv, SlackTypes
  <1>9. r.at \in Over \/ handler[m].at \notin Over
    BY <1>1, <1>4 DEF Over
  <1> QED BY <1>2, <1>4, <1>5, <1>7, <1>8, <1>9, HandlerMoves

LEMMA EndsStep ==
    ASSUME SlackInv, NEW m \in SlackMessages, ResolveNobody(m) \/ HandlerGivesUp(m)
    PROVE  SlackInv'
  <1>1. PICK what \in {"nothing", "hint"} :
            /\ Ends(m, what)
            /\ \/ what = "hint" /\ handler[m].at = "unsent" /\ hurried' = hurried
               \/ what = "nothing" /\ hurried' = hurried \cup {ThreadOf[m]}
    BY DEF ResolveNobody, HandlerGivesUp
  <1>2. UNCHANGED <<slackUp, threadKey, minted, answered, button, asked, expired>>
    BY DEF ResolveNobody, HandlerGivesUp
  <1>3. handler[m] \in Handlers /\ HandlerOK(m)
    BY DEF SlackInv, SlackTypes
  <1> DEFINE r == [handler[m] EXCEPT !.at = "ended", !.post = what]
  <1>4. /\ r \in Handlers /\ r.at = "ended"
        /\ r.session = handler[m].session /\ r.post = what
    BY <1>3 DEF Handlers, HandlerStages, Posts
  <1>5. handler' = [handler EXCEPT ![m] = r]
    BY <1>1 DEF Ends, SlackInv, SlackTypes
  <1> HIDE DEF r
  <1>6. handler'[m] = r
    BY <1>4, <1>5, HandlerChanges DEF SlackInv
  <1>7. HandlerOK(m)'
    BY <1>1, <1>2, <1>3, <1>4, <1>6, SlackAssumption DEF HandlerOK
  <1>8. hurried \subseteq hurried' /\ hurried' \subseteq Threads
    BY <1>1, ThreadIs DEF SlackInv, SlackTypes
  <1>9. r.at \in Over
    BY <1>4 DEF Over
  <1> QED BY <1>2, <1>4, <1>5, <1>7, <1>8, <1>9, HandlerMoves

LEMMA ReadKeyStep ==
    ASSUME SlackInv, NEW m \in SlackMessages, ReadKey(m)
    PROVE  SlackInv'
  <1> DEFINE s == threadKey[ThreadOf[m]]
             r == [handler[m] EXCEPT !.at = IF s = 0 THEN "keyless" ELSE "keyed", !.session = s]
  <1>1. handler[m] \in Handlers /\ HandlerOK(m) /\ handler[m].at = "unsent"
    BY DEF SlackInv, SlackTypes, ReadKey
  <1>2. s \in Nat /\ ThreadOf[m] \in Threads
    BY ThreadIs DEF SlackInv, SlackTypes
  <1>3. /\ r \in Handlers /\ r.at = IF s = 0 THEN "keyless" ELSE "keyed"
        /\ r.session = s /\ r.post = "nothing"
    BY <1>1, <1>2 DEF Handlers, HandlerStages, HandlerOK
  <1>4. handler' = [handler EXCEPT ![m] = r]
    BY DEF ReadKey, SlackInv, SlackTypes
  <1>5. UNCHANGED <<slackUp, threadKey, minted, answered, button, asked, expired>> /\ hurried' = Hurry(m)
    BY DEF ReadKey
  <1> HIDE DEF r
  <1>6. /\ handler' \in [SlackMessages -> Handlers] /\ handler'[m] = r
        /\ \A n \in SlackMessages \ {m} : handler'[n] = handler[n]
    BY <1>3, <1>4, HandlerChanges DEF SlackInv
  <1>7. hurried \subseteq hurried' /\ hurried' \subseteq Threads
    BY <1>2, <1>5 DEF Hurry, SlackInv, SlackTypes
  <1>8. SlackTypes'
    BY <1>5, <1>6, <1>7 DEF SlackInv, SlackTypes
  <1>9. SessionsApart'
    <2>1. SessionsApart /\ threadKey \in [Threads -> Nat]
      BY DEF SlackInv, SlackTypes
    <2>2. \A n \in SlackMessages \ {m} : handler'[n].session = handler[n].session
      BY <1>6
    <2>3. handler'[m].session = threadKey[ThreadOf[m]]
      BY <1>3, <1>6
    <2>4. \A n \in SlackMessages : handler'[n].session <= minted'
      BY <1>2, <1>5, <2>1, <2>2, <2>3 DEF SessionsApart
    <2>5. ASSUME NEW t \in Threads, NEW n \in SlackMessages,
                 threadKey[t] # 0, threadKey[t] = handler'[n].session
          PROVE  ThreadOf[n] = t
      BY <1>2, <2>1, <2>2, <2>3, <2>5 DEF SessionsApart
    <2>6. ASSUME NEW k \in SlackMessages, NEW n \in SlackMessages,
                 handler'[k].session # 0, handler'[k].session = handler'[n].session
          PROVE  ThreadOf[k] = ThreadOf[n]
      BY <1>2, <2>1, <2>2, <2>3, <2>6 DEF SessionsApart
    <2> QED BY <1>5, <2>1, <2>4, <2>5, <2>6 DEF SessionsApart
  <1>10. Alone'
    <2> SUFFICES ASSUME NEW k \in SlackMessages, NEW n \in SlackMessages,
                        ThreadOf[k] = ThreadOf[n], ThreadOf[k] \notin hurried',
                        handler'[k].at \notin Over, handler'[n].at \notin Over, k # n
                 PROVE  FALSE
      BY DEF Alone
    <2>1. \A o \in SlackMessages \ {m} :
              ThreadOf[o] = ThreadOf[m] /\ handler[o].at \notin Over => ThreadOf[m] \in hurried'
      BY <1>5 DEF Hurry, InThread
    <2>2. CASE k = m
      BY <2>1, <2>2, <1>6
    <2>3. CASE n = m
      BY <2>1, <2>3, <1>6
    <2>4. CASE k # m /\ n # m
      BY <2>4, <1>6, <1>7 DEF SlackInv, Alone
    <2> QED BY <2>2, <2>3, <2>4
  <1>11. DecisionsPublished'
    BY <1>5 DEF SlackInv, DecisionsPublished
  <1>12. ASSUME NEW n \in SlackMessages PROVE HandlerOK(n)'
    <2>1. CASE n = m
      BY <2>1, <1>3, <1>6, SlackAssumption DEF HandlerOK
    <2>2. CASE n # m
      BY <2>2, <1>5, <1>6, <1>7 DEF SlackInv, HandlerOK
    <2> QED BY <2>1, <2>2
  <1> QED BY <1>8, <1>9, <1>10, <1>11, <1>12 DEF SlackInv

(* The new session is nobody's yet.                                        *)
LEMMA SetKeyStep ==
    ASSUME SlackInv, NEW m \in SlackMessages, SetKey(m)
    PROVE  SlackInv'
  <1> DEFINE r == [handler[m] EXCEPT !.at = "keyed", !.session = minted']
  <1>1. handler[m] \in Handlers /\ HandlerOK(m) /\ handler[m].at = "keyless"
    BY DEF SlackInv, SlackTypes, SetKey
  <1>2. /\ minted \in Nat /\ minted' = minted + 1 /\ ThreadOf[m] \in Threads
        /\ threadKey' = [threadKey EXCEPT ![ThreadOf[m]] = minted']
        /\ threadKey \in [Threads -> Nat]
    BY ThreadIs DEF SlackInv, SlackTypes, SetKey
  <1>3. r \in Handlers /\ r.at = "keyed" /\ r.session = minted' /\ r.post = "nothing"
    <2>1. minted' \in Nat /\ handler[m].post = "nothing"
      BY <1>1, <1>2 DEF HandlerOK
    <2> QED BY <1>1, <2>1 DEF Handlers, HandlerStages
  <1>4. handler' = [handler EXCEPT ![m] = r]
    BY DEF SetKey, SlackInv, SlackTypes
  <1>5. UNCHANGED <<slackUp, answered, button, asked, expired, hurried>>
    BY DEF SetKey
  <1> HIDE DEF r
  <1>6. /\ handler' \in [SlackMessages -> Handlers] /\ handler'[m] = r
        /\ \A n \in SlackMessages \ {m} : handler'[n] = handler[n]
    BY <1>3, <1>4, HandlerChanges DEF SlackInv
  <1>7. /\ threadKey'[ThreadOf[m]] = minted'
        /\ \A t \in Threads \ {ThreadOf[m]} : threadKey'[t] = threadKey[t]
        /\ threadKey' \in [Threads -> Nat]
    BY <1>2
  <1>8. SlackTypes'
    BY <1>2, <1>5, <1>6, <1>7 DEF SlackInv, SlackTypes
  <1>9. SessionsApart'
    <2>1. SessionsApart
      BY DEF SlackInv
    <2>2. /\ handler'[m].session = minted'
          /\ \A n \in SlackMessages \ {m} :
                handler'[n].session = handler[n].session /\ handler[n].session \in Nat
      BY <1>3, <1>6 DEF SlackInv, SlackTypes, Handlers
    <2>3. /\ \A t \in Threads \ {ThreadOf[m]} : threadKey'[t] <= minted /\ threadKey'[t] \in Nat
          /\ \A n \in SlackMessages \ {m} : handler'[n].session <= minted
      BY <1>2, <1>7, <2>1, <2>2 DEF SessionsApart
    <2>4. /\ \A t \in Threads : threadKey'[t] <= minted'
          /\ \A n \in SlackMessages : handler'[n].session <= minted'
      BY <1>2, <1>7, <2>2, <2>3
    <2>5. ASSUME NEW t \in Threads, NEW u \in Threads,
                 threadKey'[t] # 0, threadKey'[t] = threadKey'[u]
          PROVE  t = u
      <3>1. CASE t = ThreadOf[m] \/ u = ThreadOf[m]
        BY <3>1, <1>2, <1>7, <2>3, <2>5
      <3>2. CASE t # ThreadOf[m] /\ u # ThreadOf[m]
        BY <3>2, <1>7, <2>1, <2>5 DEF SessionsApart
      <3> QED BY <3>1, <3>2
    <2>6. ASSUME NEW t \in Threads, NEW n \in SlackMessages,
                 threadKey'[t] # 0, threadKey'[t] = handler'[n].session
          PROVE  ThreadOf[n] = t
      <3>1. CASE t = ThreadOf[m] \/ n = m
        BY <3>1, <1>2, <1>7, <2>2, <2>3, <2>6
      <3>2. CASE t # ThreadOf[m] /\ n # m
        BY <3>2, <1>7, <2>1, <2>2, <2>6 DEF SessionsApart
      <3> QED BY <3>1, <3>2
    <2>7. ASSUME NEW k \in SlackMessages, NEW n \in SlackMessages,
                 handler'[k].session # 0, handler'[k].session = handler'[n].session
          PROVE  ThreadOf[k] = ThreadOf[n]
      <3>1. CASE k = m \/ n = m
        BY <3>1, <1>2, <2>2, <2>3, <2>7
      <3>2. CASE k # m /\ n # m
        BY <3>2, <2>1, <2>2, <2>7 DEF SessionsApart
      <3> QED BY <3>1, <3>2
    <2> QED BY <2>4, <2>5, <2>6, <2>7 DEF SessionsApart
  <1>10. Alone'
    <2>1. \A n \in SlackMessages : handler'[n].at \notin Over => handler[n].at \notin Over
      BY <1>1, <1>6 DEF Over
    <2> QED BY <2>1, <1>5 DEF SlackInv, Alone
  <1>11. DecisionsPublished'
    BY <1>5 DEF SlackInv, DecisionsPublished
  <1>12. ASSUME NEW n \in SlackMessages PROVE HandlerOK(n)'
    <2>1. CASE n = m
      BY <2>1, <1>2, <1>3, <1>6, SlackAssumption DEF HandlerOK
    <2>2. CASE n # m
      BY <2>2, <1>5, <1>6 DEF SlackInv, HandlerOK
    <2> QED BY <2>1, <2>2
  <1> QED BY <1>8, <1>9, <1>10, <1>11, <1>12 DEF SlackInv

LEMMA KeyExpiresStep ==
    ASSUME SlackInv, NEW t \in Threads, KeyExpires(t)
    PROVE  SlackInv'
  <1>1. /\ UNCHANGED <<slackUp, minted, handler, answered, button, asked, hurried>>
        /\ threadKey' \in [Threads -> Nat] /\ threadKey'[t] = 0
        /\ \A u \in Threads \ {t} : threadKey'[u] = threadKey[u]
    BY DEF KeyExpires, SlackInv, SlackTypes
  <1>2. SlackTypes'
    BY <1>1 DEF KeyExpires, SlackInv, SlackTypes
  <1>3. SessionsApart'
    <2>1. SessionsApart /\ minted \in Nat
      BY DEF SlackInv, SlackTypes
    <2>2. \A u \in Threads : threadKey'[u] # 0 => threadKey'[u] = threadKey[u]
      BY <1>1
    <2>3. \A u \in Threads : threadKey'[u] <= minted
      BY <1>1, <2>1 DEF SessionsApart
    <2> QED BY <1>1, <2>1, <2>2, <2>3 DEF SessionsApart
  <1>4. Alone' /\ DecisionsPublished' /\ \A m \in SlackMessages : HandlerOK(m)'
    BY <1>1 DEF SlackInv, Alone, DecisionsPublished, HandlerOK
  <1> QED BY <1>2, <1>3, <1>4 DEF SlackInv

(* Whoever waits for the session's output is of the same thread; in a      *)
(* patient one that is the handler of m alone, as m was not answered yet.  *)
LEMMA AgentAnswersStep ==
    ASSUME SlackInv, NEW m \in SlackMessages, AgentAnswers(m)
    PROVE  SlackInv'
  <1> DEFINE Hears(n) == handler[n].at = "waiting" /\ handler[n].session = handler[m].session
  <1>1. /\ handler[m].session # 0 /\ handler[m].at \notin {"unsent", "keyless", "keyed"}
        /\ m \notin answered /\ answered' = answered \cup {m}
        /\ UNCHANGED <<slackUp, threadKey, minted, button, asked, expired, hurried>>
    BY DEF AgentAnswers
  <1>2. ASSUME NEW n \in SlackMessages
        PROVE  /\ handler'[n] \in Handlers
               /\ Hears(n) => /\ handler'[n].at = "heard" /\ handler'[n].post = m
                               /\ handler'[n].session = handler[n].session
               /\ ~Hears(n) => handler'[n] = handler[n]
    <2>1. handler[n] \in Handlers
      BY DEF SlackInv, SlackTypes
    <2>2. handler'[n] = IF Hears(n) THEN [handler[n] EXCEPT !.at = "heard", !.post = m] ELSE handler[n]
      BY DEF AgentAnswers
    <2>3. CASE Hears(n)
      BY <2>1, <2>2, <2>3 DEF Handlers, HandlerStages, Posts
    <2>4. CASE ~Hears(n)
      BY <2>1, <2>2, <2>4
    <2> QED BY <2>3, <2>4
  <1>3. handler' \in [SlackMessages -> Handlers]
    <2>1. handler' = [n \in SlackMessages |-> handler'[n]]
      BY DEF AgentAnswers
    <2> QED BY <1>2, <2>1
  <1>4. SlackTypes'
    BY <1>1, <1>3 DEF SlackInv, SlackTypes
  <1>5. \A n \in SlackMessages : handler'[n].session = handler[n].session
    BY <1>2
  <1>6. SessionsApart'
    BY <1>1, <1>5 DEF SlackInv, SessionsApart
  <1>7. \A n \in SlackMessages : handler'[n].at \notin Over => handler[n].at \notin Over
    BY <1>2 DEF Over
  <1>8. Alone' /\ DecisionsPublished'
    BY <1>1, <1>7 DEF SlackInv, Alone, DecisionsPublished
  <1>9. ASSUME NEW n \in SlackMessages PROVE HandlerOK(n)'
    <2>1. HandlerOK(n)
      BY DEF SlackInv
    <2>2. CASE Hears(n)
      <3>1. /\ handler'[n].at = "heard" /\ handler'[n].post = m
            /\ handler'[n].session = handler[n].session
        BY <1>2, <2>2
      <3>2. ThreadOf[n] = ThreadOf[m]
        BY <1>1, <2>2 DEF SlackInv, SessionsApart
      <3>3. ASSUME ThreadOf[n] \notin hurried PROVE n = m
        <4>1. HandlerOK(m)
          BY DEF SlackInv
        <4>2. handler[m].at # "ended"
          BY <4>1, <3>2, <3>3, <1>1 DEF HandlerOK
        <4>3. handler[m].at \notin Over /\ handler[n].at \notin Over
          BY <4>2, <1>1, <2>2 DEF Over
        <4> QED BY <4>3, <3>2, <3>3 DEF SlackInv, Alone
      <3> QED BY <1>1, <2>1, <2>2, <3>1, <3>3 DEF HandlerOK
    <2>3. CASE ~Hears(n)
      BY <1>1, <1>2, <2>1, <2>3 DEF HandlerOK
    <2> QED BY <2>2, <2>3
  <1> QED BY <1>4, <1>6, <1>8, <1>9 DEF SlackInv

(* The approval message; no handler of a message is touched.               *)
LEMMA ApprovalStep ==
    ASSUME SlackInv,
           UNCHANGED <<threadKey, minted, handler, answered, expired, hurried>>,
           \/ StartSlack \/ StopSlack \/ Escalate
           \/ \E u \in Clickers : Click(u) \/ ShowDecision(u) \/ ClickFails(u)
    PROVE  SlackInv'
  <1>1. SessionsApart' /\ Alone' /\ \A m \in SlackMessages : HandlerOK(m)'
    BY DEF SlackInv, SessionsApart, Alone, HandlerOK
  <1>2. /\ slackUp \in BOOLEAN
        /\ button \in [Clickers -> Decisions \cup {"none", "done"}]
        /\ asked \in [shows: Decisions \cup {"nothing", "buttons"}, published: SUBSET Decisions]
        /\ DecisionsPublished
    BY DEF SlackInv, SlackTypes
  <1>3. CASE StartSlack \/ StopSlack
    <2>1. slackUp' \in BOOLEAN /\ UNCHANGED <<button, asked>>
      BY <1>3 DEF StartSlack, StopSlack
    <2> QED BY <2>1, <1>1 DEF SlackInv, SlackTypes, DecisionsPublished
  <1>4. CASE Escalate
    <2>1. asked' = [asked EXCEPT !.shows = "buttons"] /\ UNCHANGED <<slackUp, button>>
      BY <1>4 DEF Escalate
    <2>2. /\ asked'.shows = "buttons" /\ asked'.published = asked.published
          /\ asked' \in [shows: Decisions \cup {"nothing", "buttons"}, published: SUBSET Decisions]
      BY <1>2, <2>1
    <2>3. DecisionsPublished'
      BY <1>2, <2>1, <2>2 DEF DecisionsPublished, Decisions
    <2> QED BY <2>1, <2>2, <2>3, <1>1 DEF SlackInv, SlackTypes
  <1>5. ASSUME NEW u \in Clickers, Click(u) PROVE SlackInv'
    <2>1. PICK d \in Decisions : /\ button' = [button EXCEPT ![u] = d]
                                 /\ asked' = [asked EXCEPT !.published = @ \cup {d}]
      BY <1>5 DEF Click, Decisions
    <2>2. /\ asked'.shows = asked.shows /\ asked'.published = asked.published \cup {d}
          /\ asked' \in [shows: Decisions \cup {"nothing", "buttons"}, published: SUBSET Decisions]
      BY <1>2, <2>1
    <2>3. /\ button' \in [Clickers -> Decisions \cup {"none", "done"}]
          /\ button'[u] = d /\ \A v \in Clickers \ {u} : button'[v] = button[v]
      BY <1>2, <2>1
    <2>4. DecisionsPublished'
      BY <1>2, <2>2, <2>3 DEF DecisionsPublished
    <2>5. UNCHANGED slackUp
      BY <1>5 DEF Click
    <2> QED BY <2>2, <2>3, <2>4, <2>5, <1>1 DEF SlackInv, SlackTypes
  <1>6. ASSUME NEW u \in Clickers, ShowDecision(u) PROVE SlackInv'
    <2>1. /\ asked' = [asked EXCEPT !.shows = button[u]]
          /\ button' = [button EXCEPT ![u] = "done"]
          /\ button[u] \in Decisions /\ UNCHANGED slackUp
      BY <1>6 DEF ShowDecision, Decisions
    <2>2. /\ asked'.shows = button[u] /\ asked'.published = asked.published
          /\ asked' \in [shows: Decisions \cup {"nothing", "buttons"}, published: SUBSET Decisions]
      BY <1>2, <2>1
    <2>3. /\ button' \in [Clickers -> Decisions \cup {"none", "done"}]
          /\ button'[u] = "done" /\ \A v \in Clickers \ {u} : button'[v] = button[v]
      BY <1>2, <2>1
    <2>4. DecisionsPublished'
      BY <1>2, <2>1, <2>2, <2>3 DEF DecisionsPublished, Decisions
    <2> QED BY <2>1, <2>2, <2>3, <2>4, <1>1 DEF SlackInv, SlackTypes
  <1>7. ASSUME NEW u \in Clickers, ClickFails(u) PROVE SlackInv'
    <2>1. button' = [button EXCEPT ![u] = "done"] /\ UNCHANGED <<slackUp, asked>>
      BY <1>7 DEF ClickFails
    <2>2. /\ button' \in [Clickers -> Decisions \cup {"none", "done"}]
          /\ button'[u] = "done" /\ \A v \in Clickers \ {u} : button'[v] = button[v]
      BY <1>2, <2>1
    <2>3. DecisionsPublished'
      BY <1>2, <2>1, <2>2 DEF DecisionsPublished, Decisions
    <2> QED BY <2>1, <2>2, <2>3, <1>1 DEF SlackInv, SlackTypes
  <1> QED BY <1>3, <1>4, <1>5, <1>6, <1>7

LEMMA SlackStep == SlackInv /\ [SlackNext]_slackVars => SlackInv'
  <1> SUFFICES ASSUME SlackInv, [SlackNext]_slackVars PROVE SlackInv'
    OBVIOUS
  <1>1. ASSUME NEW m \in SlackMessages,
               \/ ResolveNobody(m) \/ ReadKey(m) \/ SetKey(m) \/ PublishInput(m)
               \/ SubscribeOutput(m) \/ AgentAnswers(m) \/ PostReply(m) \/ HandlerGivesUp(m)
        PROVE  SlackInv'
    BY <1>1, EndsStep, ReadKeyStep, SetKeyStep, MovesOn, AgentAnswersStep
  <1>2. ASSUME NEW t \in Threads, KeyExpires(t) PROVE SlackInv'
    BY <1>2, KeyExpiresStep
  <1>3. CASE StartSlack \/ StopSlack \/ Escalate
    BY <1>3, ApprovalStep DEF StartSlack, StopSlack, Escalate
  <1>4. ASSUME NEW u \in Clickers, Click(u) \/ ShowDecision(u) \/ ClickFails(u) PROVE SlackInv'
    BY <1>4, ApprovalStep DEF Click, ShowDecision, ClickFails
  <1>5. CASE UNCHANGED slackVars
    BY <1>5 DEF slackVars, SlackInv, SlackTypes, SessionsApart, Alone, DecisionsPublished, HandlerOK
  <1> QED BY <1>1, <1>2, <1>3, <1>4, <1>5 DEF SlackNext

LEMMA SlackInvariant == SlackSpec => []SlackInv
  <1>1. SlackInit => SlackInv
    BY SlackInitInv
  <1>2. SlackInv /\ [SlackNext]_slackVars => SlackInv'
    BY SlackStep
  <1> QED BY <1>1, <1>2, PTL DEF SlackSpec

\* In a thread whose writer waits, each message is posted its own answer, for any
\* deliveries and threads, and a decision is shown only after it was published
\* (handlers/message.ts:128-196, handlers/approval.ts:27-78).
THEOREM PatientThreads == SlackSpec => []PatientThreadHearsItself
  <1>1. ASSUME SlackInv PROVE PatientThreadHearsItself
    <2>1. ASSUME NEW m \in SlackMessages, ThreadOf[m] \notin hurried, handler[m].post \in SlackMessages
          PROVE  handler[m].post = m
      <3>1. HandlerOK(m)
        BY <1>1 DEF SlackInv
      <3> QED BY <2>1, <3>1, SlackAssumption DEF HandlerOK
    <2>2. asked.shows \in Decisions => asked.shows \in asked.published
      BY <1>1 DEF SlackInv, DecisionsPublished
    <2> QED BY <2>1, <2>2 DEF PatientThreadHearsItself, Decisions
  <1> QED BY <1>1, SlackInvariant, PTL

(* As many sessions are minted as messages have one, at the most.          *)
WithSession == {m \in SlackMessages : handler[m].session # 0}
MintedFew == minted <= Cardinality(WithSession)

LEMMA MintedStep ==
    ASSUME SlackInv, SlackInv', MintedFew, [SlackNext]_slackVars
    PROVE  MintedFew'
  <1>1. /\ WithSession \in SUBSET SlackMessages /\ WithSession' \in SUBSET SlackMessages
        /\ IsFiniteSet(WithSession) /\ IsFiniteSet(WithSession')
    BY SlackAssumption, FS_Subset DEF WithSession
  <1>2. /\ Cardinality(WithSession) \in Nat /\ Cardinality(WithSession') \in Nat
        /\ minted \in Nat
    BY <1>1, FS_CardinalityType DEF SlackInv, SlackTypes
  <1>3. ASSUME UNCHANGED minted, WithSession \subseteq WithSession'
        PROVE  MintedFew'
    <2>1. Cardinality(WithSession) <= Cardinality(WithSession')
      BY <1>1, <1>3, FS_Subset
    <2> QED BY <1>2, <1>3, <2>1 DEF MintedFew
  <1>4. ASSUME NEW m \in SlackMessages, SetKey(m) PROVE MintedFew'
    <2>1. HandlerOK(m) /\ handler \in [SlackMessages -> Handlers]
      BY DEF SlackInv, SlackTypes
    <2>2. m \notin WithSession
      BY <1>4, <2>1 DEF SetKey, HandlerOK, WithSession
    <2>3. handler'[m].session = minted' /\ minted' = minted + 1
      BY <1>4, <2>1 DEF SetKey, Handlers
    <2>4. \A n \in SlackMessages \ {m} : handler'[n] = handler[n]
      BY <1>4, <2>1 DEF SetKey
    <2>5. WithSession' = WithSession \cup {m}
      BY <1>2, <2>3, <2>4 DEF WithSession
    <2>6. Cardinality(WithSession') = Cardinality(WithSession) + 1
      BY <1>1, <2>2, <2>5, FS_AddElement
    <2> QED BY <1>2, <2>3, <2>6 DEF MintedFew
  <1>5. ASSUME NEW m \in SlackMessages,
               PublishInput(m) \/ SubscribeOutput(m) \/ PostReply(m)
        PROVE  MintedFew'
    <2>1. handler \in [SlackMessages -> Handlers]
      BY DEF SlackInv, SlackTypes
    <2>2. \A n \in SlackMessages : handler'[n].session = handler[n].session
      BY <1>5, <2>1 DEF PublishInput, SubscribeOutput, PostReply, Moves, Handlers
    <2> QED BY <1>3, <1>5, <2>2 DEF PublishInput, SubscribeOutput, PostReply, WithSession
  <1>6. ASSUME NEW m \in SlackMessages, ResolveNobody(m) \/ HandlerGivesUp(m)
        PROVE  MintedFew'
    <2>1. handler \in [SlackMessages -> Handlers]
      BY DEF SlackInv, SlackTypes
    <2>2. \A n \in SlackMessages : handler'[n].session = handler[n].session
      BY <1>6, <2>1 DEF ResolveNobody, HandlerGivesUp, Ends, Handlers
    <2> QED BY <1>3, <1>6, <2>2 DEF ResolveNobody, HandlerGivesUp, WithSession
  <1>7. ASSUME NEW m \in SlackMessages, ReadKey(m) PROVE MintedFew'
    <2>1. HandlerOK(m) /\ handler[m].at = "unsent" /\ handler \in [SlackMessages -> Handlers]
      BY <1>7 DEF ReadKey, SlackInv, SlackTypes
    <2>2. m \notin WithSession
      BY <2>1 DEF HandlerOK, WithSession
    <2>3. \A n \in SlackMessages \ {m} : handler'[n] = handler[n]
      BY <1>7, <2>1 DEF ReadKey
    <2> QED BY <1>3, <1>7, <2>2, <2>3 DEF ReadKey, WithSession
  <1>8. ASSUME NEW m \in SlackMessages, AgentAnswers(m) PROVE MintedFew'
    <2>1. handler \in [SlackMessages -> Handlers]
      BY DEF SlackInv, SlackTypes
    <2>2. ASSUME NEW n \in SlackMessages PROVE handler'[n].session = handler[n].session
      <3>1. handler[n] \in Handlers
        BY <2>1
      <3>2. \/ handler'[n] = handler[n]
            \/ handler'[n] = [handler[n] EXCEPT !.at = "heard", !.post = m]
        BY <1>8 DEF AgentAnswers
      <3> QED BY <3>1, <3>2 DEF Handlers
    <2> QED BY <1>3, <1>8, <2>2 DEF AgentAnswers, WithSession
  <1>9. ASSUME UNCHANGED <<minted, handler>> PROVE MintedFew'
    BY <1>3, <1>9 DEF WithSession
  <1> QED
    BY <1>4, <1>5, <1>6, <1>7, <1>8, <1>9
    DEF SlackNext, slackVars, KeyExpires, StartSlack, StopSlack, Escalate, Click, ShowDecision, ClickFails

\* Types, and no more sessions than deliveries, for any deliveries, threads and clicks
\* (adapter.ts:31-46, handlers/message.ts:58-66).
THEOREM SlackTypesHold == SlackSpec => []SlackTypeOK
  <1>1. SlackInit => MintedFew
    <2> SUFFICES ASSUME SlackInit PROVE MintedFew
      OBVIOUS
    <2>1. WithSession \in SUBSET SlackMessages
      BY DEF WithSession
    <2>2. Cardinality(WithSession) \in Nat
      BY <2>1, SlackAssumption, FS_Subset, FS_CardinalityType
    <2> QED BY <2>2 DEF SlackInit, MintedFew
  <1>2. SlackInv /\ SlackInv' /\ MintedFew /\ [SlackNext]_slackVars => MintedFew'
    BY MintedStep
  <1>3. ASSUME SlackInv, MintedFew PROVE SlackTypeOK
    <2>1. /\ IsFiniteSet(SlackMessages) /\ Cardinality(SlackMessages) \in Nat
          /\ WithSession \in SUBSET SlackMessages
      BY SlackAssumption, FS_CardinalityType DEF WithSession
    <2>2. Cardinality(WithSession) <= Cardinality(SlackMessages) /\ Cardinality(WithSession) \in Nat
      BY <2>1, FS_Subset, FS_CardinalityType
    <2>3. minted \in 0 .. Cardinality(SlackMessages)
      BY <1>3, <2>1, <2>2 DEF SlackInv, SlackTypes, MintedFew
    <2>4. threadKey \in [Threads -> 0 .. minted]
      BY <1>3 DEF SlackInv, SlackTypes, SessionsApart
    <2>5. ASSUME NEW m \in SlackMessages
          PROVE  /\ handler[m].at \in HandlerStages /\ handler[m].session \in 0 .. minted
                 /\ handler[m].post \in Posts
      BY <1>3 DEF SlackInv, SlackTypes, SessionsApart, Handlers
    <2> QED BY <1>3, <2>3, <2>4, <2>5 DEF SlackInv, SlackTypes, SlackTypeOK, HandlerStages, Posts, Decisions
  <1> QED BY <1>1, <1>2, <1>3, SlackInvariant, PTL DEF SlackSpec

-----------------------------------------------------------------------------
(* The chat page.                                                          *)

Agents == ChatAgents \cup {NoAgent}
Numbers == 0 .. Cardinality(ChatMessages)
Refs == Sockets \cup {0}
Pages == [agent: Agents, here: BOOLEAN, connected: BOOLEAN, ws: Refs, own: Refs, timer: Refs]
SocketStates == {"unused", "connecting", "open", "closing", "closed"}
SocketRecords ==
    [agent: Agents, state: SocketStates, session: Numbers,
     marked: SUBSET (Numbers \ {0}), live: SUBSET (Numbers \ {0})]
ChatStages ==
    {"unsent", "creating", "checking", "subscribing", "ready", "deaf", "published", "answered", "lost"}
ChatRecords ==
    [at: ChatStages, socket: Refs, selected: Agents, session: Numbers, rushed: BOOLEAN, heard: BOOLEAN]

ChatTypes ==
    /\ page \in Pages /\ timers \subseteq Sockets /\ stale \in BOOLEAN
    /\ sock \in [Sockets -> SocketRecords]
    /\ chat \in [ChatMessages -> ChatRecords]

UnderWay == {"creating", "checking", "subscribing", "ready"}
On(s) == {m \in ChatMessages : chat[m].socket = s}
DeafOn(s) == \E m \in On(s) : chat[m].at = "deaf"

(* The page's sockets were opened, its own one for the agent it shows.     *)
PageOK ==
    /\ page.own # 0 => sock[page.own].agent = page.agent /\ sock[page.own].state # "unused"
    /\ page.ws # 0 => sock[page.ws].state # "unused"
    /\ page.ws # 0 /\ ~stale => sock[page.ws].agent = page.agent
    /\ \A s \in timers : sock[s].state # "unused"

(* A message is on a socket that was open, for the agent the page showed,  *)
(* and in a session that the socket is marked for.                         *)
SentOK(m) ==
    /\ chat[m].socket = 0 => chat[m].at = "unsent"
    /\ chat[m].at = "unsent" => chat[m].socket = 0 /\ chat[m].session = 0 /\ ~chat[m].rushed
    /\ chat[m].at = "creating" => chat[m].session = 0
    /\ chat[m].at \in {"checking", "subscribing", "ready", "deaf", "published", "answered"} => chat[m].session # 0
    /\ chat[m].session # 0 => chat[m].session \in sock[chat[m].socket].marked
    /\ chat[m].at # "unsent" =>
        /\ sock[chat[m].socket].state \in {"open", "closing", "closed"}
        /\ ~stale => sock[chat[m].socket].agent = chat[m].selected

(* What waited for the message before goes where the socket listens, or a  *)
(* subscription has failed on it.                                          *)
ReachedOK(m) ==
    /\ ~chat[m].rushed /\ chat[m].at \in {"checking", "ready", "published"} =>
        chat[m].session \in sock[chat[m].socket].live \/ DeafOn(chat[m].socket)
    /\ ~chat[m].rushed /\ chat[m].at = "answered" /\ ~chat[m].heard =>
        sock[chat[m].socket].state # "open" \/ DeafOn(chat[m].socket)

(* A session that is marked is subscribed to, or is about to be.           *)
SocketOK(s) ==
    /\ sock[s].session # 0 => sock[s].session \in sock[s].marked
    /\ sock[s].live \subseteq sock[s].marked
    /\ \A n \in sock[s].marked :
        n \in sock[s].live \/ \E m \in On(s) : chat[m].session = n /\ chat[m].at \in {"subscribing", "deaf"}

(* While messages wait for each other, one is under way, and the socket's  *)
(* session is the session of all.                                          *)
OneSession(s) ==
    \/ \E m \in On(s) : chat[m].rushed
    \/ /\ \A m \in On(s) : chat[m].session # 0 => chat[m].session = sock[s].session
       /\ \A m \in On(s) : chat[m].at = "creating" => sock[s].session = 0
       /\ \A m, n \in On(s) : chat[m].at \in UnderWay /\ chat[n].at \in UnderWay => m = n

ChatInv ==
    /\ ChatTypes /\ PageOK
    /\ \A m \in ChatMessages : SentOK(m) /\ ReachedOK(m)
    /\ \A s \in Sockets : SocketOK(s) /\ OneSession(s)

LEMMA NumbersAre == Numbers \subseteq Nat /\ 0 \in Numbers /\ Cardinality(ChatMessages) \in Nat
  BY ChatAssumption, FS_CardinalityType DEF Numbers

LEMMA ChatInitInv == ChatInit => ChatInv
  <1> SUFFICES ASSUME ChatInit PROVE ChatInv
    OBVIOUS
  <1> USE NumbersAre
  <1>1. Unused \in SocketRecords /\ Unsent \in ChatRecords
    BY DEF Unused, SocketRecords, SocketStates, Agents, Unsent, ChatRecords, ChatStages, Refs
  <1>2. /\ \A s \in Sockets : sock[s] = Unused
        /\ \A m \in ChatMessages : chat[m] = Unsent
    BY DEF ChatInit
  <1>3. ChatTypes
    BY <1>1 DEF ChatInit, ChatTypes, Pages, Agents, Refs
  <1>4. PageOK
    BY DEF ChatInit, PageOK
  <1>5. ASSUME NEW m \in ChatMessages PROVE SentOK(m) /\ ReachedOK(m)
    BY <1>2 DEF SentOK, ReachedOK, Unsent
  <1>6. ASSUME NEW s \in Sockets PROVE SocketOK(s) /\ OneSession(s)
    <2>1. On(s) = {}
      BY <1>2, ChatAssumption DEF On, Unsent
    <2> QED BY <1>2, <2>1 DEF SocketOK, OneSession, Unused
  <1> QED BY <1>3, <1>4, <1>5, <1>6 DEF ChatInv

(* A step of the page: sockets are opened and closed, and none that carried*)
(* a message is opened again.                                              *)
LEMMA SocketsMove ==
    ASSUME ChatInv, UNCHANGED chat, stale => stale',
           page' \in Pages, timers' \subseteq Sockets, stale' \in BOOLEAN,
           sock' \in [Sockets -> SocketRecords], PageOK',
           \A s \in Sockets :
             /\ sock'[s].session = sock[s].session /\ sock'[s].marked = sock[s].marked
             /\ sock'[s].live = sock[s].live
             /\ sock[s].state \in {"open", "closing", "closed"} =>
                 /\ sock'[s].agent = sock[s].agent
                 /\ sock'[s].state \in {"open", "closing", "closed"}
                 /\ sock'[s].state = "open" => sock[s].state = "open"
    PROVE  ChatInv'
  <1>1. ChatTypes'
    BY DEF ChatInv, ChatTypes
  <1>2. ASSUME NEW m \in ChatMessages PROVE SentOK(m)' /\ ReachedOK(m)'
    <2>1. SentOK(m) /\ ReachedOK(m) /\ chat[m] \in ChatRecords
      BY DEF ChatInv, ChatTypes
    <2>2. CASE chat[m].at = "unsent"
      BY <2>1, <2>2 DEF SentOK, ReachedOK
    <2>3. CASE chat[m].at # "unsent"
      <3>1. chat[m].socket \in Sockets
        BY <2>1, <2>3 DEF SentOK, ChatRecords, Refs
      <3>2. SentOK(m)'
        BY <2>1, <2>3, <3>1 DEF SentOK
      <3>3. DeafOn(chat[m].socket)' <=> DeafOn(chat[m].socket)
        BY DEF DeafOn, On
      <3>4. ReachedOK(m)'
        BY <2>1, <2>3, <3>1, <3>3 DEF ReachedOK, SentOK
      <3> QED BY <3>2, <3>4
    <2> QED BY <2>2, <2>3
  <1>3. ASSUME NEW s \in Sockets PROVE SocketOK(s)' /\ OneSession(s)'
    BY DEF ChatInv, SocketOK, OneSession, On
  <1> QED BY <1>1, <1>2, <1>3 DEF ChatInv

LEMMA OpenForTypes ==
    ASSUME NEW before \in [Sockets -> SocketRecords], NEW s \in Sockets, NEW a \in Agents
    PROVE  /\ OpenFor(s, a, before) \in [Sockets -> SocketRecords]
           /\ OpenFor(s, a, before)[s].agent = a
           /\ OpenFor(s, a, before)[s].state = "connecting"
           /\ OpenFor(s, a, before)[s].session = before[s].session
           /\ OpenFor(s, a, before)[s].marked = before[s].marked
           /\ OpenFor(s, a, before)[s].live = before[s].live
           /\ \A r \in Sockets \ {s} : OpenFor(s, a, before)[r] = before[r]
  <1> DEFINE r1 == [before[s] EXCEPT !.agent = a]
             r2 == [r1 EXCEPT !.state = "connecting"]
             once == [before EXCEPT ![s] = r1]
  <1>1. /\ r1 \in SocketRecords /\ r1.agent = a /\ r1.session = before[s].session
        /\ r1.marked = before[s].marked /\ r1.live = before[s].live
    BY DEF SocketRecords
  <1>2. /\ r2 \in SocketRecords /\ r2.state = "connecting" /\ r2.agent = r1.agent
        /\ r2.session = r1.session /\ r2.marked = r1.marked /\ r2.live = r1.live
    BY <1>1 DEF SocketRecords, SocketStates
  <1>3. once \in [Sockets -> SocketRecords] /\ once[s] = r1
    BY <1>1
  <1>4. OpenFor(s, a, before) = [once EXCEPT ![s] = [once[s] EXCEPT !.state = "connecting"]]
    BY DEF OpenFor
  <1>5. OpenFor(s, a, before) = [once EXCEPT ![s] = r2]
    BY <1>3, <1>4
  <1>6. \A r \in Sockets \ {s} : once[r] = before[r]
    OBVIOUS
  <1> HIDE DEF r1, r2, once
  <1> QED BY <1>1, <1>2, <1>3, <1>5, <1>6

LEMMA ClosedTypes ==
    ASSUME NEW before \in [Sockets -> SocketRecords], NEW s \in Refs
    PROVE  /\ Closed(s, before) \in [Sockets -> SocketRecords]
           /\ \A r \in Sockets :
                /\ Closed(s, before)[r].agent = before[r].agent
                /\ Closed(s, before)[r].session = before[r].session
                /\ Closed(s, before)[r].marked = before[r].marked
                /\ Closed(s, before)[r].live = before[r].live
                /\ \/ Closed(s, before)[r].state = before[r].state
                   \/ Closed(s, before)[r].state = "closing" /\ before[r].state \in {"connecting", "open"}
  <1>1. CASE s # 0 /\ before[s].state \in {"connecting", "open"}
    <2>1. s \in Sockets /\ before[s] \in SocketRecords
      BY <1>1 DEF Refs
    <2> DEFINE r == [before[s] EXCEPT !.state = "closing"]
    <2>2. /\ r \in SocketRecords /\ r.state = "closing" /\ r.agent = before[s].agent
          /\ r.session = before[s].session /\ r.marked = before[s].marked /\ r.live = before[s].live
      BY <2>1 DEF SocketRecords, SocketStates
    <2>3. Closed(s, before) = [before EXCEPT ![s] = r]
      BY <1>1, <2>1 DEF Closed
    <2> HIDE DEF r
    <2> QED BY <1>1, <2>1, <2>2, <2>3
  <1>2. CASE ~(s # 0 /\ before[s].state \in {"connecting", "open"})
    BY <1>2 DEF Closed
  <1> QED BY <1>1, <1>2

LEMMA SelectAgentStep ==
    ASSUME ChatInv, NEW a \in ChatAgents, NEW s \in Sockets, SelectAgent(a, s)
    PROVE  ChatInv'
  <1> DEFINE shut == Closed(page.own, sock)
  <1>1. /\ page \in Pages /\ timers \subseteq Sockets /\ stale \in BOOLEAN /\ PageOK
        /\ sock \in [Sockets -> SocketRecords] /\ a \in Agents /\ s # 0
        /\ page.own \in Refs /\ page.agent \in Agents
    BY ChatAssumption DEF ChatInv, ChatTypes, Agents, Pages
  <1>2. /\ sock[s].state = "unused" /\ timers' \subseteq timers
        /\ sock' = OpenFor(s, a, shut) /\ UNCHANGED <<chat, stale>>
        /\ page' = [page EXCEPT !.agent = a, !.ws = s, !.own = s]
    BY DEF SelectAgent, Free
  <1>3. /\ shut \in [Sockets -> SocketRecords]
        /\ \A r \in Sockets :
             /\ shut[r].agent = sock[r].agent /\ shut[r].session = sock[r].session
             /\ shut[r].marked = sock[r].marked /\ shut[r].live = sock[r].live
             /\ \/ shut[r].state = sock[r].state
                \/ shut[r].state = "closing" /\ sock[r].state \in {"connecting", "open"}
    BY <1>1, ClosedTypes
  <1> HIDE DEF shut
  <1>4. /\ sock' \in [Sockets -> SocketRecords]
        /\ sock'[s].agent = a /\ sock'[s].state = "connecting"
        /\ sock'[s].session = shut[s].session /\ sock'[s].marked = shut[s].marked
        /\ sock'[s].live = shut[s].live
        /\ \A r \in Sockets \ {s} : sock'[r] = shut[r]
    BY <1>1, <1>2, <1>3, OpenForTypes
  <1>5. page' \in Pages /\ page'.agent = a /\ page'.ws = s /\ page'.own = s
    BY <1>1, <1>2 DEF Pages, Refs
  <1>6. \A r \in Sockets : sock[r].state # "unused" => sock'[r].state # "unused"
    BY <1>2, <1>3, <1>4
  <1>7. PageOK'
    BY <1>1, <1>2, <1>4, <1>5, <1>6 DEF PageOK
  <1>8. \A r \in Sockets :
             /\ sock'[r].session = sock[r].session /\ sock'[r].marked = sock[r].marked
             /\ sock'[r].live = sock[r].live
             /\ sock[r].state \in {"open", "closing", "closed"} =>
                 /\ sock'[r].agent = sock[r].agent
                 /\ sock'[r].state \in {"open", "closing", "closed"}
                 /\ sock'[r].state = "open" => sock[r].state = "open"
    BY <1>2, <1>3, <1>4
  <1> QED BY <1>1, <1>2, <1>4, <1>5, <1>7, <1>8, SocketsMove

LEMMA LeavePageStep == ASSUME ChatInv, LeavePage PROVE ChatInv'
  <1>1. /\ page \in Pages /\ timers \subseteq Sockets /\ stale \in BOOLEAN /\ PageOK
        /\ sock \in [Sockets -> SocketRecords] /\ page.own \in Refs /\ page.ws \in Refs
    BY DEF ChatInv, ChatTypes, Pages
  <1>2. /\ timers' \subseteq timers /\ UNCHANGED <<chat, stale>>
        /\ sock' = Closed(page.own, sock) /\ page' = [page EXCEPT !.here = FALSE]
    BY DEF LeavePage
  <1>3. /\ page' \in Pages /\ page'.agent = page.agent /\ page'.ws = page.ws /\ page'.own = page.own
    BY <1>1, <1>2 DEF Pages
  <1>4. /\ sock' \in [Sockets -> SocketRecords]
        /\ \A r \in Sockets :
             /\ sock'[r].agent = sock[r].agent /\ sock'[r].session = sock[r].session
             /\ sock'[r].marked = sock[r].marked /\ sock'[r].live = sock[r].live
             /\ \/ sock'[r].state = sock[r].state
                \/ sock'[r].state = "closing" /\ sock[r].state \in {"connecting", "open"}
    BY <1>1, <1>2, ClosedTypes
  <1>5. PageOK'
    BY <1>1, <1>2, <1>3, <1>4 DEF PageOK, Refs
  <1> QED BY <1>1, <1>2, <1>3, <1>4, <1>5, SocketsMove

LEMMA OpensStep == ASSUME ChatInv, NEW s \in Sockets, Opens(s) \/ Closes(s) PROVE ChatInv'
  <1>1. /\ page \in Pages /\ timers \subseteq Sockets /\ stale \in BOOLEAN /\ PageOK
        /\ sock \in [Sockets -> SocketRecords] /\ page.own \in Refs /\ page.ws \in Refs
        /\ 0 \in Refs /\ s \in Refs
    BY DEF ChatInv, ChatTypes, Pages, Refs
  <1>2. PICK step \in {"open", "closed"} :
            /\ sock' = [sock EXCEPT ![s].state = step]
            /\ sock[s].state # "unused" /\ (step = "open" => sock[s].state = "connecting")
    BY DEF Opens, Closes
  <1>3. /\ page' \in Pages /\ page'.agent = page.agent /\ page'.ws = page.ws /\ page'.own = page.own
    <2>1. CASE Opens(s)
      BY <1>1, <2>1 DEF Opens, Pages
    <2>2. CASE Closes(s)
      BY <1>1, <2>2 DEF Closes, Pages
    <2> QED BY <2>1, <2>2
  <1>4. timers' \subseteq timers \cup {s} /\ UNCHANGED <<chat, stale>>
    BY DEF Opens, Closes
  <1> DEFINE r == [sock[s] EXCEPT !.state = step]
  <1>5. /\ r \in SocketRecords /\ r.state = step /\ r.agent = sock[s].agent
        /\ r.session = sock[s].session /\ r.marked = sock[s].marked /\ r.live = sock[s].live
    BY <1>1 DEF SocketRecords, SocketStates
  <1>6. sock' = [sock EXCEPT ![s] = r]
    BY <1>1, <1>2
  <1> HIDE DEF r
  <1>7. /\ sock' \in [Sockets -> SocketRecords] /\ sock'[s] = r
        /\ \A q \in Sockets \ {s} : sock'[q] = sock[q]
    BY <1>1, <1>5, <1>6
  <1>8. \A q \in Sockets : sock'[q].agent = sock[q].agent /\ (sock[q].state # "unused" => sock'[q].state # "unused")
    BY <1>5, <1>7
  <1>9. PageOK'
    BY <1>1, <1>2, <1>3, <1>4, <1>5, <1>7, <1>8 DEF PageOK, Refs
  <1>10. \A q \in Sockets :
             /\ sock'[q].session = sock[q].session /\ sock'[q].marked = sock[q].marked
             /\ sock'[q].live = sock[q].live
             /\ sock[q].state \in {"open", "closing", "closed"} =>
                 /\ sock'[q].agent = sock[q].agent
                 /\ sock'[q].state \in {"open", "closing", "closed"}
                 /\ sock'[q].state = "open" => sock[q].state = "open"
    BY <1>2, <1>5, <1>7
  <1> QED BY <1>1, <1>3, <1>4, <1>7, <1>9, <1>10, SocketsMove

LEMMA ReconnectsStep ==
    ASSUME ChatInv, NEW old \in Sockets, NEW s \in Sockets, Reconnects(old, s)
    PROVE  ChatInv'
  <1>1. /\ page \in Pages /\ timers \subseteq Sockets /\ stale \in BOOLEAN /\ PageOK
        /\ sock \in [Sockets -> SocketRecords] /\ page.own \in Refs /\ s \in Refs
        /\ sock[old].agent \in Agents
    BY DEF ChatInv, ChatTypes, Pages, Refs, SocketRecords
  <1>2. /\ sock[s].state = "unused" /\ timers' \subseteq timers /\ UNCHANGED chat
        /\ sock' = OpenFor(s, sock[old].agent, sock)
        /\ page' = [page EXCEPT !.ws = s]
        /\ stale' = (stale \/ sock[old].agent # page.agent)
    BY DEF Reconnects, Free
  <1>3. /\ page' \in Pages /\ page'.agent = page.agent /\ page'.ws = s /\ page'.own = page.own
    BY <1>1, <1>2 DEF Pages
  <1>4. /\ sock' \in [Sockets -> SocketRecords]
        /\ sock'[s].agent = sock[old].agent /\ sock'[s].state = "connecting"
        /\ sock'[s].session = sock[s].session /\ sock'[s].marked = sock[s].marked
        /\ sock'[s].live = sock[s].live
        /\ \A r \in Sockets \ {s} : sock'[r] = sock[r]
    BY <1>1, <1>2, OpenForTypes
  <1>5. /\ stale' \in BOOLEAN /\ (stale => stale')
        /\ ~stale' => sock'[s].agent = page'.agent
    <2>1. CASE stale \/ sock[old].agent # page.agent
      BY <1>2, <2>1
    <2>2. CASE ~stale /\ sock[old].agent = page.agent
      BY <1>2, <1>3, <1>4, <2>2
    <2> QED BY <1>1, <2>1, <2>2
  <1>6. \A r \in Sockets :
             /\ sock'[r].session = sock[r].session /\ sock'[r].marked = sock[r].marked
             /\ sock'[r].live = sock[r].live
             /\ sock[r].state # "unused" => sock'[r] = sock[r]
    BY <1>2, <1>4
  <1>7. PageOK'
    BY <1>1, <1>2, <1>3, <1>4, <1>5, <1>6 DEF PageOK, Refs
  <1>8. \A r \in Sockets :
             sock[r].state \in {"open", "closing", "closed"} =>
                 /\ sock'[r].agent = sock[r].agent
                 /\ sock'[r].state \in {"open", "closing", "closed"}
                 /\ sock'[r].state = "open" => sock[r].state = "open"
    BY <1>6
  <1> QED BY <1>1, <1>2, <1>3, <1>4, <1>5, <1>6, <1>7, <1>8, SocketsMove

LEMMA OneSessionKept ==
    ASSUME NEW s \in Sockets, OneSession(s), On(s)' = On(s),
           sock'[s].session = sock[s].session,
           \A m \in On(s) :
             /\ chat'[m].rushed = chat[m].rushed /\ chat'[m].session = chat[m].session
             /\ chat'[m].at \in UnderWay => chat[m].at \in UnderWay
             /\ chat'[m].at = "creating" => chat[m].at = "creating"
    PROVE  OneSession(s)'
  <1>1. CASE \E m \in On(s) : chat[m].rushed
    BY <1>1 DEF OneSession
  <1>2. CASE ~\E m \in On(s) : chat[m].rushed
    <2>1. /\ \A m \in On(s) : chat[m].session # 0 => chat[m].session = sock[s].session
          /\ \A m \in On(s) : chat[m].at = "creating" => sock[s].session = 0
          /\ \A m, n \in On(s) : chat[m].at \in UnderWay /\ chat[n].at \in UnderWay => m = n
      BY <1>2 DEF OneSession
    <2>2. /\ \A m \in On(s) : chat'[m].session # 0 => chat'[m].session = sock'[s].session
          /\ \A m \in On(s) : chat'[m].at = "creating" => sock'[s].session = 0
          /\ \A m, n \in On(s) : chat'[m].at \in UnderWay /\ chat'[n].at \in UnderWay => m = n
      BY <2>1
    <2> QED BY <2>2 DEF OneSession
  <1> QED BY <1>1, <1>2

(* A step of the server with a message that goes on on its socket and in   *)
(* its session.                                                            *)
LEMMA MessageMoves ==
    ASSUME ChatInv, NEW m \in ChatMessages, NEW r \in ChatRecords,
           chat' = [chat EXCEPT ![m] = r], UNCHANGED <<page, timers, sock, stale>>,
           r.socket = chat[m].socket, r.session = chat[m].session,
           r.selected = chat[m].selected, r.rushed = chat[m].rushed,
           chat[m].at \in UnderWay \cup {"published"},
           r.at \in {"ready", "deaf", "published", "answered", "lost"},
           r.at = "ready" => chat[m].at = "checking",
           r.at # "lost" => chat[m].session # 0,
           chat[m].at = "subscribing" => r.at = "deaf",
           ReachedOK(m)'
    PROVE  ChatInv'
  <1>1. /\ chat' \in [ChatMessages -> ChatRecords] /\ chat'[m] = r
        /\ \A o \in ChatMessages \ {m} : chat'[o] = chat[o]
    BY DEF ChatInv, ChatTypes
  <1>2. ChatTypes' /\ PageOK'
    BY <1>1 DEF ChatInv, ChatTypes, PageOK
  <1>3. \A s : On(s)' = On(s)
    BY <1>1 DEF On
  <1>4. \A s : DeafOn(s) => DeafOn(s)'
    BY <1>1, <1>3 DEF DeafOn, UnderWay
  <1>5. ASSUME NEW o \in ChatMessages PROVE SentOK(o)' /\ ReachedOK(o)'
    <2>1. SentOK(o) /\ ReachedOK(o)
      BY DEF ChatInv
    <2>2. CASE o = m
      <3>1. SentOK(m)'
        BY <1>1, <2>1, <2>2 DEF SentOK, UnderWay
      <3> QED BY <2>2, <3>1
    <2>3. CASE o # m
      BY <1>1, <1>4, <2>1, <2>3 DEF SentOK, ReachedOK
    <2> QED BY <2>2, <2>3
  <1>6. ASSUME NEW s \in Sockets PROVE SocketOK(s)' /\ OneSession(s)'
    <2>1. SocketOK(s) /\ OneSession(s)
      BY DEF ChatInv
    <2>2. \A o \in On(s) : chat[o].at \in {"subscribing", "deaf"} =>
              chat'[o].at \in {"subscribing", "deaf"} /\ chat'[o].session = chat[o].session
      BY <1>1 DEF On, UnderWay
    <2>3. SocketOK(s)'
      BY <1>3, <2>1, <2>2 DEF SocketOK
    <2>4. \A o \in On(s) :
             /\ chat'[o].rushed = chat[o].rushed /\ chat'[o].session = chat[o].session
             /\ chat'[o].at \in UnderWay => chat[o].at \in UnderWay
             /\ chat'[o].at = "creating" => chat[o].at = "creating"
      BY <1>1 DEF On, UnderWay
    <2>5. OneSession(s)'
      BY <1>3, <2>1, <2>4, OneSessionKept
    <2> QED BY <2>3, <2>5
  <1> QED BY <1>2, <1>5, <1>6 DEF ChatInv

LEMMA ServerStep ==
    ASSUME ChatInv, NEW m \in ChatMessages,
           SubscribeFails(m) \/ PassesOn(m) \/ ServerFails(m) \/ Checks(m)
    PROVE  ChatInv'
  <1>1. /\ chat \in [ChatMessages -> ChatRecords] /\ chat[m] \in ChatRecords
        /\ SentOK(m) /\ ReachedOK(m) /\ sock \in [Sockets -> SocketRecords]
    BY DEF ChatInv, ChatTypes
  <1>2. PICK step \in {"ready", "deaf", "published", "lost"} :
            /\ Step(m, step)
            /\ \/ step = "ready" /\ Checks(m)
               \/ step = "deaf" /\ SubscribeFails(m)
               \/ step = "published" /\ PassesOn(m)
               \/ step = "lost" /\ ServerFails(m)
    <2>1. CASE Checks(m)
      <3>1. chat[m].session \in sock[chat[m].socket].marked
        BY <1>1, <2>1 DEF Checks, SentOK
      <3> QED BY <2>1, <3>1 DEF Checks
    <2>2. CASE SubscribeFails(m)
      BY <2>2 DEF SubscribeFails
    <2>3. CASE PassesOn(m)
      BY <2>3 DEF PassesOn
    <2>4. CASE ServerFails(m)
      BY <2>4 DEF ServerFails
    <2> QED BY <2>1, <2>2, <2>3, <2>4
  <1>3. /\ chat[m].at \in UnderWay /\ (step # "lost" => chat[m].session # 0)
        /\ step = "ready" => chat[m].at = "checking"
        /\ step = "published" => chat[m].at = "ready"
        /\ chat[m].at = "subscribing" => step = "deaf"
    BY <1>1, <1>2 DEF Checks, SubscribeFails, PassesOn, ServerFails, UnderWay, SentOK
  <1>4. UNCHANGED sock
    <2>1. CASE Checks(m)
      <3> DEFINE s == chat[m].socket
      <3>1. chat[m].at = "checking"
        BY <2>1 DEF Checks
      <3>2. s \in Sockets /\ chat[m].session \in sock[s].marked
        BY <3>1, <1>1 DEF SentOK, ChatRecords, Refs
      <3>3. sock[s] \in SocketRecords
        BY <1>1, <3>2
      <3>4. [sock[s] EXCEPT !.marked = @ \cup {chat[m].session}] = sock[s]
        BY <3>2, <3>3 DEF SocketRecords
      <3>5. sock' = [sock EXCEPT ![s] = [sock[s] EXCEPT !.marked = @ \cup {chat[m].session}]]
        BY <2>1, <3>2 DEF Checks
      <3> QED BY <1>1, <3>2, <3>4, <3>5
    <2>2. CASE step # "ready"
      BY <1>2, <2>2 DEF SubscribeFails, PassesOn, ServerFails
    <2> QED BY <1>2, <2>1, <2>2
  <1> DEFINE r == [chat[m] EXCEPT !.at = step]
  <1>5. /\ r \in ChatRecords /\ r.at = step /\ r.socket = chat[m].socket
        /\ r.session = chat[m].session /\ r.selected = chat[m].selected
        /\ r.rushed = chat[m].rushed /\ r.heard = chat[m].heard
    BY <1>1 DEF ChatRecords, ChatStages
  <1>6. chat' = [chat EXCEPT ![m] = r] /\ UNCHANGED <<page, timers, stale>>
    BY <1>1, <1>2 DEF Step
  <1> HIDE DEF r
  <1>7. chat'[m] = r /\ \A o \in ChatMessages \ {m} : chat'[o] = chat[o]
    BY <1>1, <1>6
  <1>8. DeafOn(chat[m].socket) => DeafOn(chat[m].socket)'
    <2>1. chat[m].at # "deaf"
      BY <1>3 DEF UnderWay
    <2>2. ASSUME NEW s, DeafOn(s) PROVE DeafOn(s)'
      BY <1>7, <2>1, <2>2 DEF DeafOn, On
    <2>3. ASSUME NEW s, s = chat[m].socket, DeafOn(chat[m].socket) PROVE DeafOn(s)'
      BY <2>2, <2>3
    <2> QED BY <1>5, <1>7, <2>3 DEF DeafOn, On
  <1>9. ReachedOK(m)'
    BY <1>1, <1>3, <1>4, <1>5, <1>7, <1>8 DEF ReachedOK
  <1> QED BY <1>3, <1>4, <1>5, <1>6, <1>9, MessageMoves

LEMMA ChatAnswerStep ==
    ASSUME ChatInv, NEW m \in ChatMessages, ChatAnswer(m)
    PROVE  ChatInv'
  <1>1. /\ chat \in [ChatMessages -> ChatRecords] /\ chat[m] \in ChatRecords
        /\ SentOK(m) /\ ReachedOK(m) /\ chat[m].at = "published"
        /\ UNCHANGED <<page, timers, sock, stale>>
    BY DEF ChatInv, ChatTypes, ChatAnswer
  <1>a. PICK w : w = chat[m].socket
    OBVIOUS
  <1> DEFINE s == sock[chat[m].socket]
             heard == s.state = "open" /\ chat[m].session \in s.live
             r == [chat[m] EXCEPT !.at = "answered", !.heard = heard]
  <1>2. heard \in BOOLEAN
    OBVIOUS
  <1>3. chat' = [chat EXCEPT ![m] = r]
    BY <1>1 DEF ChatAnswer
  <1>4. heard <=> sock[chat[m].socket].state = "open" /\ chat[m].session \in sock[chat[m].socket].live
    OBVIOUS
  <1> HIDE DEF heard
  <1>5. /\ r \in ChatRecords /\ r.at = "answered" /\ r.socket = chat[m].socket
        /\ r.session = chat[m].session /\ r.selected = chat[m].selected
        /\ r.rushed = chat[m].rushed /\ r.heard = heard
    BY <1>1, <1>2 DEF ChatRecords, ChatStages
  <1> HIDE DEF r
  <1>6. chat'[m] = r /\ \A o \in ChatMessages \ {m} : chat'[o] = chat[o]
    BY <1>1, <1>3
  <1>7. DeafOn(w) => DeafOn(w)'
    BY <1>1, <1>5, <1>6 DEF DeafOn, On
  <1>8. ReachedOK(m)'
    BY <1>a, <1>1, <1>4, <1>5, <1>6, <1>7 DEF ReachedOK
  <1>9. chat[m].session # 0
    BY <1>1 DEF SentOK
  <1> QED BY <1>1, <1>3, <1>5, <1>8, <1>9, MessageMoves

(* The socket of m listens to its session from now on.                     *)
LEMMA SubscribesStep ==
    ASSUME ChatInv, NEW m \in ChatMessages, Subscribes(m)
    PROVE  ChatInv'
  <1>1. /\ chat \in [ChatMessages -> ChatRecords] /\ chat[m] \in ChatRecords
        /\ sock \in [Sockets -> SocketRecords] /\ SentOK(m) /\ chat[m].at = "subscribing"
        /\ UNCHANGED <<page, timers, stale>>
    BY DEF ChatInv, ChatTypes, Subscribes, Step
  <1>2. PICK w \in Sockets, n \in Numbers : w = chat[m].socket /\ n = chat[m].session /\ n # 0 /\ n \in sock[w].marked
    BY <1>1 DEF SentOK, ChatRecords, Refs
  <1> DEFINE r == [chat[m] EXCEPT !.at = "ready"]
             k == [sock[w] EXCEPT !.live = @ \cup {n}]
  <1>3. /\ r \in ChatRecords /\ r.at = "ready" /\ r.socket = w /\ r.session = n
        /\ r.selected = chat[m].selected /\ r.rushed = chat[m].rushed
    BY <1>1, <1>2 DEF ChatRecords, ChatStages
  <1>4. /\ k \in SocketRecords /\ k.live = sock[w].live \cup {n} /\ k.marked = sock[w].marked
        /\ k.state = sock[w].state /\ k.agent = sock[w].agent /\ k.session = sock[w].session
    BY <1>1, <1>2 DEF SocketRecords
  <1>5. chat' = [chat EXCEPT ![m] = r] /\ sock' = [sock EXCEPT ![w] = k]
    BY <1>1, <1>2 DEF Subscribes, Step
  <1> HIDE DEF r, k
  <1>6. /\ chat' \in [ChatMessages -> ChatRecords] /\ chat'[m] = r
        /\ \A o \in ChatMessages \ {m} : chat'[o] = chat[o]
        /\ sock' \in [Sockets -> SocketRecords] /\ sock'[w] = k
        /\ \A s \in Sockets \ {w} : sock'[s] = sock[s]
    BY <1>1, <1>3, <1>4, <1>5
  <1>7. \A s \in Sockets : /\ sock'[s].marked = sock[s].marked /\ sock[s].live \subseteq sock'[s].live
                          /\ sock'[s].state = sock[s].state /\ sock'[s].agent = sock[s].agent
                          /\ sock'[s].session = sock[s].session
    BY <1>4, <1>6
  <1>8. ChatTypes'
    BY <1>1, <1>6 DEF ChatInv, ChatTypes
  <1>9. PageOK'
    BY <1>1, <1>7 DEF ChatInv, ChatTypes, Pages, Refs, PageOK
  <1>10. /\ \A s : On(s)' = On(s)
         /\ \A s : DeafOn(s) => DeafOn(s)'
    BY <1>1, <1>2, <1>3, <1>6 DEF On, DeafOn
  <1>11. ASSUME NEW o \in ChatMessages PROVE SentOK(o)' /\ ReachedOK(o)'
    <2>1. SentOK(o) /\ ReachedOK(o) /\ chat[o].socket \in Refs
      BY <1>1 DEF ChatInv, ChatRecords
    <2>2. CASE o = m
      <3>1. n \in sock'[w].live /\ n \in sock'[w].marked
        BY <1>2, <1>4, <1>6
      <3>2. SentOK(m)'
        BY <1>1, <1>2, <1>3, <1>6, <1>7, <3>1 DEF SentOK
      <3>3. ReachedOK(m)'
        BY <1>3, <1>6, <3>1 DEF ReachedOK
      <3> QED BY <2>2, <3>2, <3>3
    <2>3. CASE o # m
      <3>1. chat'[o] = chat[o]
        BY <1>6, <2>3
      <3>2. SentOK(o)'
        BY <1>1, <1>7, <2>1, <3>1 DEF SentOK, Refs
      <3>3. ReachedOK(o)'
        <4>1. CASE chat[o].at = "unsent"
          BY <3>1, <4>1 DEF ReachedOK
        <4>2. CASE chat[o].at # "unsent"
          <5>1. chat[o].socket \in Sockets
            BY <2>1, <4>2 DEF SentOK, Refs
          <5> QED BY <1>7, <1>10, <2>1, <3>1, <5>1 DEF ReachedOK
        <4> QED BY <4>1, <4>2
      <3> QED BY <3>2, <3>3
    <2> QED BY <2>2, <2>3
  <1>12. ASSUME NEW s \in Sockets PROVE SocketOK(s)' /\ OneSession(s)'
    <2>1. SocketOK(s) /\ OneSession(s)
      BY DEF ChatInv
    <2>2. ASSUME NEW x \in sock[s].marked
          PROVE  x \in sock'[s].live \/ \E o \in On(s) : chat'[o].session = x /\ chat'[o].at \in {"subscribing", "deaf"}
      <3>1. CASE x \in sock[s].live
        BY <1>7, <3>1
      <3>2. ASSUME NEW o \in On(s), chat[o].session = x, chat[o].at \in {"subscribing", "deaf"}
            PROVE  \/ x \in sock'[s].live
                   \/ chat'[o].session = x /\ chat'[o].at \in {"subscribing", "deaf"}
        <4>1. CASE o = m
          <5>1. s = w /\ x = n
            BY <1>2, <3>2, <4>1 DEF On
          <5> QED BY <5>1, <1>4, <1>6
        <4>2. CASE o # m
          BY <1>6, <3>2, <4>2 DEF On
        <4> QED BY <4>1, <4>2
      <3> QED BY <2>1, <3>1, <3>2 DEF SocketOK
    <2>3. SocketOK(s)'
      <3>1. sock'[s].live \subseteq sock'[s].marked
        BY <1>2, <1>4, <1>6, <2>1 DEF SocketOK
      <3> QED BY <1>7, <1>10, <2>1, <2>2, <3>1 DEF SocketOK
    <2>4. \A o \in On(s) :
             /\ chat'[o].rushed = chat[o].rushed /\ chat'[o].session = chat[o].session
             /\ chat'[o].at \in UnderWay => chat[o].at \in UnderWay
             /\ chat'[o].at = "creating" => chat[o].at = "creating"
      BY <1>1, <1>2, <1>3, <1>6 DEF On, UnderWay
    <2>5. OneSession(s)'
      BY <1>7, <1>10, <2>1, <2>4, OneSessionKept
    <2> QED BY <2>3, <2>5
  <1> QED BY <1>8, <1>9, <1>11, <1>12 DEF ChatInv

(* The first session of a socket, or one more if messages did not wait.    *)
LEMMA CreatesStep ==
    ASSUME ChatInv, NEW m \in ChatMessages, Creates(m)
    PROVE  ChatInv'
  <1>1. /\ chat \in [ChatMessages -> ChatRecords] /\ chat[m] \in ChatRecords
        /\ sock \in [Sockets -> SocketRecords] /\ SentOK(m) /\ chat[m].at = "creating"
        /\ chat[m].session = 0 /\ UNCHANGED <<page, timers, stale>>
    BY DEF ChatInv, ChatTypes, Creates, SentOK
  <1> DEFINE Numbered == {o \in ChatMessages : chat[o].session # 0}
  <1>2. 1 + Cardinality(Numbered) \in Numbers \ {0}
    <2>1. Numbered \in SUBSET ChatMessages /\ m \notin Numbered
      BY <1>1
    <2>2. /\ IsFiniteSet(Numbered) /\ Cardinality(Numbered) <= Cardinality(ChatMessages)
          /\ Cardinality(Numbered) # Cardinality(ChatMessages)
      BY <2>1, ChatAssumption, FS_Subset
    <2>3. Cardinality(Numbered) \in Nat
      BY <2>2, FS_CardinalityType
    <2> HIDE DEF Numbered
    <2> QED BY <2>2, <2>3, NumbersAre DEF Numbers
  <1>3. PICK n \in Numbers : n # 0 /\ n = 1 + Cardinality(Numbered)
    BY <1>2
  <1>4. PICK w \in Sockets : w = chat[m].socket
    BY <1>1 DEF SentOK, ChatRecords, Refs
  <1> DEFINE r1 == [chat[m] EXCEPT !.at = "subscribing"]
             r2 == [r1 EXCEPT !.session = n]
             k1 == [sock[w] EXCEPT !.session = n]
             k2 == [k1 EXCEPT !.marked = @ \cup {n}]
  <1>5. /\ r1 \in ChatRecords /\ r1.at = "subscribing" /\ r1.socket = w
        /\ r1.selected = chat[m].selected /\ r1.rushed = chat[m].rushed
    BY <1>1, <1>4 DEF ChatRecords, ChatStages
  <1>6. k1 \in SocketRecords /\ k1.session = n /\ k1.live = sock[w].live
        /\ k1.marked = sock[w].marked /\ k1.state = sock[w].state /\ k1.agent = sock[w].agent
    BY <1>1, <1>3 DEF SocketRecords
  <1>7. /\ chat' = [[chat EXCEPT ![m] = r1] EXCEPT ![m].session = n]
        /\ sock' = [[sock EXCEPT ![w] = k1] EXCEPT ![w].marked = @ \cup {n}]
    BY <1>3, <1>4 DEF Creates
  <1>8. chat' = [chat EXCEPT ![m] = r2]
    BY <1>1, <1>5, <1>7
  <1>9. sock' = [sock EXCEPT ![w] = k2]
    BY <1>1, <1>6, <1>7
  <1>10. /\ r2 \in ChatRecords /\ r2.at = r1.at /\ r2.socket = r1.socket /\ r2.session = n
         /\ r2.selected = r1.selected /\ r2.rushed = r1.rushed
    BY <1>3, <1>5 DEF ChatRecords
  <1>11. k2 \in SocketRecords /\ k2.marked = k1.marked \cup {n} /\ k2.session = k1.session
         /\ k2.live = k1.live /\ k2.state = k1.state /\ k2.agent = k1.agent
    BY <1>3, <1>6 DEF SocketRecords
  <1> HIDE DEF Numbered, r1, r2, k1, k2
  <1>12. /\ chat' \in [ChatMessages -> ChatRecords]
         /\ chat'[m].at = "subscribing" /\ chat'[m].socket = w /\ chat'[m].session = n
         /\ chat'[m].selected = chat[m].selected /\ chat'[m].rushed = chat[m].rushed
         /\ \A o \in ChatMessages \ {m} : chat'[o] = chat[o]
    BY <1>1, <1>5, <1>8, <1>10
  <1>13. /\ sock' \in [Sockets -> SocketRecords]
         /\ sock'[w].marked = sock[w].marked \cup {n} /\ sock'[w].session = n
         /\ \A s \in Sockets \ {w} : sock'[s] = sock[s]
         /\ \A s \in Sockets : /\ sock'[s].live = sock[s].live /\ sock'[s].state = sock[s].state
                               /\ sock'[s].agent = sock[s].agent
                               /\ sock[s].marked \subseteq sock'[s].marked
    BY <1>1, <1>6, <1>9, <1>11
  <1>14. ChatTypes'
    BY <1>1, <1>12, <1>13 DEF ChatInv, ChatTypes
  <1>15. PageOK'
    BY <1>1, <1>13 DEF ChatInv, ChatTypes, Pages, Refs, PageOK
  <1>16. /\ \A s : On(s)' = On(s)
         /\ \A s : DeafOn(s) => DeafOn(s)'
    BY <1>1, <1>4, <1>12 DEF On, DeafOn
  <1>17. ASSUME NEW o \in ChatMessages PROVE SentOK(o)' /\ ReachedOK(o)'
    <2>1. SentOK(o) /\ ReachedOK(o) /\ chat[o].socket \in Refs
      BY <1>1 DEF ChatInv, ChatRecords
    <2>2. CASE o = m
      <3>1. SentOK(m)'
        BY <1>1, <1>3, <1>4, <1>12, <1>13, ChatAssumption DEF SentOK
      <3>2. ReachedOK(m)'
        BY <1>12 DEF ReachedOK
      <3> QED BY <2>2, <3>1, <3>2
    <2>3. CASE o # m
      <3>1. chat'[o] = chat[o]
        BY <1>12, <2>3
      <3>2. CASE chat[o].at = "unsent"
        BY <2>1, <3>1, <3>2 DEF SentOK, ReachedOK
      <3>3. CASE chat[o].at # "unsent"
        <4>1. chat[o].socket \in Sockets
          BY <2>1, <3>3 DEF SentOK, Refs
        <4>2. SentOK(o)'
          BY <1>1, <1>13, <2>1, <3>1, <4>1 DEF SentOK
        <4>3. ReachedOK(o)'
          BY <1>13, <1>16, <2>1, <3>1, <4>1 DEF ReachedOK
        <4> QED BY <4>2, <4>3
      <3> QED BY <3>2, <3>3
    <2> QED BY <2>2, <2>3
  <1>18. ASSUME NEW s \in Sockets PROVE SocketOK(s)' /\ OneSession(s)'
    <2>1. SocketOK(s) /\ OneSession(s) /\ sock[s].marked \subseteq Numbers \ {0}
      BY <1>1 DEF ChatInv, SocketRecords
    <2>2. ASSUME NEW x \in sock[s].marked
          PROVE  x \in sock'[s].live \/ \E o \in On(s) : chat'[o].session = x /\ chat'[o].at \in {"subscribing", "deaf"}
      <3>1. CASE x \in sock[s].live
        BY <1>13, <3>1
      <3>2. ASSUME NEW o \in On(s), chat[o].session = x
            PROVE  chat'[o] = chat[o]
        BY <1>1, <1>12, <2>1, <2>2, <3>2 DEF On
      <3> QED BY <2>1, <3>1, <3>2 DEF SocketOK
    <2>3. CASE s # w
      <3>1. SocketOK(s)'
        BY <1>13, <1>16, <2>1, <2>2, <2>3 DEF SocketOK
      <3>2. \A o \in On(s) : chat'[o] = chat[o]
        BY <1>4, <1>12, <2>3 DEF On
      <3>3. OneSession(s)'
        BY <1>13, <1>16, <2>1, <2>3, <3>2, OneSessionKept
      <3> QED BY <3>1, <3>3
    <2>4. CASE s = w
      <3>1. m \in On(s)
        BY <1>4, <2>4 DEF On
      <3>2. SocketOK(s)'
        BY <1>12, <1>13, <1>16, <2>1, <2>2, <2>4, <3>1 DEF SocketOK
      <3>3. \A o \in On(s) : chat'[o].rushed = chat[o].rushed
        BY <1>12 DEF On
      <3>a. On(s)' = On(s)
        BY <1>16
      <3>4. CASE \E o \in On(s) : chat[o].rushed
        BY <3>a, <3>2, <3>3, <3>4 DEF OneSession
      <3>5. CASE ~\E o \in On(s) : chat[o].rushed
        <4>1. /\ \A o \in On(s) : chat[o].session # 0 => chat[o].session = sock[s].session
              /\ \A o \in On(s) : chat[o].at = "creating" => sock[s].session = 0
              /\ \A o, p \in On(s) : chat[o].at \in UnderWay /\ chat[p].at \in UnderWay => o = p
          BY <2>1, <3>5 DEF OneSession
        <4>2. \A o \in On(s) : o # m => /\ chat'[o] = chat[o] /\ chat[o].session = 0
                                       /\ chat[o].at \notin UnderWay
          BY <1>1, <1>12, <3>1, <4>1 DEF On, UnderWay
        <4>3. \A o \in On(s) : chat'[o].session # 0 => chat'[o].session = sock'[s].session
          BY <1>12, <1>13, <2>4, <4>2
        <4>4. \A o \in On(s) : chat'[o].at # "creating"
          BY <1>12, <4>2 DEF UnderWay
        <4>5. \A o, p \in On(s) : chat'[o].at \in UnderWay /\ chat'[p].at \in UnderWay => o = p
          BY <4>2
        <4> QED BY <3>a, <3>2, <4>3, <4>4, <4>5 DEF OneSession
      <3> QED BY <3>2, <3>4, <3>5
    <2> QED BY <2>3, <2>4
  <1> QED BY <1>14, <1>15, <1>17, <1>18 DEF ChatInv

LEMMA SendChatStep ==
    ASSUME ChatInv, NEW m \in ChatMessages, SendChat(m)
    PROVE  ChatInv'
  <1>1. /\ chat \in [ChatMessages -> ChatRecords] /\ page \in Pages /\ PageOK
        /\ sock \in [Sockets -> SocketRecords] /\ SentOK(m) /\ chat[m].at = "unsent"
        /\ UNCHANGED <<page, timers, sock, stale>>
    BY DEF ChatInv, ChatTypes, SendChat
  <1>2. PICK w \in Sockets : w = page.ws /\ w # 0 /\ sock[w].state = "open"
    BY <1>1, SMTT(30) DEF SendChat, Pages, Refs
  <1> DEFINE rushed == \E o \in ChatMessages :
                 chat[o].socket = w /\ chat[o].at \in {"creating", "checking", "subscribing", "ready"}
  <1>3. PICK step \in {"creating", "checking", "lost"}, n \in Numbers :
            /\ chat' = [chat EXCEPT ![m] = [Unsent EXCEPT !.at = step, !.socket = w,
                            !.selected = page.agent, !.session = n, !.rushed = rushed]]
            /\ step = "creating" => n = 0 /\ sock[w].session = 0
            /\ step = "checking" => n # 0 /\ n = sock[w].session
            /\ step = "lost" => n = 0
    <2>1. sock[w].session \in Numbers /\ 0 \in Numbers
      BY <1>1, NumbersAre DEF SocketRecords
    <2> QED BY <1>2, <2>1 DEF SendChat, Sends
  <1>4. rushed \in BOOLEAN /\ (rushed <=> \E o \in On(w) : chat[o].at \in UnderWay)
    BY DEF On, UnderWay
  <1> HIDE DEF rushed
  <1> DEFINE r1 == [Unsent EXCEPT !.at = step]
             r2 == [r1 EXCEPT !.socket = w]
             r3 == [r2 EXCEPT !.selected = page.agent]
             r4 == [r3 EXCEPT !.session = n]
             r == [r4 EXCEPT !.rushed = rushed]
  <1>5. chat' = [chat EXCEPT ![m] = r]
    BY <1>3
  <1>6. /\ r \in ChatRecords /\ r.at = step /\ r.socket = w /\ r.session = n
        /\ r.selected = page.agent /\ (r.rushed <=> rushed)
    <2>1. page.agent \in Agents
      BY <1>1 DEF Pages
    <2> USE DEF ChatRecords, ChatStages, Refs, Agents
    <2>2. Unsent \in ChatRecords
      BY NumbersAre DEF Unsent
    <2>3. r1 \in ChatRecords /\ r1.at = step
      BY <2>2
    <2>4. r2 \in ChatRecords /\ r2.at = step /\ r2.socket = w
      BY <2>3
    <2>5. r3 \in ChatRecords /\ r3.at = step /\ r3.socket = w /\ r3.selected = page.agent
      BY <2>1, <2>4
    <2>6. r4 \in ChatRecords /\ r4.at = step /\ r4.socket = w /\ r4.selected = page.agent /\ r4.session = n
      BY <2>5
    <2> HIDE DEF r1, r2, r3, r4
    <2> QED BY <1>4, <2>6
  <1> HIDE DEF r1, r2, r3, r4, r
  <1>7. /\ chat' \in [ChatMessages -> ChatRecords] /\ chat'[m] = r
        /\ \A o \in ChatMessages \ {m} : chat'[o] = chat[o]
    BY <1>1, <1>5, <1>6
  <1>8. ChatTypes' /\ PageOK'
    BY <1>1, <1>7 DEF ChatInv, ChatTypes, PageOK
  <1>9. chat[m].socket = 0 /\ 0 \notin Sockets
    BY <1>1, ChatAssumption DEF SentOK
  <1>10. /\ \A s \in Sockets : m \notin On(s)
         /\ \A s \in Sockets : s # w => On(s)' = On(s)
         /\ On(w)' = On(w) \cup {m}
    BY <1>6, <1>7, <1>9 DEF On
  <1>11. \A s \in Sockets : DeafOn(s) => DeafOn(s)'
    BY <1>7, <1>10 DEF DeafOn, On
  <1>12. ASSUME NEW o \in ChatMessages PROVE SentOK(o)' /\ ReachedOK(o)'
    <2>1. SentOK(o) /\ ReachedOK(o) /\ chat[o] \in ChatRecords /\ SocketOK(w)
      BY <1>1 DEF ChatInv
    <2>2. CASE o = m
      <3>1. ~stale => sock[w].agent = page.agent
        BY <1>1, <1>2 DEF PageOK
      <3>2. n # 0 => n \in sock[w].marked
        BY <1>3, <2>1 DEF SocketOK
      <3>3. SentOK(m)'
        <4>1. chat'[m].at \in {"creating", "checking", "lost"} /\ chat'[m].socket = w /\ chat'[m].session = n
          BY <1>3, <1>6, <1>7
        <4>2. chat'[m].selected = page.agent
          BY <1>6, <1>7
        <4> QED BY <1>1, <1>2, <1>3, <3>1, <3>2, <4>1, <4>2, <1>6, <1>7 DEF SentOK
      <3>4. ASSUME ~rushed, step = "checking" PROVE n \in sock[w].live \/ DeafOn(w)'
        <4>1. n \in sock[w].live \/ DeafOn(w)
          BY <1>3, <1>4, <2>1, <3>2, <3>4 DEF SocketOK, DeafOn, UnderWay
        <4> QED BY <4>1, <1>11
      <3>5. ReachedOK(m)'
        BY <1>1, <1>3, <1>6, <1>7, <3>4 DEF ReachedOK
      <3> QED BY <2>2, <3>3, <3>5
    <2>3. CASE o # m
      <3>1. chat'[o] = chat[o]
        BY <1>7, <2>3
      <3>2. chat[o].at # "unsent" => chat[o].socket \in Sockets
        BY <2>1 DEF SentOK, ChatRecords, Refs
      <3>3. SentOK(o)'
        BY <1>1, <2>1, <3>1 DEF SentOK
      <3>4. ReachedOK(o)'
        BY <1>1, <1>11, <2>1, <3>1, <3>2 DEF ReachedOK
      <3> QED BY <3>3, <3>4
    <2> QED BY <2>2, <2>3
  <1>13. ASSUME NEW s \in Sockets PROVE SocketOK(s)' /\ OneSession(s)'
    <2>1. SocketOK(s) /\ OneSession(s)
      BY DEF ChatInv
    <2>2. \A o \in On(s) : o # m /\ chat'[o] = chat[o] /\ o \in On(s)'
      BY <1>7, <1>10 DEF On
    <2>3. SocketOK(s)'
      BY <1>1, <2>1, <2>2 DEF SocketOK
    <2>4. CASE s # w
      <3>1. On(s)' = On(s)
        BY <1>10, <2>4
      <3>2. OneSession(s)'
        BY <1>1, <2>1, <2>2, <3>1, OneSessionKept
      <3> QED BY <2>3, <3>2
    <2>5. CASE s = w
      <3>a. On(s)' = On(s) \cup {m}
        BY <1>10, <2>5
      <3>1. CASE rushed \/ \E o \in On(s) : chat[o].rushed
        <4>1. chat'[m].rushed <=> rushed
          BY <1>6, <1>7
        <4>2. \E o \in On(s) \cup {m} : chat'[o].rushed
          BY <2>2, <3>1, <4>1
        <4> QED BY <2>3, <3>a, <4>2 DEF OneSession
      <3>2. CASE ~rushed /\ ~\E o \in On(s) : chat[o].rushed
        <4>1. /\ \A o \in On(s) : chat[o].session # 0 => chat[o].session = sock[s].session
              /\ \A o \in On(s) : chat[o].at \notin UnderWay
          BY <1>4, <2>1, <2>5, <3>2 DEF OneSession
        <4>2. \A o \in On(s) : chat'[o].at # "creating" /\ chat'[o].at \notin UnderWay
          BY <2>2, <4>1 DEF UnderWay
        <4>3. chat'[m].session = n /\ (n # 0 => n = sock[s].session) /\ (chat'[m].at = "creating" => sock[s].session = 0)
          BY <1>3, <1>6, <1>7, <2>5
        <4>4. /\ \A o \in On(s) \cup {m} : chat'[o].session # 0 => chat'[o].session = sock'[s].session
              /\ \A o \in On(s) \cup {m} : chat'[o].at = "creating" => sock'[s].session = 0
              /\ \A o, p \in On(s) \cup {m} : chat'[o].at \in UnderWay /\ chat'[p].at \in UnderWay => o = p
          BY <1>1, <2>2, <4>1, <4>2, <4>3
        <4> QED BY <2>3, <3>a, <4>4 DEF OneSession
      <3> QED BY <2>3, <3>1, <3>2
    <2> QED BY <2>3, <2>4, <2>5
  <1> QED BY <1>8, <1>12, <1>13 DEF ChatInv

LEMMA ChatStep == ChatInv /\ [ChatNext]_chatVars => ChatInv'
  <1> SUFFICES ASSUME ChatInv, [ChatNext]_chatVars PROVE ChatInv'
    OBVIOUS
  <1>1. CASE LeavePage
    BY <1>1, LeavePageStep
  <1>2. ASSUME NEW s \in Sockets, Opens(s) \/ Closes(s) PROVE ChatInv'
    BY <1>2, OpensStep
  <1>3. ASSUME NEW s \in Sockets, NEW a \in ChatAgents, SelectAgent(a, s) PROVE ChatInv'
    BY <1>3, SelectAgentStep
  <1>4. ASSUME NEW s \in Sockets, NEW old \in Sockets, Reconnects(old, s) PROVE ChatInv'
    BY <1>4, ReconnectsStep
  <1>5. ASSUME NEW m \in ChatMessages,
               \/ SendChat(m) \/ Creates(m) \/ Checks(m) \/ Subscribes(m) \/ SubscribeFails(m)
               \/ PassesOn(m) \/ ServerFails(m) \/ ChatAnswer(m)
        PROVE  ChatInv'
    BY <1>5, SendChatStep, CreatesStep, ServerStep, SubscribesStep, ChatAnswerStep
  <1>6. CASE UNCHANGED chatVars
    <2> USE <1>6 DEF chatVars
    <2>1. ChatTypes' /\ PageOK'
      BY DEF ChatInv, ChatTypes, PageOK
    <2>2. ASSUME NEW m \in ChatMessages PROVE SentOK(m)' /\ ReachedOK(m)'
      BY DEF ChatInv, SentOK, ReachedOK, DeafOn, On
    <2>3. ASSUME NEW s \in Sockets PROVE SocketOK(s)' /\ OneSession(s)'
      BY DEF ChatInv, SocketOK, OneSession, On
    <2> QED BY <2>1, <2>2, <2>3 DEF ChatInv
  <1> QED BY <1>1, <1>2, <1>3, <1>4, <1>5, <1>6 DEF ChatNext

LEMMA ChatInvariant == ChatSpec => []ChatInv
  <1>1. ChatInit => ChatInv
    BY ChatInitInv
  <1>2. ChatInv /\ [ChatNext]_chatVars => ChatInv'
    BY ChatStep
  <1> QED BY <1>1, <1>2, PTL DEF ChatSpec

\* Types; the page's own socket is for the agent it shows (ChatPage.tsx:41-53, 73-80,
\* main.ts:341-348).
THEOREM ChatTypesHold == ChatSpec => []ChatTypeOK
  <1>1. ASSUME ChatInv PROVE ChatTypeOK
    <2> USE <1>1 DEF ChatInv
    <2>1. /\ page.agent \in Agents /\ page.here \in BOOLEAN /\ page.connected \in BOOLEAN
          /\ {page.ws, page.own, page.timer} \subseteq Refs
          /\ timers \subseteq Sockets /\ stale \in BOOLEAN
      BY DEF ChatTypes, Pages
    <2>2. page.own # 0 => sock[page.own].agent = page.agent
      BY DEF PageOK
    <2>3. ASSUME NEW s \in Sockets
          PROVE  /\ sock[s].state \in SocketStates /\ sock[s].live \subseteq sock[s].marked
                 /\ sock[s].marked \subseteq 1 .. Cardinality(ChatMessages)
      BY NumbersAre DEF ChatTypes, SocketRecords, Numbers, SocketOK
    <2>4. \A m \in ChatMessages : chat[m].socket \in Refs
      BY DEF ChatTypes, ChatRecords
    <2> QED BY <2>1, <2>2, <2>3, <2>4 DEF ChatTypeOK, Agents, Refs, SocketStates
  <1> QED BY <1>1, ChatInvariant, PTL

LEMMA AtMostOne == ASSUME NEW S, NEW x, S \subseteq {x} PROVE Cardinality(S) <= 1
  <1>1. IsFiniteSet({x}) /\ Cardinality({x}) = 1
    BY FS_Singleton
  <1> QED BY <1>1, FS_Subset

\* What the user writes goes to the agent the page shows, and the answers come back
\* where it was written, for any agents, sockets and messages
\* (ChatPage.tsx:63-171, main.ts:365-459).
THEOREM ChatHeard == ChatSpec => []ChatIsHeard
  <1>1. ASSUME ChatInv PROVE ChatIsHeard
    <2>1. ASSUME NEW m \in ChatMessages, chat[m].at # "unsent", ~stale
          PROVE  sock[chat[m].socket].agent = chat[m].selected
      BY <1>1, <2>1 DEF ChatInv, SentOK
    <2>2. ASSUME NEW m \in ChatMessages
          PROVE  LET same == {o \in ChatMessages : chat[o].socket = chat[m].socket} IN
                 /\ /\ chat[m].at = "answered" /\ ~chat[m].heard /\ ~chat[m].rushed
                    /\ sock[chat[m].socket].state = "open"
                    => \E o \in same : chat[o].at = "deaf"
                 /\ \/ \E o \in same : chat[o].rushed
                    \/ Cardinality({chat[o].session : o \in same} \ {0}) <= 1
      <3> DEFINE same == On(chat[m].socket)
      <3>1. SentOK(m) /\ ReachedOK(m) /\ chat[m] \in ChatRecords
        BY <1>1 DEF ChatInv, ChatTypes
      <3>2. /\ chat[m].at = "answered" /\ ~chat[m].heard /\ ~chat[m].rushed
            /\ sock[chat[m].socket].state = "open"
            => \E o \in same : chat[o].at = "deaf"
        BY <3>1 DEF ReachedOK, DeafOn
      <3>3. PICK x : \/ \E o \in same : chat[o].rushed
                     \/ \A o \in same : chat[o].session # 0 => chat[o].session = x
        <4>1. CASE chat[m].socket = 0
          <5>1. \A o \in same : SentOK(o) /\ chat[o].socket = 0
            BY <1>1, <4>1 DEF ChatInv, On
          <5>2. \A o \in same : chat[o].session = 0
            BY <5>1 DEF SentOK
          <5> QED BY <5>2
        <4>2. CASE chat[m].socket # 0
          <5>1. OneSession(chat[m].socket)
            BY <1>1, <3>1, <4>2 DEF ChatInv, ChatRecords, Refs
          <5> QED BY <5>1 DEF OneSession
        <4> QED BY <4>1, <4>2
      <3>4. \/ \E o \in same : chat[o].rushed
            \/ Cardinality({chat[o].session : o \in same} \ {0}) <= 1
        <4>1. CASE \A o \in same : chat[o].session # 0 => chat[o].session = x
          <5>1. {chat[o].session : o \in same} \ {0} \subseteq {x}
            BY <4>1
          <5> QED BY <5>1, AtMostOne
        <4> QED BY <3>3, <4>1
      <3> QED BY <3>2, <3>4 DEF On
    <2>3. MessagesReachSelectedAgent
      BY <2>1 DEF MessagesReachSelectedAgent
    <2>4. AnswersReachTheSender
      BY <2>2 DEF AnswersReachTheSender
    <2> QED BY <2>3, <2>4 DEF ChatIsHeard
  <1> QED BY <1>1, ChatInvariant, PTL

-----------------------------------------------------------------------------
(* The text of an answer and its chunks.                                   *)

Characters == {"x", " ", "nl"}

\* flatten[i] is the first i sequences of seqs, one after the other.
Flattened(flatten, seqs, T) ==
    /\ flatten \in [1 .. Len(seqs) -> Seq(T)]
    /\ flatten[1] = seqs[1]
    /\ \A i \in 2 .. Len(seqs) : flatten[i] = flatten[i - 1] \o seqs[i]
    /\ TextOps!FlattenSeq(seqs) = flatten[Len(seqs)]

LEMMA FlattenExists ==
    ASSUME NEW T, NEW seqs \in Seq(Seq(T)), seqs # << >>
    PROVE  \E flatten : Flattened(flatten, seqs, T)
  <1> DEFINE N == Len(seqs)
             A == Seq(T)
             base == << >>
             step == [p \in (1 .. N) \X A |-> p[2] \o seqs[p[1]]]
             Def(f) == f = [i \in 1 .. N |-> IF i = 1 THEN seqs[i] ELSE f[i - 1] \o seqs[i]]
  <1>1. N \in Nat \ {0} /\ base \in A /\ \A i \in 1 .. N : seqs[i] \in A
    OBVIOUS
  <1>2. step \in [(1 .. N) \X A -> A]
    <2>1. ASSUME NEW p \in (1 .. N) \X A PROVE p[2] \o seqs[p[1]] \in A
      <3>1. PICK a \in Seq(T), b \in Seq(T) : a = p[2] /\ b = seqs[p[1]]
        OBVIOUS
      <3> QED BY <3>1
    <2> QED BY <2>1
  <1>3. PICK f : Recursion(f, N, A, base, step)
    <2> HIDE DEF step, N, A, base
    <2> QED BY <1>1, <1>2, RecursionExists
  <1>4. /\ f \in [0 .. N -> A] /\ f[0] = base
        /\ \A i \in 1 .. N : f[i] = step[<<i, f[i - 1]>>]
    BY <1>3 DEF Recursion
  <1>5. ASSUME NEW i \in 1 .. N PROVE f[i] = f[i - 1] \o seqs[i]
    <2>1. i - 1 \in 0 .. N
      BY <1>1
    <2>2. <<i, f[i - 1]>> \in (1 .. N) \X A
      BY <1>4, <2>1
    <2> QED BY <1>4, <2>2
  <1>6. f[1] = seqs[1]
    <2>1. PICK a \in Seq(T) : a = seqs[1]
      BY <1>1
    <2>2. 1 \in 1 .. N /\ 1 - 1 = 0
      BY <1>1
    <2>3. f[1] = f[0] \o seqs[1]
      <3> HIDE DEF step, N, A
      <3> QED BY <1>5, <2>2
    <2>4. f[1] = << >> \o a
      BY <1>4, <2>1, <2>3
    <2> QED BY <2>1, <2>4
  <1> DEFINE g == [i \in 1 .. N |-> f[i]]
  <1> HIDE DEF step, N, A
  <1>7. Def(g)
    <2>1. ASSUME NEW i \in 1 .. N
          PROVE  f[i] = IF i = 1 THEN seqs[i] ELSE g[i - 1] \o seqs[i]
      <3>1. CASE i = 1
        BY <1>6, <3>1
      <3>2. CASE i # 1
        <4>1. i - 1 \in 1 .. N
          BY <1>1, <3>2
        <4>2. g[i - 1] = f[i - 1]
          BY <4>1
        <4> QED BY <1>5, <3>2, <4>2
      <3> QED BY <3>1, <3>2
    <2> QED BY <2>1
  <1>8. Def(CHOOSE h : Def(h))
    <2> HIDE DEF Def
    <2> QED BY <1>7
  <1>9. PICK h : Def(h) /\ TextOps!FlattenSeq(seqs) = h[N]
    <2>1. TextOps!FlattenSeq(seqs) = (CHOOSE h : Def(h))[N]
      BY <1>1 DEF TextOps!FlattenSeq, N
    <2> HIDE DEF Def
    <2> QED BY <1>8, <2>1
  <1>10. /\ DOMAIN h = 1 .. N /\ h[1] = seqs[1]
         /\ \A i \in 2 .. N : h[i] = h[i - 1] \o seqs[i]
    <2>1. 1 \in 1 .. N /\ \A i \in 2 .. N : i \in 1 .. N /\ i # 1
      BY <1>1
    <2>2. DOMAIN h = 1 .. N
      BY <1>9
    <2>3. \A i \in 1 .. N : h[i] = IF i = 1 THEN seqs[i] ELSE h[i - 1] \o seqs[i]
      BY <1>9
    <2> QED BY <2>1, <2>2, <2>3
  <1> DEFINE P == {n \in Nat : n + 1 <= N => h[n + 1] \in Seq(T)}
  <1>11. 0 \in P
    BY <1>1, <1>10 DEF A
  <1>12. ASSUME NEW n \in Nat, n \in P PROVE n + 1 \in P
    <2> SUFFICES ASSUME n + 1 + 1 <= N PROVE h[n + 1 + 1] \in Seq(T)
      OBVIOUS
    <2>1. n + 1 + 1 \in 2 .. N /\ n + 1 + 1 \in 1 .. N /\ (n + 1 + 1) - 1 = n + 1
      BY <1>1
    <2>2. PICK a \in Seq(T), b \in Seq(T) : a = h[n + 1] /\ b = seqs[n + 1 + 1]
      <3>1. h[n + 1] \in Seq(T)
        BY <1>1, <1>12
      <3>2. seqs[n + 1 + 1] \in Seq(T)
        BY <1>1, <2>1 DEF A
      <3> QED BY <3>1, <3>2
    <2>3. h[n + 1 + 1] = a \o b
      BY <1>10, <2>1, <2>2
    <2> QED BY <2>3
  <1> HIDE DEF P
  <1>13. \A n \in Nat : n \in P
    BY <1>11, <1>12, SetInduction
  <1>14. \A i \in 1 .. N : h[i] \in Seq(T)
    <2>1. ASSUME NEW i \in 1 .. N PROVE h[i] \in Seq(T)
      <3>1. i - 1 \in Nat /\ (i - 1) + 1 = i /\ i - 1 \in P
        BY <1>1, <1>13
      <3>2. (i - 1) + 1 <= N => h[(i - 1) + 1] \in Seq(T)
        BY <3>1 DEF P
      <3> QED BY <1>1, <3>1, <3>2
    <2> QED BY <2>1
  <1>15. h \in [1 .. N -> Seq(T)]
    <2>1. h = [i \in 1 .. N |-> h[i]]
      BY <1>9
    <2> QED BY <1>14, <2>1
  <1>16. Flattened(h, seqs, T)
    BY <1>9, <1>10, <1>15 DEF Flattened, N
  <1> QED BY <1>16

\* The chunks one after the other are characters.
LEMMA FlatTyped ==
    ASSUME NEW T, NEW seqs \in Seq(Seq(T))
    PROVE  TextOps!FlattenSeq(seqs) \in Seq(T) /\ TextOps!FlattenSeq(<< >>) = << >>
  <1>1. TextOps!FlattenSeq(<< >>) = << >>
    BY DEF TextOps!FlattenSeq
  <1>2. CASE seqs = << >>
    <2>1. << >> \in Seq(T)
      OBVIOUS
    <2>2. TextOps!FlattenSeq(seqs) \in Seq(T)
      BY <1>1, <1>2, <2>1, Zenon
    <2> QED BY <1>1, <2>2
  <1>3. CASE seqs # << >>
    <2>1. PICK f : Flattened(f, seqs, T)
      BY <1>3, FlattenExists
    <2>2. Len(seqs) \in 1 .. Len(seqs)
      BY <1>3
    <2> QED BY <1>1, <2>1, <2>2 DEF Flattened
  <1> QED BY <1>2, <1>3

\* One more chunk comes after the others.
LEMMA FlatAppend ==
    ASSUME NEW T, NEW seqs \in Seq(Seq(T)), NEW c \in Seq(T)
    PROVE  TextOps!FlattenSeq(Append(seqs, c)) = TextOps!FlattenSeq(seqs) \o c
  <1>1. PICK more : more = Append(seqs, c)
    OBVIOUS
  <1> DEFINE N == Len(seqs)
  <1>2. /\ N \in Nat /\ more \in Seq(Seq(T)) /\ more # << >> /\ Len(more) = N + 1
        /\ more[N + 1] = c /\ \A i \in 1 .. N : more[i] = seqs[i]
    BY <1>1
  <1>3. PICK g : Flattened(g, more, T)
    BY <1>2, FlattenExists
  <1>4. /\ g \in [1 .. N + 1 -> Seq(T)] /\ g[1] = more[1]
        /\ \A i \in 2 .. N + 1 : g[i] = g[i - 1] \o more[i]
        /\ TextOps!FlattenSeq(more) = g[N + 1]
    BY <1>2, <1>3 DEF Flattened
  <1>5. CASE seqs = << >>
    <2>1. TextOps!FlattenSeq(seqs) = << >> /\ N = 0
      BY <1>5, FlatTyped
    <2>2. TextOps!FlattenSeq(more) = c
      BY <1>2, <1>4, <2>1
    <2>3. << >> \o c = c
      OBVIOUS
    <2> QED BY <1>1, <2>1, <2>2, <2>3
  <1>6. CASE seqs # << >>
    <2>1. PICK f : Flattened(f, seqs, T)
      BY <1>6, FlattenExists
    <2>2. /\ f \in [1 .. N -> Seq(T)] /\ f[1] = seqs[1]
          /\ \A i \in 2 .. N : f[i] = f[i - 1] \o seqs[i]
          /\ TextOps!FlattenSeq(seqs) = f[N]
      BY <2>1 DEF Flattened
    <2>3. N >= 1
      BY <1>6
    <2> DEFINE P == {n \in Nat : n + 1 <= N => g[n + 1] = f[n + 1]}
    <2>4. 0 \in P
      BY <1>2, <1>4, <2>2, <2>3
    <2>5. ASSUME NEW n \in Nat, n \in P PROVE n + 1 \in P
      <3> SUFFICES ASSUME n + 1 + 1 <= N PROVE g[n + 1 + 1] = f[n + 1 + 1]
        OBVIOUS
      <3>1. /\ n + 1 + 1 \in 2 .. N /\ n + 1 + 1 \in 2 .. N + 1 /\ n + 1 + 1 \in 1 .. N
            /\ (n + 1 + 1) - 1 = n + 1
        BY <1>2
      <3>2. g[n + 1] = f[n + 1]
        BY <1>2, <2>5
      <3>3. more[n + 1 + 1] = seqs[n + 1 + 1]
        BY <1>2, <3>1
      <3>4. g[n + 1 + 1] = g[n + 1] \o more[n + 1 + 1]
        BY <1>4, <3>1
      <3>5. f[n + 1 + 1] = f[n + 1] \o seqs[n + 1 + 1]
        BY <2>2, <3>1
      <3> QED BY <3>2, <3>3, <3>4, <3>5
    <2> HIDE DEF P
    <2>6. \A n \in Nat : n \in P
      BY <2>4, <2>5, SetInduction
    <2>7. g[N] = f[N]
      <3>1. N - 1 \in Nat /\ (N - 1) + 1 = N
        BY <1>2, <2>3
      <3>2. N - 1 \in P
        BY <2>6, <3>1
      <3> QED BY <1>2, <3>1, <3>2 DEF P
    <2>8. g[N + 1] = g[N] \o c
      <3>1. N + 1 \in 2 .. N + 1 /\ (N + 1) - 1 = N
        BY <1>2, <2>3
      <3> QED BY <1>2, <1>4, <3>1
    <2>9. TextOps!FlattenSeq(more) = TextOps!FlattenSeq(seqs) \o c
      BY <1>4, <2>2, <2>7, <2>8
    <2> QED BY <1>1, <2>9
  <1> QED BY <1>5, <1>6

\* The part of an answer that is not blank is not lost with its leading blanks.
LEMMA TrimKeepsSolid ==
    ASSUME NEW text \in Seq(Characters)
    PROVE  TrimStart(text) \in Seq(Characters) /\ Solid(TrimStart(text)) = Solid(text)
  <1>1. CASE Blank(text)
    <2>1. TrimStart(text) = << >>
      BY <1>1 DEF TrimStart
    <2>2. Solid(<< >>) = << >>
      BY KeepTyped DEF Solid
    <2>3. << >> \in Seq(Characters) /\ Solid(text) = << >>
      BY <1>1 DEF Blank
    <2> QED BY <2>1, <2>2, <2>3
  <1>2. CASE ~Blank(text)
    <2> DEFINE S == {i \in DOMAIN text : text[i] = "x"}
    <2>1. S \subseteq Nat /\ \A i \in S : i \in 1 .. Len(text)
      OBVIOUS
    <2>2. S # {}
      <3> SUFFICES ASSUME S = {} PROVE FALSE
        OBVIOUS
      <3>1. \A i \in 1 .. Len(text) : text[i] \notin {"x"}
        OBVIOUS
      <3>2. Solid(text) = << >>
        BY <3>1, KeepNone DEF Solid
      <3> QED BY <1>2, <3>2 DEF Blank
    <2>3. PICK m \in S : \A n \in S : m <= n
      <3> HIDE DEF S
      <3> QED BY <2>1, <2>2, LeastMember
    <2>4. TextOps!Min(S) = m
      <3>1. TextOps!Min(S) = CHOOSE x \in S : \A y \in S : x <= y
        BY DEF TextOps!Min
      <3>2. \A x \in S : (\A y \in S : x <= y) => x = m
        <4> HIDE DEF S
        <4> QED BY <2>1, <2>3
      <3>3. \E x \in S : \A y \in S : x <= y
        BY <2>3
      <3> HIDE DEF S
      <3> QED BY <3>1, <3>2, <3>3
    <2>5. TrimStart(text) = SubSeq(text, m, Len(text))
      BY <1>2, <2>4 DEF TrimStart
    <2>6. m \in 1 .. Len(text)
      BY <2>1, <2>3
    <2> DEFINE before == SubSeq(text, 1, m - 1)
               after == SubSeq(text, m, Len(text))
    <2>7. before \in Seq(Characters) /\ after \in Seq(Characters) /\ text = before \o after
      <3>1. before \in Seq(Characters) /\ after \in Seq(Characters)
        BY <2>6
      <3>2. m - 1 \in 0 .. Len(text) /\ (m - 1) + 1 = m
        BY <2>6
      <3>3. text = SubSeq(text, 1, m - 1) \o SubSeq(text, (m - 1) + 1, Len(text))
        BY <3>2, SplitAt
      <3> QED BY <3>1, <3>2, <3>3, Zenon
    <2>8. Solid(before) = << >>
      <3>1. Len(before) = m - 1 /\ \A i \in 1 .. m - 1 : before[i] = text[i]
        BY <2>6
      <3>2. ASSUME NEW i \in 1 .. Len(before) PROVE before[i] \notin {"x"}
        <4>1. i \in DOMAIN text /\ i < m /\ before[i] = text[i]
          BY <2>6, <3>1
        <4>2. i \notin S
          <5> HIDE DEF S
          <5> QED BY <2>1, <2>3, <4>1
        <4> QED BY <4>1, <4>2
      <3> HIDE DEF before
      <3> QED BY <2>7, <3>2, KeepNone DEF Solid
    <2> HIDE DEF before, after
    <2>9. Keep(before \o after, {"x"}) = Keep(before, {"x"}) \o Keep(after, {"x"})
      BY <2>7, KeepConcat
    <2>10. PICK kept : kept = Keep(after, {"x"}) /\ kept \in Seq(Characters)
      BY <2>7, KeepTyped
    <2>11. Solid(text) = << >> \o kept
      BY <2>7, <2>8, <2>9, <2>10 DEF Solid
    <2>12. << >> \o kept = kept
      BY <2>10
    <2>13. Solid(after) = Solid(text)
      BY <2>10, <2>11, <2>12 DEF Solid
    <2>14. TrimStart(text) = after
      BY <2>5 DEF after
    <2> QED BY <2>7, <2>13, <2>14
  <1> QED BY <1>1, <1>2

LEMMA LimitPositive == DiscordLength \in Nat \ {0}
  BY ChannelsAssumption

LEMMA TextsTyped == Texts \subseteq Seq(Characters)
  BY ChannelsAssumption, Zenon DEF Characters

\* The place of the split leaves a chunk within the limit.
LEMMA SplitWithin ==
    ASSUME NEW text
    PROVE  SplitIndex(text) \in 1 .. DiscordLength
  <1>1. ASSUME NEW blank, Breaks(text, blank) # {}
        PROVE  TextOps!Max(Breaks(text, blank)) \in 1 .. DiscordLength
    <2> DEFINE S == Breaks(text, blank)
    <2>1. S \subseteq 1 .. DiscordLength
      BY DEF Breaks
    <2>2. DiscordLength \in Nat /\ S \subseteq 0 .. DiscordLength
      BY <2>1, LimitPositive
    <2>3. S # {}
      BY <1>1
    <2> HIDE DEF S
    <2>4. PICK m \in S : \A n \in S : n <= m
      BY <2>2, <2>3, GreatestMember
    <2>5. \A n \in S : m >= n
      BY <2>2, <2>4
    <2>6. TextOps!Max(S) \in S
      BY <2>5 DEF TextOps!Max
    <2>7. TextOps!Max(S) \in 1 .. DiscordLength
      BY <2>1, <2>6
    <2> QED BY <2>7 DEF S
  <1>2. DiscordLength \in 1 .. DiscordLength
    BY LimitPositive
  <1> QED BY <1>1, <1>2 DEF SplitIndex

\* A chunk that is sent is neither empty nor above the limit, and with what is left
\* it holds the text but for blanks (splitMessage).
LEMMA ChunkAndRest ==
    ASSUME NEW text \in Seq(Characters), ~Blank(FirstChunk(text))
    PROVE  /\ FirstChunk(text) \in Seq(Characters)
           /\ Len(FirstChunk(text)) \in 1 .. DiscordLength
           /\ AfterChunk(text) \in Seq(Characters)
           /\ Solid(text) = Solid(FirstChunk(text)) \o Solid(AfterChunk(text))
  <1>1. CASE Len(text) <= DiscordLength
    <2>1. FirstChunk(text) = text /\ AfterChunk(text) = << >>
      BY <1>1 DEF FirstChunk, AfterChunk
    <2>2. text # << >>
      <3>1. Solid(<< >>) = << >>
        BY KeepTyped DEF Solid
      <3> QED BY <2>1, <3>1 DEF Blank
    <2>3. Len(text) \in 1 .. DiscordLength
      BY <1>1, <2>2, LimitPositive
    <2>4. PICK kept : kept = Solid(text) /\ kept \in Seq(Characters)
      BY KeepTyped DEF Solid
    <2>5. Solid(<< >>) = << >> /\ kept \o << >> = kept /\ << >> \in Seq(Characters)
      BY <2>4, KeepTyped DEF Solid
    <2>6. Solid(text) = Solid(text) \o Solid(<< >>)
      BY <2>4, <2>5, Zenon
    <2> QED BY <2>1, <2>3, <2>5, <2>6
  <1>2. CASE ~(Len(text) <= DiscordLength)
    <2> DEFINE k == SplitIndex(text)
               chunk == SubSeq(text, 1, k)
               rest == SubSeq(text, k + 1, Len(text))
    <2>1. k \in 1 .. DiscordLength
      BY SplitWithin
    <2>2. k \in 0 .. Len(text) /\ k \in Nat /\ k >= 1
      <3> HIDE DEF k
      <3> QED BY <1>2, <2>1, LimitPositive
    <2>3. FirstChunk(text) = chunk /\ AfterChunk(text) = TrimStart(rest)
      BY <1>2 DEF FirstChunk, AfterChunk
    <2>4. chunk \in Seq(Characters) /\ Len(chunk) = k /\ rest \in Seq(Characters)
      <3> HIDE DEF k
      <3> QED BY <2>2
    <2>5. text = chunk \o rest
      <3> HIDE DEF k
      <3> QED BY <2>2, SplitAt
    <2> HIDE DEF k, chunk, rest
    <2>6. TrimStart(rest) \in Seq(Characters) /\ Solid(TrimStart(rest)) = Solid(rest)
      BY <2>4, TrimKeepsSolid
    <2>7. Keep(chunk \o rest, {"x"}) = Keep(chunk, {"x"}) \o Keep(rest, {"x"})
      BY <2>4, KeepConcat
    <2>8. Solid(text) = Solid(chunk) \o Solid(rest)
      BY <2>5, <2>7, Zenon DEF Solid
    <2>9. Solid(text) = Solid(chunk) \o Solid(TrimStart(rest))
      BY <2>6, <2>8, Zenon
    <2>10. Len(chunk) \in 1 .. DiscordLength
      BY <2>1, <2>4
    <2> QED BY <2>3, <2>4, <2>6, <2>9, <2>10
  <1> QED BY <1>1, <1>2
-----------------------------------------------------------------------------
(* What is on its way, and the text it came from.                          *)

Outgoing ==
    [line : Lines, fate : {"queued", "delivered", "sending", "failed"},
     text : Seq(Characters), left : Seq(Characters), said : Seq(Seq(Characters)),
     passes : SUBSET Nat]

Whole(m) ==
    /\ Solid(TextOps!FlattenSeq(m.said) \o m.left) = Solid(m.text)
    /\ \A i \in DOMAIN m.said : Len(m.said[i]) \in 1 .. DiscordLength

TextInv ==
    /\ out \in Seq(Outgoing) /\ \A n \in DOMAIN out : Whole(out[n])
    /\ queue \in [Lines -> Seq(Nat)]

\* What a message may overtake is a set of numbers.
LEMMA PassesTyped ==
    ASSUME TextInv, NEW c \in Lines, NEW fate
    PROVE  Passes(c, fate) \in SUBSET Nat
  <1>1. DOMAIN out \subseteq Nat /\ queue[c] \in Seq(Nat)
    BY DEF TextInv
  <1>2. \A i \in DOMAIN queue[c] : queue[c][i] \in Nat
    BY <1>1
  <1> QED BY <1>1, <1>2 DEF Passes

\* A message starts with nothing said of it.
LEMMA NoteStep ==
    ASSUME TextInv, NEW c \in Lines, NEW text \in Seq(Characters),
           NEW fate \in {"queued", "delivered", "sending", "failed"},
           out' = Note(c, fate, text), queue' \in [Lines -> Seq(Nat)]
    PROVE  TextInv'
  <1>0. PICK ahead \in SUBSET Nat : ahead = Passes(c, fate)
    BY PassesTyped
  <1> DEFINE m == [line |-> c, fate |-> fate, text |-> text, left |-> text, said |-> << >>,
                   passes |-> ahead]
  <1>1. out \in Seq(Outgoing) /\ \A n \in DOMAIN out : Whole(out[n])
    BY DEF TextInv
  <1>2. m \in Outgoing
    BY DEF Outgoing
  <1>3. Whole(m)
    <2>1. m.said = << >> /\ m.left = text /\ m.text = text
      OBVIOUS
    <2>2. TextOps!FlattenSeq(<< >>) = << >> /\ << >> \o text = text
      <3>1. << >> \in Seq(Seq(Characters))
        OBVIOUS
      <3>2. TextOps!FlattenSeq(<< >>) = << >>
        BY <3>1, FlatTyped
      <3>3. << >> \o text = text
        OBVIOUS
      <3> QED BY <3>2, <3>3
    <2>3. TextOps!FlattenSeq(m.said) \o m.left = text
      BY <2>1, <2>2, Zenon
    <2> HIDE DEF m
    <2>4. Solid(TextOps!FlattenSeq(m.said) \o m.left) = Solid(m.text)
      BY <2>1, <2>3, Zenon
    <2>5. DOMAIN m.said = {}
      BY <2>1
    <2> QED BY <2>4, <2>5 DEF Whole
  <1>4. out' = Append(out, m)
    BY <1>0 DEF Note
  <1> HIDE DEF m
  <1>5. out' \in Seq(Outgoing) /\ DOMAIN out' = 1 .. Len(out) + 1 /\ DOMAIN out = 1 .. Len(out)
    BY <1>1, <1>2, <1>4
  <1>6. ASSUME NEW n \in DOMAIN out' PROVE Whole(out'[n])
    <2>1. CASE n = Len(out) + 1
      <3>1. out'[n] = m
        BY <1>1, <1>2, <1>4, <2>1
      <3> QED BY <1>3, <3>1, Zenon
    <2>2. CASE n # Len(out) + 1
      <3>1. n \in DOMAIN out /\ out'[n] = out[n]
        BY <1>1, <1>2, <1>4, <1>5, <2>2
      <3> QED BY <1>1, <3>1, Zenon
    <2> QED BY <2>1, <2>2
  <1> QED BY <1>5, <1>6 DEF TextInv, Whole, Outgoing, Characters

\* Of two texts one after the other, what is not blank is that of both.
LEMMA SolidJoin ==
    ASSUME NEW s \in Seq(Characters), NEW t \in Seq(Characters)
    PROVE  Solid(s \o t) = Solid(s) \o Solid(t)
  BY KeepConcat DEF Solid

\* A chunk that is sent leaves the rest of its text, and a failure leaves all.
LEMMA SayStep ==
    ASSUME TextInv, NEW n \in DOMAIN out, SendChunk(n) \/ SendBreaks(n)
    PROVE  TextInv'
  <1>1. out \in Seq(Outgoing) /\ \A k \in DOMAIN out : Whole(out[k])
    BY DEF TextInv
  <1>8. queue' = queue /\ queue \in [Lines -> Seq(Nat)]
    BY DEF TextInv, SendChunk, SendBreaks
  <1>2. PICK m \in Outgoing : m = out[n] /\ Whole(m)
    BY <1>1
  <1>3. /\ m.line \in Lines /\ m.text \in Seq(Characters) /\ m.left \in Seq(Characters)
        /\ m.said \in Seq(Seq(Characters))
    BY <1>2 DEF Outgoing
  <1>4. ASSUME NEW r \in Outgoing, Whole(r), out' = [out EXCEPT ![n] = r]
        PROVE  TextInv'
    <2>1. out' \in Seq(Outgoing) /\ DOMAIN out' = DOMAIN out
      BY <1>1, <1>4
    <2>2. ASSUME NEW k \in DOMAIN out PROVE Whole(out'[k])
      <3>1. CASE k = n
        <4>1. out'[k] = r
          BY <1>1, <1>4, <3>1
        <4> QED BY <1>4, <4>1, Zenon
      <3>2. CASE k # n
        <4>1. out'[k] = out[k]
          BY <1>1, <1>4, <3>2
        <4> QED BY <1>1, <4>1, Zenon
      <3> QED BY <3>1, <3>2
    <2> QED BY <1>8, <2>1, <2>2 DEF TextInv, Whole, Outgoing, Characters
  <1>5. CASE out' = [out EXCEPT ![n].fate = "failed"]
    <2> DEFINE r == [m EXCEPT !.fate = "failed"]
    <2>1. r \in Outgoing /\ r.said = m.said /\ r.left = m.left /\ r.text = m.text
      BY <1>2 DEF Outgoing
    <2>2. out' = [out EXCEPT ![n] = r]
      BY <1>2, <1>5
    <2> HIDE DEF r
    <2>3. Whole(r)
      BY <1>2, <2>1 DEF Whole
    <2> QED BY <1>4, <2>1, <2>2, <2>3
  <1>6. CASE SendChunk(n) /\ ~Blank(FirstChunk(m.left))
    <2> DEFINE text == m.left
               chunk == FirstChunk(text)
               rest == AfterChunk(text)
               fate == IF rest = << >> THEN "delivered" ELSE "sending"
               r == [m EXCEPT !.said = Append(m.said, chunk), !.left = rest, !.fate = fate]
    <2>1. out' = [out EXCEPT ![n].said = Append(@, chunk), ![n].left = rest, ![n].fate = fate]
      BY <1>2, <1>6 DEF SendChunk
    <2>2. out' = [out EXCEPT ![n] = r]
      <3> HIDE DEF chunk, rest, fate
      <3> QED BY <1>1, <1>2, <2>1
    <2>3. /\ chunk \in Seq(Characters) /\ Len(chunk) \in 1 .. DiscordLength
          /\ rest \in Seq(Characters) /\ Solid(text) = Solid(chunk) \o Solid(rest)
      BY <1>3, <1>6, ChunkAndRest
    <2>4. fate \in {"queued", "delivered", "sending", "failed"}
      OBVIOUS
    <2> HIDE DEF chunk, rest, fate
    <2>5. /\ r \in Outgoing /\ r.said = Append(m.said, chunk) /\ r.left = rest
          /\ r.text = m.text
      <3>1. Append(m.said, chunk) \in Seq(Seq(Characters))
        BY <1>3, <2>3, AppendProperties
      <3>2. PICK said \in Seq(Seq(Characters)) : said = Append(m.said, chunk)
        BY <3>1
      <3>3. r = [m EXCEPT !.said = said, !.left = rest, !.fate = fate]
        BY <3>2
      <3> HIDE DEF r
      <3>4. r \in Outgoing /\ r.said = said /\ r.left = rest /\ r.text = m.text
        BY <1>2, <2>3, <2>4, <3>2, <3>3 DEF Outgoing
      <3> QED BY <3>2, <3>4, Zenon
    <2>6. \A i \in DOMAIN r.said : Len(r.said[i]) \in 1 .. DiscordLength
      <3>1. \A i \in DOMAIN m.said : Len(m.said[i]) \in 1 .. DiscordLength
        BY <1>2 DEF Whole
      <3>2. ASSUME NEW i \in DOMAIN r.said PROVE Len(r.said[i]) \in 1 .. DiscordLength
        <4>1. CASE i = Len(m.said) + 1
          <5>1. r.said[i] = chunk
            BY <1>3, <2>3, <2>5, <4>1
          <5> QED BY <2>3, <5>1, Zenon
        <4>2. CASE i # Len(m.said) + 1
          <5>1. i \in DOMAIN m.said /\ r.said[i] = m.said[i]
            BY <1>3, <2>3, <2>5, <4>2
          <5> QED BY <3>1, <5>1, Zenon
        <4> QED BY <4>1, <4>2
      <3> QED BY <3>2
    <2>7. Solid(TextOps!FlattenSeq(r.said) \o r.left) = Solid(r.text)
      <3>1. PICK said \in Seq(Characters) : said = TextOps!FlattenSeq(m.said)
        BY <1>3, FlatTyped
      <3>2. TextOps!FlattenSeq(r.said) = said \o chunk
        BY <1>3, <2>3, <2>5, <3>1, FlatAppend, Zenon
      <3>3. PICK a, b, c : /\ a = Solid(said) /\ b = Solid(chunk) /\ c = Solid(rest)
                           /\ a \in Seq(Characters) /\ b \in Seq(Characters)
                           /\ c \in Seq(Characters)
        BY <2>3, <3>1, KeepTyped DEF Solid
      <3>4. said \o chunk \in Seq(Characters)
        BY <2>3, <3>1
      <3>5. Solid(said \o chunk) = a \o b
        BY <2>3, <3>1, <3>3, SolidJoin, Zenon
      <3>6. Solid((said \o chunk) \o rest) = (a \o b) \o c
        <4>1. Solid((said \o chunk) \o rest) = Solid(said \o chunk) \o Solid(rest)
          BY <2>3, <3>4, SolidJoin, Zenon
        <4> QED BY <3>3, <3>5, <4>1, Zenon
      <3>7. Solid(said \o text) = a \o (b \o c)
        <4>1. Solid(said \o text) = Solid(said) \o Solid(text)
          BY <1>3, <3>1, SolidJoin, Zenon
        <4> QED BY <2>3, <3>3, <4>1, Zenon
      <3>8. (a \o b) \o c = a \o (b \o c)
        BY <3>3, ConcatAssociative
      <3>9. Solid(said \o text) = Solid(m.text)
        BY <1>2, <3>1, Zenon DEF Whole
      <3>10. Solid((said \o chunk) \o rest) = Solid(m.text)
        BY <3>6, <3>7, <3>8, <3>9, Zenon
      <3> QED BY <2>5, <3>2, <3>10, Zenon
    <2>8. Whole(r)
      BY <2>6, <2>7 DEF Whole
    <2> HIDE DEF r
    <2> QED BY <1>4, <2>2, <2>5, <2>8
  <1>7. (SendChunk(n) /\ Blank(FirstChunk(m.left))) \/ SendBreaks(n)
            => out' = [out EXCEPT ![n].fate = "failed"]
    BY <1>2 DEF SendChunk, SendBreaks
  <1> QED BY <1>5, <1>6, <1>7

\* The other steps write no text, or that of a new message.
LEMMA TextStep == TextInv /\ [ChannelsNext]_channelVars => TextInv'
  <1> SUFFICES ASSUME TextInv, [ChannelsNext]_channelVars PROVE TextInv'
    OBVIOUS
  <1> DEFINE fates == {"queued", "delivered", "sending", "failed"}
  <1>0. /\ queue \in [Lines -> Seq(Nat)] /\ << >> \in Seq(Nat) /\ Handed \in Nat
        /\ \A c \in Lines : Append(queue[c], Handed) \in Seq(Nat)
    <2>1. queue \in [Lines -> Seq(Nat)] /\ Len(out) \in Nat
      BY DEF TextInv
    <2>2. Handed \in Nat
      BY <2>1 DEF Handed
    <2> HIDE DEF Handed
    <2> QED BY <2>1, <2>2
  <1>1. ASSUME UNCHANGED out, queue' \in [Lines -> Seq(Nat)] PROVE TextInv'
    BY <1>1 DEF TextInv, Whole, Outgoing, Characters
  <1>2. << >> \in Seq(Characters) /\ OneChunk \in Seq(Characters)
    BY DEF OneChunk, Characters
  <1>3. CASE EscalateToAll
    <2>1. PICK c \in Lines : out' = Note(c, "queued", << >>)
      BY <1>3 DEF EscalateToAll
    <2>2. queue' \in [Lines -> Seq(Nat)]
      BY <1>0, <1>3 DEF EscalateToAll
    <2> QED BY <1>2, <2>1, <2>2, NoteStep
  <1>4. ASSUME NEW c \in Lines, SendOutbound(c) PROVE TextInv'
    <2>1. \/ \E fate \in fates : out' = Note(c, fate, << >>)
          \/ \E text \in Texts \cup {OneChunk} : out' = Note(c, "sending", text)
      BY <1>4 DEF SendOutbound, Queues, Fails, StartsToSend
    <2>2. \A text \in Texts \cup {OneChunk} : text \in Seq(Characters)
      BY <1>2, TextsTyped
    <2>3. queue' = queue \/ queue' = [queue EXCEPT ![c] = Append(queue[c], Handed)]
      BY <1>4 DEF SendOutbound, Queues, Fails, StartsToSend
    <2>4. queue' \in [Lines -> Seq(Nat)]
      BY <1>0, <2>3
    <2> QED BY <1>2, <2>1, <2>2, <2>4, NoteStep
  <1>5. ASSUME NEW c \in Lines, EscalateToOne(c) \/ WebhookRuns(c) PROVE TextInv'
    <2>1. \/ out' = Note(c, "failed", << >>) \/ out' = Note(c, "sending", OneChunk)
      BY <1>5 DEF EscalateToOne, WebhookRuns
    <2>2. queue' \in [Lines -> Seq(Nat)]
      BY <1>0, <1>5 DEF EscalateToOne, WebhookRuns
    <2> QED BY <1>2, <2>1, <2>2, NoteStep
  <1>6. ASSUME NEW n \in DOMAIN out, SendChunk(n) \/ SendBreaks(n) PROVE TextInv'
    BY <1>6, SayStep
  <1>7. ASSUME NEW c \in Lines,
               \/ Appears(c) \/ Disconnects(c) \/ GoesIdle(c) \/ Speaks(c) \/ PollMessages(c)
        PROVE  TextInv'
    <2>1. UNCHANGED out /\ queue' \in [Lines -> Seq(Nat)]
      BY <1>0, <1>7 DEF Appears, Disconnects, GoesIdle, Speaks, PollMessages
    <2> QED BY <1>1, <2>1
  <1>8. CASE StartChannel \/ StopChannel \/ CleanupStale
    <2>1. UNCHANGED out /\ queue' \in [Lines -> Seq(Nat)]
      BY <1>0, <1>8 DEF StartChannel, StopChannel, CleanupStale
    <2> QED BY <1>1, <2>1
  <1>9. CASE UNCHANGED channelVars
    BY <1>0, <1>1, <1>9 DEF channelVars
  <1> QED BY <1>3, <1>4, <1>5, <1>6, <1>7, <1>8, <1>9 DEF ChannelsNext

\* No text has been written at the start.
LEMMA TextInitInv == ChannelsInit => TextInv
  <1> SUFFICES ASSUME ChannelsInit PROVE TextInv
    OBVIOUS
  <1>1. out = << >> /\ queue = [c \in Lines |-> << >>]
    BY DEF ChannelsInit
  <1>2. out \in Seq(Outgoing) /\ DOMAIN out = {} /\ queue \in [Lines -> Seq(Nat)]
    BY <1>1
  <1> QED BY <1>2 DEF TextInv

-----------------------------------------------------------------------------
(* The lines.  What a line received and what waits for it are sequences of *)
(* the numbers of messages handed over.  `Before' holds the pairs of which *)
(* the first may arrive before the second; it only grows.                  *)

Given == 1 .. Len(out)
Precedes(x, y) == x < y \/ y \in out[x].passes \/ (x = y /\ channel = "discord")
Before == {p \in Given \X Given : Precedes(p[1], p[2])}
Follow(R, s, t) == \A i \in 1 .. Len(s), j \in 1 .. Len(t) : <<s[i], t[j]>> \in R
Ordered(R, s) == \A i, j \in 1 .. Len(s) : i < j => <<s[i], s[j]>> \in R
Sending(c) == {n \in Given : out[n].line = c /\ out[n].fate = "sending"}

\* A message on its way to a line: what the line has may precede it, and it and
\* whatever else is on its way or waits may come in either order.
Travels(c, n) ==
    /\ \A i \in 1 .. Len(got[c]) : <<got[c][i], n>> \in Before
    /\ \A i \in 1 .. Len(queue[c]) :
         <<queue[c][i], n>> \in Before /\ <<n, queue[c][i]>> \in Before
    /\ \A m \in Sending(c) \ {n} : <<n, m>> \in Before

LineTypes ==
    /\ channel \in AdapterNames /\ line \in [Lines -> {"new", "here", "gone"}]
    /\ queue \in [Lines -> Seq(Given)] /\ got \in [Lines -> Seq(Given)]

LineOK(c) ==
    /\ Ordered(Before, got[c]) /\ Ordered(Before, queue[c]) /\ Follow(Before, got[c], queue[c])
    /\ \A n \in Sending(c) : Travels(c, n)
    /\ channel = "web" /\ line[c] # "here" => queue[c] = << >>

SendsOnce ==
    \A n \in Given : out[n].fate = "sending" =>
        /\ channel # "web"
        /\ channel # "discord" => out[n].left = OneChunk

LinesInv == TextInv /\ LineTypes /\ SendsOnce /\ \A c \in Lines : LineOK(c)

LEMMA Joined ==
    ASSUME NEW S, NEW s \in Seq(S), NEW t \in Seq(S)
    PROVE  /\ s \o t \in Seq(S) /\ Len(s \o t) = Len(s) + Len(t)
           /\ Len(s) \in Nat /\ Len(t) \in Nat
           /\ \A i \in 1 .. Len(s) + Len(t) :
                (s \o t)[i] = IF i <= Len(s) THEN s[i] ELSE t[i - Len(s)]
  OBVIOUS

LEMMA OneMore ==
    ASSUME NEW S, NEW s \in Seq(S), NEW x \in S
    PROVE  /\ Append(s, x) \in Seq(S) /\ Len(Append(s, x)) = Len(s) + 1 /\ Len(s) \in Nat
           /\ \A i \in 1 .. Len(s) : Append(s, x)[i] = s[i] /\ s[i] \in S
           /\ Append(s, x)[Len(s) + 1] = x
  OBVIOUS

LEMMA OrderedJoin ==
    ASSUME NEW R, NEW S, NEW s \in Seq(S), NEW t \in Seq(S),
           Ordered(R, s), Ordered(R, t), Follow(R, s, t)
    PROVE  Ordered(R, s \o t)
  <1> SUFFICES ASSUME NEW i \in 1 .. Len(s \o t), NEW j \in 1 .. Len(s \o t), i < j
               PROVE  <<(s \o t)[i], (s \o t)[j]>> \in R
    BY DEF Ordered
  <1>1. /\ Len(s) \in Nat /\ Len(t) \in Nat /\ i \in 1 .. Len(s) + Len(t) /\ j \in 1 .. Len(s) + Len(t)
        /\ (s \o t)[i] = IF i <= Len(s) THEN s[i] ELSE t[i - Len(s)]
        /\ (s \o t)[j] = IF j <= Len(s) THEN s[j] ELSE t[j - Len(s)]
    BY Joined
  <1>2. CASE j <= Len(s)
    <2>1. i \in 1 .. Len(s) /\ j \in 1 .. Len(s)
      BY <1>1, <1>2
    <2> QED BY <1>1, <1>2, <2>1 DEF Ordered
  <1>3. CASE i <= Len(s) /\ j > Len(s)
    <2>1. i \in 1 .. Len(s) /\ j - Len(s) \in 1 .. Len(t)
      BY <1>1, <1>3
    <2> QED BY <1>1, <1>3, <2>1 DEF Follow
  <1>4. CASE i > Len(s)
    <2>1. i - Len(s) \in 1 .. Len(t) /\ j - Len(s) \in 1 .. Len(t) /\ i - Len(s) < j - Len(s)
      BY <1>1, <1>4
    <2>2. <<t[i - Len(s)], t[j - Len(s)]>> \in R
      BY <2>1 DEF Ordered
    <2>3. (s \o t)[i] = t[i - Len(s)] /\ (s \o t)[j] = t[j - Len(s)]
      BY <1>1, <1>4
    <2> QED BY <2>2, <2>3, Zenon
  <1> QED BY <1>1, <1>2, <1>3, <1>4

\* One more at the end of a sequence that it may follow.
LEMMA OrderedNext ==
    ASSUME NEW R, NEW S, NEW s \in Seq(S), NEW x \in S, Ordered(R, s),
           \A i \in 1 .. Len(s) : <<s[i], x>> \in R
    PROVE  Ordered(R, Append(s, x))
  <1> DEFINE t == Append(s, x)
  <1>1. /\ Len(t) = Len(s) + 1 /\ Len(s) \in Nat /\ \A i \in 1 .. Len(s) : t[i] = s[i]
        /\ t[Len(s) + 1] = x
    BY OneMore
  <1> HIDE DEF t
  <1>2. ASSUME NEW i \in 1 .. Len(t), NEW j \in 1 .. Len(t), i < j PROVE <<t[i], t[j]>> \in R
    <2>1. i \in 1 .. Len(s) /\ (j \in 1 .. Len(s) \/ j = Len(s) + 1)
      BY <1>1, <1>2
    <2>2. CASE j \in 1 .. Len(s)
      BY <1>1, <1>2, <2>1, <2>2 DEF Ordered
    <2>3. CASE j = Len(s) + 1
      BY <1>1, <2>1, <2>3
    <2> QED BY <2>1, <2>2, <2>3
  <1>3. Ordered(R, t)
    BY <1>2 DEF Ordered
  <1> QED BY <1>3 DEF t

\* One more at the end of one of two sequences of which one follows the other.
LEMMA FollowNext ==
    ASSUME NEW R, NEW S, NEW s \in Seq(S), NEW t \in Seq(S), NEW x \in S, Follow(R, s, t)
    PROVE  /\ (\A i \in 1 .. Len(s) : <<s[i], x>> \in R) => Follow(R, s, Append(t, x))
           /\ (\A j \in 1 .. Len(t) : <<x, t[j]>> \in R) => Follow(R, Append(s, x), t)
  <1> DEFINE u == Append(t, x)
             v == Append(s, x)
  <1>1. /\ Len(u) = Len(t) + 1 /\ Len(t) \in Nat /\ \A i \in 1 .. Len(t) : u[i] = t[i]
        /\ u[Len(t) + 1] = x
    BY OneMore
  <1>2. /\ Len(v) = Len(s) + 1 /\ Len(s) \in Nat /\ \A i \in 1 .. Len(s) : v[i] = s[i]
        /\ v[Len(s) + 1] = x
    BY OneMore
  <1> HIDE DEF u, v
  <1>3. ASSUME \A i \in 1 .. Len(s) : <<s[i], x>> \in R PROVE Follow(R, s, u)
    <2>1. ASSUME NEW i \in 1 .. Len(s), NEW j \in 1 .. Len(u) PROVE <<s[i], u[j]>> \in R
      <3>1. j \in 1 .. Len(t) \/ j = Len(t) + 1
        BY <1>1
      <3>2. CASE j \in 1 .. Len(t)
        BY <1>1, <3>2 DEF Follow
      <3>3. CASE j = Len(t) + 1
        BY <1>1, <1>3, <3>3
      <3> QED BY <3>1, <3>2, <3>3
    <2> QED BY <2>1 DEF Follow
  <1>4. ASSUME \A j \in 1 .. Len(t) : <<x, t[j]>> \in R PROVE Follow(R, v, t)
    <2>1. ASSUME NEW i \in 1 .. Len(v), NEW j \in 1 .. Len(t) PROVE <<v[i], t[j]>> \in R
      <3>1. i \in 1 .. Len(s) \/ i = Len(s) + 1
        BY <1>2
      <3>2. CASE i \in 1 .. Len(s)
        BY <1>2, <3>2 DEF Follow
      <3>3. CASE i = Len(s) + 1
        BY <1>2, <1>4, <3>3
      <3> QED BY <3>1, <3>2, <3>3
    <2> QED BY <2>1 DEF Follow
  <1> QED BY <1>3, <1>4 DEF u, v

LEMMA SeqWithin ==
    ASSUME NEW A, NEW B, A \subseteq B, NEW s \in Seq(A)
    PROVE  s \in Seq(B)
  <1>1. \A i \in 1 .. Len(s) : s[i] \in B
    OBVIOUS
  <1> QED BY <1>1

LEMMA LinesInitInv == ChannelsInit => LinesInv
  <1> SUFFICES ASSUME ChannelsInit PROVE LinesInv
    OBVIOUS
  <1>1. << >> \in Seq(Given) /\ Given = {} /\ TextInv
    BY TextInitInv DEF ChannelsInit, Given
  <1>2. LineTypes /\ SendsOnce
    BY <1>1 DEF ChannelsInit, LineTypes, SendsOnce
  <1>3. ASSUME NEW c \in Lines PROVE LineOK(c)
    <2>1. got[c] = << >> /\ queue[c] = << >> /\ Sending(c) = {}
      BY <1>1 DEF ChannelsInit, Sending
    <2> QED BY <2>1 DEF LineOK, Ordered, Follow
  <1> QED BY <1>1, <1>2, <1>3 DEF LinesInv

\* What may arrive before what is settled when a message is handed over.
LEMMA BeforeGrows ==
    ASSUME TextInv, TextInv', channel' = channel, Len(out) <= Len(out'),
           \A x \in Given : out'[x].passes = out[x].passes
    PROVE  Given \subseteq Given' /\ Before \subseteq Before'
  <1>1. Len(out) \in Nat /\ Len(out') \in Nat
    BY DEF TextInv
  <1>2. Given \subseteq Given'
    BY <1>1 DEF Given
  <1>3. ASSUME NEW p \in Before PROVE p \in Before'
    <2>1. p \in Given \X Given /\ Precedes(p[1], p[2])
      BY DEF Before
    <2>2. p[1] \in Given /\ p \in Given' \X Given'
      BY <1>2, <2>1
    <2>3. Precedes(p[1], p[2])'
      BY <2>1, <2>2 DEF Precedes
    <2> QED BY <2>2, <2>3 DEF Before
  <1> QED BY <1>2, <1>3

\* Nothing arrives and nothing is added to what waits, which may be forgotten.
LEMMA LineKept ==
    ASSUME LinesInv, NEW c \in Lines, Given \subseteq Given', Before \subseteq Before',
           channel' = channel, got'[c] = got[c], queue'[c] = queue[c] \/ queue'[c] = << >>,
           Sending(c)' \subseteq Sending(c),
           channel = "web" /\ line'[c] # "here" => queue'[c] = << >>
    PROVE  LineOK(c)' /\ queue'[c] \in Seq(Given') /\ got'[c] \in Seq(Given')
  <1>1. LineOK(c) /\ queue[c] \in Seq(Given) /\ got[c] \in Seq(Given)
    BY DEF LinesInv, LineTypes
  <1>2. queue'[c] \in Seq(Given') /\ got'[c] \in Seq(Given')
    <2>1. queue[c] \in Seq(Given') /\ got[c] \in Seq(Given') /\ << >> \in Seq(Given')
      BY <1>1, SeqWithin
    <2> QED BY <2>1
  <1>3. (Ordered(Before, got[c]) /\ Ordered(Before, queue[c]) /\ Follow(Before, got[c], queue[c]))'
    BY <1>1 DEF LineOK, Ordered, Follow
  <1>4. ASSUME NEW n \in Sending(c)' PROVE Travels(c, n)'
    BY <1>1 DEF LineOK, Travels
  <1> QED BY <1>2, <1>3, <1>4 DEF LineOK

\* A message is handed over to a line, which has nothing of it yet, or waiting.
LEMMA LineGrows ==
    ASSUME LinesInv, TextInv', UNCHANGED <<channel, line>>, NEW d \in Lines, NEW fate, NEW text,
           out' = Note(d, fate, text), NEW c \in Lines, got'[c] = got[c],
           fate = "sending" => channel # "web",
           \/ queue'[c] = queue[c]
           \/ /\ queue'[c] = Append(queue[c], Handed) /\ fate = "queued"
              /\ channel = "web" => line[c] = "here"
              /\ c = d \/ channel = "web"
    PROVE  LineOK(c)' /\ queue'[c] \in Seq(Given') /\ got'[c] \in Seq(Given')
  <1>1. /\ TextInv /\ LineOK(c) /\ queue[c] \in Seq(Given) /\ got[c] \in Seq(Given)
        /\ channel' = channel /\ line' = line /\ SendsOnce
    BY DEF LinesInv, LineTypes
  <1>2. PICK n \in Nat : n = Len(out) /\ Handed = n + 1 /\ Given = 1 .. n
    BY <1>1 DEF TextInv, Handed, Given
  <1>3. /\ Len(out') = n + 1 /\ Given' = 1 .. n + 1 /\ \A x \in Given : out'[x] = out[x]
        /\ out'[n + 1].line = d /\ out'[n + 1].fate = fate
        /\ out'[n + 1].passes = Passes(d, fate)
    <2> DEFINE r == [line |-> d, fate |-> fate, text |-> text, left |-> text, said |-> << >>,
                     passes |-> Passes(d, fate)]
    <2>1. r.line = d /\ r.fate = fate /\ r.passes = Passes(d, fate) /\ out' = Append(out, r)
      BY DEF Note
    <2> HIDE DEF r
    <2>2. Len(out') = n + 1 /\ (\A x \in Given : out'[x] = out[x]) /\ out'[n + 1] = r
      BY <1>1, <1>2, <2>1 DEF TextInv
    <2> QED BY <1>2, <2>1, <2>2 DEF Given
  <1>4. Given \subseteq Given' /\ Before \subseteq Before'
    BY <1>1, <1>2, <1>3, BeforeGrows
  <1>5. \A x \in Given : <<x, n + 1>> \in Before'
    BY <1>2, <1>3 DEF Before, Precedes
  <1>6. \A y \in Given : y \in Passes(d, fate) => <<n + 1, y>> \in Before'
    BY <1>2, <1>3 DEF Before, Precedes
  <1>7. Sending(c)' = IF c = d /\ fate = "sending" THEN Sending(c) \cup {n + 1} ELSE Sending(c)
    BY <1>2, <1>3 DEF Sending
  <1>8. n + 1 \notin Given /\ n + 1 \in Given'
    BY <1>2, <1>3
  <1>9. PICK q \in Seq(Given), g \in Seq(Given) : q = queue[c] /\ g = got[c]
    BY <1>1
  <1>10. q \in Seq(Given') /\ g \in Seq(Given')
    BY <1>4, SeqWithin
  <1>11. /\ \A i \in 1 .. Len(q) : q[i] \in Given
         /\ \A i \in 1 .. Len(g) : g[i] \in Given
    OBVIOUS
  <1>12. /\ Ordered(Before, g) /\ Ordered(Before, q) /\ Follow(Before, g, q)
         /\ \A m \in Sending(c) : Travels(c, m)
    BY <1>1, <1>9 DEF LineOK
  <1>13. /\ Ordered(Before', g) /\ Ordered(Before', q) /\ Follow(Before', g, q)
    BY <1>4, <1>12 DEF Ordered, Follow
  <1>14. \A m \in Sending(c) : m \in Given /\ m \in Passes(c, fate)
    BY DEF Sending, Passes, Given
  <1>15. Sending(c) # {} => channel # "web"
    BY <1>1 DEF Sending, SendsOnce
  <1>16. ASSUME queue'[c] = queue[c]
         PROVE  LineOK(c)' /\ queue'[c] \in Seq(Given') /\ got'[c] \in Seq(Given')
    <2>1. ASSUME NEW m \in Sending(c)' PROVE Travels(c, m)'
      <3>1. CASE m \in Sending(c)
        <4>1. Travels(c, m) /\ m \in Given
          BY <1>12, <1>14, <3>1
        <4>2. \A k \in Sending(c)' \ {m} : <<m, k>> \in Before'
          BY <1>4, <1>5, <1>7, <4>1 DEF Travels
        <4> QED BY <1>4, <1>16, <4>1, <4>2 DEF Travels
      <3>2. CASE m = n + 1 /\ c = d /\ fate = "sending"
        <4>1. \A i \in 1 .. Len(q) : <<q[i], m>> \in Before' /\ <<m, q[i]>> \in Before'
          <5>1. \A i \in 1 .. Len(q) : q[i] \in Passes(d, fate)
            BY <1>9, <3>2 DEF Passes
          <5> QED BY <1>5, <1>6, <1>11, <3>2, <5>1
        <4>2. \A i \in 1 .. Len(g) : <<g[i], m>> \in Before'
          BY <1>5, <1>11, <3>2
        <4>3. \A k \in Sending(c)' \ {m} : <<m, k>> \in Before'
          BY <1>6, <1>7, <1>14, <3>2
        <4> QED BY <1>9, <1>16, <4>1, <4>2, <4>3 DEF Travels
      <3> QED BY <1>7, <3>1, <3>2
    <2>2. channel' = "web" /\ line'[c] # "here" => queue'[c] = << >>
      BY <1>1, <1>16 DEF LineOK
    <2> QED BY <1>9, <1>10, <1>13, <1>16, <2>1, <2>2 DEF LineOK
  <1>17. ASSUME queue'[c] = Append(queue[c], Handed), fate = "queued",
                channel = "web" => line[c] = "here", c = d \/ channel = "web"
         PROVE  LineOK(c)' /\ queue'[c] \in Seq(Given') /\ got'[c] \in Seq(Given')
    <2>1. PICK a \in Seq(Given') : a = Append(q, n + 1)
      BY <1>8, <1>10, OneMore
    <2>2. queue'[c] = a /\ got'[c] = g
      BY <1>2, <1>9, <1>17, <2>1
    <2>3. \A i \in 1 .. Len(q) : <<q[i], n + 1>> \in Before'
      BY <1>5, <1>11
    <2>4. \A i \in 1 .. Len(g) : <<g[i], n + 1>> \in Before'
      BY <1>5, <1>11
    <2>5. Ordered(Before', a) /\ Follow(Before', g, a)
      BY <1>8, <1>10, <1>13, <2>1, <2>3, <2>4, OrderedNext, FollowNext
    <2>6. ASSUME NEW m \in Sending(c)' PROVE Travels(c, m)'
      <3>1. m \in Sending(c) /\ Sending(c)' = Sending(c) /\ c = d
        BY <1>7, <1>15, <1>17
      <3>2. Travels(c, m) /\ <<m, n + 1>> \in Before' /\ <<n + 1, m>> \in Before'
        BY <1>5, <1>6, <1>12, <1>14, <3>1
      <3>3. /\ Len(a) = Len(q) + 1 /\ Len(q) \in Nat /\ a[Len(q) + 1] = n + 1
            /\ \A i \in 1 .. Len(q) : a[i] = q[i]
        BY <1>8, <1>10, <2>1, OneMore
      <3>4. \A i \in 1 .. Len(a) : <<a[i], m>> \in Before' /\ <<m, a[i]>> \in Before'
        <4>1. \A i \in 1 .. Len(q) : <<q[i], m>> \in Before' /\ <<m, q[i]>> \in Before'
          BY <1>4, <1>9, <3>2 DEF Travels
        <4>2. ASSUME NEW i \in 1 .. Len(a) PROVE i \in 1 .. Len(q) \/ i = Len(q) + 1
          BY <3>3
        <4> QED BY <3>2, <3>3, <4>1, <4>2
      <3>5. \A i \in 1 .. Len(g) : <<g[i], m>> \in Before'
        BY <1>4, <1>9, <3>2 DEF Travels
      <3>6. \A k \in Sending(c)' \ {m} : <<m, k>> \in Before'
        BY <1>4, <3>1, <3>2 DEF Travels
      <3> QED BY <2>2, <3>4, <3>5, <3>6 DEF Travels
    <2>7. channel' = "web" /\ line'[c] # "here" => queue'[c] = << >>
      BY <1>1, <1>17
    <2> QED BY <1>10, <1>13, <2>1, <2>2, <2>5, <2>6, <2>7 DEF LineOK
  <1> QED BY <1>16, <1>17

\* A message is handed over.
LEMMA NewMessageStep ==
    ASSUME LinesInv, TextInv', NEW c \in Lines,
           EscalateToAll \/ SendOutbound(c) \/ EscalateToOne(c) \/ WebhookRuns(c)
    PROVE  LinesInv'
  <1>1. /\ LineTypes /\ TextInv /\ SendsOnce /\ UNCHANGED <<channel, line, got>>
        /\ DOMAIN queue' = Lines /\ queue' = [d \in Lines |-> queue'[d]]
    <2>1. LineTypes /\ TextInv /\ SendsOnce
      BY DEF LinesInv
    <2>2. UNCHANGED <<channel, line, got>>
      BY DEF EscalateToAll, SendOutbound, Queues, Fails, StartsToSend, EscalateToOne, WebhookRuns
    <2>3. queue' \in [Lines -> Seq(Nat)]
      BY DEF TextInv
    <2> QED BY <2>1, <2>2, <2>3
  <1>2. PICK e, fate, text :
          /\ e \in Lines /\ out' = Note(e, fate, text)
          /\ fate = "sending" => channel # "web" /\ (channel # "discord" => text = OneChunk)
          /\ \A d \in Lines :
               \/ queue'[d] = queue[d]
               \/ /\ queue'[d] = Append(queue[d], Handed) /\ fate = "queued"
                  /\ channel = "web" => line[d] = "here"
                  /\ e = d \/ channel = "web"
    <2> DEFINE HandsTo(e, fate, text) ==
                 /\ e \in Lines /\ out' = Note(e, fate, text)
                 /\ fate = "sending" => channel # "web" /\ (channel # "discord" => text = OneChunk)
                 /\ \A d \in Lines :
                      \/ queue'[d] = queue[d]
                      \/ /\ queue'[d] = Append(queue[d], Handed) /\ fate = "queued"
                         /\ channel = "web" => line[d] = "here"
                         /\ e = d \/ channel = "web"
    <2>0. DOMAIN queue = Lines
      BY <1>1 DEF LineTypes
    <2>1. CASE EscalateToAll
      <3>1. PICK e \in Lines : out' = Note(e, "queued", << >>)
        BY <2>1 DEF EscalateToAll
      <3>2. \A d \in Lines : \/ queue'[d] = queue[d]
                             \/ queue'[d] = Append(queue[d], Handed) /\ line[d] = "here"
        BY <2>1 DEF EscalateToAll
      <3>3. channel = "web"
        BY <2>1 DEF EscalateToAll
      <3>4. HandsTo(e, "queued", << >>)
        BY <3>1, <3>2, <3>3
      <3> QED BY <3>4
    <2>2. CASE SendOutbound(c)
      <3>1. CASE Queues(c)
        <4>1. \A d \in Lines : d # c => queue'[d] = queue[d]
          BY <2>0, <3>1 DEF Queues
        <4>2. queue'[c] = Append(queue[c], Handed) /\ (channel = "web" => line[c] = "here")
          BY <2>0, <3>1 DEF Queues
        <4>3. HandsTo(c, "queued", << >>)
          BY <3>1, <4>1, <4>2 DEF Queues
        <4> QED BY <4>3
      <3>2. CASE Fails(c)
        <4>1. HandsTo(c, "failed", << >>)
          BY <3>2 DEF Fails
        <4> QED BY <4>1
      <3>3. CASE StartsToSend(c)
        <4>1. PICK text \in IF channel = "discord" THEN Texts ELSE {OneChunk} :
                out' = Note(c, "sending", text)
          BY <3>3 DEF StartsToSend
        <4>2. queue' = queue /\ channel # "web" /\ (channel # "discord" => text = OneChunk)
          BY <3>3, <4>1 DEF StartsToSend
        <4>3. HandsTo(c, "sending", text)
          BY <4>1, <4>2
        <4> QED BY <4>3
      <3> QED BY <2>2, <3>1, <3>2, <3>3 DEF SendOutbound
    <2>3. CASE EscalateToOne(c)
      <3>1. HandsTo(c, "sending", OneChunk)
        BY <2>3 DEF EscalateToOne
      <3> QED BY <3>1
    <2>4. CASE WebhookRuns(c)
      <3>1. HandsTo(c, "sending", OneChunk) \/ HandsTo(c, "failed", << >>)
        BY <2>4 DEF WebhookRuns
      <3> QED BY <3>1
    <2> QED BY <2>1, <2>2, <2>3, <2>4
  <1>3. \A d \in Lines : LineOK(d)' /\ queue'[d] \in Seq(Given') /\ got'[d] \in Seq(Given')
    BY <1>1, <1>2, LineGrows
  <1>4. LineTypes'
    BY <1>1, <1>3 DEF LineTypes
  <1>5. SendsOnce'
    <2> DEFINE r == [line |-> e, fate |-> fate, text |-> text, left |-> text, said |-> << >>,
                     passes |-> Passes(e, fate)]
    <2>1. r.fate = fate /\ r.left = text /\ out' = Append(out, r)
      BY <1>2 DEF Note
    <2> HIDE DEF r
    <2>2. PICK n \in Nat : n = Len(out) /\ Given = 1 .. n
      BY <1>1 DEF TextInv, Given
    <2>3. Len(out') = n + 1 /\ (\A x \in Given : out'[x] = out[x]) /\ out'[n + 1] = r
      BY <1>1, <2>1, <2>2 DEF TextInv
    <2>4. \A x \in Given' : x \in Given \/ x = n + 1
      BY <2>2, <2>3 DEF Given
    <2> QED BY <1>1, <1>2, <2>1, <2>3, <2>4 DEF SendsOnce
  <1> QED BY <1>3, <1>4, <1>5 DEF LinesInv

LEMMA PollMessagesStep ==
    ASSUME LinesInv, TextInv', NEW c \in Lines, PollMessages(c)
    PROVE  LinesInv'
  <1>1. /\ TextInv /\ LineTypes /\ SendsOnce /\ \A d \in Lines : LineOK(d)
        /\ UNCHANGED <<channel, line, out>>
    BY DEF LinesInv, PollMessages
  <1>2. PICK q \in Seq(Given), g \in Seq(Given) : q = queue[c] /\ g = got[c]
    BY <1>1 DEF LineTypes
  <1>3. PICK a \in Seq(Given) : a = g \o q
    BY Joined
  <1>4. /\ Len(a) = Len(g) + Len(q) /\ Len(g) \in Nat /\ Len(q) \in Nat
        /\ \A i \in 1 .. Len(a) : a[i] = IF i <= Len(g) THEN g[i] ELSE q[i - Len(g)]
    BY <1>3, Joined
  <1>5. Ordered(Before, a)
    BY <1>1, <1>2, <1>3, OrderedJoin DEF LineOK
  <1>6. got' = [got EXCEPT ![c] = a] /\ queue' = [queue EXCEPT ![c] = << >>]
    BY <1>2, <1>3 DEF PollMessages
  <1>7. << >> \in Seq(Given) /\ got'[c] = a /\ queue'[c] = << >>
    BY <1>1, <1>6 DEF LineTypes
  <1>8. /\ Given' = Given /\ Before' = Before /\ \A d : Sending(d)' = Sending(d)
    BY <1>1 DEF Given, Before, Precedes, Sending
  <1>9. LineTypes' /\ SendsOnce'
    BY <1>1, <1>6, <1>7, <1>8 DEF LineTypes, SendsOnce
  <1>10. ASSUME NEW d \in Lines PROVE LineOK(d)'
    <2>1. CASE d = c
      <3>1. ASSUME NEW n \in Sending(c) PROVE \A i \in 1 .. Len(a) : <<a[i], n>> \in Before
        <4>1. Travels(c, n)
          BY <1>1 DEF LineOK
        <4>2. ASSUME NEW i \in 1 .. Len(a) PROVE <<a[i], n>> \in Before
          <5>1. CASE i <= Len(g)
            <6>1. i \in 1 .. Len(g) /\ a[i] = g[i]
              BY <1>4, <5>1
            <6> QED BY <1>2, <4>1, <6>1 DEF Travels
          <5>2. CASE i > Len(g)
            <6>1. i - Len(g) \in 1 .. Len(q) /\ a[i] = q[i - Len(g)]
              BY <1>4, <5>2
            <6> QED BY <1>2, <4>1, <6>1 DEF Travels
          <5> QED BY <1>4, <5>1, <5>2
        <4> QED BY <4>2
      <3>2. ASSUME NEW n \in Sending(c)' PROVE Travels(c, n)'
        <4>1. Travels(c, n) /\ n \in Sending(c)
          BY <1>1, <1>8 DEF LineOK
        <4>2. \A i \in 1 .. Len(a) : <<a[i], n>> \in Before'
          BY <1>8, <3>1, <4>1
        <4>3. \A m \in Sending(c)' \ {n} : <<n, m>> \in Before'
          BY <1>8, <4>1 DEF Travels
        <4>4. \A i \in 1 .. Len(queue'[c]) : FALSE
          BY <1>7
        <4> QED BY <1>7, <4>2, <4>3, <4>4 DEF Travels
      <3>3. (Ordered(Before, got[c]) /\ Ordered(Before, queue[c]) /\ Follow(Before, got[c], queue[c]))'
        BY <1>5, <1>7, <1>8 DEF Ordered, Follow
      <3> QED BY <1>7, <2>1, <3>2, <3>3 DEF LineOK
    <2>2. CASE d # c
      <3>1. got'[d] = got[d] /\ queue'[d] = queue[d] /\ LineOK(d)
        BY <1>1, <1>6, <2>2 DEF LineTypes
      <3> QED BY <1>1, <1>8, <3>1 DEF LineOK, Travels
    <2> QED BY <2>1, <2>2
  <1> QED BY <1>9, <1>10 DEF LinesInv

\* Clients come and go, the adapter starts and stops, and a send breaks.
LEMMA ClientStep ==
    ASSUME LinesInv, TextInv',
           \/ StartChannel \/ StopChannel \/ CleanupStale
           \/ \E c \in Lines : Appears(c) \/ Disconnects(c) \/ GoesIdle(c) \/ Speaks(c)
    PROVE  LinesInv'
  <1>1. /\ LineTypes /\ TextInv /\ SendsOnce /\ UNCHANGED <<channel, got, out>>
        /\ \A d \in Lines : channel = "web" /\ line[d] # "here" => queue[d] = << >>
    BY DEF LinesInv, LineOK, StartChannel, StopChannel, CleanupStale, Appears, Disconnects,
           GoesIdle, Speaks
  <1>2. /\ Given' = Given /\ Before' = Before /\ \A d : Sending(d)' = Sending(d)
    BY <1>1 DEF Given, Before, Precedes, Sending
  <1>3. /\ line \in [Lines -> {"new", "here", "gone"}] /\ DOMAIN queue = Lines
        /\ queue = [d \in Lines |-> queue[d]]
    BY <1>1 DEF LineTypes
  <1> DEFINE Forgets ==
               /\ line' \in [Lines -> {"new", "here", "gone"}]
               /\ queue' = [d \in Lines |-> queue'[d]] /\ DOMAIN queue' = Lines
               /\ \A d \in Lines : queue'[d] = queue[d] \/ queue'[d] = << >>
               /\ \A d \in Lines : channel = "web" /\ line'[d] # "here" => queue'[d] = << >>
  <1>4. Forgets
    <2>1. CASE StartChannel
      BY <1>1, <1>3, <2>1 DEF StartChannel
    <2>2. CASE StopChannel
      BY <1>1, <1>3, <2>2 DEF StopChannel
    <2>3. CASE CleanupStale
      BY <1>1, <1>3, <2>3 DEF CleanupStale
    <2>4. ASSUME NEW c \in Lines, Appears(c) PROVE Forgets
      BY <1>1, <1>3, <2>4 DEF Appears
    <2>5. ASSUME NEW c \in Lines, Disconnects(c) PROVE Forgets
      BY <1>1, <1>3, <2>5 DEF Disconnects
    <2>6. ASSUME NEW c \in Lines, GoesIdle(c) \/ Speaks(c) PROVE Forgets
      BY <1>1, <1>3, <2>6 DEF GoesIdle, Speaks
    <2> QED BY <2>1, <2>2, <2>3, <2>4, <2>5, <2>6
  <1>5. \A d \in Lines : LineOK(d)' /\ queue'[d] \in Seq(Given') /\ got'[d] \in Seq(Given')
    BY <1>1, <1>2, <1>4, LineKept
  <1>6. LineTypes' /\ SendsOnce'
    BY <1>1, <1>2, <1>4, <1>5 DEF LineTypes, SendsOnce
  <1> QED BY <1>5, <1>6 DEF LinesInv

\* What is on its way arrives, or breaks.
LEMMA ArriveStep ==
    ASSUME LinesInv, TextInv', NEW n \in DOMAIN out, SendChunk(n) \/ SendBreaks(n)
    PROVE  LinesInv'
  <1>1. /\ TextInv /\ LineTypes /\ SendsOnce /\ \A d \in Lines : LineOK(d)
        /\ UNCHANGED <<channel, line, queue>>
    BY DEF LinesInv, SendChunk, SendBreaks
  <1>2. n \in Given /\ out[n] \in Outgoing /\ out[n].fate = "sending"
    BY <1>1 DEF TextInv, Given, SendChunk, SendBreaks
  <1> DEFINE text == out[n].left
             rest == AfterChunk(text)
             fate == IF rest = << >> THEN "delivered" ELSE "sending"
  <1>3. /\ Len(out') = Len(out)
        /\ \A x \in Given : /\ out'[x].passes = out[x].passes /\ out'[x].line = out[x].line
                            /\ x # n => out'[x] = out[x]
    <2> HIDE DEF rest, fate
    <2>0. ASSUME NEW r, out' = [out EXCEPT ![n] = r], r.passes = out[n].passes, r.line = out[n].line
          PROVE  /\ Len(out') = Len(out)
                 /\ \A x \in Given : /\ out'[x].passes = out[x].passes /\ out'[x].line = out[x].line
                                     /\ x # n => out'[x] = out[x]
      <3>1. Len(out') = Len(out) /\ DOMAIN out = Given
        BY <1>1, <2>0 DEF TextInv, Given
      <3>2. \A x \in Given : x # n => out'[x] = out[x]
        BY <2>0, <3>1
      <3>3. out'[n] = r
        BY <1>2, <2>0, <3>1
      <3> QED BY <2>0, <3>1, <3>2, <3>3
    <2>1. CASE out' = [out EXCEPT ![n].fate = "failed"]
      <3> DEFINE r == [out[n] EXCEPT !.fate = "failed"]
      <3>1. out' = [out EXCEPT ![n] = r]
        BY <2>1
      <3>2. r.passes = out[n].passes /\ r.line = out[n].line
        BY <1>2 DEF Outgoing
      <3> HIDE DEF r
      <3> QED BY <2>0, <3>1, <3>2
    <2>2. CASE out' = [out EXCEPT ![n].said = Append(@, FirstChunk(text)), ![n].left = rest,
                                  ![n].fate = fate]
      <3>1. PICK said : said = Append(out[n].said, FirstChunk(text))
        OBVIOUS
      <3> DEFINE r == [out[n] EXCEPT !.said = said, !.left = rest, !.fate = fate]
      <3>2. out' = [out EXCEPT ![n] = r]
        <4>1. out' = [out EXCEPT ![n].said = said, ![n].left = rest, ![n].fate = fate]
          BY <2>2, <3>1
        <4> QED BY <1>1, <1>2, <4>1 DEF TextInv, Given
      <3>3. r.passes = out[n].passes /\ r.line = out[n].line
        BY <1>2 DEF Outgoing
      <3> HIDE DEF r
      <3> QED BY <2>0, <3>2, <3>3
    <2>3. SendBreaks(n) => out' = [out EXCEPT ![n].fate = "failed"]
      BY DEF SendBreaks
    <2>4. SendChunk(n) => \/ out' = [out EXCEPT ![n].fate = "failed"]
                          \/ out' = [out EXCEPT ![n].said = Append(@, FirstChunk(text)),
                                                ![n].left = rest, ![n].fate = fate]
      BY DEF SendChunk, rest, fate
    <2> QED BY <2>1, <2>2, <2>3, <2>4
  <1>4. Given' = Given /\ Before \subseteq Before'
    <2>1. Len(out) \in Nat
      BY <1>1 DEF TextInv
    <2> QED BY <1>1, <1>3, <2>1, BeforeGrows DEF Given
  <1>5. ASSUME NEW d PROVE Sending(d)' \subseteq Sending(d)
    BY <1>2, <1>3, <1>4 DEF Sending
  <1>6. /\ \A d \in Lines : channel = "web" /\ line[d] # "here" => queue[d] = << >>
        /\ DOMAIN got = Lines /\ DOMAIN queue = Lines
    BY <1>1 DEF LineOK, LineTypes
  <1>7. ASSUME NEW d \in Lines, got'[d] = got[d]
        PROVE  LineOK(d)' /\ queue'[d] \in Seq(Given') /\ got'[d] \in Seq(Given')
    BY <1>1, <1>4, <1>5, <1>6, <1>7, LineKept
  <1>8. CASE UNCHANGED got /\ out' = [out EXCEPT ![n].fate = "failed"]
    <2>1. \A d \in Lines : LineOK(d)' /\ queue'[d] \in Seq(Given') /\ got'[d] \in Seq(Given')
      BY <1>7, <1>8
    <2>2. out'[n].fate = "failed"
      BY <1>1, <1>2, <1>8 DEF TextInv, Given, Outgoing
    <2>3. SendsOnce'
      BY <1>1, <1>3, <1>4, <2>2 DEF SendsOnce
    <2> QED BY <1>1, <1>8, <1>4, <2>1, <2>3 DEF LinesInv, LineTypes
  <1>9. CASE /\ got' = [got EXCEPT ![out[n].line] = Append(@, n)]
             /\ out' = [out EXCEPT ![n].said = Append(@, FirstChunk(text)), ![n].left = rest,
                                   ![n].fate = fate]
    <2>1. PICK c \in Lines : c = out[n].line
      BY <1>2 DEF Outgoing
    <2>2. PICK g \in Seq(Given), q \in Seq(Given) : g = got[c] /\ q = queue[c]
      BY <1>1 DEF LineTypes
    <2>3. PICK a \in Seq(Given) : a = Append(g, n)
      BY <1>2, OneMore
    <2>4. /\ got' = [got EXCEPT ![c] = a] /\ got'[c] = a /\ queue'[c] = q
          /\ \A d \in Lines \ {c} : got'[d] = got[d]
      BY <1>1, <1>6, <1>9, <2>1, <2>2, <2>3
    <2>5. n \in Sending(c) /\ LineOK(c)
      BY <1>1, <1>2, <2>1 DEF Sending
    <2>6. Travels(c, n)
      BY <2>5 DEF LineOK
    <2>7. out'[n].fate = fate /\ out'[n].left = rest
      <3> HIDE DEF rest, fate
      <3>1. PICK said : said = Append(out[n].said, FirstChunk(text))
        OBVIOUS
      <3> DEFINE r == [out[n] EXCEPT !.said = said, !.left = rest, !.fate = fate]
      <3>2. out' = [out EXCEPT ![n] = r]
        <4>1. out' = [out EXCEPT ![n].said = said, ![n].left = rest, ![n].fate = fate]
          BY <1>9, <3>1
        <4> QED BY <1>1, <1>2, <4>1 DEF TextInv, Given
      <3>3. r.fate = fate /\ r.left = rest
        BY <1>2 DEF Outgoing
      <3> HIDE DEF r
      <3>4. out'[n] = r
        BY <1>1, <1>2, <3>2 DEF TextInv, Given
      <3> QED BY <3>3, <3>4
    <2>8. channel # "discord" => rest = << >>
      <3>1. Len(OneChunk) = 1 /\ 1 <= DiscordLength
        BY LimitPositive DEF OneChunk
      <3>2. channel # "discord" => text = OneChunk
        BY <1>1, <1>2 DEF SendsOnce
      <3> QED BY <3>1, <3>2 DEF AfterChunk
    <2>9. n \in Sending(c)' => channel = "discord"
      <3>1. n \in Sending(c)' => fate = "sending"
        BY <2>7 DEF Sending
      <3> QED BY <2>8, <3>1
    <2>10. Ordered(Before', a) /\ Ordered(Before', q) /\ Follow(Before', a, q)
      <3>1. /\ Ordered(Before', g) /\ Ordered(Before', q) /\ Follow(Before', g, q)
        BY <1>4, <2>2, <2>5 DEF LineOK, Ordered, Follow
      <3>2. \A i \in 1 .. Len(g) : <<g[i], n>> \in Before'
        BY <1>4, <2>2, <2>6 DEF Travels
      <3>3. \A i \in 1 .. Len(q) : <<n, q[i]>> \in Before'
        BY <1>4, <2>2, <2>6 DEF Travels
      <3> QED BY <1>2, <2>3, <3>1, <3>2, <3>3, OrderedNext, FollowNext
    <2>11. ASSUME NEW m \in Sending(c)' PROVE Travels(c, m)'
      <3>1. m \in Sending(c)
        BY <1>5
      <3>2. Travels(c, m)
        BY <2>5, <3>1 DEF LineOK
      <3>3. <<n, m>> \in Before'
        <4>1. CASE m = n
          <5>1. channel' = "discord"
            BY <1>1, <2>9, <4>1
          <5>2. Precedes(n, n)'
            BY <5>1 DEF Precedes
          <5> QED BY <1>2, <1>4, <4>1, <5>2 DEF Before
        <4>2. CASE m # n
          BY <1>4, <2>6, <3>1, <4>2 DEF Travels
        <4> QED BY <4>1, <4>2
      <3>4. /\ Len(a) = Len(g) + 1 /\ Len(g) \in Nat /\ a[Len(g) + 1] = n
            /\ \A i \in 1 .. Len(g) : a[i] = g[i]
        BY <1>2, <2>3, OneMore
      <3>5. \A i \in 1 .. Len(a) : <<a[i], m>> \in Before'
        <4>1. \A i \in 1 .. Len(g) : <<g[i], m>> \in Before'
          BY <1>4, <2>2, <3>2 DEF Travels
        <4>2. ASSUME NEW i \in 1 .. Len(a) PROVE i \in 1 .. Len(g) \/ i = Len(g) + 1
          BY <3>4
        <4> QED BY <3>3, <3>4, <4>1, <4>2
      <3>6. \A i \in 1 .. Len(q) : <<q[i], m>> \in Before' /\ <<m, q[i]>> \in Before'
        BY <1>4, <2>2, <3>2 DEF Travels
      <3>7. \A k \in Sending(c)' \ {m} : <<m, k>> \in Before'
        BY <1>4, <1>5, <3>2 DEF Travels
      <3> QED BY <2>4, <3>5, <3>6, <3>7 DEF Travels
    <2>12. LineOK(c)'
      <3>1. (channel = "web" /\ line[c] # "here" => queue[c] = << >>)'
        BY <1>1, <1>6
      <3> QED BY <2>4, <2>10, <2>11, <3>1 DEF LineOK
    <2>13. \A d \in Lines : LineOK(d)' /\ queue'[d] \in Seq(Given') /\ got'[d] \in Seq(Given')
      BY <1>4, <1>7, <2>2, <2>3, <2>4, <2>12
    <2>14. SendsOnce'
      <3>1. ASSUME channel # "discord" PROVE out'[n].fate # "sending"
        BY <2>7, <2>8, <3>1
      <3>2. channel # "web"
        BY <1>1, <1>2 DEF SendsOnce
      <3> QED BY <1>1, <1>3, <1>4, <3>1, <3>2 DEF SendsOnce
    <2>15. LineTypes'
      BY <1>1, <1>6, <2>4, <2>13 DEF LineTypes
    <2> QED BY <2>13, <2>14, <2>15 DEF LinesInv
  <1>10. CASE SendBreaks(n)
    BY <1>8, <1>10 DEF SendBreaks
  <1>11. CASE SendChunk(n)
    <2>1. \/ UNCHANGED got /\ out' = [out EXCEPT ![n].fate = "failed"]
          \/ /\ got' = [got EXCEPT ![out[n].line] = Append(@, n)]
             /\ out' = [out EXCEPT ![n].said = Append(@, FirstChunk(text)), ![n].left = rest,
                                   ![n].fate = fate]
      BY <1>11 DEF SendChunk
    <2> QED BY <1>8, <1>9, <2>1
  <1> QED BY <1>10, <1>11

LEMMA LinesStep == LinesInv /\ [ChannelsNext]_channelVars => LinesInv'
  <1> SUFFICES ASSUME LinesInv, [ChannelsNext]_channelVars PROVE LinesInv'
    OBVIOUS
  <1>0. TextInv /\ TextInv'
    BY TextStep DEF LinesInv
  <1>1. CASE UNCHANGED channelVars
    BY <1>0, <1>1 DEF channelVars, LinesInv, LineTypes, SendsOnce, LineOK, Given, Ordered, Follow,
                      Precedes, Before, Sending, Travels
  <1>2. CASE StartChannel \/ StopChannel \/ CleanupStale
    BY <1>0, <1>2, ClientStep
  <1>3. CASE EscalateToAll
    <2>1. \E c \in Lines : TRUE
      BY <1>3 DEF EscalateToAll
    <2> QED BY <1>0, <1>3, <2>1, NewMessageStep
  <1>4. ASSUME NEW c \in Lines, Appears(c) \/ Disconnects(c) \/ GoesIdle(c) \/ Speaks(c)
        PROVE  LinesInv'
    BY <1>0, <1>4, ClientStep
  <1>5. ASSUME NEW c \in Lines, PollMessages(c) PROVE LinesInv'
    BY <1>0, <1>5, PollMessagesStep
  <1>6. ASSUME NEW c \in Lines, SendOutbound(c) \/ EscalateToOne(c) \/ WebhookRuns(c)
        PROVE  LinesInv'
    BY <1>0, <1>6, NewMessageStep
  <1>7. ASSUME NEW n \in DOMAIN out, SendChunk(n) \/ SendBreaks(n) PROVE LinesInv'
    BY <1>0, <1>7, ArriveStep
  <1> QED BY <1>1, <1>2, <1>3, <1>4, <1>5, <1>6, <1>7 DEF ChannelsNext

\* Each line receives what was sent to it once, and in order but for messages that were
\* on their way, or not polled, when a later one was sent; and a web client that is
\* gone has nothing waiting; for any lines, messages and texts, whichever adapter
\* carries them (web/adapter.ts:165-239, api/adapter.ts:84-201, teams/adapter.ts:103-123,
\* discord/adapter.ts:97-119).
THEOREM LinesHearInOrder == ChannelsSpec => []LinesHearOnceInOrder
  <1>1. ASSUME LinesInv PROVE LinesHearOnceInOrder
    <2>1. ASSUME NEW c \in Lines
          PROVE  LET all == got[c] \o queue[c] IN
                 \A i, j \in DOMAIN all : i < j =>
                    \/ all[i] < all[j] \/ all[j] \in out[all[i]].passes
                    \/ all[i] = all[j] /\ channel = "discord"
      <3> DEFINE all == got[c] \o queue[c]
      <3>1. got[c] \in Seq(Given) /\ queue[c] \in Seq(Given) /\ LineOK(c)
        BY <1>1 DEF LinesInv, LineTypes
      <3>2. Ordered(Before, all) /\ all \in Seq(Given)
        BY <3>1, OrderedJoin DEF LineOK
      <3> HIDE DEF all
      <3>3. DOMAIN all = 1 .. Len(all)
        BY <3>2
      <3>4. ASSUME NEW i \in DOMAIN all, NEW j \in DOMAIN all, i < j
            PROVE  Precedes(all[i], all[j])
        <4>1. PICK x, y : x = all[i] /\ y = all[j]
          OBVIOUS
        <4>2. <<x, y>> \in Before
          BY <3>2, <3>3, <3>4, <4>1 DEF Ordered
        <4>3. Precedes(<<x, y>>[1], <<x, y>>[2])
          BY <4>2 DEF Before
        <4> QED BY <4>1, <4>3
      <3> QED BY <3>4 DEF Precedes, all
    <2>2. channel = "web" => \A c \in Lines : line[c] # "here" => queue[c] = << >>
      BY <1>1 DEF LinesInv, LineOK
    <2> QED BY <2>1, <2>2 DEF LinesHearOnceInOrder
  <1> QED BY <1>1, LinesInitInv, LinesStep, PTL DEF ChannelsSpec

\* What the agent says arrives on a line whole, once, and in order but for messages
\* that were on their way, or not polled, when a later one was sent; on Discord the
\* chunks of an answer and what is left of it hold its text but for blanks, none empty
\* or above the limit; for any lines, messages, texts and limit (the adapters' send,
\* poll and flush; discord/adapter.ts:254-284).
THEOREM LinesHearTextWhole == ChannelsSpec => []LinesHearText
  <1>2. TextInv => ChunksKeepText
    BY DEF TextInv, Whole, ChunksKeepText
  <1>3. ChannelsSpec => []ChunksKeepText
    BY <1>2, TextInitInv, TextStep, PTL DEF ChannelsSpec
  <1>4. LinesHearOnceInOrder /\ ChunksKeepText => LinesHearText
    BY DEF LinesHearText
  <1> QED BY <1>3, <1>4, LinesHearInOrder, PTL

(* The other types of the adapters.                                        *)
ShapeInv == running \in BOOLEAN /\ idle \subseteq Lines /\ Len(out) <= MaxOut

LEMMA BoundIsNatural == MaxOut \in Nat
  BY ChannelsAssumption

LEMMA ShapeStep == ShapeInv /\ TextInv /\ [ChannelsNext]_channelVars => ShapeInv'
  <1> SUFFICES ASSUME ShapeInv, TextInv, [ChannelsNext]_channelVars PROVE ShapeInv'
    OBVIOUS
  <1>1. out \in Seq(Outgoing) /\ Len(out) \in Nat
    BY DEF TextInv
  <1>2. MaxOut \in Nat
    BY BoundIsNatural
  <1>3. CASE UNCHANGED <<running, idle, out>>
    BY <1>3 DEF ShapeInv
  <1>4. ASSUME NEW c, NEW fate, NEW text, Len(out) < MaxOut, out' = Note(c, fate, text),
               UNCHANGED <<running, idle>>
        PROVE  ShapeInv'
    <2>1. Len(out') = Len(out) + 1
      BY <1>1, <1>4 DEF Note
    <2> QED BY <1>1, <1>2, <1>4, <2>1 DEF ShapeInv
  <1>5. CASE StartChannel \/ StopChannel \/ CleanupStale
    BY <1>5 DEF StartChannel, StopChannel, CleanupStale, ShapeInv
  <1>6. CASE EscalateToAll
    BY <1>4, <1>6 DEF EscalateToAll
  <1>7. ASSUME NEW c \in Lines,
               Appears(c) \/ Disconnects(c) \/ GoesIdle(c) \/ Speaks(c) \/ PollMessages(c)
        PROVE  ShapeInv'
    BY <1>7 DEF Appears, Disconnects, GoesIdle, Speaks, PollMessages, ShapeInv
  <1>8. ASSUME NEW c \in Lines, SendOutbound(c) PROVE ShapeInv'
    <2>1. Len(out) < MaxOut /\ UNCHANGED <<running, idle>>
      BY <1>8 DEF SendOutbound
    <2>2. \E fate, text : out' = Note(c, fate, text)
      BY <1>8 DEF SendOutbound, Queues, Fails, StartsToSend
    <2> QED BY <1>4, <2>1, <2>2
  <1>9. ASSUME NEW c \in Lines, EscalateToOne(c) \/ WebhookRuns(c) PROVE ShapeInv'
    <2>1. Len(out) < MaxOut /\ UNCHANGED <<running, idle>>
      BY <1>9 DEF EscalateToOne, WebhookRuns
    <2>2. \E fate, text : out' = Note(c, fate, text)
      BY <1>9 DEF EscalateToOne, WebhookRuns
    <2> QED BY <1>4, <2>1, <2>2
  <1>10. ASSUME NEW n \in DOMAIN out, SendChunk(n) \/ SendBreaks(n) PROVE ShapeInv'
    <2>1. Len(out') = Len(out)
      BY <1>1, <1>10 DEF SendChunk, SendBreaks
    <2>2. UNCHANGED <<running, idle>>
      BY <1>10 DEF SendChunk, SendBreaks
    <2> QED BY <2>1, <2>2 DEF ShapeInv
  <1> QED BY <1>3, <1>5, <1>6, <1>7, <1>8, <1>9, <1>10 DEF ChannelsNext, channelVars

\* The types of the adapters, for any of them, any lines, messages and texts
\* (core/src/types/channel.ts:28-35, and the adapters' fields).
THEOREM ChannelsTypesHold == ChannelsSpec => []ChannelsTypeOK
  <1>1. ASSUME ChannelsInit PROVE ShapeInv /\ TextInv
    <2>1. out = << >> /\ running = FALSE /\ idle = {}
      BY <1>1 DEF ChannelsInit
    <2>2. MaxOut \in Nat
      BY BoundIsNatural
    <2>3. Len(out) = 0
      BY <2>1
    <2>4. TextInv
      BY <1>1, TextInitInv
    <2>5. ShapeInv
      <3>1. Len(out) <= MaxOut
        BY <2>2, <2>3
      <3> QED BY <2>1, <3>1 DEF ShapeInv
    <2> QED BY <2>4, <2>5
  <1>2. ASSUME LinesInv, TextInv, ShapeInv PROVE ChannelsTypeOK
    <2>1. /\ channel \in AdapterNames /\ line \in [Lines -> {"new", "here", "gone"}]
          /\ queue \in [Lines -> Seq(Given)] /\ got \in [Lines -> Seq(Given)]
      BY <1>2 DEF LinesInv, LineTypes
    <2>2. out \in Seq(Outgoing) /\ Len(out) \in Nat /\ Len(out) <= MaxOut /\ MaxOut \in Nat
      BY <1>2, BoundIsNatural DEF TextInv, ShapeInv
    <2>3. Given \subseteq 1 .. MaxOut
      BY <2>2 DEF Given
    <2>4. ASSUME NEW s \in Seq(Given) PROVE s \in Seq(1 .. MaxOut)
      BY <2>3, SeqWithin
    <2>5. ASSUME NEW c \in Lines
          PROVE  queue[c] \in Seq(1 .. MaxOut) /\ got[c] \in Seq(1 .. MaxOut)
      BY <2>1, <2>4
    <2>6. ASSUME NEW n \in DOMAIN out
          PROVE  /\ out[n].line \in Lines
                 /\ out[n].fate \in {"queued", "delivered", "sending", "failed"}
      <3>1. PICK m \in Outgoing : m = out[n]
        BY <2>2
      <3>2. m.line \in Lines /\ m.fate \in {"queued", "delivered", "sending", "failed"}
        BY DEF Outgoing
      <3> QED BY <3>1, <3>2
    <2> QED BY <1>2, <2>1, <2>2, <2>5, <2>6 DEF ChannelsTypeOK, ShapeInv
  <1> QED BY <1>1, <1>2, LinesInitInv, LinesStep, TextStep, ShapeStep, PTL DEF ChannelsSpec
=============================================================================
