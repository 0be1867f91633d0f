-------------------------- MODULE WorkspaceProofs ---------------------------
(***************************************************************************)
(* Proofs about the accounts of a workspace and what its administrators    *)
(* edit and restore: who administers it, failed sign-ins, and what pages   *)
(* show of who is signed in; manifests, their versions and what is         *)
(* delegated of them; agents and skills; integrations and model providers; *)
(* and archives.  They are for any number of users, of overlapping         *)
(* requests, of addresses and tabs, and of pages, commands and things that *)
(* these work on.                                                          *)
(***************************************************************************)
EXTENDS WorkspaceAccess, Lockout, BrowserSignIn, Delegation,
        ManifestVersions, AgentEditing, Integrations, ModelProviders,
        Archives, FiniteSetTheorems, TLAPS

-----------------------------------------------------------------------------
(* Who administers a workspace.                                           *)

(* What a request under way remembers: one target; an account for it, once *)
(* a role is to be given; and other administrators it has counted, if its  *)
(* target is one whose role it is about to take.                           *)
RequestOK(q, rows) ==
    /\ q # Idle => \E u \in Users : q.target = {u}
    /\ q.step = "assigning" => q.target \subseteq rows
    /\ q.others \cap q.target = {}
    /\ q.kind = "change" /\ q.step = "writing" => q.to = "admin" \/ q.others # {}
    /\ q.kind = "remove" /\ q.step = "writing" => q.seen # "admin" \/ q.others # {}

RequestsInv == \A r \in Requests : RequestOK(todo[r], accounts)

AccessInv == AccessTypeOK /\ RequestsInv

Remembered ==
    [kind : Kinds, step : Steps, target : SUBSET Users, to : Roles,
     first : BOOLEAN, seen : Roles \cup {"none"}, others : SUBSET Users]

LEMMA IdleOK == Idle \in Remembered /\ \A rows : RequestOK(Idle, rows)
  BY DEF Idle, Remembered, RequestOK, Kinds, Steps, Roles

LEMMA TargetIs ==
    ASSUME AccessInv, NEW r \in Requests, todo[r] # Idle
    PROVE  Target(r) \in Users /\ todo[r].target = {Target(r)}
  <1>1. PICK u \in Users : todo[r].target = {u}
    BY DEF AccessInv, RequestsInv, RequestOK
  <1>2. Target(r) = u
    BY <1>1 DEF Target
  <1> QED BY <1>1, <1>2

\* A request that is as it should be takes the place of r's.
LEMMA Replaced ==
    ASSUME AccessInv, NEW r \in Requests, NEW q \in Remembered,
           todo' = [todo EXCEPT ![r] = q],
           accounts \subseteq accounts', RequestOK(q, accounts')
    PROVE  todo' \in [Requests -> Remembered] /\ RequestsInv'
  <1>1. todo \in [Requests -> Remembered]
    BY DEF AccessInv, AccessTypeOK, Remembered
  <1>2. todo' \in [Requests -> Remembered]
    BY <1>1
  <1>3. ASSUME NEW s \in Requests PROVE RequestOK(todo'[s], accounts')
    <2>1. CASE s = r
      BY <2>1, <1>1
    <2>2. CASE s # r
      <3>1. todo'[s] = todo[s]
        BY <2>2, <1>1
      <3>2. RequestOK(todo[s], accounts)
        BY DEF AccessInv, RequestsInv
      <3> QED BY <3>1, <3>2 DEF RequestOK
    <2> QED BY <2>1, <2>2
  <1> QED BY <1>2, <1>3 DEF RequestsInv

LEMMA Ended ==
    ASSUME AccessInv, NEW r \in Requests, End(r), accounts \subseteq accounts'
    PROVE  todo' \in [Requests -> Remembered] /\ RequestsInv'
  BY IdleOK, Replaced DEF End

LEMMA RowsKept ==
    ASSUME AccessInv, UNCHANGED todo, accounts \subseteq accounts'
    PROVE  todo' \in [Requests -> Remembered] /\ RequestsInv'
  BY DEF AccessInv, AccessTypeOK, RequestsInv, RequestOK, Remembered

LEMMA AccessInitInv == AccessInit => AccessInv
  <1> SUFFICES ASSUME AccessInit PROVE AccessInv
    OBVIOUS
  <1>1. todo \in [Requests -> Remembered] /\ RequestsInv
    BY IdleOK DEF AccessInit, RequestsInv
  <1>2. AccessTypeOK
    BY <1>1 DEF AccessInit, AccessTypeOK, Remembered, Roles, Claims
  <1> QED BY <1>1, <1>2 DEF AccessInv

(* The tables and the tokens, without the requests.                        *)
TablesOK ==
    /\ accounts \subseteq Users
    /\ deploymentAdmins \subseteq accounts
    /\ role \in [Users -> Roles \cup {"none"}]
    /\ \A u \in Users \ accounts : role[u] = "none"
    /\ access \in [Users -> Claims]
    /\ \A u \in Users \ accounts : access[u] = "none"

LEMMA Split == AccessTypeOK <=> TablesOK /\ todo \in [Requests -> Remembered]
  BY DEF AccessTypeOK, TablesOK, Remembered

LEMMA Together ==
    ASSUME TablesOK', todo' \in [Requests -> Remembered] /\ RequestsInv'
    PROVE  AccessInv'
  BY Split DEF AccessInv, AccessTypeOK, TablesOK, Remembered

-----------------------------------------------------------------------------

LEMMA AccessStep == AccessInv /\ [AccessNext]_accessVars => AccessInv'
  <1> SUFFICES ASSUME AccessInv, [AccessNext]_accessVars
               PROVE  AccessInv'
    OBVIOUS
  <1>0. TablesOK /\ todo \in [Requests -> Remembered]
    BY Split DEF AccessInv
  <1>1. ASSUME NEW u \in Users,
               Login(u) \/ Refresh(u) \/ Logout(u) \/ AccessExpires(u)
        PROVE  AccessInv'
    <2>1. u \in accounts
      BY <1>0, <1>1 DEF Login, Refresh, Logout, AccessExpires, Admitted, TablesOK
    <2>2. Rights(u) \in Claims
      BY DEF Rights, Claims
    <2>3. UNCHANGED <<usersTable, todo>>
      BY <1>1 DEF Login, Refresh, Logout, AccessExpires
    <2>4. \E c \in Claims : access' = [access EXCEPT ![u] = c]
      BY <1>1, <2>2 DEF Login, Refresh, Logout, AccessExpires, Claims
    <2>5. TablesOK'
      BY <1>0, <2>1, <2>3, <2>4 DEF TablesOK, usersTable
    <2> QED BY <2>3, <2>5, RowsKept, Together DEF usersTable
  <1>2. ASSUME NEW r \in Requests, NEW u \in Users,
               Register(r, u) \/ Bootstrap(r, u) \/ Remove(r, u)
                  \/ \E to \in Roles : Invite(r, u, to) \/ Change(r, u, to)
        PROVE  AccessInv'
    <2>1. UNCHANGED <<usersTable, access>>
      BY <1>2 DEF Register, Bootstrap, Remove, Invite, Change, ChangeIf
    <2>2. \E q \in Remembered :
              RequestOK(q, accounts) /\ todo' = [todo EXCEPT ![r] = q]
      <3>1. CASE Register(r, u) \/ Bootstrap(r, u)
        BY <3>1, <1>0, ZenonT(30) DEF Register, Bootstrap, Start, Idle, RequestOK, Remembered,
                    Kinds, Steps, Roles
      <3>2. CASE Remove(r, u)
        <4> DEFINE q(seen, step) == [Idle EXCEPT !.kind = "remove", !.target = {u},
                                         !.seen = seen, !.step = step]
        <4>1. ASSUME NEW seen \in Roles \cup {"none"}, NEW step \in Steps,
                     step = "counting" \/ (step = "writing" /\ seen # "admin")
              PROVE  q(seen, step) \in Remembered /\ RequestOK(q(seen, step), accounts)
          BY <4>1 DEF Idle, RequestOK, Remembered, Kinds, Steps, Roles
        <4>2. role[u] \in Roles \cup {"none"}
          BY <1>0 DEF TablesOK
        <4>3. \E step \in Steps :
                 /\ step = "counting" \/ (step = "writing" /\ role[u] # "admin")
                 /\ todo' = [todo EXCEPT ![r] = q(role[u], step)]
          <5>1. CASE role[u] = "admin"
            BY <3>2, <5>1 DEF Remove, Start, Steps
          <5>2. CASE role[u] # "admin"
            BY <3>2, <5>2 DEF Remove, Start, Steps
          <5> QED BY <5>1, <5>2
        <4> HIDE DEF q
        <4> QED BY <4>1, <4>2, <4>3
      <3>3. CASE \E to \in Roles : Invite(r, u, to)
        BY <3>3 DEF Invite, Start, Idle, RequestOK, Remembered, Kinds, Steps, Roles
      <3>4. CASE \E to \in Roles : Change(r, u, to)
        BY <3>4 DEF Change, ChangeIf, Admins, Start, Idle, RequestOK, Remembered,
                    Kinds, Steps, Roles
      <3> QED BY <1>2, <3>1, <3>2, <3>3, <3>4
    <2>3. todo' \in [Requests -> Remembered] /\ RequestsInv'
      BY <2>1, <2>2, Replaced DEF usersTable
    <2>4. TablesOK'
      BY <1>0, <2>1 DEF TablesOK, usersTable
    <2> QED BY <2>3, <2>4, Together, SMTT(30)
  <1>3. ASSUME NEW r \in Requests, RequestCut(r) PROVE AccessInv'
    <2>1. UNCHANGED <<usersTable, access>> /\ End(r)
      BY <1>3 DEF RequestCut
    <2>2. TablesOK'
      BY <1>0, <2>1 DEF TablesOK, usersTable
    <2> QED BY <2>1, <2>2, Ended, Together DEF usersTable
  <1>4. ASSUME NEW r \in Requests, RequestStep(r) PROVE AccessInv'
    <2>0. todo[r] # Idle
      BY <1>4 DEF RequestStep, CreateUser, AssignRole, InviteUser, InviteRole,
                  CountAdmins, WriteRole, DeleteRole, At, Idle
    <2> DEFINE u == Target(r)
    <2>1. u \in Users /\ todo[r].target = {u}
      BY <2>0, TargetIs
    <2>2. todo[r] \in Remembered /\ RequestOK(todo[r], accounts)
      BY <1>0 DEF AccessInv, RequestsInv
    <2> HIDE DEF u
    <2>3. CASE UNCHANGED <<usersTable, access>> /\ End(r)
      <3>1. TablesOK'
        BY <1>0, <2>3 DEF TablesOK, usersTable
      <3> QED BY <2>3, <3>1, Ended, Together DEF usersTable
    <2>4. CASE (CreateUser(r) /\ u \notin accounts) \/ InviteUser(r)
      <3>1. accounts' = accounts \cup {u} /\ Goto(r, "assigning")
            /\ UNCHANGED <<role, access>>
        BY <2>4, <2>1 DEF CreateUser, InviteUser, u
      <3>2. deploymentAdmins' \in {deploymentAdmins, deploymentAdmins \cup {u}}
        BY <2>4 DEF CreateUser, InviteUser, u
      <3>3. TablesOK'
        BY <1>0, <2>1, <3>1, <3>2 DEF TablesOK
      <3> DEFINE q == [todo[r] EXCEPT !.step = "assigning"]
      <3>4. q \in Remembered /\ RequestOK(q, accounts')
        <4>1. q \in Remembered
          BY <2>2 DEF Remembered, Steps
        <4>2. q.step = "assigning" /\ q.target = {u} /\ q.others = todo[r].others
          BY <2>1, <2>2 DEF Remembered
        <4> QED BY <4>1, <4>2, <2>1, <2>2, <3>1 DEF RequestOK
      <3>5. todo' = [todo EXCEPT ![r] = q]
        BY <3>1, <1>0 DEF Goto
      <3> HIDE DEF q
      <3>6. todo' \in [Requests -> Remembered] /\ RequestsInv'
        BY <3>1, <3>4, <3>5, Replaced
      <3> QED BY <3>3, <3>6, Together
    <2>5. CASE AssignRole(r)
      <3>1. u \in accounts
        BY <2>5, <2>1, <2>2 DEF AssignRole, At, RequestOK
      <3>2. \E to \in Roles \cup {"none"} : role' = [role EXCEPT ![u] = to]
        BY <2>5, <2>1, <1>0 DEF AssignRole, TablesOK, Roles, u
      <3>3. \E c \in Claims : access' = [access EXCEPT ![u] = c]
        <4>1. access[u] \in Claims
          BY <2>1, <1>0 DEF TablesOK
        <4>2. access = [access EXCEPT ![u] = access[u]]
          BY <1>0 DEF TablesOK
        <4> QED BY <4>1, <4>2, <2>5 DEF AssignRole, Claims, u
      <3>4. UNCHANGED <<accounts, deploymentAdmins>> /\ End(r)
        BY <2>5 DEF AssignRole
      <3>5. TablesOK'
        BY <1>0, <3>1, <3>2, <3>3, <3>4 DEF TablesOK
      <3> QED BY <3>4, <3>5, Ended, Together
    <2>6. CASE InviteRole(r) \/ WriteRole(r) \/ DeleteRole(r)
      <3>1. \E to \in Roles \cup {"none"} :
               role' = [role EXCEPT ![u] = to] /\ (u \notin accounts => to = "none")
        <4>1. todo[r].to \in Roles
          BY <2>2 DEF Remembered
        <4>2. CASE InviteRole(r)
          <5>1. u \in accounts
            BY <4>2, <2>1, <2>2 DEF InviteRole, At, RequestOK
          <5> QED BY <4>1, <4>2, <5>1 DEF InviteRole, u
        <4>3. CASE WriteRole(r)
          <5>1. role[u] \in Roles \cup {"none"}
                /\ (u \notin accounts => role[u] = "none")
            BY <2>1, <1>0 DEF TablesOK
          <5> QED BY <4>1, <4>3, <5>1, <2>1, <1>0 DEF WriteRole, u, TablesOK
        <4>4. CASE DeleteRole(r)
          BY <4>4 DEF DeleteRole, u
        <4> QED BY <2>6, <4>2, <4>3, <4>4
      <3>2. UNCHANGED <<accounts, deploymentAdmins, access>> /\ End(r)
        BY <2>6 DEF InviteRole, WriteRole, DeleteRole
      <3>3. TablesOK'
        BY <1>0, <2>1, <3>1, <3>2 DEF TablesOK
      <3> QED BY <3>2, <3>3, Ended, Together
    <2>7. CASE CountAdmins(r) /\ Admins \ todo[r].target # {}
      <3> DEFINE others == Admins \ todo[r].target
                 q == [todo[r] EXCEPT !.step = "writing", !.others = others]
      <3>1. others \subseteq Users /\ others # {}
        BY <2>7 DEF Admins
      <3>2. UNCHANGED <<usersTable, access>> /\ todo' = [todo EXCEPT ![r] = q]
        BY <2>7, <1>0 DEF CountAdmins
      <3>3. q \in Remembered
        BY <2>2, <3>1 DEF Remembered, Steps
      <3>4. RequestOK(q, accounts')
        <4>1. q.step = "writing" /\ q.target = todo[r].target /\ q.others = others
          BY <2>2 DEF Remembered
        <4> QED BY <4>1, <3>1, <2>1 DEF RequestOK
      <3>5. TablesOK'
        BY <1>0, <3>2 DEF TablesOK, usersTable
      <3> HIDE DEF q, others
      <3>6. todo' \in [Requests -> Remembered] /\ RequestsInv'
        BY <3>2, <3>3, <3>4, Replaced DEF usersTable
      <3> QED BY <3>5, <3>6, Together
    <2>8. CreateUser(r) /\ u \in accounts => UNCHANGED <<usersTable, access>> /\ End(r)
      BY DEF CreateUser, usersTable, u
    <2>9. CountAdmins(r) /\ Admins \ todo[r].target = {}
              => UNCHANGED <<usersTable, access>> /\ End(r)
      BY DEF CountAdmins
    <2> QED BY <1>4, <2>3, <2>4, <2>5, <2>6, <2>7, <2>8, <2>9 DEF RequestStep
  <1>5. CASE UNCHANGED accessVars
    <2>1. UNCHANGED <<usersTable, access, todo>>
      BY <1>5 DEF accessVars
    <2>2. TablesOK'
      BY <1>0, <2>1 DEF TablesOK, usersTable
    <2> QED BY <2>1, <2>2, RowsKept, Together DEF usersTable
  <1> QED BY <1>1, <1>2, <1>3, <1>4, <1>5 DEF AccessNext

LEMMA AccessInvariant == AccessSpec => []AccessInv
  BY AccessInitInv, AccessStep, PTL DEF AccessSpec

-----------------------------------------------------------------------------

\* Types: no role, no token and no deployment administrator without an account,
\* whatever requests overlap or are cut (auth/plugin.ts, api/users.ts).
THEOREM AccessTypes == AccessSpec => []AccessTypeOK
  BY AccessInvariant, PTL DEF AccessInv

\* The guarded operations take the last administrator only when the others they
\* had counted have lost the role since, or on a role looked up too early
\* (users.ts:70-85, 106-125).
THEOREM LastAdmin == AccessSpec => LastAdminNeedsOverlap
  <1> DEFINE Overlap(r) == \/ todo[r].others # {} /\ todo[r].others \cap Admins = {}
                           \/ todo[r].kind = "remove" /\ todo[r].seen # "admin"
             Takes(r) == /\ todo[r].kind \in {"change", "remove"}
                         /\ todo[r].step = "writing"
                         /\ todo'[r] = Idle /\ Admins # {} /\ Admins' = {}
  <1>1. ASSUME AccessInv, [AccessNext]_accessVars, NEW r \in Requests, Takes(r)
        PROVE  Overlap(r)
    <2> SUFFICES ASSUME ~Overlap(r) PROVE FALSE
      OBVIOUS
    <2>1. todo \in [Requests -> Remembered] /\ role \in [Users -> Roles \cup {"none"}]
      BY <1>1, Split DEF AccessInv, TablesOK
    <2>2. todo[r] # Idle
      BY <1>1 DEF Idle
    <2> DEFINE u == Target(r)
    <2>3. u \in Users /\ todo[r].target = {u}
      BY <1>1, <2>2, TargetIs
    <2>4. RequestOK(todo[r], accounts)
      BY <1>1 DEF AccessInv, RequestsInv
    <2>5. role' # role
      BY <1>1 DEF Admins
    <2>6. WriteRole(r) \/ DeleteRole(r)
      <3>1. PICK s \in Requests : AssignRole(s) \/ InviteRole(s) \/ WriteRole(s)
                                    \/ DeleteRole(s)
        BY <1>1, <2>5 DEF AccessNext, accessVars, usersTable, RequestStep, Login,
              Refresh, Logout, AccessExpires, Register, Bootstrap, Remove, Invite,
              Change, ChangeIf, RequestCut, CreateUser, InviteUser, CountAdmins
      <3>2. End(s)
        BY <3>1 DEF AssignRole, InviteRole, WriteRole, DeleteRole
      <3>3. s = r
        BY <1>1, <2>1, <2>2, <3>2 DEF End
      <3>4. ~AssignRole(r) /\ ~InviteRole(r)
        BY <1>1 DEF AssignRole, InviteRole, At
      <3> QED BY <3>1, <3>3, <3>4, SMTT(30)
    <2> HIDE DEF u
    <2>7. \A x \in Users \ {u} : role'[x] = role[x]
      BY <2>1, <2>6 DEF WriteRole, DeleteRole, u
    <2>8. CASE todo[r].others # {}
      <3>1. PICK x \in todo[r].others : x \in Admins
        BY <2>8
      <3>2. x \in Users \ {u}
        BY <2>3, <2>4, <3>1 DEF RequestOK, Admins
      <3>3. x \in Admins'
        BY <2>7, <3>1, <3>2 DEF Admins
      <3> QED BY <1>1, <3>3
    <2>9. CASE todo[r].others = {}
      <3>1. WriteRole(r) /\ todo[r].to = "admin"
        BY <1>1, <2>4, <2>6, <2>9 DEF RequestOK, WriteRole, DeleteRole, At
      <3>2. PICK x \in Users : role[x] = "admin"
        BY <1>1 DEF Admins
      <3>3. role'[x] = "admin"
        BY <2>1, <3>1, <3>2 DEF WriteRole
      <3> QED BY <1>1, <3>2, <3>3 DEF Admins
    <2> QED BY <2>8, <2>9
  <1>2. AccessInv /\ [AccessNext]_accessVars
            => [\A r \in Requests :
                   /\ todo[r].kind \in {"change", "remove"} /\ todo[r].step = "writing"
                   /\ todo'[r] = Idle /\ Admins # {} /\ Admins' = {}
                   => \/ todo[r].others # {} /\ todo[r].others \cap Admins = {}
                      \/ todo[r].kind = "remove" /\ todo[r].seen # "admin"]_accessVars
    BY <1>1
  <1> QED BY AccessInvariant, <1>2, PTL DEF AccessSpec, LastAdminNeedsOverlap

-----------------------------------------------------------------------------
(* Sign-ins that fail: an account counts exactly while passwords do not    *)
(* overlap and no write is lost, and no address fails more often than its  *)
(* limit and the requests it had under way at once allow.                  *)

AttemptStages == {"none", "reading", "comparing", "writing"}
AttemptKinds == {"account", "nobody", "code"}
Attempts ==
    [at: AttemptStages, of: AttemptKinds, right: BOOLEAN, seen: 0 .. LockAfter,
     from: Addresses]

CountsTyped ==
    /\ failures \in 0 .. LockAfter /\ inRow \in 0 .. LockAfter
    /\ locked \in BOOLEAN /\ mfa \in BOOLEAN /\ token \in BOOLEAN
    /\ disturbed \in BOOLEAN /\ waited \in BOOLEAN
    /\ tries \in [Addresses -> Nat] /\ attempt \in [SignIns -> Attempts]
    /\ \A s \in SignIns : attempt[s].at \in {"comparing", "writing"} => attempt[s].of = "account"

(* What an address has counted and may still count, against its limit and  *)
(* the most it had under way at once.                                      *)
AddressBounded(a) ==
    /\ peak[a] \in Nat /\ Cardinality(Uncounted(a)) <= peak[a]
    /\ tries[a] + Cardinality(Uncounted(a)) < LockAfter + peak[a]

(* While passwords do not overlap, the one under way has read the count as *)
(* it is, and what it is about to write is the count there should be.      *)
Settled ==
    /\ failures = inRow
    /\ inRow = LockAfter => locked \/ waited

LoneSignIn ==
    /\ \A s, r \in Trying : s = r
    /\ (\A s \in SignIns : attempt[s].at # "writing") => Settled
    /\ \A s \in SignIns : attempt[s].at = "comparing" => attempt[s].seen = failures
    /\ \A s \in SignIns : attempt[s].at = "writing" =>
          inRow = IF attempt[s].right THEN 0 ELSE CountUp(attempt[s].seen)

LockoutInv ==
    /\ CountsTyped
    /\ ~disturbed => LoneSignIn
    /\ peak \in [Addresses -> Nat]
    /\ \A a \in Addresses : AddressBounded(a)

-----------------------------------------------------------------------------
(* The counts.                                                             *)

LEMMA CountUpTypes ==
    ASSUME NEW n \in 0 .. LockAfter
    PROVE  /\ CountUp(n) \in 0 .. LockAfter
           /\ CountUp(n) = LockAfter => Locks(n + 1)
  BY LockoutAssumption DEF CountUp, Locks

LEMMA NoAttemptTypes ==
    NoAttempt \in Attempts /\ NoAttempt.at = "none" /\ NoAttempt.of = "account"
  <1>1. (CHOOSE a \in Addresses : TRUE) \in Addresses
    BY LockoutAssumption
  <1>2. 0 \in 0 .. LockAfter
    BY LockoutAssumption
  <1> QED BY <1>1, <1>2 DEF NoAttempt, Attempts, AttemptStages, AttemptKinds

LEMMA UncountedFinite ==
    ASSUME NEW a
    PROVE  IsFiniteSet(Uncounted(a)) /\ Cardinality(Uncounted(a)) \in Nat
  <1>1. IsFiniteSet(SignIns) /\ Uncounted(a) \subseteq SignIns
    BY LockoutAssumption DEF Uncounted
  <1> QED BY <1>1, FS_Subset, FS_CardinalityType

LEMMA UncountedFiniteNext ==
    ASSUME NEW a
    PROVE  IsFiniteSet(Uncounted(a)') /\ Cardinality(Uncounted(a)') \in Nat
  <1>1. IsFiniteSet(SignIns) /\ Uncounted(a)' \subseteq SignIns
    BY LockoutAssumption DEF Uncounted
  <1> QED BY <1>1, FS_Subset, FS_CardinalityType

(* The history of the overlap is at least what is under way, and starts    *)
(* again with each count.                                                  *)
LEMMA PeakIs ==
    ASSUME peak \in [Addresses -> Nat], PeaksFollow, NEW a \in Addresses
    PROVE  /\ peak' \in [Addresses -> Nat]
           /\ peak'[a] \in Nat /\ Cardinality(Uncounted(a)') <= peak'[a]
           /\ tries'[a] = 0 \/ peak[a] <= peak'[a]
  <1>1. \A b \in Addresses : Cardinality(Uncounted(b)') \in Nat
    BY UncountedFiniteNext
  <1>2. \A b \in Addresses : peak'[b] =
            IF tries'[b] = 0 \/ peak[b] < Cardinality(Uncounted(b)')
            THEN Cardinality(Uncounted(b)') ELSE peak[b]
    BY DEF PeaksFollow
  <1>3. /\ peak' = [b \in Addresses |-> peak'[b]]
        /\ \A b \in Addresses : peak'[b] \in Nat
    BY <1>1, <1>2 DEF PeaksFollow
  <1>4. peak' \in [Addresses -> Nat]
    BY <1>3
  <1> QED BY <1>1, <1>2, <1>4

(* What a step has to do to an address for its bound to hold: admit below  *)
(* the limit, count no more than it admitted before, or start again.       *)
LEMMA BoundKept ==
    ASSUME LockoutInv, CountsTyped', PeaksFollow, NEW a \in Addresses,
           \/ tries'[a] = 0
           \/ tries'[a] < LockAfter
           \/ tries'[a] + Cardinality(Uncounted(a)') <= tries[a] + Cardinality(Uncounted(a))
    PROVE  AddressBounded(a)'
  <1>1. /\ tries[a] \in Nat /\ tries'[a] \in Nat /\ peak[a] \in Nat
        /\ tries[a] + Cardinality(Uncounted(a)) < LockAfter + peak[a]
    BY DEF LockoutInv, CountsTyped, AddressBounded
  <1>2. /\ peak'[a] \in Nat /\ Cardinality(Uncounted(a)') <= peak'[a]
        /\ tries'[a] = 0 \/ peak[a] <= peak'[a]
    BY PeakIs DEF LockoutInv
  <1>3. /\ Cardinality(Uncounted(a)) \in Nat /\ Cardinality(Uncounted(a)') \in Nat
        /\ LockAfter \in Nat \ {0}
    BY UncountedFinite, UncountedFiniteNext, LockoutAssumption
  <1>4. tries'[a] + Cardinality(Uncounted(a)') < LockAfter + peak'[a]
    BY <1>1, <1>2, <1>3
  <1> QED BY <1>2, <1>4 DEF AddressBounded

LEMMA LockoutInitInv == LockoutInit => LockoutInv
  <1> SUFFICES ASSUME LockoutInit PROVE LockoutInv
    OBVIOUS
  <1>1. 0 \in 0 .. LockAfter /\ 0 <= LockAfter /\ LockAfter # 0 /\ LockAfter \in Nat
    BY LockoutAssumption
  <1>2. /\ attempt \in [SignIns -> Attempts] /\ tries \in [Addresses -> Nat]
        /\ \A s \in SignIns : attempt[s].at = "none"
    BY NoAttemptTypes DEF LockoutInit
  <1>3. CountsTyped
    BY <1>1, <1>2 DEF CountsTyped, LockoutInit
  <1>4. LoneSignIn
    BY <1>1, <1>2 DEF LoneSignIn, Trying, Settled, LockoutInit
  <1>5. ASSUME NEW a \in Addresses PROVE AddressBounded(a)
    <2>1. Uncounted(a) = {}
      BY <1>2 DEF Uncounted
    <2>2. Cardinality(Uncounted(a)) = 0
      BY <2>1, FS_EmptySet
    <2> QED BY <1>1, <2>2 DEF AddressBounded, LockoutInit
  <1>6. peak \in [Addresses -> Nat]
    BY DEF LockoutInit
  <1> QED BY <1>3, <1>4, <1>5, <1>6 DEF LockoutInv
-----------------------------------------------------------------------------
(* Types, of every step.                                                   *)

LEMMA LockoutStepTypes ==
    ASSUME CountsTyped, LockoutNext
    PROVE  CountsTyped'
  <1>0. /\ \A s \in SignIns : /\ attempt[s] \in Attempts /\ attempt[s].at \in AttemptStages
                              /\ attempt[s].from \in Addresses
                              /\ attempt[s].right \in BOOLEAN
                              /\ attempt[s].seen \in 0 .. LockAfter
        /\ attempt \in [SignIns -> Attempts] /\ tries \in [Addresses -> Nat]
        /\ failures \in 0 .. LockAfter /\ inRow \in 0 .. LockAfter
        /\ 0 \in 0 .. LockAfter
        /\ \A s \in SignIns : attempt[s].at \in {"comparing", "writing"} => attempt[s].of = "account"
    BY LockoutAssumption DEF CountsTyped, Attempts
  <1> DEFINE Kinded == \A s \in SignIns :
        attempt'[s].at \in {"comparing", "writing"} => attempt'[s].of = "account"
  <1>1. ASSUME NEW s \in SignIns, attempt[s].at = "comparing", Move(s, "writing")
        PROVE  attempt' \in [SignIns -> Attempts] /\ Kinded
    BY <1>0, <1>1 DEF Move, Attempts, AttemptStages
  <1>2. ASSUME NEW s \in SignIns, Finish(s) PROVE attempt' \in [SignIns -> Attempts] /\ Kinded
    BY <1>0, <1>2, NoAttemptTypes DEF Finish
  <1>3. \A n \in 0 .. LockAfter : CountUp(n) \in 0 .. LockAfter
    BY CountUpTypes
  <1>4. ASSUME NEW s \in SignIns, NEW right \in BOOLEAN, Counts(s, right)
        PROVE  tries' \in [Addresses -> Nat]
    BY <1>0, <1>4 DEF Counts
  <1>5. ASSUME LockRunsOut \/ TokenRunsOut \/ \E a \in Addresses : WindowEnds(a)
        PROVE  CountsTyped'
    <2>1. CASE LockRunsOut \/ TokenRunsOut
      BY <2>1 DEF LockRunsOut, TokenRunsOut, CountsTyped
    <2>2. ASSUME NEW a \in Addresses, WindowEnds(a) PROVE CountsTyped'
      <3>1. tries' \in [Addresses -> Nat]
        BY <1>0, <2>2 DEF WindowEnds
      <3> QED BY <2>2, <3>1 DEF WindowEnds, CountsTyped
    <2> QED BY <1>5, <2>1, <2>2
  <1>6. ASSUME NEW s \in SignIns, NEW a \in Addresses, NEW of \in AttemptKinds,
               NEW right \in BOOLEAN, Attempt(s, a, of, right)
        PROVE  CountsTyped'
    <2> DEFINE new == [NoAttempt EXCEPT !.at = "reading", !.of = of, !.from = a, !.right = right]
    <2>1. new \in Attempts /\ new.at = "reading"
      BY NoAttemptTypes DEF Attempts, AttemptStages
    <2>2. attempt' = [attempt EXCEPT ![s] = new]
      BY <1>6 DEF Attempt
    <2> HIDE DEF new
    <2>3. attempt' \in [SignIns -> Attempts] /\ Kinded
      BY <1>0, <2>1, <2>2
    <2>4. disturbed' \in BOOLEAN
      BY <1>6 DEF Attempt
    <2> QED BY <1>6, <2>3, <2>4 DEF Attempt, CountsTyped
  <1>7. ASSUME NEW s \in SignIns, ReadAccount(s) PROVE CountsTyped'
    <2>1. [attempt[s] EXCEPT !.at = "comparing", !.seen = failures] \in Attempts
      BY <1>0 DEF Attempts, AttemptStages
    <2>2. attempt' \in [SignIns -> Attempts] /\ Kinded
      <3>1. CASE locked
        BY <1>2, <1>7, <3>1 DEF ReadAccount
      <3>2. CASE ~locked
        <4>1. /\ attempt' = [attempt EXCEPT ![s] =
                     [attempt[s] EXCEPT !.at = "comparing", !.seen = failures]]
              /\ attempt[s].of = "account"
          BY <1>0, <1>7, <3>2 DEF ReadAccount
        <4>2. attempt'[s].of = "account"
          BY <1>0, <4>1 DEF Attempts
        <4> QED BY <1>0, <2>1, <4>1, <4>2
      <3> QED BY <3>1, <3>2
    <2> QED BY <1>7, <2>2 DEF ReadAccount, CountsTyped
  <1>8. ASSUME NEW s \in SignIns, Compare(s) PROVE CountsTyped'
    <2>1. attempt' \in [SignIns -> Attempts] /\ Kinded
      BY <1>1, <1>8 DEF Compare
    <2>2. tries' \in [Addresses -> Nat]
      BY <1>0, <1>4, <1>8 DEF Compare
    <2>3. inRow' \in 0 .. LockAfter
      BY <1>0, <1>3, <1>8 DEF Compare
    <2>4. (waited /\ ~attempt[s].right) \in BOOLEAN
      OBVIOUS
    <2> QED BY <1>8, <2>1, <2>2, <2>3, <2>4 DEF Compare, CountsTyped
  <1>9. ASSUME NEW s \in SignIns, WriteFailure(s) PROVE CountsTyped'
    <2>1. failures' \in 0 .. LockAfter
      BY <1>0, <1>3, <1>9 DEF WriteFailure
    <2>2. Locks(attempt[s].seen + 1) \in BOOLEAN
      BY DEF Locks
    <2> QED BY <1>2, <1>9, <2>1, <2>2 DEF WriteFailure, CountsTyped
  <1>10. ASSUME NEW s \in SignIns, WriteSuccess(s) PROVE CountsTyped'
    <2>1. attempt' \in [SignIns -> Attempts] /\ Kinded
      BY <1>2, <1>10 DEF WriteSuccess
    <2>2. token' \in BOOLEAN /\ disturbed' \in BOOLEAN
      BY <1>10 DEF WriteSuccess
    <2> QED BY <1>0, <1>10, <2>1, <2>2 DEF WriteSuccess, CountsTyped
  <1>11. ASSUME NEW s \in SignIns, FindNobody(s) \/ CheckCode(s) PROVE CountsTyped'
    <2>1. attempt' \in [SignIns -> Attempts] /\ Kinded
      BY <1>2, <1>11 DEF FindNobody, CheckCode
    <2>2. tries' \in [Addresses -> Nat]
      BY <1>0, <1>4, <1>11 DEF FindNobody, CheckCode
    <2> QED BY <1>11, <2>1, <2>2 DEF FindNobody, CheckCode, CountsTyped
  <1>12. ASSUME NEW s \in SignIns, RequestThrows(s) PROVE CountsTyped'
    <2>1. disturbed' \in BOOLEAN
      BY <1>12 DEF RequestThrows
    <2> QED BY <1>2, <1>12, <2>1 DEF RequestThrows, CountsTyped
  <1> QED
    BY <1>5, <1>6, <1>7, <1>8, <1>9, <1>10, <1>11, <1>12
       DEF LockoutNext, SignInStep, AttemptKinds

-----------------------------------------------------------------------------
(* The bound of an address.                                                *)

LEMMA LockoutStepBounded ==
    ASSUME LockoutInv, CountsTyped', LockoutNext, NEW a \in Addresses
    PROVE  AddressBounded(a)'
  <1>0. /\ tries[a] \in Nat /\ tries'[a] \in Nat
        /\ attempt \in [SignIns -> Attempts] /\ attempt' \in [SignIns -> Attempts]
        /\ tries \in [Addresses -> Nat]
        /\ \A s \in SignIns : attempt[s] \in Attempts /\ attempt[s].from \in Addresses
        /\ PeaksFollow
    BY DEF LockoutInv, CountsTyped, Attempts, LockoutNext
  <1>c. /\ IsFiniteSet(Uncounted(a)) /\ Cardinality(Uncounted(a)) \in Nat
        /\ Cardinality(Uncounted(a)') \in Nat
    BY UncountedFinite, UncountedFiniteNext
  <1>1. ASSUME tries'[a] = tries[a], Uncounted(a)' \subseteq Uncounted(a)
        PROVE  AddressBounded(a)'
    <2>1. Cardinality(Uncounted(a)') <= Cardinality(Uncounted(a))
      BY <1>1, <1>c, FS_Subset
    <2> QED BY <1>0, <1>1, <1>c, <2>1, BoundKept
  <1>2. ASSUME NEW s \in SignIns, Finish(s)
        PROVE  Uncounted(a)' = Uncounted(a) \ {s}
    <2>1. attempt'[s].at = "none" /\ \A r \in SignIns \ {s} : attempt'[r] = attempt[r]
      BY <1>0, <1>2, NoAttemptTypes DEF Finish
    <2> QED BY <2>1 DEF Uncounted
  <1>3. ASSUME NEW s \in SignIns, Move(s, "writing")
        PROVE  Uncounted(a)' = Uncounted(a) \ {s}
    <2>1. attempt'[s].at = "writing" /\ \A r \in SignIns \ {s} : attempt'[r] = attempt[r]
      BY <1>0, <1>3 DEF Move, Attempts
    <2> QED BY <2>1 DEF Uncounted
  <1>4. ASSUME NEW s \in SignIns, NEW right \in BOOLEAN, Counts(s, right),
               attempt[s].at \in {"reading", "comparing"},
               Uncounted(a)' = Uncounted(a) \ {s}
        PROVE  AddressBounded(a)'
    <2>1. CASE attempt[s].from # a
      BY <1>0, <1>1, <1>4, <2>1 DEF Counts
    <2>2. CASE attempt[s].from = a
      <3>1. s \in Uncounted(a)
        BY <1>4, <2>2 DEF Uncounted
      <3>2. Cardinality(Uncounted(a)') = Cardinality(Uncounted(a)) - 1
        BY <1>4, <1>c, <3>1, FS_RemoveElement
      <3>3. tries'[a] = 0 \/ tries'[a] = tries[a] + 1
        BY <1>0, <1>4, <2>2 DEF Counts
      <3>4. \/ tries'[a] = 0
            \/ tries'[a] + Cardinality(Uncounted(a)') <= tries[a] + Cardinality(Uncounted(a))
        BY <1>0, <1>c, <3>2, <3>3
      <3> QED BY <1>0, <3>4, BoundKept
    <2> QED BY <2>1, <2>2
  <1>5. CASE LockRunsOut \/ TokenRunsOut
    BY <1>1, <1>5 DEF LockRunsOut, TokenRunsOut, Uncounted
  <1>6. ASSUME NEW b \in Addresses, WindowEnds(b) PROVE AddressBounded(a)'
    <2>1. CASE b = a
      BY <1>0, <1>6, <2>1, BoundKept DEF WindowEnds
    <2>2. CASE b # a
      BY <1>0, <1>1, <1>6, <2>2 DEF WindowEnds, Uncounted
    <2> QED BY <2>1, <2>2
  <1>7. ASSUME NEW s \in SignIns, NEW b \in Addresses, NEW of \in AttemptKinds,
               NEW right \in BOOLEAN, Attempt(s, b, of, right)
        PROVE  AddressBounded(a)'
    <2>1. tries' = tries /\ tries[b] < LockAfter
      BY <1>7 DEF Attempt, Admits
    <2>2. CASE b = a
      BY <1>0, <2>1, <2>2, BoundKept
    <2>3. CASE b # a
      <3> DEFINE new == [NoAttempt EXCEPT !.at = "reading", !.of = of, !.from = b, !.right = right]
      <3>0. attempt' = [attempt EXCEPT ![s] = new] /\ new.from = b
        BY <1>7, NoAttemptTypes DEF Attempt, Attempts
      <3> HIDE DEF new
      <3>1. attempt'[s].from = b /\ \A r \in SignIns \ {s} : attempt'[r] = attempt[r]
        BY <1>0, <3>0
      <3>2. Uncounted(a)' \subseteq Uncounted(a)
        BY <2>3, <3>1 DEF Uncounted
      <3> QED BY <1>1, <2>1, <3>2
    <2> QED BY <2>2, <2>3
  <1>8. ASSUME NEW s \in SignIns, ReadAccount(s) PROVE AddressBounded(a)'
    <2>1. tries' = tries
      BY <1>8 DEF ReadAccount
    <2>2. CASE locked
      BY <1>1, <1>2, <1>8, <2>1, <2>2 DEF ReadAccount
    <2>3. CASE ~locked
      <3>1. /\ attempt[s].at = "reading" /\ attempt'[s].from = attempt[s].from
            /\ \A r \in SignIns \ {s} : attempt'[r] = attempt[r]
        BY <1>0, <1>8, <2>3 DEF ReadAccount, Attempts
      <3>2. Uncounted(a)' \subseteq Uncounted(a)
        BY <3>1 DEF Uncounted
      <3> QED BY <1>1, <2>1, <3>2
    <2> QED BY <2>2, <2>3
  <1>9. ASSUME NEW s \in SignIns, Compare(s) PROVE AddressBounded(a)'
    <2>1. Counts(s, attempt[s].right) /\ attempt[s].right \in BOOLEAN
      BY <1>0, <1>9 DEF Compare, Attempts
    <2> QED BY <1>3, <1>4, <1>9, <2>1 DEF Compare
  <1>10. ASSUME NEW s \in SignIns, FindNobody(s) \/ CheckCode(s) PROVE AddressBounded(a)'
    <2>1. \E right \in BOOLEAN : Counts(s, right)
      BY <1>0, <1>10 DEF FindNobody, CheckCode, Attempts
    <2>2. Finish(s) /\ attempt[s].at = "reading"
      BY <1>10 DEF FindNobody, CheckCode
    <2> QED BY <1>2, <1>4, <2>1, <2>2
  <1>11. ASSUME NEW s \in SignIns, WriteFailure(s) \/ WriteSuccess(s) \/ RequestThrows(s)
         PROVE  AddressBounded(a)'
    <2>1. tries' = tries /\ Finish(s)
      BY <1>11 DEF WriteFailure, WriteSuccess, RequestThrows
    <2> QED BY <1>1, <1>2, <2>1
  <1> QED
    BY <1>5, <1>6, <1>7, <1>8, <1>9, <1>10, <1>11 DEF LockoutNext, SignInStep, AttemptKinds

-----------------------------------------------------------------------------
(* Passwords that do not overlap.                                          *)

(* What holds before a step of a password that is the only one.            *)
LEMMA OnlyOne ==
    ASSUME CountsTyped, LoneSignIn, NEW s \in SignIns, attempt[s].at # "none",
           attempt[s].of = "account"
    PROVE  /\ \A r \in SignIns \ {s} : attempt[r].at \notin {"comparing", "writing"}
           /\ \A r \in SignIns \ {s} : attempt[r].at = "none" \/ attempt[r].of # "account"
           /\ attempt[s].at # "writing" => Settled
  BY DEF LoneSignIn, Trying, CountsTyped

(* A step after which no password but s is under way.                      *)
LEMMA AloneAfter ==
    ASSUME CountsTyped', NEW s \in SignIns,
           \A r \in SignIns \ {s} : attempt'[r].at = "none" \/ attempt'[r].of # "account",
           attempt'[s].at # "writing" => Settled',
           attempt'[s].at = "comparing" => attempt'[s].seen = failures',
           attempt'[s].at = "writing" =>
               inRow' = IF attempt'[s].right THEN 0 ELSE CountUp(attempt'[s].seen)
    PROVE  LoneSignIn'
  BY DEF LoneSignIn, Trying, CountsTyped

LEMMA LockoutStepAlone ==
    ASSUME CountsTyped, CountsTyped', ~disturbed => LoneSignIn, LockoutNext, ~disturbed'
    PROVE  LoneSignIn'
  <1>0. /\ attempt \in [SignIns -> Attempts] /\ \A s \in SignIns : attempt[s] \in Attempts
        /\ \A s \in SignIns : attempt[s].right \in BOOLEAN /\ attempt[s].seen \in 0 .. LockAfter
        /\ 0 # LockAfter
        /\ \A s \in SignIns : attempt[s].at \in {"comparing", "writing"} => attempt[s].of = "account"
    BY LockoutAssumption DEF CountsTyped, Attempts
  <1>1. ASSUME NEW s \in SignIns, Finish(s)
        PROVE  attempt'[s].at = "none" /\ \A r \in SignIns \ {s} : attempt'[r] = attempt[r]
    BY <1>0, <1>1, NoAttemptTypes DEF Finish
  <1>3. CASE LockRunsOut
    <2>1. LoneSignIn
      BY <1>3 DEF LockRunsOut
    <2> QED BY <1>3, <2>1 DEF LockRunsOut, LoneSignIn, Trying, Settled
  <1>4. ASSUME LoneSignIn, UNCHANGED <<failures, locked, attempt, inRow, waited>> PROVE LoneSignIn'
    BY <1>4 DEF LoneSignIn, Trying, Settled
  <1>5. ASSUME TokenRunsOut \/ \E a \in Addresses : WindowEnds(a) PROVE LoneSignIn'
    BY <1>4, <1>5 DEF TokenRunsOut, WindowEnds
  <1>6. ASSUME NEW s \in SignIns, attempt[s].at # "writing", Finish(s), LoneSignIn,
               UNCHANGED <<failures, locked, inRow, waited>>
        PROVE  LoneSignIn'
    <2>1. /\ \A r \in SignIns : attempt'[r] = attempt[r] \/ (r = s /\ attempt'[r].at = "none")
          /\ Trying' \subseteq Trying
      BY <1>1, <1>6 DEF Trying
    <2>2. \A r \in SignIns : attempt[r].at = "writing" => attempt'[r].at = "writing"
      BY <1>6, <2>1
    <2> QED BY <1>6, <2>1, <2>2 DEF LoneSignIn, Settled
  <1>7. ASSUME NEW s \in SignIns, FindNobody(s) \/ CheckCode(s) PROVE LoneSignIn'
    BY <1>6, <1>7 DEF FindNobody, CheckCode
  <1>8. ASSUME NEW s \in SignIns, RequestThrows(s) PROVE LoneSignIn'
    BY <1>6, <1>8 DEF RequestThrows
  <1>9. ASSUME NEW s \in SignIns, NEW a \in Addresses, NEW of \in AttemptKinds,
               NEW right \in BOOLEAN, Attempt(s, a, of, right)
        PROVE  LoneSignIn'
    <2> DEFINE new == [NoAttempt EXCEPT !.at = "reading", !.of = of, !.from = a, !.right = right]
    <2>0. attempt' = [attempt EXCEPT ![s] = new] /\ new.at = "reading" /\ new.of = of
      BY <1>9, NoAttemptTypes DEF Attempt, Attempts
    <2> HIDE DEF new
    <2>1. LoneSignIn /\ attempt[s].at = "none"
      BY <1>9 DEF Attempt
    <2>2. /\ attempt'[s].at = "reading" /\ attempt'[s].of = of
          /\ \A r \in SignIns \ {s} : attempt'[r] = attempt[r]
      BY <1>0, <2>0
    <2>3. UNCHANGED <<failures, locked, inRow, waited>>
      BY <1>9 DEF Attempt
    <2>4. \A r \in SignIns : attempt[r].at = "writing" <=> attempt'[r].at = "writing"
      BY <2>1, <2>2
    <2>5. CASE of = "account"
      <3>1. Trying = {}
        BY <1>9, <2>5 DEF Attempt
      <3>2. \A r \in SignIns : attempt[r].at = "none" \/ attempt[r].of # "account"
        BY <3>1 DEF Trying
      <3>3. Settled
        BY <1>0, <2>1, <3>2 DEF LoneSignIn
      <3>4. Settled'
        BY <2>3, <3>3 DEF Settled
      <3> QED BY <2>2, <3>2, <3>4, AloneAfter
    <2>6. CASE of # "account"
      <3>1. Trying' \subseteq Trying
        BY <2>2, <2>6 DEF Trying
      <3> QED BY <2>1, <2>2, <2>3, <2>4, <3>1 DEF LoneSignIn, Settled
    <2> QED BY <2>5, <2>6
  <1>11. ASSUME NEW s \in SignIns, ReadAccount(s) PROVE LoneSignIn'
    <2>1. LoneSignIn /\ attempt[s].at = "reading" /\ attempt[s].of = "account"
      BY <1>11 DEF ReadAccount
    <2>2. /\ Settled
          /\ \A r \in SignIns \ {s} : attempt[r].at = "none" \/ attempt[r].of # "account"
      BY <2>1, OnlyOne
    <2>3. Settled'
      BY <1>11, <2>2 DEF ReadAccount, Settled
    <2>4. /\ \A r \in SignIns \ {s} : attempt'[r] = attempt[r]
          /\ attempt'[s].at \in {"none", "comparing"}
          /\ attempt'[s].at = "comparing" => attempt'[s].seen = failures'
      <3>1. CASE locked
        BY <1>1, <1>11, <3>1 DEF ReadAccount
      <3>2. CASE ~locked
        BY <1>0, <1>11, <3>2 DEF ReadAccount, Attempts
      <3> QED BY <3>1, <3>2
    <2> QED BY <2>2, <2>3, <2>4, AloneAfter
  <1>12. ASSUME NEW s \in SignIns, Compare(s) PROVE LoneSignIn'
    <2>1. LoneSignIn /\ attempt[s].at = "comparing" /\ attempt[s].seen = failures
      BY <1>12 DEF Compare, LoneSignIn
    <2>2. /\ failures = inRow
          /\ \A r \in SignIns \ {s} : attempt[r].at = "none" \/ attempt[r].of # "account"
      BY <1>0, <2>1, OnlyOne DEF Settled
    <2>3. /\ attempt'[s].at = "writing" /\ attempt'[s].right = attempt[s].right
          /\ attempt'[s].seen = attempt[s].seen
          /\ \A r \in SignIns \ {s} : attempt'[r] = attempt[r]
      BY <1>0, <1>12 DEF Compare, Move, Attempts
    <2>4. inRow' = IF attempt'[s].right THEN 0 ELSE CountUp(attempt'[s].seen)
      BY <1>12, <2>1, <2>2, <2>3 DEF Compare
    <2> QED BY <2>2, <2>3, <2>4, AloneAfter
  <1>13. ASSUME NEW s \in SignIns, WriteFailure(s) PROVE LoneSignIn'
    <2>1. LoneSignIn /\ attempt[s].at = "writing" /\ ~attempt[s].right
      BY <1>13 DEF WriteFailure
    <2>2. /\ inRow = CountUp(attempt[s].seen)
          /\ \A r \in SignIns \ {s} : attempt[r].at = "none" \/ attempt[r].of # "account"
      BY <1>0, <2>1, OnlyOne DEF LoneSignIn
    <2>3. Settled'
      BY <1>0, <1>13, <2>2, CountUpTypes DEF WriteFailure, Settled
    <2>4. attempt'[s].at = "none" /\ \A r \in SignIns \ {s} : attempt'[r] = attempt[r]
      BY <1>1, <1>13 DEF WriteFailure
    <2> QED BY <2>2, <2>3, <2>4, AloneAfter
  <1>14. ASSUME NEW s \in SignIns, WriteSuccess(s) PROVE LoneSignIn'
    <2>0. attempt[s].at = "writing" /\ attempt[s].right /\ attempt[s].of = "account"
      BY <1>0, <1>14 DEF WriteSuccess
    <2>1. inRow = 0 /\ \A r \in SignIns \ {s} : attempt[r].at = "none" \/ attempt[r].of # "account"
      <3>1. CASE disturbed
        <4>1. Trying = {s} /\ inRow = 0
          BY <1>14, <3>1 DEF WriteSuccess
        <4> QED BY <4>1 DEF Trying
      <3>2. CASE ~disturbed
        BY <2>0, <3>2, OnlyOne DEF LoneSignIn
      <3> QED BY <3>1, <3>2
    <2>3. Settled'
      BY <1>0, <1>14, <2>1 DEF WriteSuccess, Settled
    <2>4. attempt'[s].at = "none" /\ \A r \in SignIns \ {s} : attempt'[r] = attempt[r]
      BY <1>1, <1>14 DEF WriteSuccess
    <2> QED BY <2>1, <2>3, <2>4, AloneAfter
  <1> QED
    BY <1>3, <1>5, <1>7, <1>8, <1>9, <1>11, <1>12, <1>13, <1>14
       DEF LockoutNext, SignInStep, AttemptKinds

-----------------------------------------------------------------------------
LEMMA LockoutStep == LockoutInv /\ [LockoutNext]_lockoutVars => LockoutInv'
  <1>1. ASSUME LockoutInv, LockoutNext PROVE LockoutInv'
    <2>1. CountsTyped'
      BY <1>1, LockoutStepTypes DEF LockoutInv
    <2>2. \A a \in Addresses : AddressBounded(a)'
      BY <1>1, <2>1, LockoutStepBounded
    <2>3. ~disturbed' => LoneSignIn'
      BY <1>1, <2>1, LockoutStepAlone DEF LockoutInv
    <2>4. peak' \in [Addresses -> Nat]
      BY <1>1, PeakIs, LockoutAssumption DEF LockoutInv, LockoutNext
    <2> QED BY <2>1, <2>2, <2>3, <2>4 DEF LockoutInv
  <1>2. ASSUME LockoutInv, UNCHANGED lockoutVars PROVE LockoutInv'
    BY <1>2 DEF LockoutInv, lockoutVars, CountsTyped, LoneSignIn, Trying, Settled,
                AddressBounded, Uncounted
  <1> QED BY <1>1, <1>2

LEMMA LockoutInvariant == LockoutSpec => []LockoutInv
  BY LockoutInitInv, LockoutStep, PTL DEF LockoutSpec

(* The columns of an account and the requests under way keep their types   *)
(* (schema.sql:21-45, plugin.ts:145-190).                                  *)
THEOREM LockoutTypes == LockoutSpec => []LockoutTypeOK
  <1>1. LockoutInv => LockoutTypeOK
    BY DEF LockoutInv, CountsTyped, LockoutTypeOK, Attempts, AttemptStages, AttemptKinds
  <1> QED BY <1>1, LockoutInvariant, PTL

(* While passwords do not overlap and no write is lost, an account counts  *)
(* the wrong ones since the last right one and is locked from the limit on,*)
(* until the lock runs out; and an address fails as often as its limit and *)
(* the most requests it had under way at once allow, and no more, however  *)
(* its passwords, unknown accounts and codes overlap                       *)
(* (plugin.ts:145-185, totp.ts:74-139, rate-limiter.ts:30-74).             *)
THEOREM GuessesLimited == LockoutSpec => []GuessesAreLimited
  <1>1. ASSUME LockoutInv PROVE GuessesAreLimited
    <2>1. ASSUME NEW a \in Addresses PROVE tries[a] < LockAfter + peak[a]
      <3>1. /\ tries[a] \in Nat /\ peak[a] \in Nat /\ LockAfter \in Nat
            /\ tries[a] + Cardinality(Uncounted(a)) < LockAfter + peak[a]
        BY <1>1, LockoutAssumption DEF LockoutInv, CountsTyped, AddressBounded
      <3> QED BY <3>1, UncountedFinite
    <2>2. (Trying = {} /\ ~disturbed) => Settled
      BY <1>1 DEF LockoutInv, LoneSignIn, Trying, CountsTyped
    <2> QED BY <2>1, <2>2 DEF GuessesAreLimited, Settled
  <1> QED BY <1>1, LockoutInvariant, PTL

-----------------------------------------------------------------------------
(* What the pages show.                                                    *)

TabRecords ==
    [page: {"shut", "login", "app"}, shows: People \cup {Nobody},
     first: People \cup {Nobody, "no"}, setup: BOOLEAN,
     form: {"idle", "posting", "code", "asking"}, person: People \cup {Nobody}]

(* The form is filled in on the sign-in page, for somebody.                *)
FormOK(it) ==
    /\ it.page = "shut" => it.first = "no" /\ it.form = "idle"
    /\ it.form \in {"posting", "code"} => it.page = "login"
    /\ it.form # "idle" => it.person # Nobody

(* A tab behind whose back nothing changed: the sign-in that has succeeded *)
(* is the cookie's, and so is the first answer, unless a sign-in came      *)
(* between the question and it.                                            *)
FollowsCookie(it, c, late) ==
    /\ it.form = "asking" => it.person = c
    /\ it.form # "asking" /\ it.first # "no" /\ it.shows = Nobody => it.first = c
    /\ it.page = "app" /\ it.first = "no" /\ it.form = "idle" /\ ~late => it.shows = c

BrowserTypes ==
    /\ cookie \in People \cup {Nobody} /\ founded \in BOOLEAN
    /\ tab \in [Tabs -> TabRecords] /\ moved \subseteq Tabs /\ overtaken \subseteq Tabs

BrowserInv ==
    /\ BrowserTypes
    /\ \A t \in Tabs : FormOK(tab[t])
    /\ \A t \in Tabs \ moved : FollowsCookie(tab[t], cookie, t \in overtaken)

LEMMA ShutTab ==
    /\ Shut \in TabRecords /\ FormOK(Shut)
    /\ \A c, late : FollowsCookie(Shut, c, late)
  BY DEF Shut, TabRecords, FormOK, FollowsCookie, Nobody

LEMMA BrowserInitInv == BrowserInit => BrowserInv
  BY ShutTab DEF BrowserInit, BrowserInv, BrowserTypes

\* A tab takes a step of its own.
LEMMA TabMoves ==
    ASSUME BrowserInv, NEW t \in Tabs, NEW r \in TabRecords, SetTab(t, r),
           FormOK(r), cookie' \in People \cup {Nobody}, founded' \in BOOLEAN,
           \/ UNCHANGED <<cookie, moved>>
           \/ cookie' = cookie /\ moved' = moved \ {t}
           \/ CookieChanges(t, cookie'),
           \/ UNCHANGED overtaken
           \/ overtaken' = overtaken \cup {t}
           \/ overtaken' = overtaken \ {t},
           t \in moved' \/ FollowsCookie(r, cookie', t \in overtaken')
    PROVE  BrowserInv'
  <1>1. tab \in [Tabs -> TabRecords] /\ moved \subseteq Tabs /\ overtaken \subseteq Tabs
    BY DEF BrowserInv, BrowserTypes
  <1>2. tab' \in [Tabs -> TabRecords] /\ tab'[t] = r /\ \A s \in Tabs \ {t} : tab'[s] = tab[s]
    BY <1>1 DEF SetTab
  <1>3. moved' \subseteq Tabs /\ overtaken' \subseteq Tabs
    BY <1>1 DEF CookieChanges, OpenTabs
  <1>4. \A s \in Tabs : FormOK(tab'[s])
    BY <1>2 DEF BrowserInv
  <1>5. ASSUME NEW s \in Tabs \ moved' PROVE FollowsCookie(tab'[s], cookie', s \in overtaken')
    <2>1. CASE s = t
      BY <1>2, <1>5, <2>1
    <2>2. CASE s # t
      <3>1. s \notin moved
        BY <1>5, <2>2 DEF CookieChanges
      <3>2. FollowsCookie(tab[s], cookie, s \in overtaken)
        BY <3>1 DEF BrowserInv
      <3>3. (s \in overtaken') <=> (s \in overtaken)
        BY <2>2
      <3>4. cookie' = cookie \/ tab[s].page = "shut"
        BY <1>5, <2>2 DEF CookieChanges, OpenTabs
      <3>5. tab'[s] = tab[s] /\ FormOK(tab[s])
        BY <1>2, <2>2 DEF BrowserInv
      <3> QED BY <3>2, <3>3, <3>4, <3>5 DEF FollowsCookie, FormOK
    <2> QED BY <2>1, <2>2
  <1>6. BrowserTypes'
    BY <1>2, <1>3 DEF BrowserTypes
  <1> QED BY <1>4, <1>5, <1>6 DEF BrowserInv

LEMMA TabIs ==
    ASSUME BrowserInv, NEW t \in Tabs
    PROVE  /\ tab[t] \in TabRecords /\ FormOK(tab[t])
           /\ t \notin moved => FollowsCookie(tab[t], cookie, t \in overtaken)
           /\ cookie \in People \cup {Nobody} /\ founded \in BOOLEAN
  BY DEF BrowserInv, BrowserTypes

\* A page that loads asks for whoever the cookie is of.
LEMMA Loads ==
    ASSUME NEW at \in {"app", "login"}, NEW who \in People \cup {Nobody},
           founded \in BOOLEAN, NEW late
    PROVE  /\ PageLoad(at, who) \in TabRecords /\ FormOK(PageLoad(at, who))
           /\ FollowsCookie(PageLoad(at, who), who, late)
  <1>1. who # "no"
    BY BrowserAssumption DEF Nobody
  <1> QED BY <1>1 DEF PageLoad, Shut, TabRecords, FormOK, FollowsCookie, Nobody

LEMMA OpenPageStep ==
    ASSUME BrowserInv, NEW t \in Tabs, NEW at \in {"app", "login"}, OpenPage(t, at)
    PROVE  BrowserInv'
  <1>1. /\ PageLoad(at, cookie) \in TabRecords /\ FormOK(PageLoad(at, cookie))
        /\ FollowsCookie(PageLoad(at, cookie), cookie, t \in overtaken)
    BY TabIs, Loads
  <1>2. SetTab(t, PageLoad(at, cookie)) /\ UNCHANGED <<cookie, founded, moved, overtaken>>
    BY DEF OpenPage
  <1> QED BY <1>1, <1>2, TabIs, TabMoves

LEMMA FirstAnswerStep == ASSUME BrowserInv, NEW t \in Tabs, FirstAnswer(t) PROVE BrowserInv'
  <1> DEFINE it == tab[t]
             at == IF it.first = Nobody THEN "login" ELSE it.page
             r == [it EXCEPT !.first = "no", !.shows = it.first, !.page = at]
  <1>1. it.first # "no" /\ SetTab(t, r) /\ UNCHANGED <<cookie, founded, moved>>
    BY DEF FirstAnswer
  <1>2. overtaken' = IF it.shows # Nobody THEN overtaken \cup {t} ELSE overtaken
    BY DEF FirstAnswer
  <1>3. it \in TabRecords /\ FormOK(it)
    BY TabIs
  <1>4. /\ r \in TabRecords /\ r.first = "no" /\ r.shows = it.first /\ r.page = at
        /\ r.form = it.form /\ r.person = it.person
    BY <1>1, <1>3 DEF TabRecords
  <1>5. FormOK(r)
    BY <1>1, <1>3, <1>4 DEF FormOK
  <1>6. t \notin moved => FollowsCookie(r, cookie, t \in overtaken')
    <2> SUFFICES ASSUME t \notin moved PROVE FollowsCookie(r, cookie, t \in overtaken')
      OBVIOUS
    <2>1. FollowsCookie(it, cookie, t \in overtaken)
      BY TabIs
    <2>2. it.shows # Nobody => t \in overtaken'
      BY <1>2, SMTT(30)
    <2> HIDE DEF r, it
    <2> QED BY <1>1, <1>4, <2>1, <2>2 DEF FollowsCookie
  <1> HIDE DEF r
  <1> QED BY <1>1, <1>2, <1>4, <1>5, <1>6, TabIs, TabMoves

\* Steps of the form: none shows anybody else, nor is about the cookie.
LEMMA FormStep ==
    ASSUME BrowserInv, NEW t \in Tabs,
           \/ \E p \in People : SubmitSignIn(t, p) \/ SubmitSetup(t, p)
           \/ SignInRefused(t) \/ AskedForCode(t) \/ BackToLogin(t)
    PROVE  BrowserInv'
  <1> DEFINE it == tab[t]
             r(f, p) == [it EXCEPT !.form = f, !.person = p]
  <1>1. it \in TabRecords /\ FormOK(it)
    BY TabIs, SMTT(30)
  <1>2. /\ UNCHANGED <<cookie, moved, overtaken>> /\ founded' \in BOOLEAN
        /\ \/ UNCHANGED tab
           \/ \E f \in {"idle", "posting", "code"}, p \in People \cup {Nobody} :
                 /\ SetTab(t, r(f, p)) /\ (f = "idle" \/ p # Nobody)
                 /\ it.page = "login" /\ it.form # "asking"
    <2>1. CASE \E p \in People : SubmitSignIn(t, p) \/ SubmitSetup(t, p)
      <3> PICK p \in People : SubmitSignIn(t, p) \/ SubmitSetup(t, p)
        BY <2>1
      <3>1. p # Nobody
        BY BrowserAssumption DEF Nobody
      <3>2. UNCHANGED tab \/ (SetTab(t, r("posting", p)) /\ it.page = "login" /\ it.form # "asking")
        BY DEF SubmitSignIn, SubmitSetup
      <3> QED BY <3>1, <3>2, TabIs DEF SubmitSignIn, SubmitSetup
    <2>2. CASE SignInRefused(t) \/ BackToLogin(t)
      <3>1. SetTab(t, r("idle", Nobody)) /\ it.page = "login" /\ it.form # "asking"
        BY <1>1, <2>2 DEF SignInRefused, BackToLogin, FormOK
      <3> QED BY <2>2, <3>1, TabIs DEF SignInRefused, BackToLogin
    <2>3. CASE AskedForCode(t)
      <3>1. it.form = "posting" /\ SetTab(t, [it EXCEPT !.form = "code"])
        BY <2>3 DEF AskedForCode
      <3>2. r("code", it.person) = [it EXCEPT !.form = "code"]
        BY <1>1 DEF TabRecords
      <3>3. it.person \in People /\ it.person # Nobody /\ it.page = "login"
        BY <1>1, <3>1 DEF FormOK, TabRecords
      <3> QED BY <2>3, <3>1, <3>2, <3>3, TabIs DEF AskedForCode
    <2> QED BY <2>1, <2>2, <2>3
  <1>3. CASE UNCHANGED tab
    BY <1>2, <1>3 DEF BrowserInv, BrowserTypes
  <1>4. ASSUME NEW f \in {"idle", "posting", "code"}, NEW p \in People \cup {Nobody},
               SetTab(t, r(f, p)), f = "idle" \/ p # Nobody, it.page = "login", it.form # "asking"
        PROVE  BrowserInv'
    <2>1. /\ r(f, p) \in TabRecords /\ r(f, p).form = f /\ r(f, p).person = p
          /\ r(f, p).page = it.page /\ r(f, p).first = it.first /\ r(f, p).shows = it.shows
      BY <1>1 DEF TabRecords
    <2>2. FormOK(r(f, p))
      BY <1>4, <2>1 DEF FormOK
    <2>3. t \notin moved => FollowsCookie(r(f, p), cookie, t \in overtaken)
      BY <1>4, <2>1, TabIs DEF FollowsCookie
    <2> HIDE DEF r
    <2> QED BY <1>2, <1>4, <2>1, <2>2, <2>3, TabIs, TabMoves
  <1> QED BY <1>2, <1>3, <1>4

LEMMA SignedInStep == ASSUME BrowserInv, NEW t \in Tabs, SignedIn(t) PROVE BrowserInv'
  <1> DEFINE it == tab[t]
             r == [it EXCEPT !.form = "asking"]
  <1>1. /\ it.form = "posting" /\ SetTab(t, r) /\ CookieChanges(t, it.person)
        /\ founded' \in BOOLEAN /\ UNCHANGED overtaken
    BY DEF SignedIn
  <1>2. it \in TabRecords /\ FormOK(it)
    BY TabIs
  <1>3. /\ r \in TabRecords /\ r.form = "asking" /\ r.person = it.person
        /\ r.page = it.page /\ r.first = it.first /\ r.shows = it.shows
    BY <1>2 DEF TabRecords
  <1>4. FormOK(r)
    BY <1>1, <1>2, <1>3 DEF FormOK
  <1>5. cookie' = it.person /\ cookie' \in People \cup {Nobody}
    BY <1>1, <1>2 DEF CookieChanges, TabRecords
  <1>6. FollowsCookie(r, cookie', t \in overtaken')
    BY <1>3, <1>5 DEF FollowsCookie
  <1> HIDE DEF r
  <1> QED BY <1>1, <1>3, <1>4, <1>5, <1>6, TabMoves

LEMMA RefreshAnswerStep == ASSUME BrowserInv, NEW t \in Tabs, RefreshAnswer(t) PROVE BrowserInv'
  <1> DEFINE it == tab[t]
             r == [it EXCEPT !.form = "idle", !.shows = it.person, !.person = Nobody, !.page = "app"]
  <1>1. it.form = "asking" /\ SetTab(t, r) /\ UNCHANGED <<cookie, founded, moved, overtaken>>
    BY DEF RefreshAnswer
  <1>2. it \in TabRecords /\ FormOK(it)
    BY TabIs
  <1>3. /\ r \in TabRecords /\ r.form = "idle" /\ r.person = Nobody
        /\ r.page = "app" /\ r.first = it.first /\ r.shows = it.person
    BY <1>2 DEF TabRecords
  <1>4. FormOK(r) /\ it.person # Nobody
    BY <1>1, <1>2, <1>3 DEF FormOK
  <1>5. t \notin moved => FollowsCookie(r, cookie, t \in overtaken)
    BY <1>1, <1>3, <1>4, TabIs DEF FollowsCookie
  <1> HIDE DEF r
  <1> QED BY <1>1, <1>3, <1>4, <1>5, TabIs, TabMoves

\* The tab loads its page anew, or is shut.
LEMMA LeavesStep ==
    ASSUME BrowserInv, NEW t \in Tabs, SignOut(t) \/ CallRefused(t) \/ Shuts(t)
    PROVE  BrowserInv'
  <1>1. CASE SignOut(t)
    <2>1. PICK left \in {Nobody, cookie} : CookieChanges(t, left) /\ SetTab(t, PageLoad("login", left))
      BY <1>1 DEF SignOut
    <2>2. cookie' = left /\ left \in People \cup {Nobody}
      BY <2>1, TabIs DEF CookieChanges
    <2>3. overtaken' = overtaken \ {t} /\ founded' \in BOOLEAN
      BY <1>1, TabIs DEF SignOut
    <2>4. /\ PageLoad("login", left) \in TabRecords /\ FormOK(PageLoad("login", left))
          /\ FollowsCookie(PageLoad("login", left), left, t \in overtaken')
      BY <2>2, TabIs, Loads
    <2> QED BY <2>1, <2>2, <2>3, <2>4, TabMoves
  <1>2. CASE CallRefused(t)
    <2>1. /\ SetTab(t, PageLoad("login", Nobody)) /\ cookie' = Nobody /\ cookie' = cookie
          /\ moved' = moved \ {t} /\ overtaken' = overtaken \ {t} /\ founded' \in BOOLEAN
      BY <1>2, TabIs DEF CallRefused
    <2>2. /\ PageLoad("login", Nobody) \in TabRecords /\ FormOK(PageLoad("login", Nobody))
          /\ FollowsCookie(PageLoad("login", Nobody), Nobody, t \in overtaken')
      BY TabIs, Loads
    <2> QED BY <2>1, <2>2, TabMoves
  <1>3. CASE Shuts(t)
    <2>1. /\ SetTab(t, Shut) /\ cookie' = cookie /\ moved' = moved \ {t}
          /\ overtaken' = overtaken \ {t} /\ founded' = founded
      BY <1>3 DEF Shuts
    <2>2. cookie' \in People \cup {Nobody} /\ founded' \in BOOLEAN
      BY <2>1, TabIs
    <2> QED BY <2>1, <2>2, ShutTab, TabMoves
  <1> QED BY <1>1, <1>2, <1>3

LEMMA TokenExpiresStep == ASSUME BrowserInv, TokenExpires PROVE BrowserInv'
  <1>1. cookie' = Nobody /\ moved' = {t \in Tabs : tab[t].page # "shut"} /\ UNCHANGED <<founded, tab, overtaken>>
    BY DEF TokenExpires
  <1>2. ASSUME NEW t \in Tabs \ moved' PROVE FollowsCookie(tab'[t], cookie', t \in overtaken')
    <2>1. tab[t].page = "shut" /\ FormOK(tab[t])
      BY <1>1, <1>2 DEF BrowserInv
    <2> QED BY <1>1, <2>1 DEF FollowsCookie, FormOK
  <1> QED BY <1>1, <1>2 DEF BrowserInv, BrowserTypes

LEMMA BrowserStep == BrowserInv /\ [BrowserNext]_browserVars => BrowserInv'
  <1> SUFFICES ASSUME BrowserInv, [BrowserNext]_browserVars PROVE BrowserInv'
    OBVIOUS
  <1>1. CASE BrowserNext
    BY <1>1, TokenExpiresStep, FirstAnswerStep, FormStep, SignedInStep, RefreshAnswerStep,
       LeavesStep, OpenPageStep DEF BrowserNext
  <1>2. CASE UNCHANGED browserVars
    BY <1>2 DEF browserVars, BrowserInv, BrowserTypes
  <1> QED BY <1>1, <1>2

LEMMA BrowserInvariant == BrowserSpec => []BrowserInv
  BY BrowserInitInv, BrowserStep, PTL DEF BrowserSpec

\* What the pages hold has its type, whoever signs in where.
THEOREM BrowserTypesHold == BrowserSpec => []BrowserTypeOK
  <1>1. BrowserInv => BrowserTypeOK
    BY DEF BrowserInv, BrowserTypes, BrowserTypeOK, TabRecords
  <1> QED BY <1>1, BrowserInvariant, PTL

\* However many tabs sign in and out: a page behind whose back nothing changed shows
\* whoever its requests are made for.
THEOREM PagesShowTheSignedIn == BrowserSpec => []PageShowsTheSignedIn
  <1>1. BrowserInv => PageShowsTheSignedIn
    BY DEF BrowserInv, PageShowsTheSignedIn, FollowsCookie
  <1> QED BY <1>1, BrowserInvariant, PTL

-----------------------------------------------------------------------------
(* The narrowing of one manifest by another, piece by piece.               *)

LEMMA NarrowedTool ==
    ASSUME NEW p \in ToolGrants, NEW c \in ToolGrants
    PROVE  /\ NarrowTool(p, c) \in ToolGrants
           /\ Within(NarrowTool(p, c).limit, p.limit)
           /\ NarrowTool(p, c).listed => p.listed
           /\ NarrowTool(p, c).enabled => p.enabled
           /\ p.approval => NarrowTool(p, c).approval
  <1>1. Smaller(p.limit, c.limit) \in Nat
    BY DEF Smaller, ToolGrants, NoLimit
  <1>2. Within(Smaller(p.limit, c.limit), p.limit)
    BY DEF Smaller, Within, ToolGrants, NoLimit
  <1>3. (IF c.set THEN c.values ELSE p.values) \in SUBSET Values
    BY DEF ToolGrants
  <1>4. /\ (p.listed /\ c.listed) \in BOOLEAN /\ (p.enabled /\ c.enabled) \in BOOLEAN
        /\ (c.set \/ p.set) \in BOOLEAN /\ (p.approval \/ c.approval) \in BOOLEAN
    OBVIOUS
  <1>5. /\ p.listed /\ c.listed => p.listed
        /\ p.enabled /\ c.enabled => p.enabled
        /\ p.approval => (p.approval \/ c.approval)
    OBVIOUS
  <1>6. NarrowTool(p, c) \in ToolGrants
    BY <1>1, <1>3, <1>4 DEF NarrowTool, ToolGrants
  <1>7. /\ NarrowTool(p, c).limit = Smaller(p.limit, c.limit)
        /\ NarrowTool(p, c).listed = (p.listed /\ c.listed)
        /\ NarrowTool(p, c).enabled = (p.enabled /\ c.enabled)
        /\ NarrowTool(p, c).approval = (p.approval \/ c.approval)
    BY DEF NarrowTool
  <1> QED BY <1>2, <1>5, <1>6, <1>7

LEMMA NarrowedTypes ==
    ASSUME NEW p \in AllManifests, NEW c \in AllManifests
    PROVE  Narrow(p, c) \in AllManifests
  <1>1. [t \in Tools |-> NarrowTool(p.tools[t], c.tools[t])] \in [Tools -> ToolGrants]
    <2> SUFFICES ASSUME NEW t \in Tools
                 PROVE  NarrowTool(p.tools[t], c.tools[t]) \in ToolGrants
      OBVIOUS
    <2>1. p.tools[t] \in ToolGrants /\ c.tools[t] \in ToolGrants
      BY DEF AllManifests
    <2> QED BY <2>1, NarrowedTool
  <1>2. (p.only \/ c.only) \in BOOLEAN
    OBVIOUS
  <1>3. NarrowDomains(p, c) \in SUBSET Domains
    BY DEF NarrowDomains, AllManifests
  <1>4. NarrowTopics(p, c) \in SUBSET Topics
    BY DEF NarrowTopics, AllManifests
  <1>5. p.secrets \cap c.secrets \in SUBSET Secrets
    BY DEF AllManifests
  <1> QED BY <1>1, <1>2, <1>3, <1>4, <1>5 DEF Narrow, AllManifests

LEMMA NarrowedHosts ==
    ASSUME NEW p \in AllManifests, NEW c \in AllManifests,
           p.only \/ ~Narrow(p, c).only
    PROVE  Reachable(Narrow(p, c)) \subseteq Reachable(p)
  <1> DEFINE n == Narrow(p, c)
  <1>1. n.only = (p.only \/ c.only) /\ n.domains = NarrowDomains(p, c)
    BY DEF Narrow
  <1>2. CASE p.only
    <2>1. n.domains \subseteq p.domains
      BY <1>1, <1>2 DEF NarrowDomains
    <2>2. Listed(n) \subseteq Listed(p)
      BY <2>1 DEF Listed
    <2> QED BY <1>1, <1>2, <2>2 DEF Reachable
  <1>3. CASE ~p.only
    <2>1. ~c.only /\ ~n.only
      BY <1>1, <1>3
    <2>2. p.domains \subseteq n.domains
      BY <1>1, <1>3, <2>1 DEF NarrowDomains
    <2>3. Listed(p) \subseteq Listed(n)
      BY <2>2 DEF Listed
    <2> QED BY <1>3, <2>1, <2>3 DEF Reachable
  <1> QED BY <1>2, <1>3

\* A manifest covers its narrowing: no tool, secret path or, where lists are
\* comparable, host is gained, no limit loosened and no approval dropped
\* (capability-narrowing.ts:16-187).
THEOREM NarrowingIsCovered ==
    ASSUME NEW p \in AllManifests, NEW c \in AllManifests
    PROVE  Usable(Narrow(p, c)) \subseteq Usable(p) /\ Covers(p, Narrow(p, c))
  <1> DEFINE n == Narrow(p, c)
  <1>1. ASSUME NEW t \in Tools
        PROVE  n.tools[t] = NarrowTool(p.tools[t], c.tools[t])
    BY DEF Narrow
  <1>2. ASSUME NEW t \in Usable(n)
        PROVE  /\ t \in Usable(p)
               /\ p.tools[t].approval => n.tools[t].approval
               /\ Within(n.tools[t].limit, p.tools[t].limit)
    <2>1. t \in Tools /\ n.tools[t].listed /\ n.tools[t].enabled
      BY <1>2 DEF Usable
    <2>2. n.tools[t] = NarrowTool(p.tools[t], c.tools[t])
      BY <1>1, <2>1
    <2>3. p.tools[t] \in ToolGrants /\ c.tools[t] \in ToolGrants
      BY <2>1 DEF AllManifests
    <2>4. /\ Within(n.tools[t].limit, p.tools[t].limit)
          /\ n.tools[t].listed => p.tools[t].listed
          /\ n.tools[t].enabled => p.tools[t].enabled
          /\ p.tools[t].approval => n.tools[t].approval
      BY <2>2, <2>3, NarrowedTool
    <2> QED BY <2>1, <2>4 DEF Usable
  <1>3. n.secrets \subseteq p.secrets
    BY DEF Narrow
  <1>4. (p.only \/ ~n.only) => Reachable(n) \subseteq Reachable(p)
    BY NarrowedHosts
  <1>5. Usable(n) \subseteq Usable(p)
    BY <1>2
  <1> QED BY <1>2, <1>3, <1>4, <1>5 DEF Covers

-----------------------------------------------------------------------------
(* What the request has read, and what its delegate was given.             *)

ReadsOK ==
    /\ handover \in [at: Stages, parent: SUBSET AllManifests, own: SUBSET AllManifests]
    /\ handover.at \in {"parent", "narrowed", "inserted", "context", "success"} =>
           \E p \in AllManifests : handover.parent = {p}
    /\ handover.at \in {"narrowed", "inserted", "context", "success"} =>
           \E c \in AllManifests : handover.own = {c}

ChildOK ==
    /\ child \in [row: BOOLEAN, context: BOOLEAN, task: BOOLEAN,
                  tools: SUBSET Tools, manifest: SUBSET AllManifests]
    /\ handover.at \in {"inserted", "context", "success"} => child.row
    /\ handover.at \in {"context", "success"} => child.context
    /\ handover.at = "success" => child.task
    /\ child.task => child.context
    /\ child.context => child.row

GivenOK ==
    child.context =>
        /\ handover.at \in {"context", "success", "error"}
        /\ \E p, c \in AllManifests :
               /\ handover.parent = {p} /\ handover.own = {c}
               /\ child.tools = Usable(Narrow(p, c)) /\ child.manifest = {Narrow(p, c)}

DelegationInv ==
    /\ manifest \in [{"parent", "child"} -> AllManifests]
    /\ target \in {"active", "archived"} /\ saves \in 0 .. MaxSaves
    /\ ReadsOK /\ ChildOK /\ GivenOK

LEMMA DelegationInitInv == DelegationInit => DelegationInv
  <1> SUFFICES ASSUME DelegationInit PROVE DelegationInv
    OBVIOUS
  <1> USE DelegationAssumption DEF DelegationInit
  <1>1. manifest \in [{"parent", "child"} -> AllManifests]
    OBVIOUS
  <1>2. ReadsOK
    BY DEF ReadsOK, NoHandover, Stages
  <1>3. ChildOK /\ GivenOK
    BY DEF ChildOK, GivenOK, NoHandover, NoChild
  <1> QED BY <1>1, <1>2, <1>3 DEF DelegationInv

\* The statements of a hand-over, and the saves and archivings beside it.
LEMMA DelegationStep == DelegationInv /\ [DelegationNext]_delegationVars => DelegationInv'
  <1> SUFFICES ASSUME DelegationInv, [DelegationNext]_delegationVars
               PROVE  DelegationInv'
    OBVIOUS
  <1> USE DEF DelegationInv
  <1>1. ASSUME NEW a \in {"parent", "child"}, NEW m \in ManifestsOf, SavesManifest(a, m)
        PROVE  DelegationInv'
    <2>1. manifest' \in [{"parent", "child"} -> AllManifests] /\ saves' \in 0 .. MaxSaves
      BY <1>1, DelegationAssumption DEF SavesManifest
    <2>2. UNCHANGED <<target, handover, child>>
      BY <1>1 DEF SavesManifest
    <2> QED BY <2>1, <2>2 DEF ReadsOK, ChildOK, GivenOK
  <1>2. CASE TargetArchived
    BY <1>2 DEF TargetArchived, ReadsOK, ChildOK, GivenOK
  <1>3. CASE FindTarget
    <2>1. ReadsOK'
      <3>1. \/ handover' = [handover EXCEPT !.at = "found"]
            \/ handover' = [handover EXCEPT !.at = "error"]
        BY <1>3 DEF FindTarget, HandsOver, Failed
      <3> QED BY <3>1 DEF ReadsOK, Stages
    <2>2. ~child.context
      BY <1>3 DEF FindTarget, GivenOK
    <2>3. ChildOK' /\ GivenOK'
      BY <1>3, <2>2 DEF FindTarget, HandsOver, Failed, ReadsOK, ChildOK, GivenOK
    <2> QED BY <1>3, <2>1, <2>3 DEF FindTarget
  <1>4. CASE ReadParent
    <2>1. manifest["parent"] \in AllManifests
      OBVIOUS
    <2>2. ReadsOK'
      <3>1. CASE handover' = [handover EXCEPT !.at = "parent", !.parent = {manifest["parent"]}]
        <4>1. /\ handover'.at = "parent" /\ handover'.parent = {manifest["parent"]}
              /\ handover' \in [at: Stages, parent: SUBSET AllManifests, own: SUBSET AllManifests]
          BY <2>1, <3>1 DEF ReadsOK, Stages
        <4> QED BY <2>1, <4>1 DEF ReadsOK
      <3>2. CASE handover' = [handover EXCEPT !.at = "error"]
        BY <3>2 DEF ReadsOK, Stages
      <3> QED BY <1>4, <3>1, <3>2 DEF ReadParent, Failed
    <2>3. ~child.context
      BY <1>4 DEF ReadParent, GivenOK
    <2>4. ChildOK' /\ GivenOK'
      BY <1>4, <2>3 DEF ReadParent, Failed, ReadsOK, ChildOK, GivenOK
    <2> QED BY <1>4, <2>2, <2>4 DEF ReadParent
  <1>5. CASE ReadOwn
    <2>1. manifest["child"] \in AllManifests
      OBVIOUS
    <2>2. ReadsOK'
      BY <1>5, <2>1 DEF ReadOwn, ReadsOK, Stages
    <2>3. ~child.context
      BY <1>5 DEF ReadOwn, GivenOK
    <2>4. ChildOK' /\ GivenOK'
      BY <1>5, <2>3 DEF ReadOwn, ReadsOK, ChildOK, GivenOK
    <2> QED BY <1>5, <2>2, <2>4 DEF ReadOwn
  <1>6. CASE InsertChild
    <2>1. ReadsOK'
      BY <1>6 DEF InsertChild, HandsOver, ReadsOK, Stages
    <2>2. ~child.context
      BY <1>6 DEF InsertChild, GivenOK
    <2>3. ChildOK' /\ GivenOK'
      BY <1>6, <2>2 DEF InsertChild, HandsOver, ReadsOK, ChildOK, GivenOK
    <2> QED BY <1>6, <2>1, <2>3 DEF InsertChild
  <1>7. CASE SetContext
    <2>1. PICK p \in AllManifests : handover.parent = {p}
      BY <1>7 DEF SetContext, ReadsOK
    <2>2. PICK c \in AllManifests : handover.own = {c}
      BY <1>7 DEF SetContext, ReadsOK
    <2>3. Parent = p /\ Own = c
      BY <2>1, <2>2 DEF Parent, Own
    <2> DEFINE n == Narrow(p, c)
    <2>4. n \in AllManifests
      BY NarrowedTypes
    <2>5. Usable(n) \subseteq Tools
      BY DEF Usable
    <2>6. /\ handover' = [handover EXCEPT !.at = "context"]
          /\ child' = [child EXCEPT !.context = TRUE, !.tools = Usable(n), !.manifest = {n}]
          /\ UNCHANGED <<manifest, delegating, target, saves>>
      BY <1>7, <2>3 DEF SetContext, HandsOver
    <2>7. ReadsOK'
      BY <2>1, <2>2, <2>6 DEF ReadsOK, Stages
    <2>8. child.row
      BY <1>7 DEF SetContext, ChildOK
    <2> HIDE DEF n
    <2>9. ChildOK'
      BY <1>7, <2>4, <2>5, <2>6, <2>8 DEF ReadsOK, ChildOK
    <2>10. /\ handover'.parent = {p} /\ handover'.own = {c} /\ handover'.at = "context"
           /\ child'.tools = Usable(n) /\ child'.manifest = {n}
      BY <2>1, <2>2, <2>6 DEF ReadsOK, ChildOK
    <2>11. GivenOK'
      BY <2>10 DEF GivenOK, n
    <2> QED BY <2>6, <2>7, <2>9, <2>11
  <1>8. CASE SetTask
    <2>1. ReadsOK'
      BY <1>8 DEF SetTask, HandsOver, ReadsOK, Stages
    <2>2. ChildOK' /\ GivenOK'
      BY <1>8 DEF SetTask, HandsOver, ReadsOK, ChildOK, GivenOK
    <2> QED BY <1>8, <2>1, <2>2 DEF SetTask
  <1>9. CASE HandoverFails
    <2>1. ReadsOK'
      BY <1>9 DEF HandoverFails, Failed, ReadsOK, Stages
    <2>2. ChildOK' /\ GivenOK'
      BY <1>9 DEF HandoverFails, Failed, ReadsOK, ChildOK, GivenOK
    <2> QED BY <1>9, <2>1, <2>2 DEF HandoverFails
  <1>10. CASE UNCHANGED delegationVars
    BY <1>10 DEF delegationVars, ReadsOK, ChildOK, GivenOK
  <1> QED BY <1>1, <1>2, <1>3, <1>4, <1>5, <1>6, <1>7, <1>8, <1>9, <1>10 DEF DelegationNext

LEMMA DelegationInvariant == DelegationSpec => []DelegationInv
  BY DelegationInitInv, DelegationStep, PTL DEF DelegationSpec

-----------------------------------------------------------------------------
\* Types; a session that was delegated to has its task after its context, and its
\* context after its row, wherever a statement throws (delegator.ts:114-165).
THEOREM DelegationTypes == DelegationSpec => []DelegationTypeOK
  <1>1. DelegationInv => DelegationTypeOK
    BY DEF DelegationInv, ReadsOK, ChildOK, DelegationTypeOK
  <1> QED BY <1>1, DelegationInvariant, PTL

\* What a delegate is given the delegator's manifest covers, as it was when it was
\* read, whatever is saved, archived or fails meanwhile (delegator.ts:63-194).
THEOREM DelegateGetsNoMore == DelegationSpec => []DelegatesNoMore
  <1>1. ASSUME DelegationInv PROVE DelegatesNoMore
    <2> SUFFICES ASSUME child.context
                 PROVE  /\ child.tools \subseteq Usable(Parent)
                        /\ \A m \in child.manifest : Covers(Parent, m)
      BY DEF DelegatesNoMore
    <2>1. PICK p \in AllManifests, c \in AllManifests :
              /\ handover.parent = {p} /\ handover.own = {c}
              /\ child.tools = Usable(Narrow(p, c)) /\ child.manifest = {Narrow(p, c)}
      BY <1>1 DEF DelegationInv, GivenOK
    <2>2. Parent = p
      BY <2>1 DEF Parent
    <2>3. Usable(Narrow(p, c)) \subseteq Usable(p) /\ Covers(p, Narrow(p, c))
      BY NarrowingIsCovered
    <2> QED BY <2>1, <2>2, <2>3
  <1> QED BY <1>1, DelegationInvariant, PTL

-----------------------------------------------------------------------------
(* The versions of a manifest.  The table refuses a second row with a      *)
(* number, so that the numbers are 1 to n; what a page was told, and what a*)
(* message was begun with, then stays the one row with that number.        *)

Rows == [version: 1 .. MaxVersions, doc: Manifests]
SheetStages == {"closed", "open", "posted", "numbered", "stored"}
Sheets ==
    [at: SheetStages, doc: Manifests, sent: Manifests, next: 0 .. MaxVersions,
     told: 0 .. MaxVersions, edits: 0 .. MaxEdits]

(* The parts of the inductive invariant.                                   *)
Typed ==
    /\ versions \subseteq Rows
    /\ sheet \in [Editors -> Sheets]
    /\ offered \subseteq ManifestTools
    /\ turn \in [on: BOOLEAN, began: 0 .. MaxVersions, loaded: BOOLEAN,
                gated: SUBSET ManifestTools]
    /\ lastCall \in [tools: SUBSET ManifestTools, asked: BOOLEAN, began: 0 .. MaxVersions,
                    loaded: BOOLEAN]

(* The numbers of a table are 1 to n, each once.                           *)
Numbered(table, n) ==
    /\ IsFiniteSet(table) /\ Cardinality(table) = n /\ n \in 0 .. MaxVersions
    /\ {r.version : r \in table} = 1 .. n
    /\ \A r, q \in table : r.version = q.version => r = q

RowIn(table, v) == CHOOSE r \in table : r.version = v

(* A number that a save has read is free or taken; what is stored, and     *)
(* what a page was told, is the row with its number.                       *)
SheetKept(s, table, n) ==
    /\ s.at = "numbered" => s.next \in 1 .. n + 1
    /\ s.at = "stored" => s.next \in 1 .. n /\ RowIn(table, s.next).doc = s.sent
    /\ s.told > 0 => /\ s.told \in 1 .. n
                     /\ s.edits = 0 => RowIn(table, s.told).doc = s.doc

(* A message goes by the row it began with, and so does its last call.     *)
TurnKept(t, table, n) ==
    /\ t.began \in 0 .. n
    /\ \A x : x \in t.gated <=>
        /\ t.loaded /\ t.began > 0
        /\ LET m == RowIn(table, t.began).doc IN Parses(m) /\ x \in m.gated

CallKept(c, table, n) ==
    /\ c.began \in 0 .. n
    /\ \A t \in c.tools :
        c.asked <=>
            /\ c.loaded /\ c.began > 0
            /\ LET m == RowIn(table, c.began).doc IN Parses(m) /\ t \in m.gated

ManifestInv ==
    /\ Typed /\ Numbered(versions, Newest)
    /\ \A a \in Editors : SheetKept(sheet[a], versions, Newest)
    /\ TurnKept(turn, versions, Newest) /\ CallKept(lastCall, versions, Newest)

-----------------------------------------------------------------------------
(* The table.                                                              *)

LEMMA NumberedRow ==
    ASSUME NEW table, NEW n, Numbered(table, n), NEW v \in 1 .. n
    PROVE  RowIn(table, v) \in table /\ RowIn(table, v).version = v
  <1>1. PICK r \in table : r.version = v
    BY DEF Numbered
  <1> QED BY <1>1 DEF RowIn

(* A row that is added leaves the others where they were.                  *)
LEMMA RowsStay ==
    ASSUME NEW table, NEW n, NEW more, NEW k, Numbered(table, n), Numbered(more, k),
           table \subseteq more
    PROVE  /\ n \in 0 .. k
           /\ \A v \in 1 .. n : RowIn(more, v) = RowIn(table, v)
  <1>1. \A v \in 1 .. n : v \in 1 .. k
    <2> SUFFICES ASSUME NEW v \in 1 .. n PROVE v \in 1 .. k
      OBVIOUS
    <2>1. RowIn(table, v) \in more /\ RowIn(table, v).version = v
      BY NumberedRow
    <2> QED BY <2>1 DEF Numbered
  <1>2. n \in Nat /\ k \in Nat
    BY ManifestAssumption DEF Numbered
  <1>3. n \in 0 .. k
    BY <1>1, <1>2
  <1>4. ASSUME NEW v \in 1 .. n PROVE RowIn(more, v) = RowIn(table, v)
    <2> DEFINE old == RowIn(table, v)
    <2>1. old \in more /\ old.version = v
      BY NumberedRow
    <2>2. \A r \in more : r.version = v => r = old
      BY <2>1 DEF Numbered
    <2> HIDE DEF old
    <2>3. RowIn(more, v) = old
      BY <2>1, <2>2 DEF RowIn
    <2> QED BY <2>3 DEF old
  <1> QED BY <1>3, <1>4

LEMMA AddedRow ==
    ASSUME NEW table, NEW n, Numbered(table, n), NEW row \in Rows,
           \A r \in table : r.version # row.version, row.version \in 1 .. n + 1
    PROVE  /\ Numbered(table \cup {row}, n + 1)
           /\ row.version = n + 1
           /\ RowIn(table \cup {row}, row.version) = row
  <1> DEFINE more == table \cup {row}
  <1>1. n \in Nat /\ n \in 0 .. MaxVersions
    BY ManifestAssumption DEF Numbered
  <1>2. row.version \notin 1 .. n
    BY DEF Numbered
  <1>3. row.version = n + 1
    BY <1>1, <1>2
  <1>4. row.version \in 1 .. MaxVersions
    BY DEF Rows
  <1>5. n + 1 \in 0 .. MaxVersions
    BY <1>1, <1>3, <1>4, ManifestAssumption
  <1>6. row \notin table
    OBVIOUS
  <1>7. IsFiniteSet(more) /\ Cardinality(more) = n + 1
    BY <1>6, FS_AddElement DEF Numbered
  <1>8. {r.version : r \in more} = 1 .. n + 1
    <2>1. {r.version : r \in more} = {r.version : r \in table} \cup {row.version}
      OBVIOUS
    <2>2. {r.version : r \in table} = 1 .. n
      BY DEF Numbered
    <2>3. (1 .. n) \cup {n + 1} = 1 .. n + 1
      BY <1>1
    <2> QED BY <2>1, <2>2, <2>3, <1>3
  <1>9. \A r, q \in more : r.version = q.version => r = q
    BY DEF Numbered
  <1>10. RowIn(more, row.version) = row
    BY <1>9 DEF RowIn
  <1> QED BY <1>3, <1>5, <1>7, <1>8, <1>9, <1>10 DEF Numbered

(* What was kept of a table is kept of one with more rows.                 *)
LEMMA KeptByMore ==
    ASSUME NEW table, NEW n, NEW more, NEW k, Numbered(table, n), Numbered(more, k),
           table \subseteq more
    PROVE  /\ \A s \in Sheets : SheetKept(s, table, n) => SheetKept(s, more, k)
           /\ \A t : TurnKept(t, table, n) => TurnKept(t, more, k)
           /\ \A c : CallKept(c, table, n) => CallKept(c, more, k)
  <1>1. n \in 0 .. k /\ n \in Nat /\ k \in Nat
    BY RowsStay, ManifestAssumption DEF Numbered
  <1>2. \A v \in 1 .. n : v \in 1 .. k /\ RowIn(more, v) = RowIn(table, v)
    BY RowsStay, <1>1
  <1>3. ASSUME NEW s \in Sheets, SheetKept(s, table, n) PROVE SheetKept(s, more, k)
    BY <1>1, <1>2, <1>3 DEF SheetKept, Sheets
  <1>4. ASSUME NEW t, TurnKept(t, table, n) PROVE TurnKept(t, more, k)
    BY <1>1, <1>2, <1>4 DEF TurnKept
  <1>5. ASSUME NEW c, CallKept(c, table, n) PROVE CallKept(c, more, k)
    BY <1>1, <1>2, <1>5 DEF CallKept
  <1> QED BY <1>3, <1>4, <1>5

-----------------------------------------------------------------------------
(* The initial states, and the sheets that pages start from.               *)

LEMMA FreshTypes ==
    /\ FreshSheet \in Manifests /\ SheetClosed \in Sheets
    /\ SheetClosed.told = 0 /\ SheetClosed.at = "closed" /\ SheetClosed.edits = 0
  BY ManifestAssumption DEF FreshSheet, SheetClosed, Sheets, SheetStages, Manifests

LEMMA ManifestInitInv == ManifestInit => ManifestInv
  <1> SUFFICES ASSUME ManifestInit PROVE ManifestInv
    OBVIOUS
  <1>1. versions = {} \/ \E row \in Rows : row.version = 1 /\ versions = {row}
    <2>1. CASE versions = {}
      BY <2>1
    <2>2. CASE versions # {}
      <3>1. PICK g \in SUBSET ManifestTools :
                versions = {[version |-> 1, doc |-> [field |-> 1, tools |-> ManifestTools,
                               on |-> ManifestTools, gated |-> g, zero |-> FALSE,
                               limits |-> "fine"]]}
        BY <2>2 DEF ManifestInit
      <3> DEFINE row == [version |-> 1, doc |-> [field |-> 1, tools |-> ManifestTools,
                            on |-> ManifestTools, gated |-> g, zero |-> FALSE,
                            limits |-> "fine"]]
      <3>2. 1 \in 1 .. MaxVersions
        BY ManifestAssumption
      <3>3. row.doc \in Manifests
        BY DEF Manifests
      <3>4. row \in Rows /\ row.version = 1
        BY <3>2, <3>3 DEF Rows
      <3> HIDE DEF row
      <3>5. versions = {row}
        BY <3>1 DEF row
      <3> QED BY <3>4, <3>5
    <2> QED BY <2>1, <2>2
  <1>2. Numbered(versions, Newest)
    <2>1. CASE versions = {}
      BY <2>1, FS_EmptySet, ManifestAssumption DEF Numbered, Newest
    <2>2. ASSUME NEW row \in Rows, row.version = 1, versions = {row}
          PROVE  Numbered(versions, Newest)
      <3>1. IsFiniteSet(versions) /\ Newest = 1
        BY <2>2, FS_Singleton DEF Newest
      <3>2. {r.version : r \in versions} = {1} /\ 1 .. 1 = {1}
        BY <2>2
      <3> QED BY <2>2, <3>1, <3>2, ManifestAssumption DEF Numbered, Newest
    <2> QED BY <1>1, <2>1, <2>2
  <1>3. Newest \in Nat
    BY <1>2 DEF Numbered
  <1>4. versions \subseteq Rows
    BY <1>1
  <1>5. sheet \in [Editors -> Sheets] /\ \A a \in Editors : sheet[a] = SheetClosed
    BY FreshTypes DEF ManifestInit
  <1>6. Typed
    BY <1>4, <1>5, ManifestAssumption DEF Typed, ManifestInit, NoTurn, NoCall
  <1>7. \A a \in Editors : SheetKept(sheet[a], versions, Newest)
    BY <1>5, FreshTypes DEF SheetKept
  <1>8. TurnKept(turn, versions, Newest) /\ CallKept(lastCall, versions, Newest)
    BY <1>3 DEF ManifestInit, NoTurn, NoCall, TurnKept, CallKept
  <1> QED BY <1>2, <1>6, <1>7, <1>8 DEF ManifestInv
-----------------------------------------------------------------------------
(* The steps of a page.                                                    *)

LEMMA SheetStep ==
    ASSUME ManifestInv, NEW a \in Editors, NEW s \in Sheets,
           SheetKept(s, versions, Newest), sheet' = [sheet EXCEPT ![a] = s],
           UNCHANGED <<versions, offered, turn, lastCall>>
    PROVE  ManifestInv'
  <1>1. Newest' = Newest
    BY DEF Newest
  <1>2. Typed'
    BY DEF ManifestInv, Typed
  <1>3. \A b \in Editors : SheetKept(sheet'[b], versions, Newest)
    <2> SUFFICES ASSUME NEW b \in Editors PROVE SheetKept(sheet'[b], versions, Newest)
      OBVIOUS
    <2>1. sheet \in [Editors -> Sheets] /\ SheetKept(sheet[b], versions, Newest)
      BY DEF ManifestInv, Typed
    <2>2. sheet'[b] = IF b = a THEN s ELSE sheet[b]
      BY <2>1
    <2> QED BY <2>1, <2>2
  <1> QED BY <1>1, <1>2, <1>3 DEF ManifestInv

LEMMA EditTypes ==
    ASSUME NEW m \in Manifests, NEW e \in ToolEdits(m) \cup LimitEdits(m)
    PROVE  e \in Manifests
  <1>1. CASE e \in LimitEdits(m)
    BY <1>1 DEF LimitEdits, Manifests
  <1>2. ASSUME NEW t \in m.tools, e = [m EXCEPT !.on = Flip(m.on, t)] PROVE e \in Manifests
    BY <1>2 DEF Manifests, Flip
  <1>3. ASSUME NEW t \in m.tools, e = [m EXCEPT !.gated = Flip(m.gated, t)]
        PROVE  e \in Manifests
    BY <1>3 DEF Manifests, Flip
  <1>4. CASE e = [m EXCEPT !.zero = ~m.zero]
    BY <1>4 DEF Manifests
  <1> QED BY <1>1, <1>2, <1>3, <1>4 DEF ToolEdits

LEMMA NewestDoc ==
    ASSUME ManifestInv, Newest # 0
    PROVE  RowOf(Newest) = RowIn(versions, Newest) /\ RowOf(Newest) \in Rows
  <1>1. Newest \in 1 .. Newest
    BY ManifestAssumption DEF ManifestInv, Numbered
  <1>2. RowIn(versions, Newest) \in versions
    BY <1>1, NumberedRow DEF ManifestInv
  <1> QED BY <1>2 DEF RowIn, RowOf, ManifestInv, Typed

LEMMA PageStep ==
    ASSUME ManifestInv, NEW a \in Editors,
           LoadSheet(a) \/ Edit(a) \/ Save(a) \/ Rollback(a) \/ ReadNext(a)
             \/ SaveReturns(a) \/ SaveFails(a)
    PROVE  ManifestInv'
  <1>0. /\ sheet \in [Editors -> Sheets] /\ sheet[a] \in Sheets
        /\ SheetKept(sheet[a], versions, Newest)
        /\ Newest \in 0 .. MaxVersions /\ Newest \in Nat
        /\ versions \subseteq Rows
    BY ManifestAssumption DEF ManifestInv, Typed, Numbered
  <1>f. /\ sheet[a].at \in SheetStages
        /\ sheet[a].doc \in Manifests /\ sheet[a].sent \in Manifests
        /\ sheet[a].next \in 0 .. MaxVersions /\ sheet[a].told \in 0 .. MaxVersions
        /\ sheet[a].edits \in 0 .. MaxEdits
        /\ 0 \in 0 .. MaxVersions
    BY <1>0, ManifestAssumption DEF Sheets
  <1>1. CASE LoadSheet(a)
    <2> DEFINE s == [SheetClosed EXCEPT !.at = "open",
                        !.doc = IF Newest = 0 THEN FreshSheet ELSE RowOf(Newest).doc]
    <2>1. (IF Newest = 0 THEN FreshSheet ELSE RowOf(Newest).doc) \in Manifests
      BY NewestDoc, FreshTypes DEF Rows
    <2>2. s \in Sheets /\ s.told = 0 /\ s.at = "open"
      BY <2>1, FreshTypes DEF Sheets, SheetStages
    <2>3. SheetKept(s, versions, Newest)
      BY <2>2 DEF SheetKept
    <2>4. sheet' = [sheet EXCEPT ![a] = s]
      BY <1>1 DEF LoadSheet
    <2> HIDE DEF s
    <2> QED BY <1>1, <2>2, <2>3, <2>4, SheetStep DEF LoadSheet
  <1>2. CASE Edit(a)
    <2>1. PICK m \in ToolEdits(sheet[a].doc) \cup LimitEdits(sheet[a].doc) :
              sheet' = [sheet EXCEPT ![a].doc = m, ![a].edits = @ + 1]
      BY <1>2 DEF Edit
    <2> DEFINE s == [sheet[a] EXCEPT !.doc = m, !.edits = @ + 1]
    <2>2. m \in Manifests
      BY <1>0, EditTypes DEF Sheets
    <2>3. sheet[a].edits + 1 \in 0 .. MaxEdits /\ sheet[a].edits + 1 # 0
      BY <1>f, <1>2, ManifestAssumption DEF Edit
    <2>4. /\ s \in Sheets /\ s.edits # 0 /\ s.at = sheet[a].at /\ s.next = sheet[a].next
          /\ s.told = sheet[a].told /\ s.sent = sheet[a].sent
      BY <1>0, <2>2, <2>3 DEF Sheets
    <2>5. sheet' = [sheet EXCEPT ![a] = s]
      BY <1>0, <2>1
    <2> HIDE DEF s
    <2>6. SheetKept(s, versions, Newest)
      BY <1>0, <2>4 DEF SheetKept
    <2> QED BY <1>2, <2>4, <2>5, <2>6, SheetStep DEF Edit
  <1>3. CASE Save(a)
    <2> DEFINE s == [sheet[a] EXCEPT !.at = "posted", !.sent = sheet[a].doc, !.told = 0]
    <2>1. s \in Sheets /\ s.at = "posted" /\ s.told = 0
      BY <1>0, <1>f DEF Sheets, SheetStages
    <2>2. sheet' = [sheet EXCEPT ![a] = s]
      BY <1>0, <1>3 DEF Save
    <2> HIDE DEF s
    <2>3. SheetKept(s, versions, Newest)
      BY <2>1 DEF SheetKept
    <2> QED BY <1>3, <2>1, <2>2, <2>3, SheetStep DEF Save
  <1>4. CASE Rollback(a)
    <2>1. PICK r \in versions :
              sheet' = [sheet EXCEPT ![a] = [SheetClosed EXCEPT !.at = "posted", !.doc = r.doc,
                                                                !.sent = r.doc]]
      BY <1>4 DEF Rollback
    <2> DEFINE s == [SheetClosed EXCEPT !.at = "posted", !.doc = r.doc, !.sent = r.doc]
    <2>2. r.doc \in Manifests
      BY <1>0 DEF Rows
    <2>3. s \in Sheets /\ s.at = "posted" /\ s.told = 0
      BY <2>2, FreshTypes DEF Sheets, SheetStages
    <2> HIDE DEF s
    <2>4. SheetKept(s, versions, Newest)
      BY <2>3 DEF SheetKept
    <2>5. sheet' = [sheet EXCEPT ![a] = s]
      BY <2>1 DEF s
    <2> QED BY <1>4, <2>3, <2>4, <2>5, SheetStep DEF Rollback
  <1>5. CASE ReadNext(a)
    <2> DEFINE s == [sheet[a] EXCEPT !.at = "numbered", !.next = Newest + 1]
    <2>1. Newest + 1 \in 0 .. MaxVersions /\ Newest + 1 \in 1 .. Newest + 1
      BY <1>0, <1>5, ManifestAssumption DEF ReadNext
    <2>2. /\ s \in Sheets /\ s.at = "numbered" /\ s.next = Newest + 1
          /\ s.told = sheet[a].told /\ s.edits = sheet[a].edits /\ s.doc = sheet[a].doc
      BY <1>0, <2>1 DEF Sheets, SheetStages
    <2>3. sheet' = [sheet EXCEPT ![a] = s]
      BY <1>0, <1>5 DEF ReadNext
    <2> HIDE DEF s
    <2>4. SheetKept(s, versions, Newest)
      BY <1>0, <2>1, <2>2 DEF SheetKept
    <2> QED BY <1>5, <2>2, <2>3, <2>4, SheetStep DEF ReadNext
  <1>6. CASE SaveReturns(a)
    <2> DEFINE s == [SheetClosed EXCEPT !.at = "open", !.doc = sheet[a].sent,
                                        !.told = sheet[a].next]
    <2>1. /\ sheet[a].next \in 1 .. Newest /\ sheet[a].next \in 0 .. MaxVersions
          /\ RowIn(versions, sheet[a].next).doc = sheet[a].sent
      BY <1>0, <1>6 DEF SaveReturns, SheetKept, Sheets
    <2>2. /\ s \in Sheets /\ s.at = "open" /\ s.told = sheet[a].next
          /\ s.doc = sheet[a].sent
      BY <1>0, <2>1, FreshTypes DEF Sheets, SheetStages
    <2>3. sheet' = [sheet EXCEPT ![a] = s]
      BY <1>6 DEF SaveReturns
    <2> HIDE DEF s
    <2>4. SheetKept(s, versions, Newest)
      BY <2>1, <2>2 DEF SheetKept
    <2> QED BY <1>6, <2>2, <2>3, <2>4, SheetStep DEF SaveReturns
  <1>7. CASE SaveFails(a)
    <2> DEFINE s == [sheet[a] EXCEPT !.at = "open", !.sent = FreshSheet, !.next = 0]
    <2>1. /\ s \in Sheets /\ s.at = "open" /\ s.told = sheet[a].told
          /\ s.edits = sheet[a].edits /\ s.doc = sheet[a].doc
      BY <1>0, <1>f, FreshTypes DEF Sheets, SheetStages
    <2>2. sheet' = [sheet EXCEPT ![a] = s]
      BY <1>0, <1>7 DEF SaveFails
    <2> HIDE DEF s
    <2>3. SheetKept(s, versions, Newest)
      BY <1>0, <2>1 DEF SheetKept
    <2> QED BY <1>7, <2>1, <2>2, <2>3, SheetStep DEF SaveFails
  <1> QED BY <1>1, <1>2, <1>3, <1>4, <1>5, <1>6, <1>7
(* A row is inserted; everything kept of the table before is kept.         *)
LEMMA InsertStep ==
    ASSUME ManifestInv, NEW a \in Editors, Insert(a)
    PROVE  ManifestInv'
  <1> DEFINE row == [version |-> sheet[a].next, doc |-> sheet[a].sent]
             s == [sheet[a] EXCEPT !.at = "stored"]
  <1>1. /\ sheet \in [Editors -> Sheets] /\ sheet[a] \in Sheets
        /\ SheetKept(sheet[a], versions, Newest) /\ Numbered(versions, Newest)
        /\ versions \subseteq Rows /\ sheet[a].at = "numbered"
    BY DEF ManifestInv, Typed, Insert
  <1>2. /\ sheet[a].next \in 0 .. MaxVersions /\ sheet[a].sent \in Manifests
        /\ sheet[a].next \in 1 .. Newest + 1
    BY <1>1 DEF SheetKept, Sheets
  <1>3. Newest \in Nat
    BY <1>1, ManifestAssumption DEF Numbered
  <1>4. sheet[a].next \in 1 .. MaxVersions
    BY <1>2, <1>3, ManifestAssumption
  <1>5. row \in Rows /\ row.version = sheet[a].next /\ row.doc = sheet[a].sent
    BY <1>2, <1>4 DEF Rows
  <1>6. /\ versions' = versions \cup {row} /\ \A r \in versions : r.version # row.version
        /\ UNCHANGED <<offered, turn, lastCall>>
    BY DEF Insert
  <1>7. sheet' = [sheet EXCEPT ![a] = s]
    BY <1>1 DEF Insert
  <1>8. /\ s \in Sheets /\ s.at = "stored" /\ s.next = sheet[a].next
        /\ s.sent = sheet[a].sent /\ s.told = sheet[a].told /\ s.edits = sheet[a].edits
        /\ s.doc = sheet[a].doc
    BY <1>1 DEF Sheets, SheetStages
  <1> HIDE DEF row, s
  <1>9. /\ Numbered(versions', Newest + 1) /\ row.version = Newest + 1
        /\ RowIn(versions', row.version) = row
    BY <1>1, <1>2, <1>5, <1>6, AddedRow
  <1>10. Newest' = Newest + 1
    BY <1>9 DEF Numbered, Newest
  <1>11. /\ \A x \in Sheets : SheetKept(x, versions, Newest) => SheetKept(x, versions', Newest')
         /\ TurnKept(turn, versions, Newest) => TurnKept(turn, versions', Newest')
         /\ CallKept(lastCall, versions, Newest) => CallKept(lastCall, versions', Newest')
    <2>1. versions \subseteq versions' /\ Numbered(versions', Newest')
      BY <1>6, <1>9, <1>10
    <2> QED BY <1>1, <2>1, KeptByMore
  <1>12. SheetKept(s, versions', Newest')
    <2>1. SheetKept(sheet[a], versions', Newest')
      BY <1>1, <1>11
    <2>2. s.next \in 1 .. Newest' /\ RowIn(versions', s.next).doc = s.sent
      BY <1>3, <1>5, <1>8, <1>9, <1>10
    <2> QED BY <1>8, <2>1, <2>2 DEF SheetKept
  <1>13. \A b \in Editors : SheetKept(sheet'[b], versions', Newest')
    <2> SUFFICES ASSUME NEW b \in Editors PROVE SheetKept(sheet'[b], versions', Newest')
      OBVIOUS
    <2>1. CASE b = a
      BY <2>1, <1>1, <1>7, <1>12
    <2>2. CASE b # a
      <3>1. sheet'[b] = sheet[b] /\ sheet[b] \in Sheets
        BY <2>2, <1>1, <1>7
      <3> QED BY <3>1, <1>11 DEF ManifestInv
    <2> QED BY <2>1, <2>2
  <1>14. versions' \subseteq Rows /\ sheet' \in [Editors -> Sheets]
    BY <1>1, <1>5, <1>6, <1>7, <1>8
  <1>15. Typed'
    BY <1>6, <1>14 DEF ManifestInv, Typed
  <1>16. TurnKept(turn', versions', Newest') /\ CallKept(lastCall', versions', Newest')
    BY <1>6, <1>11 DEF ManifestInv
  <1> QED BY <1>9, <1>10, <1>13, <1>15, <1>16 DEF ManifestInv

-----------------------------------------------------------------------------
(* The steps of a session.                                                 *)

LEMMA SessionStep ==
    ASSUME ManifestInv, CreateSession \/ BeginTurn \/ CallTool \/ EndTurn
    PROVE  ManifestInv'
  <1>1. /\ versions' = versions /\ sheet' = sheet /\ Newest' = Newest
    BY DEF CreateSession, BeginTurn, CallTool, EndTurn, Newest
  <1>2. /\ Newest \in 0 .. MaxVersions /\ Newest \in Nat /\ 0 \in 0 .. MaxVersions
        /\ 0 \in 0 .. Newest /\ Newest \in 0 .. Newest
    BY ManifestAssumption DEF ManifestInv, Numbered
  <1>3. /\ turn \in [on: BOOLEAN, began: 0 .. MaxVersions, loaded: BOOLEAN,
                gated: SUBSET ManifestTools]
        /\ lastCall \in [tools: SUBSET ManifestTools, asked: BOOLEAN, began: 0 .. MaxVersions,
                    loaded: BOOLEAN]
        /\ offered \subseteq ManifestTools
        /\ TurnKept(turn, versions, Newest) /\ CallKept(lastCall, versions, Newest)
    BY DEF ManifestInv, Typed
  <1>4. Newest # 0 => /\ RowOf(Newest) = RowIn(versions, Newest)
                      /\ RowOf(Newest).doc \in Manifests
    BY NewestDoc DEF Rows
  <1> SUFFICES
          /\ offered' \subseteq ManifestTools
          /\ turn' \in [on: BOOLEAN, began: 0 .. MaxVersions, loaded: BOOLEAN,
                gated: SUBSET ManifestTools]
          /\ lastCall' \in [tools: SUBSET ManifestTools, asked: BOOLEAN, began: 0 .. MaxVersions,
                    loaded: BOOLEAN]
          /\ TurnKept(turn', versions, Newest) /\ CallKept(lastCall', versions, Newest)
    BY <1>1 DEF ManifestInv, Typed
  <1>5. CASE CreateSession
    <2>1. turn' = turn /\ lastCall' = lastCall
      BY <1>5 DEF CreateSession
    <2>2. offered' \subseteq ManifestTools
      BY <1>4, <1>5 DEF CreateSession, Manifests
    <2> QED BY <1>3, <2>1, <2>2
  <1>6. CASE BeginTurn
    <2>1. PICK answered \in BOOLEAN :
              turn' = [on |-> TRUE, began |-> Newest, loaded |-> answered,
                       gated |-> IF answered THEN LoadManifest ELSE {}]
      BY <1>6 DEF BeginTurn
    <2>2. offered' = offered /\ lastCall' = lastCall
      BY <1>6 DEF BeginTurn
    <2>3. LoadManifest \in SUBSET ManifestTools
      BY <1>4 DEF LoadManifest, Manifests
    <2>4. \A x : x \in LoadManifest <=>
              /\ Newest > 0
              /\ LET m == RowIn(versions, Newest).doc IN Parses(m) /\ x \in m.gated
      BY <1>2, <1>4 DEF LoadManifest
    <2>5. TurnKept(turn', versions, Newest)
      BY <1>2, <2>1, <2>4 DEF TurnKept
    <2> QED BY <1>2, <1>3, <2>1, <2>2, <2>3, <2>5
  <1>7. CASE CallTool
    <2>1. PICK t \in offered :
              lastCall' = [tools |-> {t}, asked |-> t \in turn.gated, began |-> turn.began,
                           loaded |-> turn.loaded]
      BY <1>7 DEF CallTool
    <2>2. turn' = turn /\ offered' = offered
      BY <1>7 DEF CallTool
    <2>3. (t \in turn.gated) \in BOOLEAN /\ {t} \in SUBSET ManifestTools
      BY <1>3
    <2>4. turn.began \in 0 .. MaxVersions /\ turn.loaded \in BOOLEAN
      BY <1>3
    <2>5. lastCall' \in [tools: SUBSET ManifestTools, asked: BOOLEAN, began: 0 .. MaxVersions,
                    loaded: BOOLEAN]
      BY <2>1, <2>3, <2>4
    <2>6. CallKept(lastCall', versions, Newest)
      BY <1>3, <2>1 DEF TurnKept, CallKept
    <2> QED BY <1>3, <2>2, <2>5, <2>6
  <1>8. CASE EndTurn
    <2>1. turn' = NoTurn /\ lastCall' = NoCall /\ offered' = offered
      BY <1>8 DEF EndTurn
    <2>2. TurnKept(turn', versions, Newest) /\ CallKept(lastCall', versions, Newest)
      BY <1>2, <2>1 DEF TurnKept, CallKept, NoTurn, NoCall
    <2> QED BY <1>2, <1>3, <2>1, <2>2 DEF NoTurn, NoCall
  <1> QED BY <1>5, <1>6, <1>7, <1>8

LEMMA ManifestStep == ManifestInv /\ [ManifestNext]_manifestVars => ManifestInv'
  <1> SUFFICES ASSUME ManifestInv, [ManifestNext]_manifestVars PROVE ManifestInv'
    OBVIOUS
  <1>1. CASE CreateSession \/ BeginTurn \/ CallTool \/ EndTurn
    BY <1>1, SessionStep
  <1>2. ASSUME NEW a \in Editors, Insert(a) PROVE ManifestInv'
    BY <1>2, InsertStep
  <1>3. ASSUME NEW a \in Editors,
               LoadSheet(a) \/ Edit(a) \/ Save(a) \/ Rollback(a) \/ ReadNext(a)
                 \/ SaveReturns(a) \/ SaveFails(a)
        PROVE  ManifestInv'
    BY <1>3, PageStep
  <1>4. CASE UNCHANGED manifestVars
    BY <1>4 DEF manifestVars, ManifestInv, Typed, Newest
  <1> QED BY <1>1, <1>2, <1>3, <1>4 DEF ManifestNext

LEMMA ManifestInvariant == ManifestSpec => []ManifestInv
  BY ManifestInitInv, ManifestStep, PTL DEF ManifestSpec

-----------------------------------------------------------------------------
\* Types; a page in a save has the manifest it sent (manifests.ts:18-41,
\* ManifestEditor.tsx:69-131).
THEOREM ManifestTypes == ManifestSpec => []ManifestTypeOK
  <1>1. ManifestInv => ManifestTypeOK
    BY DEF ManifestInv, Typed, ManifestTypeOK, Rows, Sheets
  <1> QED BY <1>1, ManifestInvariant, PTL

\* Whoever saves at the same time, what a page is told is saved is the one row with
\* that number; and a message asks for the approvals of the version that was newest
\* as it began and for no other, and for none when the schema refuses that version
\* or the query for it throws (manifests.ts:18-60, agent-loop.ts:448-474).
THEOREM NewestObeyed == ManifestSpec => []NewestIsObeyed
  <1>1. ASSUME ManifestInv PROVE SavedIsThatVersion
    <2>1. {r.version : r \in versions} = 1 .. Newest
      BY <1>1 DEF ManifestInv, Numbered
    <2>2. \A a \in Editors : sheet[a].told > 0 =>
              /\ sheet[a].told \in 1 .. Newest
              /\ sheet[a].edits = 0 => RowOf(sheet[a].told).doc = sheet[a].doc
      BY <1>1 DEF ManifestInv, SheetKept, RowIn, RowOf
    <2> QED BY <2>1, <2>2 DEF SavedIsThatVersion
  <1>2. ASSUME ManifestInv PROVE ApprovalFollowsManifest
    BY <1>2 DEF ManifestInv, CallKept, ApprovalFollowsManifest, RowIn, RowOf
  <1>3. ManifestInv => NewestIsObeyed
    BY <1>1, <1>2 DEF NewestIsObeyed
  <1> QED BY <1>3, ManifestInvariant, PTL

-----------------------------------------------------------------------------
(* What the editors of an agent show.                                      *)

AgentRequests ==
    [does: {"none", "save", "unapply", "apply", "install", "remove"},
     step: {"none", "asked", "checked", "done"}, skills: SUBSET Skills]
EditorRecords ==
    [at: {"list", "editor", "skills"}, read: BOOLEAN, typed: BOOLEAN, text: PromptTexts,
     skills: SUBSET Skills, known: SUBSET Skills, request: AgentRequests]

AgentTypes ==
    /\ agent \in PromptTexts \cup {"none"}
    /\ installed \subseteq Skills /\ applied \subseteq Skills /\ outdated \subseteq Staff
    /\ editor \in [Staff -> EditorRecords]

(* The editor is of an agent that exists, and makes its own requests.      *)
EditorOK(it, row) ==
    /\ it.at = "list" => it.skills = {} /\ it.known = {} /\ it.request = NoRequest
    /\ it.at = "editor" => row # "none"
    /\ it.request.step = "none" <=> it.request.does = "none"
    /\ it.request.does \in {"save", "unapply"} => it.at = "editor"
    /\ it.request.does \in {"install", "remove"} => it.at = "skills"

(* What the editor shows, and will show once it hears of its request, is   *)
(* there; the prompt, unless it has just saved another.                    *)
Tells(it, row, there) ==
    it.at = "editor" =>
        /\ it.request.step # "done" => it.skills \subseteq there
        /\ it.request.step = "done" /\ it.request.does = "unapply" =>
               it.skills \ it.request.skills \subseteq there
        /\ it.request.step = "done" /\ it.request.does = "apply" =>
               it.skills \cup it.request.skills \subseteq there
        /\ ~(it.request.step = "done" /\ it.request.does = "save") /\ it.read /\ ~it.typed =>
               it.text = row

AgentInv ==
    /\ AgentTypes
    /\ \A a \in Staff : EditorOK(editor[a], agent)
    /\ \A a \in Staff \ outdated : Tells(editor[a], agent, applied)

LEMMA NoTabIs ==
    /\ NoTab \in EditorRecords /\ \A row : EditorOK(NoTab, row)
    /\ \A row, there : Tells(NoTab, row, there)
  BY DEF NoTab, NoRequest, EditorRecords, AgentRequests, PromptTexts, EditorOK, Tells

LEMMA AgentInitInv == AgentInit => AgentInv
  BY NoTabIs DEF AgentInit, AgentInv, AgentTypes, PromptTexts

LEMMA EditorIs ==
    ASSUME AgentInv, NEW a \in Staff
    PROVE  /\ editor[a] \in EditorRecords /\ editor \in [Staff -> EditorRecords]
           /\ EditorOK(editor[a], agent)
           /\ a \notin outdated => Tells(editor[a], agent, applied)
           /\ agent \in PromptTexts \cup {"none"} /\ installed \subseteq Skills
           /\ applied \subseteq Skills /\ outdated \subseteq Staff
           /\ editor[a].request \in AgentRequests
  BY DEF AgentInv, AgentTypes, EditorRecords

\* A page takes a step: what it changes for the others is not known to them.
LEMMA EditorMoves ==
    ASSUME AgentInv, NEW a \in Staff, NEW r \in EditorRecords,
           editor' = [editor EXCEPT ![a] = r],
           agent' \in PromptTexts \cup {"none"}, installed' \subseteq Skills, applied' \subseteq Skills,
           EditorOK(r, agent'), a \in outdated' \/ Tells(r, agent', applied'),
           \/ /\ UNCHANGED <<agent, applied>>
              /\ outdated' \in {outdated, outdated \ {a}, outdated \cup {a}, outdated \cup OtherTabs(a)}
           \/ /\ agent' # "none"  \/ UNCHANGED agent
              /\ outdated' = outdated \cup OtherTabs(a)
    PROVE  AgentInv'
  <1>1. editor \in [Staff -> EditorRecords] /\ outdated \subseteq Staff
    BY DEF AgentInv, AgentTypes
  <1>2. outdated' \subseteq Staff
    BY <1>1 DEF OtherTabs
  <1>3. AgentTypes'
    BY <1>1, <1>2 DEF AgentTypes, PromptTexts
  <1>4. editor'[a] = r /\ \A b \in Staff \ {a} : editor'[b] = editor[b]
    BY <1>1
  <1>5. ASSUME NEW b \in Staff PROVE EditorOK(editor'[b], agent')
    <2>1. CASE b = a
      BY <1>4, <2>1
    <2>2. CASE b # a
      <3>1. EditorOK(editor[b], agent) /\ editor'[b] = editor[b]
        BY <1>4, <2>2 DEF AgentInv
      <3>2. agent' # "none" \/ agent' = agent
        OBVIOUS
      <3> QED BY <3>1, <3>2 DEF EditorOK
    <2> QED BY <2>1, <2>2
  <1>6. ASSUME NEW b \in Staff \ outdated' PROVE Tells(editor'[b], agent', applied')
    <2>1. CASE b = a
      BY <1>4, <1>6, <2>1
    <2>2. CASE b # a
      <3>1. b \notin outdated /\ editor'[b] = editor[b]
        BY <1>4, <1>6, <2>2
      <3>2. Tells(editor[b], agent, applied)
        BY <3>1 DEF AgentInv
      <3>3. CASE UNCHANGED <<agent, applied>>
        BY <3>1, <3>2, <3>3
      <3>4. CASE outdated' = outdated \cup OtherTabs(a)
        <4>1. editor[b].at = "list"
          BY <1>6, <2>2, <3>4 DEF OtherTabs
        <4> QED BY <3>1, <4>1 DEF Tells
      <3> QED BY <3>3, <3>4
    <2> QED BY <2>1, <2>2
  <1> QED BY <1>3, <1>5, <1>6 DEF AgentInv

\* A step of the page alone.
LEMMA EditorStep ==
    ASSUME AgentInv, NEW a \in Staff,
           \/ OpenEditor(a) \/ OpenSkills(a) \/ Leave(a) \/ LoadPrompt(a) \/ Type(a)
    PROVE  AgentInv'
  <1> DEFINE it == editor[a]
  <1>1. CASE OpenEditor(a)
    <2>1. PICK skills \in {applied, {}}, all \in {installed, {}} :
             editor' = [editor EXCEPT ![a] = [NoTab EXCEPT !.at = "editor", !.skills = skills,
                                                     !.known = all]]
      BY <1>1 DEF OpenEditor
    <2> DEFINE r == [NoTab EXCEPT !.at = "editor", !.skills = skills, !.known = all]
    <2>2. /\ r \in EditorRecords /\ r.at = "editor" /\ r.skills = skills /\ ~r.read
          /\ r.request = NoRequest
      BY EditorIs DEF NoTab, NoRequest, EditorRecords, AgentRequests, PromptTexts
    <2>3. agent # "none" /\ UNCHANGED <<agent, installed, applied>> /\ outdated' = outdated \ {a}
      BY <1>1 DEF OpenEditor, Exists
    <2>4. EditorOK(r, agent') /\ Tells(r, agent', applied')
      BY <2>2, <2>3 DEF EditorOK, Tells, NoRequest
    <2> HIDE DEF r
    <2>5. editor' = [editor EXCEPT ![a] = r]
      BY <2>1 DEF r
    <2> QED BY <2>2, <2>3, <2>4, <2>5, EditorIs, EditorMoves
  <1>2. CASE OpenSkills(a)
    <2> DEFINE r == [NoTab EXCEPT !.at = "skills", !.known = installed]
    <2>1. /\ r \in EditorRecords /\ r.at = "skills" /\ r.request = NoRequest
      BY EditorIs DEF NoTab, NoRequest, EditorRecords, AgentRequests, PromptTexts
    <2>2. UNCHANGED <<agent, installed, applied>> /\ outdated' = outdated \ {a}
      BY <1>2 DEF OpenSkills
    <2>3. EditorOK(r, agent') /\ Tells(r, agent', applied')
      BY <2>1 DEF EditorOK, Tells, NoRequest
    <2>4. editor' = [editor EXCEPT ![a] = r]
      BY <1>2 DEF OpenSkills
    <2> HIDE DEF r
    <2> QED BY <2>1, <2>2, <2>3, <2>4, EditorIs, EditorMoves
  <1>3. CASE Leave(a)
    <2>1. editor' = [editor EXCEPT ![a] = NoTab] /\ UNCHANGED <<agent, installed, applied, outdated>>
      BY <1>3 DEF Leave
    <2> QED BY <2>1, NoTabIs, EditorIs, EditorMoves
  <1>4. CASE LoadPrompt(a)
    <2> DEFINE r1 == [it EXCEPT !.read = TRUE]
               r2 == [r1 EXCEPT !.typed = FALSE]
               r == [r2 EXCEPT !.text = agent]
    <2>1. it.at = "editor" /\ UNCHANGED <<agent, installed, applied, outdated>>
      BY <1>4 DEF LoadPrompt
    <2>2. it \in EditorRecords /\ editor \in [Staff -> EditorRecords] /\ EditorOK(it, agent)
      BY EditorIs
    <2>3. editor' = [editor EXCEPT ![a] = r]
      BY <1>4, <2>2 DEF LoadPrompt
    <2>4. agent \in PromptTexts
      BY <2>1, EditorIs DEF EditorOK
    <2>5. /\ r \in EditorRecords /\ r.at = it.at /\ r.skills = it.skills /\ r.known = it.known
          /\ r.request = it.request /\ r.text = agent
      BY <2>2, <2>4 DEF EditorRecords
    <2> HIDE DEF r
    <2>6. EditorOK(r, agent')
      BY <2>1, <2>2, <2>5 DEF EditorOK
    <2>7. a \notin outdated' => Tells(r, agent', applied')
      BY <2>1, <2>5, EditorIs DEF Tells
    <2> QED BY <2>1, <2>3, <2>5, <2>6, <2>7, EditorIs, EditorMoves
  <1>5. CASE Type(a)
    <2> DEFINE r1 == [it EXCEPT !.typed = TRUE]
               r == [r1 EXCEPT !.text = a]
    <2>1. it.at = "editor" /\ UNCHANGED <<agent, installed, applied, outdated>>
      BY <1>5 DEF Type
    <2>2. it \in EditorRecords /\ editor \in [Staff -> EditorRecords] /\ EditorOK(it, agent)
      BY EditorIs
    <2>3. editor' = [editor EXCEPT ![a] = r]
      BY <1>5, <2>2 DEF Type
    <2>4. /\ r \in EditorRecords /\ r.at = it.at /\ r.skills = it.skills /\ r.known = it.known
          /\ r.request = it.request /\ r.typed
      BY <2>2 DEF EditorRecords, PromptTexts
    <2> HIDE DEF r
    <2>5. EditorOK(r, agent')
      BY <2>1, <2>2, <2>4 DEF EditorOK
    <2>6. a \notin outdated' => Tells(r, agent', applied')
      BY <2>1, <2>4, EditorIs DEF Tells
    <2> QED BY <2>1, <2>3, <2>4, <2>5, <2>6, EditorIs, EditorMoves
  <1> QED BY <1>1, <1>2, <1>3, <1>4, <1>5

LEMMA AskStep == ASSUME AgentInv, NEW a \in Staff, Ask(a) PROVE AgentInv'
  <1> DEFINE it == editor[a]
  <1>1. PICK does \in {"save", "unapply", "apply", "install", "remove"}, s \in Skills :
           /\ Offers(a, does, s)
           /\ editor' = [editor EXCEPT ![a].request =
                         [does |-> does, step |-> "asked",
                          skills |-> IF does = "save" THEN {} ELSE {s}]]
    BY DEF Ask
  <1> DEFINE q == [does |-> does, step |-> "asked", skills |-> IF does = "save" THEN {} ELSE {s}]
             r == [it EXCEPT !.request = q]
  <1>2. q \in AgentRequests /\ q.does = does /\ q.step = "asked"
    BY DEF AgentRequests
  <1> HIDE DEF q
  <1>3. it \in EditorRecords /\ EditorOK(it, agent) /\ editor \in [Staff -> EditorRecords]
    BY EditorIs
  <1>4. /\ r \in EditorRecords /\ r.at = it.at /\ r.skills = it.skills /\ r.known = it.known
        /\ r.request = q /\ r.read = it.read /\ r.typed = it.typed /\ r.text = it.text
    BY <1>2, <1>3 DEF EditorRecords
  <1>5. editor' = [editor EXCEPT ![a] = r]
    BY <1>1, <1>3 DEF q
  <1> HIDE DEF r
  <1>6. it.request = NoRequest /\ UNCHANGED <<agent, installed, applied, outdated>>
    BY DEF Ask
  <1>7. /\ does \in {"save", "unapply"} => it.at = "editor"
        /\ does \in {"install", "remove"} => it.at = "skills"
        /\ it.at # "list"
    BY <1>1 DEF Offers
  <1>8. EditorOK(r, agent')
    BY <1>2, <1>3, <1>4, <1>6, <1>7 DEF EditorOK
  <1>9. a \notin outdated' => Tells(r, agent', applied')
    <2>1. a \notin outdated => Tells(it, agent, applied)
      BY EditorIs
    <2>2. it.request.step = "none"
      BY <1>6 DEF NoRequest
    <2> HIDE DEF it
    <2> QED BY <1>2, <1>4, <1>6, <2>1, <2>2 DEF Tells
  <1> QED BY <1>4, <1>5, <1>6, <1>8, <1>9, EditorIs, EditorMoves

\* The page with its request one step further.
LEMMA StepOn ==
    ASSUME AgentInv, NEW a \in Staff, NEW step \in {"checked", "done"},
           editor[a].request.does # "none"
    PROVE  \E r \in EditorRecords :
              /\ r.at = editor[a].at /\ r.skills = editor[a].skills /\ r.known = editor[a].known
              /\ r.request.does = editor[a].request.does /\ r.request.step = step
              /\ r.request.skills = editor[a].request.skills
              /\ r.read = editor[a].read /\ r.typed = editor[a].typed /\ r.text = editor[a].text
              /\ \A row : row # "none" \/ row = agent => EditorOK(r, row)
              /\ [editor EXCEPT ![a].request.step = step] = [editor EXCEPT ![a] = r]
  <1> DEFINE it == editor[a]
             q == [it.request EXCEPT !.step = step]
             r == [it EXCEPT !.request = q]
  <1>1. it \in EditorRecords /\ EditorOK(it, agent) /\ it.request \in AgentRequests
    BY EditorIs
  <1>2. q \in AgentRequests /\ q.does = it.request.does /\ q.step = step /\ q.skills = it.request.skills
    BY <1>1 DEF AgentRequests
  <1> HIDE DEF q
  <1>3. /\ r \in EditorRecords /\ r.at = it.at /\ r.skills = it.skills /\ r.known = it.known
        /\ r.request = q
        /\ r.read = it.read /\ r.typed = it.typed /\ r.text = it.text
    BY <1>1, <1>2 DEF EditorRecords
  <1>5. [editor EXCEPT ![a].request.step = step] = [editor EXCEPT ![a] = r]
    BY <1>1, EditorIs DEF q
  <1> HIDE DEF r
  <1>6. it.at # "list"
    BY <1>1 DEF EditorOK, NoRequest
  <1>7. \A row : row # "none" \/ row = agent => EditorOK(r, row)
    BY <1>1, <1>2, <1>3, <1>6 DEF EditorOK
  <1> QED BY <1>2, <1>3, <1>5, <1>7

\* The routes.
LEMMA RouteStep ==
    ASSUME AgentInv, NEW a \in Staff,
           \/ PutAgent(a) \/ CheckSkill(a) \/ ApplySkill(a) \/ UnapplySkill(a)
           \/ InstallSkill(a) \/ RemoveSkill(a)
    PROVE  AgentInv'
  <1> DEFINE it == editor[a]
  <1>1. it.request.does # "none"
    BY DEF PutAgent, CheckSkill, ApplySkill, UnapplySkill, InstallSkill, RemoveSkill, Asks
  <1>2. PICK step \in {"checked", "done"} :
           /\ editor' = [editor EXCEPT ![a].request.step = step]
           /\ step = IF it.request.does = "apply" /\ it.request.step = "asked"
                     THEN "checked" ELSE "done"
    BY DEF PutAgent, CheckSkill, ApplySkill, UnapplySkill, InstallSkill, RemoveSkill, Asks, Done
  <1>3. PICK r \in EditorRecords :
           /\ r.at = editor[a].at /\ r.skills = editor[a].skills /\ r.known = editor[a].known
           /\ r.request.does = editor[a].request.does /\ r.request.step = step
           /\ r.request.skills = editor[a].request.skills
           /\ r.read = editor[a].read /\ r.typed = editor[a].typed /\ r.text = editor[a].text
           /\ \A row : row # "none" \/ row = agent => EditorOK(r, row)
           /\ [editor EXCEPT ![a].request.step = step] = [editor EXCEPT ![a] = r]
    BY <1>1, StepOn
  <1>4. /\ r.at = it.at /\ r.skills = it.skills /\ r.known = it.known
        /\ r.request.does = it.request.does /\ r.request.step = step
        /\ r.request.skills = it.request.skills
        /\ r.read = it.read /\ r.typed = it.typed /\ r.text = it.text
        /\ \A row : row # "none" \/ row = agent => EditorOK(r, row)
        /\ editor' = [editor EXCEPT ![a] = r]
    BY <1>2, <1>3
  <1>5. /\ it \in EditorRecords /\ EditorOK(it, agent) /\ it.request \in AgentRequests
        /\ a \notin outdated => Tells(it, agent, applied)
    BY EditorIs
  <1>6. CASE PutAgent(a)
    <2>1. /\ agent' = it.text /\ UNCHANGED <<installed, applied>> /\ outdated' = outdated \cup OtherTabs(a)
          /\ it.request.does = "save" /\ step = "done"
      BY <1>2, <1>6 DEF PutAgent, Asks
    <2>2. agent' \in PromptTexts /\ agent' # "none"
      BY <1>5, <2>1, AgentAssumption DEF EditorRecords, PromptTexts
    <2>3. it.at = "editor" => it.request.step # "done"
      BY <1>6 DEF PutAgent, Asks
    <2>4. a \notin outdated' => Tells(r, agent', applied')
      BY <1>4, <2>1 DEF Tells
    <2> QED BY <1>4, <2>1, <2>2, <2>4, EditorIs, EditorMoves
  <1>7. CASE CheckSkill(a)
    <2>1. /\ UNCHANGED <<agent, installed, applied, outdated>> /\ step = "checked"
          /\ it.request.step = "asked"
      BY <1>2, <1>7 DEF CheckSkill, Asks
    <2>2. a \notin outdated' => Tells(r, agent', applied')
      BY <1>4, <1>5, <2>1 DEF Tells
    <2> QED BY <1>4, <2>1, <2>2, EditorIs, EditorMoves
  <1>8. CASE ApplySkill(a) \/ UnapplySkill(a)
    <2>1. /\ UNCHANGED <<agent, installed>> /\ step = "done" /\ it.request.step # "done"
          /\ outdated' = outdated \cup OtherTabs(a)
          /\ \/ it.request.does = "apply" /\ applied' = applied \cup it.request.skills
             \/ it.request.does = "unapply" /\ applied' = applied \ it.request.skills
      BY <1>2, <1>8 DEF ApplySkill, UnapplySkill, Asks
    <2>2. applied' \subseteq Skills
      BY <1>5, <2>1, EditorIs DEF AgentRequests
    <2>3. a \notin outdated' => Tells(r, agent', applied')
      BY <1>4, <1>5, <2>1 DEF Tells
    <2> QED BY <1>4, <2>1, <2>2, <2>3, EditorIs, EditorMoves
  <1>9. CASE InstallSkill(a) \/ RemoveSkill(a)
    <2>1. /\ UNCHANGED <<agent, applied>> /\ step = "done"
          /\ outdated' = outdated \cup OtherTabs(a)
          /\ it.request.does \in {"install", "remove"}
          /\ installed' \in {installed \cup it.request.skills, installed \ it.request.skills}
      BY <1>2, <1>9 DEF InstallSkill, RemoveSkill, Asks
    <2>2. installed' \subseteq Skills
      BY <1>5, <2>1, EditorIs DEF AgentRequests
    <2>3. r.at # "editor"
      BY <1>4, <1>5, <2>1 DEF EditorOK
    <2>4. Tells(r, agent', applied')
      BY <2>3 DEF Tells
    <2> QED BY <1>4, <2>1, <2>2, <2>4, EditorIs, EditorMoves
  <1> QED BY <1>6, <1>7, <1>8, <1>9

LEMMA CreateAgentStep == ASSUME AgentInv, NEW a \in Staff, CreateAgent(a) PROVE AgentInv'
  <1>1. agent = "none" /\ agent' \in PromptTexts /\ UNCHANGED <<installed, applied, editor, outdated>>
    BY DEF CreateAgent, Exists, PromptTexts
  <1>2. ASSUME NEW b \in Staff
        PROVE  editor[b].at # "editor" /\ EditorOK(editor[b], agent') /\ Tells(editor[b], agent', applied)
    BY <1>1, EditorIs DEF EditorOK, Tells
  <1> QED BY <1>1, <1>2 DEF AgentInv, AgentTypes

LEMMA PageHearsStep == ASSUME AgentInv, NEW a \in Staff, PageHears(a) PROVE AgentInv'
  <1> DEFINE it == editor[a]
             does == it.request.does
             r == PageAnswered(it, does)
  <1>1. /\ it.request.step = "done" /\ UNCHANGED <<agent, installed, applied, outdated>>
        /\ editor' = [editor EXCEPT ![a] = r]
    BY DEF PageHears
  <1>2. /\ it \in EditorRecords /\ EditorOK(it, agent) /\ it.request \in AgentRequests
        /\ a \notin outdated => Tells(it, agent, applied)
    BY EditorIs
  <1>3. does \in {"save", "unapply", "apply", "install", "remove"}
    BY <1>1, <1>2 DEF AgentRequests, EditorOK
  <1>4. it.at # "list" /\ it.at \in {"list", "editor", "skills"}
    BY <1>1, <1>2 DEF EditorOK, NoRequest, EditorRecords
  <1>5. NoRequest \in AgentRequests
    BY DEF NoRequest, AgentRequests
  <1>6. CASE does = "save"
    <2>1. r = NoTab
      BY <1>6 DEF PageAnswered
    <2> QED BY <1>1, <2>1, NoTabIs, EditorIs, EditorMoves
  <1>7. CASE does # "save"
    <2>1. PICK shown \in SUBSET Skills, all \in SUBSET Skills :
             /\ r = [[[it EXCEPT !.skills = shown] EXCEPT !.known = all] EXCEPT !.request = NoRequest]
             /\ it.at = "editor" => shown = CASE does = "apply" -> it.skills \cup it.request.skills
                                              [] does = "unapply" -> it.skills \ it.request.skills
      <3>1. it.skills \in SUBSET Skills /\ it.known \in SUBSET Skills /\ it.request.skills \in SUBSET Skills
        BY <1>2 DEF EditorRecords, AgentRequests
      <3>2. /\ [it EXCEPT !.skills = it.skills] = it /\ [it EXCEPT !.known = it.known] = it
        BY <1>2 DEF EditorRecords
      <3>3. CASE does = "apply" /\ it.at = "editor"
        <4>1. r = [it EXCEPT !.skills = it.skills \cup it.request.skills, !.request = NoRequest]
          BY <3>3 DEF PageAnswered
        <4>2. LET x == [it EXCEPT !.skills = it.skills \cup it.request.skills] IN
              [x EXCEPT !.known = it.known] = x
          BY <1>2 DEF EditorRecords
        <4> USE <3>1
        <4> WITNESS it.skills \cup it.request.skills \in SUBSET Skills, it.known \in SUBSET Skills
        <4> QED BY <3>3, <4>1, <4>2
      <3>4. CASE does = "apply" /\ it.at # "editor"
        <4>1. r = [it EXCEPT !.request = NoRequest]
          BY <3>4 DEF PageAnswered
        <4> USE <3>1
        <4> WITNESS it.skills \in SUBSET Skills, it.known \in SUBSET Skills
        <4> QED BY <3>2, <3>4, <4>1
      <3>5. CASE does = "unapply"
        <4>1. r = [it EXCEPT !.skills = it.skills \ it.request.skills, !.request = NoRequest]
          BY <3>5 DEF PageAnswered
        <4>2. LET x == [it EXCEPT !.skills = it.skills \ it.request.skills] IN
              [x EXCEPT !.known = it.known] = x
          BY <1>2 DEF EditorRecords
        <4> USE <3>1
        <4> WITNESS it.skills \ it.request.skills \in SUBSET Skills, it.known \in SUBSET Skills
        <4> QED BY <3>5, <4>1, <4>2
      <3>6. CASE does = "install"
        <4>1. r = [it EXCEPT !.known = installed, !.request = NoRequest] /\ it.at # "editor"
          BY <1>2, <3>6 DEF PageAnswered, EditorOK
        <4>2. installed \in SUBSET Skills
          BY EditorIs
        <4> USE <3>1, <4>2
        <4> WITNESS it.skills \in SUBSET Skills, installed \in SUBSET Skills
        <4> QED BY <3>2, <4>1
      <3>7. CASE does = "remove"
        <4>1. r = [it EXCEPT !.known = it.known \ it.request.skills, !.request = NoRequest] /\ it.at # "editor"
          BY <1>2, <3>7 DEF PageAnswered, EditorOK
        <4> USE <3>1
        <4> WITNESS it.skills \in SUBSET Skills, it.known \ it.request.skills \in SUBSET Skills
        <4> QED BY <3>2, <4>1
      <3> QED BY <1>3, <1>7, <3>3, <3>4, <3>5, <3>6, <3>7
    <2> HIDE DEF r
    <2>2. /\ r \in EditorRecords /\ r.at = it.at /\ r.skills = shown /\ r.request = NoRequest
          /\ r.read = it.read /\ r.typed = it.typed /\ r.text = it.text
      BY <1>2, <1>5, <2>1 DEF EditorRecords
    <2>3. EditorOK(r, agent')
      BY <1>1, <1>2, <1>4, <2>2 DEF EditorOK, NoRequest
    <2>4. ASSUME a \notin outdated', it.at = "editor"
          PROVE  shown \subseteq applied /\ (it.read /\ ~it.typed => it.text = agent)
      <3>1. does \in {"apply", "unapply"}
        BY <1>2, <1>3, <1>7, <2>4 DEF EditorOK
      <3>2. Tells(it, agent, applied)
        BY <1>1, <1>2, <2>4
      <3>3. shown = IF does = "apply" THEN it.skills \cup it.request.skills
                                      ELSE it.skills \ it.request.skills
        BY <2>1, <2>4, <3>1
      <3> QED BY <1>1, <1>7, <2>4, <3>1, <3>2, <3>3 DEF Tells
    <2>5. a \notin outdated' => Tells(r, agent', applied')
      BY <1>1, <2>2, <2>4 DEF Tells, NoRequest
    <2> QED BY <1>1, <2>2, <2>3, <2>5, EditorIs, EditorMoves
  <1> QED BY <1>6, <1>7

LEMMA RequestFailsStep == ASSUME AgentInv, NEW a \in Staff, RequestFails(a) PROVE AgentInv'
  <1> DEFINE it == editor[a]
             r == [it EXCEPT !.request = NoRequest]
  <1>1. /\ it.request # NoRequest /\ UNCHANGED <<agent, installed, applied>>
        /\ editor' = [editor EXCEPT ![a].request = NoRequest]
        /\ outdated' = IF it.request.step = "done" THEN outdated \cup {a} ELSE outdated
    BY DEF RequestFails
  <1>2. /\ it \in EditorRecords /\ EditorOK(it, agent) /\ editor \in [Staff -> EditorRecords]
        /\ a \notin outdated => Tells(it, agent, applied)
    BY EditorIs
  <1>3. NoRequest \in AgentRequests /\ NoRequest.step = "none" /\ NoRequest.does = "none"
    BY DEF NoRequest, AgentRequests
  <1>4. /\ r \in EditorRecords /\ r.at = it.at /\ r.skills = it.skills /\ r.known = it.known
        /\ r.request = NoRequest /\ r.read = it.read /\ r.typed = it.typed /\ r.text = it.text
        /\ editor' = [editor EXCEPT ![a] = r]
    BY <1>1, <1>2, <1>3 DEF EditorRecords
  <1> HIDE DEF r
  <1>5. EditorOK(r, agent')
    BY <1>1, <1>2, <1>3, <1>4 DEF EditorOK
  <1>6. a \notin outdated' => Tells(r, agent', applied')
    BY <1>1, <1>2, <1>3, <1>4 DEF Tells
  <1> QED BY <1>1, <1>4, <1>5, <1>6, EditorIs, EditorMoves

LEMMA AgentStep == AgentInv /\ [AgentNext]_agentVars => AgentInv'
  <1> SUFFICES ASSUME AgentInv, [AgentNext]_agentVars PROVE AgentInv'
    OBVIOUS
  <1>1. CASE AgentNext
    BY <1>1, EditorStep, AskStep, RouteStep, CreateAgentStep, PageHearsStep, RequestFailsStep
       DEF AgentNext
  <1>2. CASE UNCHANGED agentVars
    BY <1>2 DEF agentVars, AgentInv, AgentTypes
  <1> QED BY <1>1, <1>2

LEMMA AgentInvariant == AgentSpec => []AgentInv
  BY AgentInitInv, AgentStep, PTL DEF AgentSpec

\* What the row and the pages hold has its type, and a page on the list shows nothing.
THEOREM AgentTypesHold == AgentSpec => []AgentTypeOK
  <1>1. AgentInv => AgentTypeOK
    BY DEF AgentInv, AgentTypes, AgentTypeOK, EditorRecords, AgentRequests, EditorOK
  <1> QED BY <1>1, AgentInvariant, PTL

\* For any pages and skills, and whatever fails: an editor that nobody got in the way of
\* shows skills that are applied and the prompt that is stored.
THEOREM EditorsTellAgent == AgentSpec => []EditorTellsAgent
  <1>1. AgentInv => EditorTellsAgent
    BY DEF AgentInv, EditorTellsAgent, Tells
  <1> QED BY <1>1, AgentInvariant, PTL

-----------------------------------------------------------------------------
(* The integration and its credentials.                                    *)

Statuses == {"absent", "connected", "disconnected", "error"}
ErrandStages == {"nothing", "reload", "listing", "listed", "test", "tested",
                 "retest", "retested", "fields", "cleanup"}
ErrandRecords ==
    [does: ErrandStages, paths: SUBSET SecretPaths, status: Statuses, stale: BOOLEAN]

IntegrationsTypes ==
    /\ custom \in BOOLEAN /\ escaped \in BOOLEAN
    /\ fields \subseteq SecretFields /\ (~custom => fields = SecretFields)
    /\ stored \subseteq SecretPaths /\ behind \subseteq Boards
    /\ board \in [Boards -> Statuses] /\ errand \in [Errands -> ErrandRecords]

NoneLeft == ~Defined /\ stored # {} => escaped \/ \E k \in Errands : Doing(k) = "cleanup"

(* What was read and is not old is so.                                     *)
FreshErrand(item) ==
    ~item.stale =>
        /\ item.does = "listing" => item.paths = Pathed
        /\ item.does \in {"listed", "tested", "retested"} => StatusIsSo(item.status)

(* What ends with a list, or with a page that is behind.                   *)
Pending == {"reload", "listing", "listed", "retest", "retested", "fields", "cleanup"}
WillTell(b) == \E k \in Errands : OnBoard[k] = b /\ errand[k].does \in Pending

IntegrationsInv ==
    /\ IntegrationsTypes /\ NoneLeft
    /\ \A k \in Errands : FreshErrand(errand[k])
    /\ \A b \in Boards \ behind : StatusIsSo(board[b]) \/ WillTell(b)

LEMMA GoingIs ==
    ASSUME NEW does \in ErrandStages, NEW paths \in SUBSET SecretPaths
    PROVE  /\ Going(does, paths) \in ErrandRecords
           /\ Going(does, paths).does = does /\ Going(does, paths).paths = paths
  BY DEF Going, ErrandRecords, Statuses

LEMMA IntegrationsInitInv == IntegrationsInit => IntegrationsInv
  <1> SUFFICES ASSUME IntegrationsInit PROVE IntegrationsInv
    OBVIOUS
  <1>1. Quiet \in ErrandRecords /\ Quiet.does = "nothing"
    BY GoingIs DEF Quiet, ErrandStages
  <1>2. IntegrationsTypes
    BY <1>1 DEF IntegrationsInit, IntegrationsTypes, Statuses
  <1>3. \A k \in Errands : errand[k] = Quiet
    BY DEF IntegrationsInit
  <1>4. \A k \in Errands : FreshErrand(errand[k])
    BY <1>1, <1>3 DEF FreshErrand
  <1>5. NoneLeft /\ \A b \in Boards : StatusIsSo(board[b])
    BY DEF IntegrationsInit, NoneLeft, StatusIsSo
  <1> QED BY <1>2, <1>4, <1>5 DEF IntegrationsInv

\* A step that leaves the tables as they are.  Its page is left behind, or waits for a
\* list, or shows what is so, or shows what it did.
LEMMA PageSteps ==
    ASSUME IntegrationsInv, NEW k \in Errands, NEW item \in ErrandRecords, NEW s \in Statuses,
           errand' = [errand EXCEPT ![k] = item],
           board' = [board EXCEPT ![OnBoard[k]] = s],
           UNCHANGED <<custom, fields, stored>>,
           \/ UNCHANGED escaped /\ errand[k].does # "cleanup"
           \/ escaped' = TRUE,
           behind' \subseteq Boards, behind \ {OnBoard[k]} \subseteq behind',
           FreshErrand(item),
           \/ OnBoard[k] \in behind' \/ item.does \in Pending \/ StatusIsSo(s)
           \/ s = board[OnBoard[k]] /\ errand[k].does \notin Pending /\ behind' = behind
    PROVE  IntegrationsInv'
  <1> DEFINE b == OnBoard[k]
  <1>1. /\ board \in [Boards -> Statuses] /\ errand \in [Errands -> ErrandRecords]
        /\ b \in Boards
    BY IntegrationsAssumption DEF IntegrationsInv, IntegrationsTypes
  <1>2. IntegrationsTypes'
    BY <1>1 DEF IntegrationsInv, IntegrationsTypes
  <1>3. /\ errand'[k] = item /\ \A j \in Errands : j # k => errand'[j] = errand[j]
        /\ board'[b] = s /\ \A c \in Boards : c # b => board'[c] = board[c]
    BY <1>1
  <1>4. NoneLeft'
    <2>1. CASE escaped'
      BY <2>1 DEF NoneLeft
    <2>2. CASE UNCHANGED escaped /\ errand[k].does # "cleanup"
      <3>1. ASSUME NEW j \in Errands, errand[j].does = "cleanup" PROVE errand'[j].does = "cleanup"
        BY <1>3, <2>2, <3>1
      <3>2. (\E j \in Errands : Doing(j) = "cleanup") => \E j \in Errands : Doing(j)' = "cleanup"
        BY <3>1 DEF Doing
      <3>3. NoneLeft /\ (~Defined' => ~Defined)
        BY DEF IntegrationsInv, Defined
      <3> QED BY <2>2, <3>2, <3>3 DEF NoneLeft
    <2> QED BY <2>1, <2>2
  <1>5. \A status : StatusIsSo(status)' <=> StatusIsSo(status)
    BY DEF StatusIsSo, Pathed, Defined
  <1>6. \A i : FreshErrand(i)' <=> FreshErrand(i)
    BY <1>5 DEF FreshErrand, Pathed, Defined
  <1>7. ASSUME NEW j \in Errands PROVE FreshErrand(errand[j])'
    <2>1. CASE j = k
      BY <1>3, <1>6, <2>1 DEF FreshErrand, StatusIsSo, Pathed, Defined
    <2>2. CASE j # k
      <3>1. FreshErrand(errand[j]) /\ errand'[j] = errand[j]
        BY <1>3, <2>2 DEF IntegrationsInv
      <3> QED BY <3>1 DEF FreshErrand, StatusIsSo, Pathed, Defined
    <2> QED BY <2>1, <2>2
  <1>8. ASSUME NEW c \in Boards, c \notin behind' PROVE StatusIsSo(board[c])' \/ WillTell(c)'
    <2>1. CASE c # b
      <3>1. StatusIsSo(board[c]) \/ WillTell(c)
        BY <1>8, <2>1 DEF IntegrationsInv
      <3>2. CASE StatusIsSo(board[c])
        BY <1>3, <2>1, <3>2 DEF StatusIsSo, Pathed, Defined
      <3>3. CASE WillTell(c)
        <4>1. PICK j \in Errands : OnBoard[j] = c /\ errand[j].does \in Pending
          BY <3>3 DEF WillTell
        <4> QED BY <1>3, <2>1, <4>1 DEF WillTell
      <3> QED BY <3>1, <3>2, <3>3
    <2>2. CASE c = b /\ item.does \in Pending
      BY <1>3, <2>2 DEF WillTell
    <2>3. CASE c = b /\ StatusIsSo(s)
      BY <1>3, <2>3 DEF StatusIsSo, Pathed, Defined
    <2>4. CASE c = b /\ s = board[b] /\ errand[k].does \notin Pending /\ behind' = behind
      <3>1. StatusIsSo(board[b]) \/ WillTell(b)
        BY <1>1, <1>8, <2>4 DEF IntegrationsInv
      <3>2. CASE StatusIsSo(board[b])
        BY <1>3, <2>4, <3>2 DEF StatusIsSo, Pathed, Defined
      <3>3. CASE WillTell(b)
        <4>1. PICK j \in Errands : OnBoard[j] = b /\ errand[j].does \in Pending
          BY <3>3 DEF WillTell
        <4> QED BY <1>3, <2>4, <4>1 DEF WillTell
      <3> QED BY <3>1, <3>2, <3>3
    <2> QED BY <1>8, <2>1, <2>2, <2>3, <2>4
  <1> QED BY <1>2, <1>4, <1>7, <1>8 DEF IntegrationsInv

\* What goes on hears that a table has changed: nothing that was read is fresh.
LEMMA AllOld ==
    ASSUME IntegrationsInv, NEW j \in Errands
    PROVE  LET item == [errand[j] EXCEPT !.stale = @ \/ errand[j].does \in Reading]
           IN  /\ item \in ErrandRecords /\ item.does = errand[j].does
               /\ item.stale \/ item.does \notin Reading
  <1>1. errand[j] \in ErrandRecords
    BY DEF IntegrationsInv, IntegrationsTypes
  <1> DEFINE old == errand[j].stale \/ errand[j].does \in Reading
             item == [errand[j] EXCEPT !.stale = old]
  <1>2. old \in BOOLEAN /\ item \in ErrandRecords /\ item.does = errand[j].does /\ item.stale = old
    BY <1>1 DEF ErrandRecords
  <1> QED BY <1>2

\* A step that changes a table: its page will hear of it, and the others are behind.
LEMMA TableSteps ==
    ASSUME IntegrationsInv, NEW k \in Errands, NEW item \in ErrandRecords,
           Changes(k, item), item.does \in {"reload", "retest", "fields", "cleanup"},
           UNCHANGED <<custom, board>>, escaped' \in BOOLEAN,
           fields' \subseteq SecretFields, ~custom => fields' = fields,
           stored' \subseteq SecretPaths, behind' = Overtaken(k),
           \/ ~Defined' /\ stored' # {} => escaped' \/ item.does = "cleanup"
           \/ /\ errand[k].does # "cleanup" /\ fields' = fields
              /\ escaped' = (escaped \/ ~Defined)
    PROVE  IntegrationsInv'
  <1>1. /\ errand \in [Errands -> ErrandRecords] /\ behind \subseteq Boards
        /\ OnBoard[k] \in Boards
    BY IntegrationsAssumption DEF IntegrationsInv, IntegrationsTypes
  <1> DEFINE told(j) == [errand[j] EXCEPT !.stale = @ \/ errand[j].does \in Reading]
  <1>2. errand' = [j \in Errands |-> IF j = k THEN item ELSE told(j)]
    BY DEF Changes
  <1>3. \A j \in Errands : /\ told(j) \in ErrandRecords /\ told(j).does = errand[j].does
                           /\ told(j).stale \/ told(j).does \notin Reading
    BY AllOld
  <1> HIDE DEF told
  <1>4. /\ errand' \in [Errands -> ErrandRecords] /\ errand'[k] = item
        /\ \A j \in Errands : j # k => errand'[j] = told(j)
    BY <1>2, <1>3
  <1>5. IntegrationsTypes'
    BY <1>1, <1>4 DEF IntegrationsInv, IntegrationsTypes, Overtaken
  <1>6. NoneLeft'
    <2>1. CASE ~Defined' /\ stored' # {} => escaped' \/ item.does = "cleanup"
      BY <1>4, <2>1 DEF NoneLeft, Doing
    <2>2. CASE /\ errand[k].does # "cleanup" /\ fields' = fields
               /\ escaped' = (escaped \/ ~Defined)
      BY <2>2 DEF NoneLeft, Defined
    <2> QED BY <2>1, <2>2
  <1>7. ASSUME NEW j \in Errands PROVE FreshErrand(errand[j])'
    <2>1. errand'[j].stale \/ errand'[j].does \notin Reading
      BY <1>3, <1>4 DEF Reading
    <2> QED BY <2>1 DEF FreshErrand, Reading
  <1>8. ASSUME NEW c \in Boards, c \notin behind' PROVE WillTell(c)'
    <2>1. c = OnBoard[k]
      BY <1>8 DEF Overtaken
    <2> QED BY <1>4, <2>1 DEF WillTell, Pending
  <1> QED BY <1>5, <1>6, <1>7, <1>8 DEF IntegrationsInv

LEMMA NowIs == ASSUME NEW k \in Errands, NEW does \in ErrandStages
               PROVE  /\ Now(k, does) = [errand EXCEPT ![k] = Going(does, {})]
                      /\ Going(does, {}) \in ErrandRecords /\ Going(does, {}).does = does
  BY GoingIs DEF Now

\* The steps of lists and tests.
LEMMA ReadingStep ==
    ASSUME IntegrationsInv, NEW k \in Errands,
           \/ LoadBoard(k) \/ ReadDefinitions(k) \/ ReadPaths(k) \/ UseList(k) \/ ListFails(k)
           \/ ClickTest(k) \/ ServeTest(k) \/ UseTest(k) \/ TestFails(k)
    PROVE  IntegrationsInv'
  <1> DEFINE b == OnBoard[k]
             it == errand[k]
  <1>1. /\ it \in ErrandRecords /\ board \in [Boards -> Statuses] /\ b \in Boards
        /\ errand \in [Errands -> ErrandRecords] /\ FreshErrand(it)
        /\ stored \subseteq SecretPaths /\ behind \subseteq Boards /\ fields \subseteq SecretFields
        /\ ~custom => fields = SecretFields
    BY IntegrationsAssumption DEF IntegrationsInv, IntegrationsTypes
  <1>2. board[b] \in Statuses /\ board = [board EXCEPT ![b] = board[b]]
    BY <1>1
  <1>3. it.status \in Statuses /\ it.stale \in BOOLEAN /\ it.paths \subseteq SecretPaths
    BY <1>1 DEF ErrandRecords
  <1>4. ASSUME NEW does \in ErrandStages
        PROVE  /\ Now(k, does) = [errand EXCEPT ![k] = Going(does, {})]
               /\ Going(does, {}) \in ErrandRecords /\ Going(does, {}).does = does
    BY NowIs
  <1>5. ASSUME NEW does \in ErrandStages, does \notin Reading PROVE FreshErrand(Going(does, {}))
    BY <1>4, <1>5 DEF FreshErrand, Reading
  <1>6. StatusIsSo("absent") /\ StatusIsSo("error")
    BY DEF StatusIsSo
  <1>7. CASE LoadBoard(k)
    <2>1. /\ errand' = [errand EXCEPT ![k] = Going("reload", {})]
          /\ it.does # "cleanup" /\ UNCHANGED <<custom, fields, stored, board, escaped, behind>>
      BY <1>4, <1>7 DEF LoadBoard, Doing, ErrandStages
    <2>2. Going("reload", {}) \in ErrandRecords /\ Going("reload", {}).does \in Pending
          /\ FreshErrand(Going("reload", {}))
      BY <1>4, <1>5 DEF ErrandStages, Reading, Pending
    <2> QED BY <1>1, <1>2, <2>1, <2>2, PageSteps
  <1>8. CASE ReadDefinitions(k)
    <2>1. /\ errand' = [errand EXCEPT ![k] = Going("listing", Pathed)]
          /\ it.does # "cleanup" /\ UNCHANGED <<custom, fields, stored, board, escaped, behind>>
      BY <1>8 DEF ReadDefinitions, Doing
    <2>2. Pathed \subseteq SecretPaths
      BY <1>1 DEF Pathed, SecretPaths
    <2>3. /\ Going("listing", Pathed) \in ErrandRecords /\ Going("listing", Pathed).does = "listing"
          /\ Going("listing", Pathed).paths = Pathed
      BY <2>2, GoingIs DEF ErrandStages
    <2>4. FreshErrand(Going("listing", Pathed)) /\ Going("listing", Pathed).does \in Pending
      BY <2>3 DEF FreshErrand, Pending
    <2> QED BY <1>1, <1>2, <2>1, <2>3, <2>4, PageSteps
  <1>9. CASE ReadPaths(k)
    <2> DEFINE s == ListedStatus(it.paths)
               r == [it EXCEPT !.does = "listed", !.status = s, !.paths = {}]
    <2>1. /\ errand' = [errand EXCEPT ![k] = r] /\ it.does = "listing"
          /\ UNCHANGED <<custom, fields, stored, board, escaped, behind>>
      BY <1>9 DEF ReadPaths, Doing
    <2>2. s \in Statuses
      BY DEF ListedStatus, Statuses
    <2>3. it.paths = Pathed => StatusIsSo(s)
      BY DEF ListedStatus, StatusIsSo, Pathed
    <2> HIDE DEF s
    <2>4. r \in ErrandRecords /\ r.does = "listed" /\ r.status = s /\ r.stale = it.stale
      BY <1>1, <2>2 DEF ErrandRecords, ErrandStages
    <2> HIDE DEF r
    <2>5. FreshErrand(r) /\ r.does \in Pending
      BY <1>1, <2>1, <2>3, <2>4 DEF FreshErrand, Pending
    <2> QED BY <1>1, <1>2, <2>1, <2>4, <2>5, PageSteps
  <1>10. CASE UseList(k)
    <2>1. /\ errand' = [errand EXCEPT ![k] = Going("nothing", {})] /\ it.does = "listed"
          /\ board' = [board EXCEPT ![b] = it.status]
          /\ behind' = IF it.stale THEN behind \cup {b} ELSE behind \ {b}
          /\ UNCHANGED <<custom, fields, stored, escaped>>
      BY <1>4, <1>10 DEF UseList, Doing, ErrandStages
    <2>2. Going("nothing", {}) \in ErrandRecords /\ FreshErrand(Going("nothing", {}))
      BY <1>4, <1>5 DEF ErrandStages, Reading
    <2>3. b \in behind' \/ StatusIsSo(it.status)
      BY <1>1, <2>1 DEF FreshErrand
    <2>4. behind' \subseteq Boards /\ behind \ {b} \subseteq behind'
      BY <1>1, <2>1
    <2> QED BY <1>1, <1>3, <2>1, <2>2, <2>3, <2>4, PageSteps
  <1>11. CASE ListFails(k)
    <2>1. /\ errand' = [errand EXCEPT ![k] = Going("nothing", {})] /\ it.does # "cleanup"
          /\ board' = [board EXCEPT ![b] = "absent"]
          /\ UNCHANGED <<custom, fields, stored, escaped, behind>>
      BY <1>4, <1>11 DEF ListFails, Doing, ErrandStages
    <2>2. Going("nothing", {}) \in ErrandRecords /\ FreshErrand(Going("nothing", {}))
      BY <1>4, <1>5 DEF ErrandStages, Reading
    <2>3. "absent" \in Statuses
      BY DEF Statuses
    <2> QED BY <1>1, <1>6, <2>1, <2>2, <2>3, PageSteps
  <1>12. CASE ClickTest(k)
    <2>1. /\ errand' = [errand EXCEPT ![k] = Going("test", {})] /\ it.does = "nothing"
          /\ UNCHANGED <<custom, fields, stored, board, escaped, behind>>
      BY <1>4, <1>12 DEF ClickTest, Doing, ErrandStages
    <2>2. Going("test", {}) \in ErrandRecords /\ FreshErrand(Going("test", {}))
      BY <1>4, <1>5 DEF ErrandStages, Reading
    <2>3. it.does \notin Pending
      BY <2>1 DEF Pending
    <2> QED BY <1>1, <1>2, <2>1, <2>2, <2>3, PageSteps
  <1>13. CASE ServeTest(k)
    <2> DEFINE does == IF it.does = "test" THEN "tested" ELSE "retested"
               s == Tested
               r == [it EXCEPT !.does = does, !.status = s]
    <2>1. /\ errand' = [errand EXCEPT ![k] = r] /\ it.does \in {"test", "retest"}
          /\ UNCHANGED <<custom, fields, stored, board, escaped, behind>>
      BY <1>1, <1>13 DEF ServeTest, Doing
    <2>2. s \in Statuses
      BY DEF Tested, Statuses
    <2>3. StatusIsSo(s)
      <3>1. CASE custom
        BY <1>6, <3>1 DEF Tested
      <3>2. CASE ~custom
        <4>1. Defined /\ Pathed = SecretPaths
          BY <1>1, <3>2, IntegrationsAssumption DEF Defined, Pathed, SecretPaths
        <4>2. stored \cap Pathed = stored
          BY <1>1, <4>1
        <4>3. /\ s = "connected" => stored # {}
              /\ s = "disconnected" => stored = {}
          BY <3>2 DEF Tested
        <4> QED BY <4>1, <4>2, <4>3 DEF StatusIsSo
      <3> QED BY <3>1, <3>2
    <2> HIDE DEF s
    <2>4. does \in {"tested", "retested"} /\ (it.does = "retest" => does = "retested")
      OBVIOUS
    <2> HIDE DEF does
    <2>5. r \in ErrandRecords /\ r.does = does /\ r.status = s
      BY <1>1, <2>2, <2>4 DEF ErrandRecords, ErrandStages
    <2> HIDE DEF r
    <2>6. FreshErrand(r) /\ (r.does \in Pending \/ it.does \notin Pending)
      BY <2>1, <2>3, <2>4, <2>5 DEF FreshErrand, Pending
    <2> QED BY <1>1, <1>2, <2>1, <2>5, <2>6, PageSteps
  <1>14. CASE UseTest(k)
    <2> DEFINE does == IF it.does = "tested" THEN "nothing" ELSE "reload"
               s == IF board[b] = "absent" THEN board[b] ELSE it.status
    <2>1. does \in ErrandStages /\ does \notin Reading
      BY DEF ErrandStages, Reading
    <2>2. /\ errand' = [errand EXCEPT ![k] = Going(does, {})] /\ it.does \in {"tested", "retested"}
          /\ board' = [board EXCEPT ![b] = s]
          /\ behind' = IF it.stale THEN behind \cup {b} ELSE behind \ {b}
          /\ UNCHANGED <<custom, fields, stored, escaped>>
      BY <1>1, <1>4, <1>14, <2>1 DEF UseTest, Doing
    <2>3. s \in Statuses /\ (b \in behind' \/ StatusIsSo(s))
      BY <1>1, <1>2, <1>3, <1>6, <2>2 DEF FreshErrand
    <2>4. behind' \subseteq Boards /\ behind \ {b} \subseteq behind'
      BY <1>1, <2>2
    <2> HIDE DEF does, s
    <2> QED BY <1>1, <1>4, <1>5, <2>1, <2>2, <2>3, <2>4, PageSteps
  <1>15. CASE TestFails(k)
    <2> DEFINE does == IF it.does \in {"test", "tested"} THEN "nothing" ELSE "reload"
               s == IF board[b] = "absent" THEN board[b] ELSE "error"
    <2>1. does \in ErrandStages /\ does \notin Reading
      BY DEF ErrandStages, Reading
    <2>2. /\ errand' = [errand EXCEPT ![k] = Going(does, {})] /\ it.does # "cleanup"
          /\ board' = [board EXCEPT ![b] = s]
          /\ UNCHANGED <<custom, fields, stored, escaped, behind>>
      BY <1>1, <1>4, <1>15, <2>1 DEF TestFails, Doing
    <2>3. s \in Statuses /\ StatusIsSo(s)
      BY <1>2, <1>6 DEF Statuses
    <2> HIDE DEF does, s
    <2> QED BY <1>1, <1>4, <1>5, <2>1, <2>2, <2>3, PageSteps
  <1> QED BY <1>7, <1>8, <1>9, <1>10, <1>11, <1>12, <1>13, <1>14, <1>15

\* The steps of saves, definitions and deletions.
LEMMA ChangingStep ==
    ASSUME IntegrationsInv, NEW k \in Errands,
           \/ Configure(k) \/ SaveField(k) \/ SaveMarker(k) \/ SaveStops(k)
           \/ Define(k) \/ Delete(k) \/ CleanUp(k) \/ CleanUpFails(k)
    PROVE  IntegrationsInv'
  <1> DEFINE b == OnBoard[k]
             it == errand[k]
  <1>1. /\ it \in ErrandRecords /\ board \in [Boards -> Statuses] /\ b \in Boards
        /\ errand \in [Errands -> ErrandRecords] /\ escaped \in BOOLEAN
        /\ stored \subseteq SecretPaths /\ behind \subseteq Boards /\ fields \subseteq SecretFields
        /\ it.paths \subseteq SecretPaths
    BY IntegrationsAssumption DEF IntegrationsInv, IntegrationsTypes, ErrandRecords
  <1>2. board[b] \in Statuses /\ board = [board EXCEPT ![b] = board[b]]
    BY <1>1
  <1>3. ASSUME NEW does \in {"nothing", "reload", "retest", "fields", "cleanup"},
               NEW paths \in SUBSET SecretPaths
        PROVE  /\ Going(does, paths) \in ErrandRecords /\ Going(does, paths).does = does
               /\ FreshErrand(Going(does, paths))
    <2>1. does \in ErrandStages
      BY DEF ErrandStages
    <2>2. Going(does, paths) \in ErrandRecords /\ Going(does, paths).does = does
      BY <2>1, GoingIs
    <2> QED BY <2>2 DEF FreshErrand
  <1>4. {} \in SUBSET SecretPaths
    OBVIOUS
  <1>5. CASE Configure(k)
    <2>1. PICK filled \in SUBSET SecretFields : errand' = [errand EXCEPT ![k] = Going("fields", filled)]
      BY <1>5 DEF Configure
    <2>2. it.does # "cleanup" /\ UNCHANGED <<custom, fields, stored, board, escaped, behind>>
      BY <1>5 DEF Configure, Doing
    <2>3. filled \in SUBSET SecretPaths
      BY DEF SecretPaths
    <2>4. Going("fields", filled) \in ErrandRecords /\ Going("fields", filled).does \in Pending
          /\ FreshErrand(Going("fields", filled))
      BY <1>3, <2>3 DEF Pending
    <2> QED BY <1>1, <1>2, <2>1, <2>2, <2>4, PageSteps
  <1>6. CASE SaveField(k)
    <2>1. PICK f \in it.paths : StoreSecret(k, f) /\ Changes(k, Going("fields", it.paths \ {f}))
      BY <1>6 DEF SaveField
    <2>2. /\ stored' \subseteq SecretPaths /\ escaped' = (escaped \/ ~Defined)
          /\ behind' = Overtaken(k) /\ UNCHANGED <<custom, fields, board>> /\ it.does # "cleanup"
      BY <1>1, <1>6, <2>1 DEF StoreSecret, SaveField, Doing
    <2>3. it.paths \ {f} \in SUBSET SecretPaths
      BY <1>1
    <2>4. Going("fields", it.paths \ {f}) \in ErrandRecords
          /\ Going("fields", it.paths \ {f}).does = "fields"
      BY <1>3, <2>3
    <2>5. escaped' \in BOOLEAN
      BY <2>2
    <2> QED BY <1>1, <2>1, <2>2, <2>4, <2>5, TableSteps
  <1>7. CASE SaveMarker(k)
    <2>1. StoreSecret(k, "marker") /\ Changes(k, Going("retest", {}))
      BY <1>7 DEF SaveMarker
    <2>2. /\ stored' \subseteq SecretPaths /\ escaped' = (escaped \/ ~Defined)
          /\ behind' = Overtaken(k) /\ UNCHANGED <<custom, fields, board>> /\ it.does # "cleanup"
      BY <1>1, <1>7, <2>1 DEF StoreSecret, SaveMarker, Doing, SecretPaths
    <2>3. Going("retest", {}) \in ErrandRecords /\ Going("retest", {}).does = "retest"
      BY <1>3, <1>4
    <2>4. escaped' \in BOOLEAN
      BY <2>2
    <2> QED BY <1>1, <2>1, <2>2, <2>3, <2>4, TableSteps
  <1>8. CASE SaveStops(k) \/ CleanUpFails(k)
    <2>1. /\ errand' = [errand EXCEPT ![k] = Going("nothing", {})]
          /\ behind' = behind \cup {b} /\ UNCHANGED <<custom, fields, stored, board>>
          /\ \/ UNCHANGED escaped /\ it.does # "cleanup"
             \/ escaped' = TRUE
      BY <1>8 DEF SaveStops, CleanUpFails, Now, Doing
    <2>2. Going("nothing", {}) \in ErrandRecords /\ FreshErrand(Going("nothing", {}))
      BY <1>3, <1>4
    <2>3. behind' \subseteq Boards /\ behind \ {b} \subseteq behind' /\ b \in behind'
      BY <1>1, <2>1
    <2> QED BY <1>1, <1>2, <2>1, <2>2, <2>3, PageSteps
  <1>9. CASE Define(k)
    <2>1. /\ custom /\ fields' \subseteq SecretFields /\ fields' # {}
          /\ Changes(k, Going("reload", {})) /\ behind' = Overtaken(k)
          /\ UNCHANGED <<custom, stored, board, escaped>>
      BY <1>9 DEF Define
    <2>2. Going("reload", {}) \in ErrandRecords /\ Going("reload", {}).does = "reload"
      BY <1>3, <1>4
    <2>3. Defined'
      BY <2>1 DEF Defined
    <2> QED BY <1>1, <2>1, <2>2, <2>3, TableSteps
  <1>10. CASE Delete(k)
    <2>1. /\ custom /\ fields' = {} /\ Changes(k, Going("cleanup", {}))
          /\ behind' = Overtaken(k) /\ UNCHANGED <<custom, stored, board, escaped>>
      BY <1>10 DEF Delete
    <2>2. Going("cleanup", {}) \in ErrandRecords /\ Going("cleanup", {}).does = "cleanup"
      BY <1>3, <1>4
    <2> QED BY <1>1, <2>1, <2>2, TableSteps
  <1>11. CASE CleanUp(k)
    <2>1. /\ stored' = {} /\ escaped' = FALSE /\ Changes(k, Going("reload", {}))
          /\ behind' = Overtaken(k) /\ UNCHANGED <<custom, fields, board>>
      BY <1>11 DEF CleanUp
    <2>2. Going("reload", {}) \in ErrandRecords /\ Going("reload", {}).does = "reload"
      BY <1>3, <1>4
    <2> QED BY <1>1, <2>1, <2>2, TableSteps
  <1> QED BY <1>5, <1>6, <1>7, <1>8, <1>9, <1>10, <1>11

LEMMA RedefineStep == ASSUME IntegrationsInv, Redefine PROVE IntegrationsInv'
  <1> DEFINE told(j) == [errand[j] EXCEPT !.stale = @ \/ errand[j].does \in Reading]
  <1>1. errand' = [j \in Errands |-> told(j)]
    BY DEF Redefine
  <1>2. \A j \in Errands : /\ told(j) \in ErrandRecords /\ told(j).does = errand[j].does
                           /\ told(j).stale \/ told(j).does \notin Reading
    BY AllOld
  <1> HIDE DEF told
  <1>3. errand' \in [Errands -> ErrandRecords] /\ \A j \in Errands : errand'[j] = told(j)
    BY <1>1, <1>2
  <1>4. /\ custom /\ fields' \subseteq SecretFields /\ fields' # {} /\ behind' = Boards
        /\ UNCHANGED <<custom, stored, board, escaped>>
    BY DEF Redefine
  <1>5. IntegrationsTypes' /\ NoneLeft'
    BY <1>3, <1>4 DEF IntegrationsInv, IntegrationsTypes, NoneLeft, Defined
  <1>6. ASSUME NEW j \in Errands PROVE FreshErrand(errand[j])'
    <2>1. errand'[j].stale \/ errand'[j].does \notin Reading
      BY <1>2, <1>3
    <2> QED BY <2>1 DEF FreshErrand, Reading
  <1> QED BY <1>4, <1>5, <1>6 DEF IntegrationsInv

LEMMA IntegrationsStep == IntegrationsInv /\ [IntegrationsNext]_integrationVars => IntegrationsInv'
  <1> SUFFICES ASSUME IntegrationsInv, [IntegrationsNext]_integrationVars PROVE IntegrationsInv'
    OBVIOUS
  <1>1. CASE UNCHANGED integrationVars
    BY <1>1 DEF integrationVars, IntegrationsInv, IntegrationsTypes, NoneLeft, Defined, Doing,
                FreshErrand, WillTell, StatusIsSo, Pathed
  <1> QED BY <1>1, RedefineStep, ReadingStep, ChangingStep DEF IntegrationsNext

LEMMA IntegrationsInvariant == IntegrationsSpec => []IntegrationsInv
  BY IntegrationsInitInv, IntegrationsStep, PTL DEF IntegrationsSpec

\* Types; a built-in integration keeps its fields, whatever pages do.
THEOREM IntegrationsTypesHold == IntegrationsSpec => []IntegrationsTypeOK
  <1>1. IntegrationsInv => IntegrationsTypeOK
    BY DEF IntegrationsInv, IntegrationsTypes, IntegrationsTypeOK, ErrandRecords, Statuses
  <1> QED BY <1>1, IntegrationsInvariant, PTL

\* For any fields, any pages and any number of things going on at the same time: only
\* a save beside the deletion, or a deletion that failed halfway, leaves credentials;
\* and a page at rest that is not behind shows whether there are any.
THEOREM CredentialsGo == IntegrationsSpec => []CredentialsGoWithIntegration
  <1>1. ASSUME IntegrationsInv, NEW b \in Boards, Resting(b) PROVE ~WillTell(b)
    BY <1>1 DEF Resting, WillTell, Doing, Pending
  <1>2. IntegrationsInv => CredentialsGoWithIntegration
    BY <1>1 DEF IntegrationsInv, NoneLeft, CredentialsGoWithIntegration
  <1> QED BY <1>2, IntegrationsInvariant, PTL

-----------------------------------------------------------------------------
(* The keys of the model providers.                                        *)

PageOps == {"rest", "save", "remove", "saved", "removed"}
ProviderPages ==
    [op: PageOps, of: LlmProviders \cup {"none"}, left: SUBSET Paths]
LoadRecords == [of: Clicks, rows: [Paths -> Nat]]
AdaptersOf(p) == [on: BOOLEAN, keys: [FieldsOf[p] -> Nat]]

ProviderTypes ==
    /\ secret \in [Paths -> Nat] /\ written \in 0 .. MaxValues
    /\ adapter = [p \in LlmProviders |-> adapter[p]]
    /\ \A p \in LlmProviders : adapter[p] \in AdaptersOf(p)
    /\ loads \subseteq LoadRecords
    /\ click \in [Clicks -> ProviderPages]
    /\ known \in [Clicks -> SUBSET Paths] /\ spoiled \subseteq Clicks

(* Nothing is numbered that was not written.                               *)
NumbersWritten ==
    /\ \A f \in Paths : secret[f] <= written
    /\ \A p \in LlmProviders : \A f \in FieldsOf[p] : adapter[p].keys[f] <= written
    /\ \A x \in loads : \A f \in Paths : x.rows[f] <= written

(* A page at work is about a provider, and one whose load is under way has *)
(* nothing left to write, nor a second load.                               *)
PagesOK ==
    /\ \A a \in Working : click[a].of \in LlmProviders
    /\ \A x \in loads : /\ click[x.of].op \in {"save", "remove"}
                        /\ click[x.of].left = {}
    /\ \A x, y \in loads : x.of = y.of => x = y

(* A page that nothing gets into is the only one at work, a load that is   *)
(* under way is its own and has read the table as it is, and what it has   *)
(* saved is served.                                                        *)
KeysServed(p) ==
    Present(p, secret) => adapter[p].keys = Keys(p, secret)

Unspoiled(a) ==
    /\ Working = {a}
    /\ \A x \in loads : x.of = a /\ x.rows = secret
    /\ click[a].op = "saved" => KeysServed(click[a].of)

ProvidersInv ==
    /\ ProviderTypes /\ NumbersWritten /\ PagesOK
    /\ \A a \in Working \ spoiled : Unspoiled(a)

LEMMA FieldsArePaths == \A p \in LlmProviders : FieldsOf[p] \subseteq Paths
  BY DEF Paths

LEMMA AtRestIsPage == AtRest \in ProviderPages /\ AtRest.op = "rest"
  BY DEF AtRest, ProviderPages, PageOps

LEMMA ConstructedIs ==
    /\ Constructed = [p \in LlmProviders |-> Constructed[p]]
    /\ \A p \in LlmProviders : Constructed[p] \in AdaptersOf(p)
    /\ \A p \in LlmProviders : \A f \in FieldsOf[p] : Constructed[p].keys[f] = 0
  BY DEF Constructed, AdaptersOf

\* The adapters of a table have its values, the others stay.
LEMMA AddAdaptersIs ==
    ASSUME NEW old, NEW table \in [Paths -> Nat], NEW n \in Nat,
           \A p \in LlmProviders : old[p] \in AdaptersOf(p),
           \A p \in LlmProviders : \A f \in FieldsOf[p] : old[p].keys[f] <= n,
           \A f \in Paths : table[f] <= n
    PROVE  LET new == AddAdapters(old, table) IN
           /\ new = [p \in LlmProviders |-> new[p]]
           /\ \A p \in LlmProviders : new[p] \in AdaptersOf(p)
           /\ \A p \in LlmProviders : \A f \in FieldsOf[p] : new[p].keys[f] <= n
           /\ \A p \in LlmProviders : Present(p, table) => new[p].keys = Keys(p, table)
  <1> DEFINE new == AddAdapters(old, table)
  <1>1. new = [p \in LlmProviders |-> new[p]]
    BY DEF AddAdapters
  <1>2. ASSUME NEW p \in LlmProviders
        PROVE  /\ new[p] \in AdaptersOf(p) /\ \A f \in FieldsOf[p] : new[p].keys[f] <= n
               /\ Present(p, table) => new[p].keys = Keys(p, table)
    <2>1. Keys(p, table) \in [FieldsOf[p] -> Nat] /\ \A f \in FieldsOf[p] : Keys(p, table)[f] <= n
      BY FieldsArePaths DEF Keys
    <2>2. CASE Present(p, table)
      <3>1. new[p] = [on |-> TRUE, keys |-> Keys(p, table)]
        BY <2>2 DEF AddAdapters
      <3>2. new[p] \in AdaptersOf(p) /\ new[p].keys = Keys(p, table)
        BY <2>1, <3>1 DEF AdaptersOf
      <3> QED BY <2>1, <3>2
    <2>3. CASE ~Present(p, table)
      <3>1. new[p] = old[p]
        BY <2>3 DEF AddAdapters
      <3> QED BY <2>3, <3>1
    <2> QED BY <2>2, <2>3
  <1> HIDE DEF new
  <1> QED BY <1>1, <1>2 DEF new

LEMMA ProvidersInitInv == ProvidersInit => ProvidersInv
  <1> SUFFICES ASSUME ProvidersInit PROVE ProvidersInv
    OBVIOUS
  <1>1. ProviderTypes
    BY ConstructedIs, AtRestIsPage, ModelProvidersAssumption DEF ProvidersInit, ProviderTypes
  <1>2. NumbersWritten
    BY ConstructedIs DEF ProvidersInit, NumbersWritten
  <1>3. Working = {}
    BY AtRestIsPage DEF ProvidersInit, Working
  <1> QED BY <1>1, <1>2, <1>3 DEF ProvidersInit, ProvidersInv, PagesOK

LEMMA ProvidersAre ==
    ASSUME ProvidersInv
    PROVE  /\ secret \in [Paths -> Nat] /\ written \in 0 .. MaxValues /\ written \in Nat /\ MaxValues \in Nat
           /\ adapter = [p \in LlmProviders |-> adapter[p]]
           /\ \A p \in LlmProviders : adapter[p] \in AdaptersOf(p)
           /\ \A p \in LlmProviders : \A f \in FieldsOf[p] : adapter[p].keys[f] <= written
           /\ \A f \in Paths : secret[f] <= written
           /\ loads \subseteq LoadRecords /\ spoiled \subseteq Clicks
           /\ click \in [Clicks -> ProviderPages]
           /\ \A a \in Clicks : click[a] \in ProviderPages
           /\ known \in [Clicks -> SUBSET Paths]
           /\ Working \subseteq Clicks
  BY ModelProvidersAssumption DEF ProvidersInv, ProviderTypes, NumbersWritten, Working

\* The table and the adapters change, or not, under the pages at work: those that are
\* told of it are spoiled.
LEMMA TablesChange ==
    ASSUME ProvidersInv,
           secret' \in [Paths -> Nat], written' \in written .. MaxValues,
           \A f \in Paths : secret'[f] <= written',
           adapter' = [p \in LlmProviders |-> adapter'[p]],
           \A p \in LlmProviders : adapter'[p] \in AdaptersOf(p),
           \A p \in LlmProviders : \A f \in FieldsOf[p] : adapter'[p].keys[f] <= written',
           loads' \subseteq LoadRecords,
           \A x \in loads' : \A f \in Paths : x.rows[f] <= written',
           click' \in [Clicks -> ProviderPages],
           known' \in [Clicks -> SUBSET Paths], spoiled' \subseteq Clicks,
           PagesOK', \A a \in Working' \ spoiled' : Unspoiled(a)'
    PROVE  ProvidersInv'
  <1>1. written' \in 0 .. MaxValues
    BY ProvidersAre
  <1>2. ProviderTypes'
    BY <1>1 DEF ProviderTypes
  <1>3. NumbersWritten'
    BY DEF NumbersWritten
  <1> QED BY <1>2, <1>3 DEF ProvidersInv

LEMMA RestartStep == ASSUME ProvidersInv, Restart PROVE ProvidersInv'
  <1>1. /\ adapter' \in {Constructed, AddAdapters(Constructed, secret)} /\ loads' = {}
        /\ click' = [a \in Clicks |-> AtRest] /\ spoiled' = {}
        /\ UNCHANGED <<secret, written, known>>
    BY DEF Restart
  <1>2. \A p \in LlmProviders : \A f \in FieldsOf[p] : Constructed[p].keys[f] <= written
    BY ProvidersAre, ConstructedIs
  <1>3. LET new == AddAdapters(Constructed, secret) IN
           /\ new = [p \in LlmProviders |-> new[p]]
           /\ \A p \in LlmProviders : new[p] \in AdaptersOf(p)
           /\ \A p \in LlmProviders : \A f \in FieldsOf[p] : new[p].keys[f] <= written
    BY <1>2, ProvidersAre, ConstructedIs, AddAdaptersIs
  <1>4. /\ adapter' = [p \in LlmProviders |-> adapter'[p]]
        /\ \A p \in LlmProviders : adapter'[p] \in AdaptersOf(p)
        /\ \A p \in LlmProviders : \A f \in FieldsOf[p] : adapter'[p].keys[f] <= written
    BY <1>1, <1>2, <1>3, ConstructedIs
  <1>5. click' \in [Clicks -> ProviderPages] /\ Working' = {}
    BY <1>1, AtRestIsPage DEF Working
  <1>6. PagesOK'
    BY <1>1, <1>5 DEF PagesOK
  <1>7. written' \in written .. MaxValues /\ secret' \in [Paths -> Nat] /\ known' \in [Clicks -> SUBSET Paths]
        /\ \A f \in Paths : secret'[f] <= written'
    BY <1>1, ProvidersAre
  <1> QED BY <1>1, <1>4, <1>5, <1>6, <1>7, TablesChange

\* A step of one page that leaves the adapters alone.
LEMMA ProviderPageMoves ==
    ASSUME ProvidersInv, NEW a \in Clicks, NEW r \in ProviderPages,
           click' = [click EXCEPT ![a] = r],
           UNCHANGED adapter, known' \in [Clicks -> SUBSET Paths],
           secret' \in [Paths -> Nat], written' \in written .. MaxValues,
           \A f \in Paths : secret'[f] <= written',
           loads' \subseteq LoadRecords,
           \A x \in loads' : \A f \in Paths : x.rows[f] <= written',
           r.op # "rest" => r.of \in LlmProviders,
           \A x \in loads' : x \in loads /\ x.of # a,
           spoiled' \subseteq Clicks,
           \/ UNCHANGED secret /\ Working' \subseteq Working /\ spoiled \subseteq spoiled'
           \/ Working \ {a} \subseteq spoiled',
           a \in spoiled' \/ r.op = "rest"
              \/ /\ Working \subseteq {a}
                 /\ loads' = {}
                 /\ r.op # "saved"
    PROVE  ProvidersInv'
  <1>1. click \in [Clicks -> ProviderPages] /\ Working \subseteq Clicks
    BY ProvidersAre
  <1>2. click' \in [Clicks -> ProviderPages] /\ click'[a] = r
        /\ \A b \in Clicks \ {a} : click'[b] = click[b]
    BY <1>1
  <1>3. Working' = IF r.op = "rest" THEN Working \ {a} ELSE Working \cup {a}
    BY <1>1, <1>2 DEF Working
  <1>4. ASSUME NEW b \in Working' PROVE click'[b].of \in LlmProviders
    <2>1. CASE b = a
      BY <1>2, <1>3, <2>1
    <2>2. CASE b # a
      BY <1>1, <1>2, <1>3, <2>2 DEF ProvidersInv, PagesOK
    <2> QED BY <2>1, <2>2
  <1>5. ASSUME NEW x \in loads'
        PROVE  click'[x.of].op \in {"save", "remove"} /\ click'[x.of].left = {}
    <2>1. x.of \in Clicks /\ x \in loads /\ x.of # a
      BY <1>5 DEF LoadRecords
    <2> QED BY <1>2, <2>1 DEF ProvidersInv, PagesOK
  <1>6. PagesOK'
    BY <1>4, <1>5 DEF ProvidersInv, PagesOK
  <1>7. ASSUME NEW b \in Working' \ spoiled' PROVE Unspoiled(b)'
    <2>1. CASE b = a
      <3>1. r.op # "rest"
        BY <1>2, <1>7, <2>1 DEF Working
      <3>2. Working \subseteq {a} /\ loads' = {} /\ r.op # "saved"
        BY <1>7, <2>1, <3>1
      <3>3. Working' = {a}
        BY <1>3, <3>1, <3>2
      <3> QED BY <1>2, <2>1, <3>2, <3>3 DEF Unspoiled
    <2>2. CASE b # a
      <3>1. b \in Working
        BY <1>3, <1>7, <2>2
      <3>2. ~(Working \ {a} \subseteq spoiled')
        BY <1>7, <2>2, <3>1
      <3>3. /\ UNCHANGED secret /\ Working' \subseteq Working /\ loads' \subseteq loads
            /\ b \notin spoiled
        BY <1>7, <3>2
      <3>4. Unspoiled(b)
        BY <3>1, <3>3 DEF ProvidersInv
      <3>5. Working' = {b}
        BY <1>7, <3>3, <3>4 DEF Unspoiled
      <3>6. click'[b] = click[b]
        BY <1>1, <1>2, <2>2, <3>1
      <3>7. PICK p : p = click[b].of
        OBVIOUS
      <3>8. click[b].op = "saved" => KeysServed(p)'
        <4>1. click[b].op = "saved" => KeysServed(p)
          BY <3>4, <3>7 DEF Unspoiled
        <4> QED BY <3>3, <4>1 DEF KeysServed, Present, Keys
      <3>9. click'[b].op = "saved" => KeysServed(click[b].of)'
        BY <3>6, <3>7, <3>8 DEF KeysServed
      <3>10. \A x \in loads' : x.of = b /\ x.rows = secret'
        BY <3>3, <3>4 DEF Unspoiled
      <3> QED BY <3>5, <3>9, <3>10 DEF Unspoiled, KeysServed
    <2> QED BY <2>1, <2>2
  <1>8. /\ adapter' = [p \in LlmProviders |-> adapter'[p]]
        /\ \A p \in LlmProviders : adapter'[p] \in AdaptersOf(p)
        /\ \A p \in LlmProviders : \A g \in FieldsOf[p] : adapter'[p].keys[g] <= written'
    <2>1. ASSUME NEW p \in LlmProviders, NEW g \in FieldsOf[p]
          PROVE  adapter[p].keys[g] \in Nat /\ adapter[p].keys[g] <= written
      BY ProvidersAre DEF AdaptersOf
    <2>2. written \in Nat /\ written' \in Nat /\ written <= written'
      BY ProvidersAre
    <2> QED BY <2>1, <2>2, ProvidersAre
  <1> QED BY <1>2, <1>6, <1>7, <1>8, TablesChange

\* The page turns to something: it has a provider to be about, and no load.
LEMMA BeginStep ==
    ASSUME ProvidersInv, NEW a \in Clicks, BeginSave(a) \/ BeginRemove(a)
    PROVE  ProvidersInv'
  <1>1. PICK op \in {"save", "remove"}, p \in LlmProviders :
           \E given \in SUBSET FieldsOf[p] : Begin(a, op, p, given)
    BY DEF BeginSave, BeginRemove
  <1>0. PICK given \in SUBSET FieldsOf[p] : Begin(a, op, p, given)
    BY <1>1
  <1> DEFINE r == [op |-> op, of |-> p, left |-> given]
  <1>2. r \in ProviderPages /\ r.op = op /\ r.of = p
    BY FieldsArePaths DEF ProviderPages, PageOps
  <1>3. click[a] = AtRest /\ click' = [click EXCEPT ![a] = r]
        /\ UNCHANGED <<secret, written, adapter, loads, known>>
    BY <1>0 DEF Begin
  <1>4. spoiled' = IF Working = {} /\ loads = {} THEN spoiled \ {a} ELSE spoiled \cup Working \cup {a}
    BY <1>0 DEF Begin
  <1>5. a \notin Working
    BY <1>3, AtRestIsPage DEF Working
  <1>6. \A x \in loads : x \in loads /\ x.of # a
    BY <1>3, AtRestIsPage DEF ProvidersInv, PagesOK
  <1>7. \A x \in loads : \A f \in Paths : x.rows[f] <= written
    BY DEF ProvidersInv, NumbersWritten
  <1>8. Working \ {a} \subseteq spoiled' /\ spoiled' \subseteq Clicks
    BY <1>4, ProvidersAre
  <1>9. a \in spoiled' \/ (Working \subseteq {a} /\ loads = {})
    BY <1>4
  <1> HIDE DEF r
  <1>10. /\ known' \in [Clicks -> SUBSET Paths] /\ secret' \in [Paths -> Nat]
         /\ written' \in written .. MaxValues /\ \A f \in Paths : secret'[f] <= written'
         /\ loads' \subseteq LoadRecords
    BY <1>3, ProvidersAre
  <1> QED BY <1>2, <1>3, <1>6, <1>7, <1>8, <1>9, <1>10, ProviderPageMoves

\* A page writes, or finds the row gone.
LEMMA WriteStep ==
    ASSUME ProvidersInv, NEW a \in Clicks, PostSecret(a) \/ DeleteSecret(a)
    PROVE  ProvidersInv'
  <1> DEFINE it == click[a]
  <1>0. /\ click \in [Clicks -> ProviderPages] /\ it \in ProviderPages
        /\ it.left \subseteq Paths /\ secret \in [Paths -> Nat]
    BY ProvidersAre DEF ProviderPages
  <1>1. it.op \in {"save", "remove"} /\ it.left # {} /\ a \in Working
    BY DEF PostSecret, DeleteSecret, Working
  <1>2. spoiled' = Disturb({a}) /\ UNCHANGED <<adapter, loads, known>>
    BY DEF PostSecret, DeleteSecret
  <1>3. PICK f \in it.left, n \in {0, written + 1} :
          /\ \/ /\ click' = [click EXCEPT ![a].left = @ \ {f}]
                /\ secret' = [secret EXCEPT ![f] = n]
             \/ click' = [click EXCEPT ![a] = AtRest] /\ UNCHANGED secret
          /\ \/ n = written + 1 /\ written' = written + 1 /\ written < MaxValues
             \/ n = 0 /\ written' = written
    <2>1. CASE PostSecret(a)
      BY <2>1 DEF PostSecret
    <2>2. CASE DeleteSecret(a)
      BY <2>2 DEF DeleteSecret
    <2> QED BY <2>1, <2>2
  <1> DEFINE q == [it EXCEPT !.left = @ \ {f}]
  <1>4. q \in ProviderPages /\ q.op = it.op /\ q.of = it.of
    BY <1>0 DEF ProviderPages
  <1>5. PICK r \in ProviderPages :
          /\ click' = [click EXCEPT ![a] = r]
          /\ r.op = "rest" \/ (r.op = it.op /\ r.of = it.of)
    <2>1. click' = [click EXCEPT ![a] = q] \/ click' = [click EXCEPT ![a] = AtRest]
      BY <1>0, <1>3
    <2> HIDE DEF q
    <2> QED BY <1>4, <2>1, AtRestIsPage
  <1>6. /\ secret' \in [Paths -> Nat] /\ written' \in written .. MaxValues
        /\ \A g \in Paths : secret'[g] <= written'
    <2>1. written \in Nat /\ MaxValues \in Nat /\ written <= MaxValues /\ \A g \in Paths : secret[g] <= written
      BY ProvidersAre
    <2>2. f \in Paths /\ n \in Nat /\ n <= written' /\ written' \in written .. MaxValues
      BY <1>0, <1>3, <2>1
    <2>3. CASE UNCHANGED secret
      BY <1>0, <2>1, <2>2, <2>3
    <2>4. CASE secret' = [secret EXCEPT ![f] = n]
      BY <1>0, <2>1, <2>2, <2>4
    <2> QED BY <1>3, <2>3, <2>4
  <1>7. \A x \in loads' : \A g \in Paths : x.rows[g] <= written'
    <2>1. \A x \in loads : x.rows \in [Paths -> Nat] /\ \A g \in Paths : x.rows[g] <= written
      BY ProvidersAre DEF ProvidersInv, NumbersWritten, LoadRecords
    <2>2. written \in Nat /\ written' \in Nat /\ written <= written'
      BY <1>6, ProvidersAre
    <2> QED BY <1>2, <2>1, <2>2
  <1>8. \A x \in loads' : x \in loads /\ x.of # a
    BY <1>1, <1>2 DEF ProvidersInv, PagesOK
  <1>9. Working \ {a} \subseteq spoiled' /\ spoiled' \subseteq Clicks
    BY <1>2, ProvidersAre DEF Disturb
  <1>10. \/ a \in spoiled'
         \/ Working \subseteq {a} /\ loads' = {}
    <2> SUFFICES ASSUME a \notin spoiled PROVE Working \subseteq {a} /\ loads = {}
      BY <1>2 DEF Disturb
    <2>1. Unspoiled(a)
      BY <1>1 DEF ProvidersInv
    <2> QED BY <1>2, <1>8, <2>1 DEF Unspoiled
  <1>11. r.op # "rest" => r.of \in LlmProviders
    BY <1>1, <1>5 DEF ProvidersInv, PagesOK
  <1>12. r.op # "saved"
    BY <1>1, <1>5
  <1>13. known' \in [Clicks -> SUBSET Paths] /\ loads' \subseteq LoadRecords /\ UNCHANGED adapter
    BY <1>2, ProvidersAre
  <1> HIDE DEF it, q
  <1> QED BY <1>5, <1>6, <1>7, <1>8, <1>9, <1>10, <1>11, <1>12, <1>13, ProviderPageMoves

\* A request ends, is asked or is heard of, without a change to table or adapters.
LEMMA TalkStep ==
    ASSUME ProvidersInv, NEW a \in Clicks,
           Open(a) \/ Reload(a) \/ FinishSave(a) \/ PageFails(a)
    PROVE  ProvidersInv'
  <1> DEFINE it == click[a]
  <1>0. /\ click \in [Clicks -> ProviderPages] /\ it \in ProviderPages
        /\ secret \in [Paths -> Nat] /\ written \in Nat /\ MaxValues \in Nat /\ written <= MaxValues
        /\ \A g \in Paths : secret[g] <= written
        /\ loads \subseteq LoadRecords /\ spoiled \subseteq Clicks
        /\ known \in [Clicks -> SUBSET Paths]
    BY ProvidersAre
  <1>1. UNCHANGED <<secret, written, adapter, spoiled>>
    BY DEF Open, Reload, FinishSave, PageFails
  <1>2. /\ written' \in written .. MaxValues /\ secret' \in [Paths -> Nat]
        /\ \A g \in Paths : secret'[g] <= written'
    BY <1>0, <1>1
  <1>3. \A x \in loads : \A g \in Paths : x.rows[g] <= written'
    BY <1>1 DEF ProvidersInv, NumbersWritten
  <1>4. CASE Open(a)
    <2>1. it = AtRest /\ UNCHANGED <<loads, click>> /\ known' \in [Clicks -> SUBSET Paths]
      BY <1>0, <1>4 DEF Open, LearnPaths, OnPageOf
    <2>2. click' = [click EXCEPT ![a] = AtRest]
      BY <1>0, <2>1
    <2>3. Working' \subseteq Working
      BY <2>1 DEF Working
    <2>4. \A x \in loads' : x \in loads /\ x.of # a
      BY <2>1, AtRestIsPage DEF ProvidersInv, PagesOK
    <2> QED BY <1>0, <1>1, <1>2, <1>3, <2>1, <2>2, <2>3, <2>4, AtRestIsPage, ProviderPageMoves
  <1>5. CASE FinishSave(a) \/ PageFails(a)
    <2>1. /\ click' = [click EXCEPT ![a] = AtRest] /\ UNCHANGED loads
          /\ known' \in [Clicks -> SUBSET Paths]
      BY <1>0, <1>5 DEF FinishSave, PageFails, LearnPaths, OnPageOf
    <2>2. Working' \subseteq Working
      BY <1>0, <2>1, AtRestIsPage DEF Working
    <2>3. ASSUME NEW x \in loads' PROVE x \in loads /\ x.of # a
      <3>1. CASE FinishSave(a)
        BY <2>1, <2>3, <3>1 DEF FinishSave, ProvidersInv, PagesOK
      <3>2. CASE PageFails(a)
        BY <2>1, <2>3, <3>2 DEF PageFails
      <3> QED BY <1>5, <3>1, <3>2
    <2> QED BY <1>0, <1>1, <1>2, <1>3, <2>1, <2>2, <2>3, AtRestIsPage, ProviderPageMoves
  <1>6. CASE Reload(a)
    <2>1. /\ it.op \in {"save", "remove"} /\ it.left = {} /\ UNCHANGED <<click, known>>
          /\ loads' = loads \cup {[of |-> a, rows |-> secret]} /\ a \notin {x.of : x \in loads}
      BY <1>6 DEF Reload, StartLoad
    <2>2. [of |-> a, rows |-> secret] \in LoadRecords
      BY <1>0 DEF LoadRecords
    <2>3. loads' \subseteq LoadRecords /\ \A x \in loads' : \A g \in Paths : x.rows[g] <= written'
      BY <1>0, <1>1, <1>3, <2>1, <2>2
    <2>4. \A b \in Working : click[b].of \in LlmProviders
      BY DEF ProvidersInv, PagesOK
    <2>5. PagesOK'
      <3>1. Working' = Working
        BY <2>1 DEF Working
      <3> QED BY <2>1, <2>4, <3>1 DEF PagesOK, ProvidersInv
    <2>6. ASSUME NEW b \in Working' \ spoiled' PROVE Unspoiled(b)'
      <3>1. b \in Working \ spoiled /\ a \in Working /\ Working' = Working
        BY <1>1, <2>1, <2>6 DEF Working
      <3>2. Unspoiled(b)
        BY <3>1 DEF ProvidersInv
      <3>3. b = a
        BY <3>1, <3>2 DEF Unspoiled
      <3>4. click'[b].op # "saved"
        BY <2>1, <3>3
      <3>5. \A x \in loads' : x.of = b /\ x.rows = secret'
        BY <1>1, <2>1, <3>2, <3>3 DEF Unspoiled
      <3>6. Working' = {b}
        BY <3>1, <3>2 DEF Unspoiled
      <3> QED BY <3>4, <3>5, <3>6 DEF Unspoiled
    <2>7. /\ adapter' = [p \in LlmProviders |-> adapter'[p]]
          /\ \A p \in LlmProviders : adapter'[p] \in AdaptersOf(p)
          /\ \A p \in LlmProviders : \A f \in FieldsOf[p] : adapter'[p].keys[f] <= written'
      BY <1>1, ProvidersAre
    <2>8. click' \in [Clicks -> ProviderPages] /\ known' \in [Clicks -> SUBSET Paths]
          /\ spoiled' \subseteq Clicks
      BY <1>0, <1>1, <2>1
    <2> QED BY <1>2, <2>3, <2>5, <2>6, <2>7, <2>8, TablesChange
  <1> QED BY <1>4, <1>5, <1>6

\* The adapters of the rows that the load has read; other pages are spoiled.
LEMMA ReloadedStep == ASSUME ProvidersInv, NEW a \in Clicks, Reloaded(a) PROVE ProvidersInv'
  <1> DEFINE it == click[a]
             op == IF it.op = "save" THEN "saved" ELSE "removed"
             r == [it EXCEPT !.op = op]
             new(x) == AddAdapters(adapter, x.rows)
  <1>1. PICK x \in loads :
          /\ x.of = a
          /\ \/ adapter' = new(x) /\ spoiled' = Disturb({a})
             \/ UNCHANGED adapter /\ spoiled' = spoiled \cup {a}
          /\ loads' = loads \ {x}
          /\ click' = [click EXCEPT ![a].op = IF @ = "save" THEN "saved" ELSE "removed"]
          /\ UNCHANGED <<secret, written, known>>
    BY DEF Reloaded
  <1>2. /\ click \in [Clicks -> ProviderPages] /\ it \in ProviderPages
        /\ secret \in [Paths -> Nat] /\ written \in Nat /\ MaxValues \in Nat /\ written <= MaxValues
        /\ \A g \in Paths : secret[g] <= written
        /\ loads \subseteq LoadRecords /\ spoiled \subseteq Clicks /\ Working \subseteq Clicks
        /\ known \in [Clicks -> SUBSET Paths]
    BY ProvidersAre
  <1>3. x.rows \in [Paths -> Nat] /\ \A g \in Paths : x.rows[g] <= written
    BY <1>2 DEF LoadRecords, ProvidersInv, NumbersWritten
  <1>4. it.op \in {"save", "remove"} /\ a \in Working
    BY <1>1 DEF ProvidersInv, PagesOK, Working
  <1>5. /\ click' = [click EXCEPT ![a] = r] /\ r \in ProviderPages
        /\ r.op = op /\ r.of = it.of
    BY <1>1, <1>2 DEF ProviderPages, PageOps
  <1> HIDE DEF r
  <1>6. /\ adapter' = [p \in LlmProviders |-> adapter'[p]]
        /\ \A p \in LlmProviders : adapter'[p] \in AdaptersOf(p)
        /\ \A p \in LlmProviders : \A f \in FieldsOf[p] : adapter'[p].keys[f] <= written'
    <2>1. LET now == AddAdapters(adapter, x.rows) IN
             /\ now = [p \in LlmProviders |-> now[p]]
             /\ \A p \in LlmProviders : now[p] \in AdaptersOf(p)
             /\ \A p \in LlmProviders : \A f \in FieldsOf[p] : now[p].keys[f] <= written
      BY <1>2, <1>3, ProvidersAre, AddAdaptersIs
    <2>2. CASE adapter' = new(x)
      BY <1>1, <2>1, <2>2
    <2>3. CASE UNCHANGED adapter
      BY <1>1, <2>3, ProvidersAre
    <2> QED BY <1>1, <2>2, <2>3
  <1>7. click' \in [Clicks -> ProviderPages] /\ click'[a] = r
        /\ \A b \in Clicks \ {a} : click'[b] = click[b]
    BY <1>2, <1>5
  <1>8. Working' = Working
    BY <1>4, <1>5, <1>7 DEF Working
  <1>9. PagesOK'
    <2>1. ASSUME NEW b \in Working' PROVE click'[b].of \in LlmProviders
      <3>1. b \in Working /\ b \in Clicks /\ click[b].of \in LlmProviders
        BY <1>2, <1>8, <2>1 DEF ProvidersInv, PagesOK
      <3> QED BY <1>5, <1>7, <3>1
    <2>2. ASSUME NEW y \in loads'
          PROVE  click'[y.of].op \in {"save", "remove"} /\ click'[y.of].left = {}
      <3>1. y \in loads /\ y # x /\ y.of \in Clicks
        BY <1>1, <1>2, <2>2 DEF LoadRecords
      <3>2. y.of # a
        BY <1>1, <3>1 DEF ProvidersInv, PagesOK
      <3> QED BY <1>7, <3>1, <3>2 DEF ProvidersInv, PagesOK
    <2> QED BY <1>1, <2>1, <2>2 DEF ProvidersInv, PagesOK
  <1>10. spoiled' \subseteq Clicks
    BY <1>1, <1>2 DEF Disturb
  <1>11. ASSUME NEW b \in Working' \ spoiled' PROVE Unspoiled(b)'
    <2>1. b \in Working \ spoiled
      BY <1>1, <1>8, <1>11 DEF Disturb
    <2>2. Unspoiled(b)
      BY <2>1 DEF ProvidersInv
    <2>3. b = a /\ Working' = {b}
      BY <1>4, <1>8, <2>2 DEF Unspoiled
    <2>4. x.rows = secret /\ \A y \in loads' : y.of = b /\ y.rows = secret'
      BY <1>1, <2>2 DEF Unspoiled
    <2>5. adapter' = new(x)
      BY <1>1, <1>11, <2>3
    <2>6. it.of \in LlmProviders
      BY <1>4 DEF ProvidersInv, PagesOK
    <2>7. Present(it.of, secret) => new(x)[it.of].keys = Keys(it.of, secret)
      BY <1>2, <1>3, <2>4, <2>6, ProvidersAre, AddAdaptersIs
    <2>8. PICK p : p = it.of
      OBVIOUS
    <2>9. Present(p, secret)' => adapter'[p].keys = Keys(p, secret)'
      BY <1>1, <2>5, <2>7, <2>8 DEF Present, Keys
    <2>10. click'[b].of = p
      BY <1>5, <1>7, <2>3, <2>8
    <2>11. KeysServed(click[b].of)'
      BY <2>9, <2>10 DEF KeysServed
    <2> QED BY <2>3, <2>4, <2>11 DEF Unspoiled, KeysServed
  <1>12. /\ loads' \subseteq LoadRecords
         /\ \A y \in loads' : \A f \in Paths : y.rows[f] <= written'
    BY <1>1, <1>2 DEF ProvidersInv, NumbersWritten
  <1>13. /\ written' \in written .. MaxValues /\ secret' \in [Paths -> Nat]
         /\ known' \in [Clicks -> SUBSET Paths]
         /\ \A g \in Paths : secret'[g] <= written'
    BY <1>1, <1>2
  <1> QED BY <1>6, <1>7, <1>9, <1>10, <1>11, <1>12, <1>13, TablesChange

\* Somebody else writes: every page at work is spoiled.
LEMMA ElsewhereStep ==
    ASSUME ProvidersInv, SetElsewhere \/ RotateElsewhere \/ DeleteElsewhere
    PROVE  ProvidersInv'
  <1>1. /\ written \in Nat /\ MaxValues \in Nat /\ written <= MaxValues
        /\ secret \in [Paths -> Nat] /\ \A g \in Paths : secret[g] <= written
        /\ loads \subseteq LoadRecords /\ spoiled \subseteq Clicks /\ Working \subseteq Clicks
        /\ click \in [Clicks -> ProviderPages]
        /\ known \in [Clicks -> SUBSET Paths]
    BY ProvidersAre
  <1>2. PICK f \in Paths, n \in Nat :
          /\ Elsewhere(f, n)
          /\ \/ written < MaxValues /\ written' = written + 1 /\ n = written'
             \/ written' = written /\ n = 0
    <2>1. CASE DeleteElsewhere
      BY <2>1 DEF DeleteElsewhere
    <2>2. CASE SetElsewhere \/ RotateElsewhere
      <3>1. written' = written + 1 /\ written < MaxValues /\ \E f \in Paths : Elsewhere(f, written')
        BY <2>2 DEF SetElsewhere, RotateElsewhere
      <3>2. written' \in Nat
        BY <1>1, <3>1
      <3> QED BY <3>1, <3>2
    <2> QED BY <2>1, <2>2
  <1>3. /\ secret' = [secret EXCEPT ![f] = n] /\ spoiled' = Disturb({})
        /\ UNCHANGED <<adapter, loads, click, known>>
    BY <1>2 DEF Elsewhere
  <1>4. n <= written' /\ written' \in written .. MaxValues /\ written <= written' /\ written' \in Nat
    BY <1>1, <1>2
  <1>5. secret' \in [Paths -> Nat] /\ \A g \in Paths : secret'[g] <= written'
    BY <1>1, <1>3, <1>4
  <1>6. \A x \in loads' : \A g \in Paths : x.rows[g] <= written'
    <2>1. \A x \in loads : x.rows \in [Paths -> Nat] /\ \A g \in Paths : x.rows[g] <= written
      BY <1>1 DEF ProvidersInv, NumbersWritten, LoadRecords
    <2> QED BY <1>1, <1>3, <1>4, <2>1
  <1>7. /\ adapter' = [p \in LlmProviders |-> adapter'[p]]
        /\ \A p \in LlmProviders : adapter'[p] \in AdaptersOf(p)
    BY <1>3, ProvidersAre
  <1>8. \A p \in LlmProviders : \A g \in FieldsOf[p] : adapter'[p].keys[g] <= written'
    <2>1. ASSUME NEW p \in LlmProviders, NEW g \in FieldsOf[p]
          PROVE  adapter[p].keys[g] \in Nat /\ adapter[p].keys[g] <= written
      BY ProvidersAre DEF AdaptersOf
    <2> QED BY <1>1, <1>3, <1>4, <2>1
  <1>9. PagesOK' /\ Working' = Working
    BY <1>3 DEF ProvidersInv, PagesOK, Working
  <1>10. Working' \subseteq spoiled' /\ spoiled' \subseteq Clicks
    BY <1>1, <1>3, <1>9 DEF Disturb
  <1> QED BY <1>1, <1>3, <1>4, <1>5, <1>6, <1>7, <1>8, <1>9, <1>10, TablesChange

LEMMA ProvidersStep == ProvidersInv /\ [ProvidersNext]_providerVars => ProvidersInv'
  <1> SUFFICES ASSUME ProvidersInv, [ProvidersNext]_providerVars PROVE ProvidersInv'
    OBVIOUS
  <1>1. CASE ProvidersNext
    BY <1>1, RestartStep, ElsewhereStep, BeginStep, WriteStep, TalkStep, ReloadedStep
       DEF ProvidersNext
  <1>2. CASE UNCHANGED providerVars
    <2>1. Working' = Working
      BY <1>2 DEF providerVars, Working
    <2>2. \A a \in Working \ spoiled : Unspoiled(a) => Unspoiled(a)'
      BY <1>2, <2>1 DEF providerVars, Unspoiled, KeysServed, Present, Keys
    <2>3. ProviderTypes' /\ NumbersWritten' /\ PagesOK'
      BY <1>2, <2>1 DEF providerVars, ProvidersInv, ProviderTypes, NumbersWritten, PagesOK
    <2> QED BY <1>2, <2>1, <2>2, <2>3 DEF providerVars, ProvidersInv
  <1> QED BY <1>1, <1>2

LEMMA ProvidersInvariant == ProvidersSpec => []ProvidersInv
  BY ProvidersInitInv, ProvidersStep, PTL DEF ProvidersSpec

\* No table, load or adapter has a value that was not written, and an adapter has one
\* for every field of its provider.
THEOREM ProvidersTypesHold == ProvidersSpec => []ProvidersTypeOK
  <1>1. ProvidersInv => ProvidersTypeOK
    <2> SUFFICES ASSUME ProvidersInv PROVE ProvidersTypeOK
      OBVIOUS
    <2>1. secret \in [Paths -> 0 .. written] /\ written \in 0 .. MaxValues
      BY ProvidersAre
    <2>2. ASSUME NEW p \in LlmProviders
          PROVE  adapter[p] \in [on: BOOLEAN, keys: [FieldsOf[p] -> 0 .. written]]
      <3>1. adapter[p] \in AdaptersOf(p) /\ \A f \in FieldsOf[p] : adapter[p].keys[f] <= written
        BY ProvidersAre
      <3>2. adapter[p].keys \in [FieldsOf[p] -> 0 .. written]
        BY <3>1, ProvidersAre DEF AdaptersOf
      <3> QED BY <3>1, <3>2 DEF AdaptersOf
    <2>3. ASSUME NEW x \in loads PROVE x.of \in Clicks /\ x.rows \in [Paths -> 0 .. written]
      <3>1. x \in LoadRecords /\ \A f \in Paths : x.rows[f] <= written
        BY DEF ProvidersInv, ProviderTypes, NumbersWritten
      <3> QED BY <3>1, ProvidersAre DEF LoadRecords
    <2>4. \A a \in Clicks : click[a].left \subseteq Paths
      BY ProvidersAre DEF ProviderPages
    <2> QED BY <2>1, <2>2, <2>3, <2>4, ProvidersAre DEF ProvidersTypeOK
  <1> QED BY <1>1, ProvidersInvariant, PTL

\* For any providers, fields and pages: what a page that nothing got into has saved is
\* what requests go out with.
THEOREM SavedKeysAreServed == ProvidersSpec => []SavedIsServed
  <1>1. ProvidersInv => SavedIsServed
    BY DEF ProvidersInv, Unspoiled, KeysServed, SavedIsServed, Working
  <1> QED BY <1>1, ProvidersInvariant, PTL

-----------------------------------------------------------------------------
(* The archives and the commands that unpack them.                         *)

CommandStages ==
    {"rest", "picking", "verifying", "main", "settings", "cleaning", "over"}
Commands ==
    [at: CommandStages, asked: ArchiveNames \cup {OwnData},
     picked: ArchiveNames \cup {OwnData}, verify: BOOLEAN, dry: BOOLEAN,
     skip: SUBSET Parts, inPlace: BOOLEAN, put: SUBSET Parts,
     said: {"none", "refused", "complete", "failed"}, stray: BOOLEAN]
KeptArchives == [made: BOOLEAN, parts: SUBSET Parts, damaged: SUBSET (Parts \cup {"metadata"})]
Configurations == ArchiveNames \cup {OwnData, "absent", "several"}

ArchiveTypes ==
    /\ kind \in {"backup", "bundle"}
    /\ database \in ArchiveNames \cup {OwnData, "ruined"}
    /\ configured \in Configurations /\ first \in Configurations
    /\ kept \in [ArchiveNames -> KeptArchives]
    /\ unpacker \in [Unpackers -> Commands]
    /\ held \subseteq ArchiveNames /\ torn \subseteq held /\ spoilt \in BOOLEAN

(* What is held is an archive that was made; bundles leave the settings    *)
(* that were there first.                                                  *)
MadeArchives ==
    /\ \A a \in ArchiveNames : kept[a].damaged \subseteq kept[a].parts \cup {"metadata"}
    /\ \A a \in held : kept[a].made
    /\ kind = "bundle" => configured = first

DirectoryIsOwned == held # {} => spoilt \/ Busy # {}

(* What a restore is to put in place; and how a command that nobody        *)
(* disturbs verifies, installs and reports on the archive it was asked for. *)
Owed(it) == kept[it.asked].parts \ (it.skip \cup kept[it.asked].damaged)
Restores(it) == kind = "backup" /\ "metadata" \notin kept[it.asked].damaged
Undisturbed(it) ==
    /\ it.picked \in {OwnData, it.asked}
    /\ it.at \in {"verifying", "main", "settings", "cleaning"} => it.picked = it.asked
    /\ it.verify /\ ~it.inPlace /\ it.at \in {"main", "settings", "cleaning"} =>
           kept[it.asked].damaged \subseteq {"metadata"}
    /\ Restores(it) /\ it.at = "settings" => Owed(it) \cap {"main"} \subseteq it.put
    /\ Restores(it) /\ (it.at = "cleaning" \/ (it.said = "complete" /\ ~it.dry)) => Owed(it) \subseteq it.put

CommandOK(it) ==
    /\ it.at = "rest" => it = RestingUnpacker
    /\ it.at # "rest" => it.asked \in ArchiveNames /\ kept[it.asked].made
    /\ it.at # "over" => it.said = "none"
    /\ it.at \in {"rest", "picking", "verifying"} \/ it.said = "refused" => it.put = {}
    /\ it.put \cap it.skip = {}
    /\ it.inPlace => kind = "bundle" /\ it.at # "picking"
    /\ ~it.stray => Undisturbed(it)

(* The directory holds what one asked for that nobody disturbs.            *)
HasDirectory ==
    \A u \in Busy : ~unpacker[u].stray => held = {unpacker[u].asked} /\ torn = {} /\ Busy = {u}

ArchivesInv ==
    /\ ArchiveTypes /\ MadeArchives /\ DirectoryIsOwned /\ HasDirectory
    /\ \A u \in Unpackers : CommandOK(unpacker[u])

LEMMA RestingIsCommand ==
    RestingUnpacker \in Commands /\ CommandOK(RestingUnpacker)
  BY DEF RestingUnpacker, Commands, CommandStages, CommandOK, Undisturbed, Restores, Owed, OwnData

LEMMA ArchivesInitInv == ArchivesInit => ArchivesInv
  <1> SUFFICES ASSUME ArchivesInit PROVE ArchivesInv
    OBVIOUS
  <1>1. NoArchive \in KeptArchives
    BY DEF NoArchive, KeptArchives
  <1>2. ArchiveTypes
    BY <1>1, RestingIsCommand DEF ArchivesInit, ArchiveTypes, Configurations
  <1>3. MadeArchives
    BY DEF ArchivesInit, MadeArchives, NoArchive
  <1>4. Busy = {}
    BY DEF ArchivesInit, Busy, RestingUnpacker
  <1> QED BY <1>2, <1>3, <1>4, RestingIsCommand
        DEF ArchivesInit, ArchivesInv, DirectoryIsOwned, HasDirectory

\* Whether a command is under way.
Works(u) == u \in Unpackers /\ unpacker[u].at \notin {"rest", "over"}
\* What becomes of the directory as a command goes on to `to'.
Leaves(u, to) ==
    \/ to # "over" /\ UNCHANGED <<held, torn, spoilt>>
    \/ to = "over" /\ (Removes(u) \/ LeavesBehind(u))

\* Nothing a command must have looks at what a step of another changes.
LEMMA CommandStays ==
    ASSUME NEW v, UNCHANGED <<kind, kept>>, unpacker'[v] = unpacker[v], CommandOK(unpacker[v])
    PROVE  CommandOK(unpacker[v])'
  BY DEF CommandOK, Undisturbed, Restores, Owed

\* A command under way takes a step, and with its last the directory is
\* removed, or left behind.
LEMMA CommandMoves ==
    ASSUME ArchivesInv, NEW u, Works(u), NEW r \in Commands,
           unpacker' = [unpacker EXCEPT ![u] = r], UNCHANGED <<kind, kept>>,
           CommandOK(r), r.at # "rest", r.inPlace = unpacker[u].inPlace,
           r.stray = unpacker[u].stray, r.asked = unpacker[u].asked, Leaves(u, r.at)
    PROVE  /\ unpacker' \in [Unpackers -> Commands]
           /\ held' \subseteq held /\ torn' \subseteq held' /\ spoilt' \in BOOLEAN
           /\ DirectoryIsOwned' /\ HasDirectory'
           /\ \A v \in Unpackers : CommandOK(unpacker[v])'
  <1>1. /\ u \in Unpackers /\ unpacker \in [Unpackers -> Commands] /\ spoilt \in BOOLEAN
        /\ torn \subseteq held /\ unpacker[u].inPlace \in BOOLEAN
    BY DEF ArchivesInv, ArchiveTypes, Works, Commands
  <1>2. unpacker' \in [Unpackers -> Commands]
    BY <1>1
  <1>3. held' \subseteq held /\ torn' \subseteq held' /\ spoilt' \in BOOLEAN
    BY <1>1 DEF Removes, LeavesBehind, Leaves
  <1>4. Busy' = IF r.at = "over" THEN Busy \ {u} ELSE Busy
    BY <1>1 DEF Busy, Works
  <1>5. DirectoryIsOwned'
    <2>1. CASE unpacker[u].inPlace
      <3>1. u \notin Busy
        BY <2>1 DEF Busy
      <3> QED BY <1>4, <2>1, <3>1 DEF DirectoryIsOwned, ArchivesInv, Removes, LeavesBehind, Leaves
    <2>2. CASE ~unpacker[u].inPlace
      BY <1>4, <2>2 DEF DirectoryIsOwned, ArchivesInv, Removes, LeavesBehind, Leaves
    <2> QED BY <2>1, <2>2
  <1>6. ASSUME NEW v \in Busy', ~unpacker'[v].stray
        PROVE  held' = {unpacker'[v].asked} /\ torn' = {} /\ Busy' = {v}
    <2>1. v \in Busy /\ unpacker'[v].stray = unpacker[v].stray /\ unpacker'[v].asked = unpacker[v].asked
      BY <1>1, <1>4 DEF Busy
    <2>2. Busy = {v} /\ held = {unpacker[v].asked} /\ torn = {}
      BY <1>6, <2>1 DEF ArchivesInv, HasDirectory
    <2>3. CASE v = u
      BY <1>4, <1>6, <2>1, <2>2, <2>3 DEF Leaves
    <2>4. CASE v # u
      <3>1. unpacker[u].inPlace
        BY <1>1, <2>2, <2>4 DEF Busy, Works
      <3>2. u \notin Busy
        BY <3>1 DEF Busy
      <3> QED BY <1>4, <2>1, <2>2, <3>1, <3>2 DEF Leaves, Removes, LeavesBehind
    <2> QED BY <2>3, <2>4
  <1>7. ASSUME NEW v \in Unpackers PROVE CommandOK(unpacker[v])'
    <2>1. CASE v = u
      BY <2>1, <1>1 DEF CommandOK, Undisturbed, Restores, Owed
    <2>2. CASE v # u
      <3>1. unpacker'[v] = unpacker[v] /\ CommandOK(unpacker[v])
        BY <2>2, <1>1 DEF ArchivesInv
      <3> QED BY <3>1, CommandStays
    <2> QED BY <2>1, <2>2
  <1> QED BY <1>2, <1>3, <1>5, <1>6, <1>7 DEF HasDirectory

\* The same, as it is used: the tables are as before, or as they should be.
LEMMA CommandDone ==
    ASSUME ArchivesInv, NEW u, Works(u), NEW r \in Commands,
           unpacker' = [unpacker EXCEPT ![u] = r], UNCHANGED <<kind, kept>>,
           CommandOK(r), r.at # "rest", r.inPlace = unpacker[u].inPlace,
           r.stray = unpacker[u].stray, r.asked = unpacker[u].asked, Leaves(u, r.at),
           database' \in ArchiveNames \cup {OwnData, "ruined"},
           configured' \in Configurations, first' \in Configurations,
           kind = "bundle" => configured' = first'
    PROVE  ArchivesInv'
  <1>1. /\ unpacker' \in [Unpackers -> Commands]
        /\ held' \subseteq held /\ torn' \subseteq held' /\ spoilt' \in BOOLEAN
        /\ DirectoryIsOwned' /\ HasDirectory'
        /\ \A v \in Unpackers : CommandOK(unpacker[v])'
    BY CommandMoves
  <1>2. ArchiveTypes'
    BY <1>1 DEF ArchivesInv, ArchiveTypes
  <1>3. MadeArchives'
    BY <1>1 DEF ArchivesInv, MadeArchives, ArchiveTypes
  <1> QED BY <1>1, <1>2, <1>3 DEF ArchivesInv

LEMMA DamageStep == ASSUME ArchivesInv, NEW a \in ArchiveNames, Damage(a) PROVE ArchivesInv'
  <1>1. PICK part \in kept[a].parts \cup {"metadata"} : kept' = [kept EXCEPT ![a].damaged = {part}]
    BY DEF Damage
  <1> USE DEF KeptArchives
  <1>2. kept \in [ArchiveNames -> KeptArchives]
    BY DEF ArchivesInv, ArchiveTypes
  <1>3. /\ kept' \in [ArchiveNames -> KeptArchives]
        /\ \A b \in ArchiveNames : /\ kept'[b].made = kept[b].made /\ kept'[b].parts = kept[b].parts
                                   /\ kept'[b].damaged = IF b = a THEN {part} ELSE kept[b].damaged
    BY <1>1, <1>2
  <1> HIDE DEF KeptArchives
  <1>4. UNCHANGED <<kind, database, configured, first, unpacker, held, torn, spoilt>>
    BY DEF Damage
  <1>5. ArchiveTypes'
    BY <1>3, <1>4 DEF ArchivesInv, ArchiveTypes
  <1>6. MadeArchives'
    BY <1>1, <1>3, <1>4 DEF ArchivesInv, MadeArchives, ArchiveTypes
  <1>7. DirectoryIsOwned' /\ HasDirectory'
    BY <1>4 DEF ArchivesInv, DirectoryIsOwned, HasDirectory, Busy
  <1>8. kept[a].damaged = {}
    BY DEF Damage
  <1>9. ASSUME NEW u \in Unpackers PROVE CommandOK(unpacker[u])'
    <2> DEFINE it == unpacker[u]
    <2>1. CommandOK(it) /\ it \in Commands
      BY DEF ArchivesInv, ArchiveTypes
    <2>2. ASSUME ~it.stray, ~it.inPlace, it.at \in {"main", "settings", "cleaning"} PROVE it.asked # a
      <3>1. u \in Busy
        BY <2>2 DEF Busy
      <3>2. held = {it.asked}
        BY <2>2, <3>1 DEF ArchivesInv, HasDirectory
      <3> QED BY <3>2 DEF Damage
    <2>3. it.at # "rest" => it.asked \in ArchiveNames
      BY <2>1 DEF CommandOK
    <2>4. it' = it
      BY <1>4
    <2>5. ~it.stray => Undisturbed(it)'
      <3> SUFFICES ASSUME ~it.stray PROVE Undisturbed(it)'
        BY <2>4
      <3>1. Undisturbed(it)
        BY <2>1 DEF CommandOK
      <3>2. it.at # "rest"  => /\ kept'[it.asked].parts = kept[it.asked].parts
                               /\ kept[it.asked].damaged \subseteq kept'[it.asked].damaged
        BY <1>3, <1>8, <2>3
      <3>3. it.at = "rest" => it.said = "none"
        BY <2>1 DEF CommandOK
      <3>4. ~it.inPlace /\ it.at \in {"main", "settings", "cleaning"} =>
                kept'[it.asked].damaged = kept[it.asked].damaged
        BY <2>2, <2>3, <1>3
      <3>5. kind' = kind
        BY <1>4
      <3> HIDE DEF it
      <3> QED BY <2>4, <3>1, <3>2, <3>3, <3>4, <3>5 DEF Undisturbed, Restores, Owed
    <2>6. it.at # "rest" => kept'[it.asked].made = kept[it.asked].made
      BY <1>3, <2>3
    <2> HIDE DEF it
    <2>7. CommandOK(it)'
      BY <1>4, <2>1, <2>4, <2>5, <2>6 DEF CommandOK
    <2> QED BY <2>7 DEF it
  <1> QED BY <1>5, <1>6, <1>7, <1>9 DEF ArchivesInv

LEMMA PackStep ==
    ASSUME ArchivesInv, NEW a \in ArchiveNames, PackBackup(a) \/ PackBundle(a)
    PROVE  ArchivesInv'
  <1>1. PICK parts \in SUBSET Parts : Packs(a, parts)
    BY DEF PackBackup, PackBundle
  <1>2. UNCHANGED <<kind, database, configured, first, unpacker, held, torn, spoilt>>
    BY DEF PackBackup, PackBundle
  <1>3. ~kept[a].made /\ kept \in [ArchiveNames -> KeptArchives]
    BY <1>1 DEF Packs, ArchivesInv, ArchiveTypes
  <1>4. [made |-> TRUE, parts |-> parts, damaged |-> {}] \in KeptArchives
    BY DEF KeptArchives
  <1>5. /\ kept' \in [ArchiveNames -> KeptArchives]
        /\ \A b \in ArchiveNames \ {a} : kept'[b] = kept[b]
        /\ kept'[a].damaged = {}
    BY <1>1, <1>3, <1>4 DEF Packs
  <1>6. \A b \in ArchiveNames : kept[b].made => b # a /\ kept'[b] = kept[b]
    BY <1>3, <1>5
  <1>7. ArchiveTypes'
    BY <1>2, <1>5 DEF ArchivesInv, ArchiveTypes
  <1>8. MadeArchives'
    BY <1>2, <1>5, <1>6 DEF ArchivesInv, MadeArchives, ArchiveTypes
  <1>9. DirectoryIsOwned' /\ HasDirectory'
    BY <1>2 DEF ArchivesInv, DirectoryIsOwned, HasDirectory, Busy
  <1>10. ASSUME NEW u \in Unpackers PROVE CommandOK(unpacker[u])'
    <2> DEFINE it == unpacker[u]
    <2>1. CommandOK(it) /\ it' = it /\ kind' = kind
      BY <1>2 DEF ArchivesInv
    <2>2. CASE it.at = "rest"
      BY <2>1, <2>2 DEF CommandOK, Undisturbed, Restores, Owed, RestingUnpacker, OwnData
    <2>3. CASE it.at # "rest"
      <3>1. it.asked \in ArchiveNames /\ kept[it.asked].made
        BY <2>1, <2>3 DEF CommandOK
      <3>2. kept'[it.asked] = kept[it.asked]
        BY <3>1, <1>6
      <3> HIDE DEF it
      <3>3. CommandOK(it)'
        BY <2>1, <3>2 DEF CommandOK, Undisturbed, Restores, Owed
      <3> QED BY <3>3 DEF it
    <2> QED BY <2>2, <2>3
  <1> QED BY <1>7, <1>8, <1>9, <1>10 DEF ArchivesInv

\* A command begins, or fails as it would: beside those that use the directory, which it
\* disturbs.
LEMMA CommandBegins ==
    ASSUME ArchivesInv, NEW u \in Unpackers, unpacker[u].at = "rest",
           NEW how \in Commands, NEW mine \in Commands, Begins(u, how),
           mine = [how EXCEPT !.stray = spoilt \/ Busy # {}],
           how.at # "rest", ~how.inPlace, CommandOK(mine)
    PROVE  /\ unpacker' \in [Unpackers -> Commands] /\ unpacker'[u] = mine
           /\ Busy' = Busy \cup (IF how.at = "over" THEN {} ELSE {u})
           /\ \A w \in Busy : unpacker'[w].stray
           /\ \A w \in Unpackers : CommandOK(unpacker'[w])
  <1> DEFINE theirs(w) == [unpacker[w] EXCEPT !.stray = TRUE]
  <1>1. unpacker' = [w \in Unpackers |->
            IF w = u THEN mine ELSE IF w \in Busy THEN theirs(w) ELSE unpacker[w]]
    BY DEF Begins
  <1>2. ArchiveTypes /\ \A w \in Unpackers : CommandOK(unpacker[w])
    BY DEF ArchivesInv
  <1>3. ASSUME NEW w \in Unpackers
        PROVE  /\ theirs(w) \in Commands /\ theirs(w).stray
               /\ theirs(w).at = unpacker[w].at /\ theirs(w).asked = unpacker[w].asked
               /\ theirs(w).said = unpacker[w].said /\ theirs(w).put = unpacker[w].put
               /\ theirs(w).skip = unpacker[w].skip /\ theirs(w).inPlace = unpacker[w].inPlace
    <2>1. unpacker[w] \in Commands
      BY <1>2 DEF ArchiveTypes
    <2> QED BY <2>1 DEF Commands
  <1>4. \A w \in Busy : CommandOK(theirs(w))
    <2> SUFFICES ASSUME NEW w \in Busy PROVE CommandOK(theirs(w))
      OBVIOUS
    <2>1. w \in Unpackers /\ unpacker[w].at # "rest"
      BY DEF Busy
    <2> HIDE DEF theirs
    <2> QED BY <1>2, <1>3, <2>1 DEF CommandOK
  <1>5. u \notin Busy
    BY DEF Busy
  <1>6. mine.at = how.at /\ mine.inPlace = how.inPlace
    BY DEF Commands
  <1> HIDE DEF theirs
  <1>7. unpacker' \in [Unpackers -> Commands]
    <2>1. ASSUME NEW w \in Unpackers PROVE unpacker[w] \in Commands /\ theirs(w) \in Commands
      BY <1>2, <1>3 DEF ArchiveTypes
    <2> QED BY <1>1, <2>1
  <1>8. Busy' = Busy \cup (IF how.at = "over" THEN {} ELSE {u})
    <2>1. \A w \in Unpackers : w \in Busy' <=> (w = u /\ how.at # "over") \/ w \in Busy
      BY <1>1, <1>3, <1>5, <1>6 DEF Busy
    <2> QED BY <2>1 DEF Busy
  <1>9. \A w \in Busy : unpacker'[w].stray
    <2>1. \A w \in Busy : w \in Unpackers
      BY DEF Busy
    <2> QED BY <1>1, <1>3, <1>5, <2>1
  <1>10. ASSUME NEW w \in Unpackers PROVE CommandOK(unpacker'[w])
    <2>1. CASE w = u
      BY <1>1, <2>1
    <2>2. CASE w # u /\ w \in Busy
      BY <1>1, <1>4, <2>2
    <2>3. CASE w # u /\ w \notin Busy
      BY <1>1, <1>2, <2>3
    <2> QED BY <2>1, <2>2, <2>3
  <1> QED BY <1>1, <1>7, <1>8, <1>9, <1>10

LEMMA UnpackStep ==
    ASSUME ArchivesInv, NEW u \in Unpackers, NEW a \in ArchiveNames,
           NEW options \in Options, Unpack(u, a, options)
    PROVE  ArchivesInv'
  <1> DEFINE how == Told(a, options)
             mine == [how EXCEPT !.stray = spoilt \/ Busy # {}]
  <1>1. unpacker[u].at = "rest" /\ kept[a].made /\ Begins(u, how)
    BY DEF Unpack
  <1>2. /\ held' = held \cup {a} /\ torn' = torn \ {a}
        /\ UNCHANGED <<kind, database, configured, first, kept, spoilt>>
    BY DEF Unpack
  <1>3. ArchiveTypes /\ MadeArchives
    BY DEF ArchivesInv
  <1>4. options.verify \in BOOLEAN /\ options.dry \in BOOLEAN /\ options.skip \in SUBSET Parts
    BY DEF Options
  <1>5. how \in Commands /\ how.at = "picking" /\ ~how.inPlace
    BY <1>4 DEF Told, RestingUnpacker, Commands, CommandStages, OwnData
  <1>6. /\ mine \in Commands /\ mine.at = "picking" /\ mine.asked = a /\ ~mine.inPlace
        /\ mine.picked = OwnData /\ mine.said = "none" /\ mine.put = {}
        /\ mine.stray = (spoilt \/ Busy # {})
    BY <1>3, <1>4 DEF Told, RestingUnpacker, Commands, CommandStages, OwnData, ArchiveTypes
  <1>7. CommandOK(mine)
    <2> HIDE DEF mine
    <2> QED BY <1>1, <1>6 DEF CommandOK, Undisturbed
  <1>8. /\ unpacker' \in [Unpackers -> Commands] /\ unpacker'[u] = mine
        /\ Busy' = Busy \cup {u} /\ \A w \in Busy : unpacker'[w].stray
        /\ \A w \in Unpackers : CommandOK(unpacker'[w])
    <2> HIDE DEF how
    <2> QED BY <1>1, <1>5, <1>6, <1>7, CommandBegins
  <1> HIDE DEF how, mine
  <1>9. ArchiveTypes'
    BY <1>2, <1>3, <1>8 DEF ArchiveTypes
  <1>10. MadeArchives'
    BY <1>1, <1>2, <1>3 DEF MadeArchives
  <1>11. DirectoryIsOwned'
    BY <1>8 DEF DirectoryIsOwned
  <1>12. ASSUME NEW w \in Busy', ~unpacker'[w].stray
         PROVE  held' = {unpacker'[w].asked} /\ torn' = {} /\ Busy' = {w}
    <2>1. w = u /\ unpacker'[u] = mine
      BY <1>8, <1>12
    <2>2. ~spoilt /\ Busy = {}
      BY <1>6, <1>12, <2>1
    <2>3. held = {} /\ torn = {}
      BY <1>3, <2>2 DEF ArchivesInv, DirectoryIsOwned, ArchiveTypes
    <2> QED BY <1>2, <1>6, <1>8, <2>1, <2>2, <2>3
  <1>13. ASSUME NEW w \in Unpackers PROVE CommandOK(unpacker[w])'
    BY <1>2, <1>8 DEF CommandOK, Undisturbed, Restores, Owed
  <1> QED BY <1>9, <1>10, <1>11, <1>12, <1>13 DEF ArchivesInv, HasDirectory

LEMMA TarFailsStep ==
    ASSUME ArchivesInv, NEW u \in Unpackers, NEW a \in ArchiveNames, TarFails(u, a)
    PROVE  ArchivesInv'
  <1> DEFINE how == [RestingUnpacker EXCEPT !.at = "over", !.asked = a, !.said = "failed"]
             mine == [how EXCEPT !.stray = spoilt \/ Busy # {}]
  <1>1. unpacker[u].at = "rest" /\ kept[a].made /\ Begins(u, how)
    BY DEF TarFails
  <1>2. /\ (held' = held \cup {a} /\ torn' = torn \cup {a}) \/ UNCHANGED <<held, torn>>
        /\ spoilt' = TRUE /\ UNCHANGED <<kind, database, configured, first, kept>>
    BY DEF TarFails
  <1>3. ArchiveTypes /\ MadeArchives
    BY DEF ArchivesInv
  <1>4. how \in Commands /\ how.at = "over" /\ ~how.inPlace
    BY DEF RestingUnpacker, Commands, CommandStages, OwnData
  <1>5. /\ mine \in Commands /\ mine.at = "over" /\ mine.asked = a /\ ~mine.inPlace
        /\ mine.picked = OwnData /\ mine.said = "failed" /\ mine.put = {}
    BY <1>3 DEF RestingUnpacker, Commands, CommandStages, OwnData, ArchiveTypes
  <1>6. CommandOK(mine)
    <2> HIDE DEF mine
    <2> QED BY <1>1, <1>5 DEF CommandOK, Undisturbed
  <1>7. /\ unpacker' \in [Unpackers -> Commands]
        /\ Busy' = Busy /\ \A w \in Busy : unpacker'[w].stray
        /\ \A w \in Unpackers : CommandOK(unpacker'[w])
    <2>1. mine = [how EXCEPT !.stray = spoilt \/ Busy # {}] /\ how.at # "rest"
      BY <1>4
    <2> HIDE DEF how, mine
    <2>2. Busy' = Busy \cup (IF how.at = "over" THEN {} ELSE {u})
      BY <1>1, <1>4, <1>5, <1>6, <2>1, CommandBegins
    <2> QED BY <1>1, <1>4, <1>5, <1>6, <2>1, <2>2, CommandBegins
  <1> HIDE DEF how, mine
  <1>8. ArchiveTypes'
    BY <1>2, <1>3, <1>7 DEF ArchiveTypes
  <1>9. MadeArchives'
    BY <1>1, <1>2, <1>3 DEF MadeArchives
  <1>10. DirectoryIsOwned' /\ HasDirectory'
    BY <1>2, <1>7 DEF DirectoryIsOwned, HasDirectory
  <1>11. ASSUME NEW w \in Unpackers PROVE CommandOK(unpacker[w])'
    BY <1>2, <1>7 DEF CommandOK, Undisturbed, Restores, Owed
  <1> QED BY <1>8, <1>9, <1>10, <1>11 DEF ArchivesInv

LEMMA UseInPlaceStep ==
    ASSUME ArchivesInv, NEW u \in Unpackers, NEW a \in ArchiveNames,
           NEW options \in Options, UseInPlace(u, a, options)
    PROVE  ArchivesInv'
  <1> DEFINE mine == [Told(a, options) EXCEPT !.at = "verifying", !.picked = a, !.inPlace = TRUE]
  <1>1. /\ kind = "bundle" /\ unpacker[u].at = "rest" /\ kept[a].made
        /\ unpacker' = [unpacker EXCEPT ![u] = mine]
        /\ UNCHANGED <<kind, database, configured, first, kept, held, torn, spoilt>>
    BY DEF UseInPlace
  <1>2. options.verify \in BOOLEAN /\ options.dry \in BOOLEAN /\ options.skip \in SUBSET Parts
    BY DEF Options
  <1>3. /\ mine \in Commands /\ mine.at = "verifying" /\ mine.asked = a /\ mine.inPlace
        /\ mine.picked = a /\ mine.said = "none" /\ mine.put = {}
    BY <1>2 DEF Told, RestingUnpacker, Commands, CommandStages, OwnData
  <1> HIDE DEF mine
  <1>4. CommandOK(mine)
    BY <1>1, <1>3 DEF CommandOK, Undisturbed
  <1>5. /\ unpacker \in [Unpackers -> Commands] /\ \A w \in Unpackers : CommandOK(unpacker[w])
    BY DEF ArchivesInv, ArchiveTypes
  <1>6. /\ unpacker' \in [Unpackers -> Commands] /\ \A w \in Unpackers : CommandOK(unpacker'[w])
    BY <1>1, <1>3, <1>4, <1>5
  <1>7. Busy' = Busy /\ \A w \in Busy : unpacker'[w] = unpacker[w]
    BY <1>1, <1>3, <1>5 DEF Busy
  <1>8. ArchiveTypes' /\ MadeArchives'
    BY <1>1, <1>6 DEF ArchivesInv, ArchiveTypes, MadeArchives
  <1>9. DirectoryIsOwned' /\ HasDirectory'
    BY <1>1, <1>7 DEF ArchivesInv, DirectoryIsOwned, HasDirectory
  <1>10. ASSUME NEW w \in Unpackers PROVE CommandOK(unpacker[w])'
    BY <1>1, <1>6 DEF CommandOK, Undisturbed, Restores, Owed
  <1> QED BY <1>8, <1>9, <1>10 DEF ArchivesInv

LEMMA CommandIs ==
    ASSUME ArchivesInv, NEW u \in Unpackers
    PROVE  /\ unpacker[u] \in Commands /\ CommandOK(unpacker[u]) /\ unpacker \in [Unpackers -> Commands]
           /\ held \subseteq ArchiveNames /\ kept \in [ArchiveNames -> KeptArchives]
           /\ kind \in {"backup", "bundle"}
           /\ database \in ArchiveNames \cup {OwnData, "ruined"}
           /\ configured \in Configurations /\ first \in Configurations
           /\ kind = "bundle" => configured = first
           /\ unpacker[u].at \notin {"rest", "over"} => Works(u)
  BY DEF ArchivesInv, ArchiveTypes, MadeArchives, Works

\* One that nobody disturbs finds what it asked for.
LEMMA NotGone ==
    ASSUME ArchivesInv, NEW u \in Busy, ~unpacker[u].stray
    PROVE  /\ held = {unpacker[u].asked}
           /\ unpacker[u].at # "picking" => ~Gone(u) /\ ~Torn(u) /\ unpacker[u].picked = unpacker[u].asked
  <1>1. u \in Unpackers /\ unpacker[u].at \notin {"rest", "over"}
    BY DEF Busy
  <1>2. held = {unpacker[u].asked} /\ torn = {}
    BY DEF ArchivesInv, HasDirectory
  <1>3. Undisturbed(unpacker[u])
    BY <1>1, CommandIs DEF CommandOK
  <1>4. unpacker[u].at \in CommandStages
    BY <1>1, CommandIs DEF Commands
  <1> QED BY <1>1, <1>2, <1>3, <1>4 DEF Undisturbed, Gone, Torn, CommandStages

LEMMA PickStep == ASSUME ArchivesInv, NEW u \in Unpackers, Pick(u) PROVE ArchivesInv'
  <1>1. unpacker[u].at = "picking"
    BY DEF Pick
  <1>2. PICK a \in held : unpacker' = [unpacker EXCEPT ![u].at = "verifying", ![u].picked = a]
    BY DEF Pick
  <1> DEFINE it == unpacker[u]
             r == [it EXCEPT !.at = "verifying", !.picked = a]
  <1>3. /\ unpacker' = [unpacker EXCEPT ![u] = r]
        /\ UNCHANGED <<kind, database, configured, first, kept, held, torn, spoilt>>
    BY <1>2, CommandIs DEF Pick
  <1>4. Works(u) /\ it \in Commands /\ CommandOK(it) /\ a \in ArchiveNames
    BY <1>1, <1>2, CommandIs
  <1>5. /\ r \in Commands /\ r.at = "verifying" /\ r.picked = a /\ r.stray = it.stray
        /\ r.asked = it.asked /\ r.said = it.said /\ r.put = it.put /\ r.skip = it.skip
        /\ r.inPlace = it.inPlace
    BY <1>4 DEF Commands, CommandStages
  <1>6. ~it.stray => a = it.asked
    <2>1. u \in Busy
      BY <1>1, <1>4 DEF Busy, CommandOK
    <2> QED BY <1>2, <2>1, NotGone
  <1> HIDE DEF r
  <1>7. CommandOK(r)
    BY <1>1, <1>4, <1>5, <1>6 DEF CommandOK, Undisturbed
  <1>8. Leaves(u, r.at)
    BY <1>3, <1>5 DEF Leaves
  <1> QED BY <1>3, <1>4, <1>5, <1>7, <1>8, CommandDone, CommandIs

\* A command that ends without saying that it is complete.
LEMMA CommandStops ==
    ASSUME ArchivesInv, NEW u \in Unpackers, unpacker[u].at \notin {"rest", "over"},
           NEW said \in {"refused", "failed"}, CommandEnds(u, said), Removes(u) \/ LeavesBehind(u),
           said = "refused" => unpacker[u].put = {}, UNCHANGED <<kind, kept>>,
           database' \in ArchiveNames \cup {OwnData, "ruined"},
           configured' \in Configurations, first' \in Configurations,
           kind = "bundle" => configured' = first'
    PROVE  ArchivesInv'
  <1> DEFINE it == unpacker[u]
             r == [it EXCEPT !.at = "over", !.said = said]
  <1>1. Works(u) /\ it \in Commands /\ CommandOK(it)
    BY CommandIs
  <1>2. unpacker' = [unpacker EXCEPT ![u] = r]
    BY CommandIs DEF CommandEnds
  <1>3. /\ r \in Commands /\ r.at = "over" /\ r.picked = it.picked /\ r.stray = it.stray
        /\ r.asked = it.asked /\ r.said = said /\ r.put = it.put /\ r.skip = it.skip
        /\ r.inPlace = it.inPlace
    BY <1>1 DEF Commands, CommandStages
  <1> HIDE DEF r
  <1>4. CommandOK(r)
    BY <1>1, <1>3 DEF CommandOK, Undisturbed
  <1>5. Leaves(u, r.at)
    BY <1>3 DEF Leaves
  <1> QED BY <1>1, <1>2, <1>3, <1>4, <1>5, CommandDone

LEMMA RefusedStep == ASSUME ArchivesInv, NEW u \in Unpackers, Refused(u) PROVE ArchivesInv'
  <1>1. unpacker[u].at \in {"picking", "verifying"} /\ UNCHANGED <<kind, database, configured, first, kept>>
    BY DEF Refused
  <1>2. CommandEnds(u, "refused") /\ (Removes(u) \/ LeavesBehind(u))
    BY DEF Refused, Refuses
  <1>3. unpacker[u].put = {}
    BY <1>1, CommandIs DEF CommandOK
  <1> QED BY <1>1, <1>2, <1>3, CommandStops, CommandIs

LEMMA ThrowsStep ==
    ASSUME ArchivesInv, NEW u \in Unpackers, MetadataThrows(u) \/ Interrupted(u) PROVE ArchivesInv'
  <1>1. /\ unpacker[u].at \notin {"rest", "over"} /\ CommandEnds(u, "failed") /\ LeavesBehind(u)
        /\ UNCHANGED <<kind, database, configured, first, kept>>
    BY DEF MetadataThrows, Interrupted
  <1> QED BY <1>1, CommandStops, CommandIs

LEMMA RestoreFailsStep == ASSUME ArchivesInv, NEW u \in Unpackers, RestoreFails(u) PROVE ArchivesInv'
  <1>1. /\ unpacker[u].at = "main" /\ CommandEnds(u, "failed") /\ LeavesBehind(u)
        /\ database' = "ruined" /\ UNCHANGED <<kind, configured, first, kept>>
    BY DEF RestoreFails
  <1> QED BY <1>1, CommandStops, CommandIs

\* Settings are put in place, by a bundle only where there are none.
LEMMA SettingsFit ==
    ASSUME ArchivesInv, NEW to \in Configurations, SettingsAre(to),
           kind = "bundle" => to = configured \/ configured = "absent"
    PROVE  /\ configured' \in Configurations /\ first' \in Configurations
           /\ kind = "bundle" => configured' = first'
  BY DEF ArchivesInv, ArchiveTypes, MadeArchives, SettingsAre

LEMMA SettingsFailStep == ASSUME ArchivesInv, NEW u \in Unpackers, SettingsFail(u) PROVE ArchivesInv'
  <1>1. /\ unpacker[u].at = "settings" /\ CommandEnds(u, "failed") /\ LeavesBehind(u)
        /\ UNCHANGED <<kind, database, kept>>
    BY DEF SettingsFail
  <1>2. PICK to \in {configured, "several"} :
            SettingsAre(IF kind = "backup" \/ configured = "absent" THEN to ELSE configured)
    BY DEF SettingsFail
  <1>3. /\ configured' \in Configurations /\ first' \in Configurations
        /\ kind = "bundle" => configured' = first'
    BY <1>2, SettingsFit, CommandIs DEF Configurations
  <1> QED BY <1>1, <1>3, CommandStops, CommandIs

LEMMA VerifiedStep == ASSUME ArchivesInv, NEW u \in Unpackers, Verified(u) PROVE ArchivesInv'
  <1>1. unpacker[u].at = "verifying" /\ Sound(u)
    BY DEF Verified
  <1> DEFINE it == unpacker[u]
  <1>2. Works(u) /\ it \in Commands /\ CommandOK(it)
    BY <1>1, CommandIs
  <1>3. UNCHANGED <<kind, database, configured, first, kept>>
    BY DEF Verified
  <1>4. CASE it.dry
    <2> DEFINE r == [it EXCEPT !.at = "over", !.said = "complete"]
    <2>1. unpacker' = [unpacker EXCEPT ![u] = r] /\ Removes(u)
      BY <1>4, CommandIs DEF Verified, CommandEnds
    <2>2. /\ r \in Commands /\ r.at = "over" /\ r.picked = it.picked /\ r.stray = it.stray
          /\ r.asked = it.asked /\ r.said = "complete" /\ r.put = it.put /\ r.dry = it.dry
          /\ r.skip = it.skip /\ r.inPlace = it.inPlace
      BY <1>2 DEF Commands, CommandStages
    <2> HIDE DEF r
    <2>3. CommandOK(r)
      BY <1>1, <1>2, <1>4, <2>2 DEF CommandOK, Undisturbed
    <2>4. Leaves(u, r.at)
      BY <2>1, <2>2 DEF Leaves
    <2> QED BY <1>2, <1>3, <2>1, <2>2, <2>3, <2>4, CommandDone, CommandIs
  <1>5. CASE ~it.dry
    <2> DEFINE r == [it EXCEPT !.at = "main"]
    <2>1. unpacker' = [unpacker EXCEPT ![u] = r] /\ UNCHANGED <<held, torn, spoilt>>
      BY <1>5, CommandIs DEF Verified
    <2>2. /\ r \in Commands /\ r.at = "main" /\ r.picked = it.picked /\ r.stray = it.stray
          /\ r.asked = it.asked /\ r.said = it.said /\ r.put = it.put /\ r.verify = it.verify
          /\ r.skip = it.skip /\ r.inPlace = it.inPlace
      BY <1>2 DEF Commands, CommandStages
    <2>3. ~it.stray => it.picked = it.asked
      BY <1>1, <1>2 DEF CommandOK, Undisturbed
    <2>4. ~it.stray => (it.verify => kept[it.asked].damaged \subseteq {"metadata"})
      BY <1>1, <2>3 DEF Sound, Picked
    <2> HIDE DEF r
    <2>5. CommandOK(r)
      BY <1>1, <1>2, <2>2, <2>3, <2>4 DEF CommandOK, Undisturbed
    <2>6. Leaves(u, r.at)
      BY <2>1, <2>2 DEF Leaves
    <2> QED BY <1>2, <1>3, <2>1, <2>2, <2>5, <2>6, CommandDone, CommandIs
  <1> QED BY <1>4, <1>5

\* What a restore that nobody disturbs finds: all that is undamaged.
LEMMA FindsAll ==
    ASSUME ArchivesInv, NEW u \in Unpackers, unpacker[u].at \in {"main", "settings"},
           ~unpacker[u].stray, Restores(unpacker[u]), NEW parts \in Found(u)
    PROVE  Owed(unpacker[u]) \subseteq Wanted(u, parts)
  <1>1. u \in Busy
    BY CommandIs DEF CommandOK, Restores, Busy
  <1>2. ~Gone(u) /\ ~Torn(u) /\ unpacker[u].picked = unpacker[u].asked
    BY <1>1, NotGone
  <1>3. Surely(u) \subseteq parts
    BY DEF Found
  <1>4. kept[unpacker[u].asked].parts \ kept[unpacker[u].asked].damaged \subseteq parts
    BY <1>2, <1>3 DEF Surely, Picked, Restores
  <1> QED BY <1>4 DEF Owed, Wanted

LEMMA InstallMainStep == ASSUME ArchivesInv, NEW u \in Unpackers, InstallMain(u) PROVE ArchivesInv'
  <1>1. /\ unpacker[u].at = "main"
        /\ UNCHANGED <<kind, configured, first, kept, held, torn, spoilt>>
    BY DEF InstallMain
  <1> DEFINE it == unpacker[u]
  <1>2. PICK parts \in Found(u) :
           LET found == Wanted(u, parts) \cap {"main"} IN
           \E loaded \in IF kind = "backup" THEN {found} ELSE SUBSET found :
              /\ database' \in IF kind = "backup" /\ loaded # {} THEN {it.picked, "ruined"} ELSE {database}
              /\ unpacker' = [unpacker EXCEPT ![u].at = "settings", ![u].put = loaded]
    BY DEF InstallMain
  <1> DEFINE found == Wanted(u, parts) \cap {"main"}
  <1>3. PICK loaded \in IF kind = "backup" THEN {found} ELSE SUBSET found :
           /\ database' \in IF kind = "backup" /\ loaded # {} THEN {it.picked, "ruined"} ELSE {database}
           /\ unpacker' = [unpacker EXCEPT ![u].at = "settings", ![u].put = loaded]
    BY <1>2
  <1> DEFINE r == [it EXCEPT !.at = "settings", !.put = loaded]
  <1>4. unpacker' = [unpacker EXCEPT ![u] = r]
    BY <1>3, CommandIs
  <1>5. Works(u) /\ it \in Commands /\ CommandOK(it)
    BY <1>1, CommandIs
  <1>6. loaded \subseteq found /\ (kind = "backup" => loaded = found)
    BY <1>3
  <1>7. loaded \subseteq {"main"} /\ loaded \cap it.skip = {}
    BY <1>6 DEF Wanted
  <1>8. /\ r \in Commands /\ r.at = "settings" /\ r.picked = it.picked /\ r.stray = it.stray
        /\ r.asked = it.asked /\ r.said = it.said /\ r.put = loaded /\ r.verify = it.verify
        /\ r.skip = it.skip /\ r.inPlace = it.inPlace
    BY <1>5, <1>7 DEF Commands, CommandStages, Parts
  <1>9. ~it.stray /\ Restores(it) => Owed(it) \cap {"main"} \subseteq loaded
    <2> SUFFICES ASSUME ~it.stray, Restores(it) PROVE Owed(it) \cap {"main"} \subseteq loaded
      OBVIOUS
    <2>1. Owed(it) \subseteq Wanted(u, parts)
      BY <1>1, FindsAll
    <2>2. loaded = found
      BY <1>6 DEF Restores
    <2> QED BY <2>1, <2>2
  <1>10. database' \in ArchiveNames \cup {OwnData, "ruined"}
    BY <1>3, <1>5, CommandIs DEF Commands
  <1> HIDE DEF r, found
  <1>11. CommandOK(r)
    BY <1>1, <1>5, <1>7, <1>8, <1>9 DEF CommandOK, Undisturbed, Restores, Owed
  <1>12. Leaves(u, r.at)
    BY <1>1, <1>8 DEF Leaves
  <1> QED BY <1>1, <1>4, <1>5, <1>8, <1>10, <1>11, <1>12, CommandDone, CommandIs

LEMMA InstallSettingsStep == ASSUME ArchivesInv, NEW u \in Unpackers, InstallSettings(u) PROVE ArchivesInv'
  <1>1. unpacker[u].at = "settings" /\ UNCHANGED <<kind, database, kept, held, torn, spoilt>>
    BY DEF InstallSettings
  <1> DEFINE it == unpacker[u]
  <1>2. PICK parts \in Found(u) :
           LET found == Wanted(u, parts) \cap {"config"} IN
           /\ SettingsAre(IF found # {} /\ (kind = "backup" \/ configured = "absent")
                          THEN it.picked ELSE configured)
           /\ unpacker' = [unpacker EXCEPT ![u].at = "cleaning", ![u].put = @ \cup found]
    BY DEF InstallSettings
  <1> DEFINE found == Wanted(u, parts) \cap {"config"}
             more == it.put \cup found
             r == [it EXCEPT !.at = "cleaning", !.put = more]
             to == IF found # {} /\ (kind = "backup" \/ configured = "absent")
                   THEN it.picked ELSE configured
  <1>3. Works(u) /\ it \in Commands /\ CommandOK(it)
    BY <1>1, CommandIs
  <1>4. unpacker' = [unpacker EXCEPT ![u] = r]
    BY <1>2, CommandIs
  <1>5. /\ configured' \in Configurations /\ first' \in Configurations
        /\ kind = "bundle" => configured' = first'
    <2>1. SettingsAre(to)
      BY <1>2
    <2>2. to \in Configurations
      BY <1>3, CommandIs DEF Commands, Configurations
    <2>3. kind = "bundle" => to = configured \/ configured = "absent"
      OBVIOUS
    <2> HIDE DEF to
    <2> QED BY <2>1, <2>2, <2>3, SettingsFit
  <1>6. more \cap it.skip = {} /\ found \subseteq {"config"}
    BY <1>3 DEF CommandOK, Wanted
  <1>7. /\ r \in Commands /\ r.at = "cleaning" /\ r.picked = it.picked /\ r.stray = it.stray
        /\ r.asked = it.asked /\ r.said = it.said /\ r.put = more /\ r.verify = it.verify
        /\ r.skip = it.skip /\ r.inPlace = it.inPlace
    BY <1>3, <1>6 DEF Commands, CommandStages, Parts
  <1>8. ~it.stray /\ Restores(it) => Owed(it) \subseteq more
    <2> SUFFICES ASSUME ~it.stray, Restores(it) PROVE Owed(it) \subseteq more
      OBVIOUS
    <2>1. Owed(it) \subseteq Wanted(u, parts)
      BY <1>1, FindsAll
    <2>2. Owed(it) \cap {"main"} \subseteq it.put
      BY <1>1, <1>3 DEF CommandOK, Undisturbed
    <2>3. it.asked \in ArchiveNames
      BY <1>1, <1>3 DEF CommandOK
    <2>4. kept[it.asked].parts \subseteq {"main", "config"}
      BY <2>3, CommandIs DEF KeptArchives, Parts
    <2>5. Owed(it) \subseteq {"main", "config"}
      BY <2>4 DEF Owed
    <2> QED BY <2>1, <2>2, <2>5
  <1> HIDE DEF r, more, found
  <1>9. CommandOK(r)
    BY <1>1, <1>3, <1>6, <1>7, <1>8 DEF CommandOK, Undisturbed, Restores, Owed
  <1>10. Leaves(u, r.at)
    BY <1>1, <1>7 DEF Leaves
  <1> QED BY <1>1, <1>3, <1>4, <1>5, <1>7, <1>9, <1>10, CommandDone, CommandIs

LEMMA CompletesStep == ASSUME ArchivesInv, NEW u \in Unpackers, Completes(u) PROVE ArchivesInv'
  <1>1. /\ unpacker[u].at = "cleaning" /\ Removes(u)
        /\ UNCHANGED <<kind, database, configured, first, kept>>
    BY DEF Completes
  <1> DEFINE it == unpacker[u]
             r == [it EXCEPT !.at = "over", !.said = "complete"]
  <1>2. unpacker' = [unpacker EXCEPT ![u] = r]
    BY CommandIs DEF Completes, CommandEnds
  <1>3. Works(u) /\ it \in Commands /\ CommandOK(it)
    BY <1>1, CommandIs
  <1>4. /\ r \in Commands /\ r.at = "over" /\ r.picked = it.picked /\ r.stray = it.stray
        /\ r.asked = it.asked /\ r.said = "complete" /\ r.put = it.put
        /\ r.skip = it.skip /\ r.inPlace = it.inPlace
    BY <1>3 DEF Commands, CommandStages
  <1> HIDE DEF r
  <1>5. CommandOK(r)
    BY <1>1, <1>3, <1>4 DEF CommandOK, Undisturbed, Restores, Owed
  <1>6. Leaves(u, r.at)
    BY <1>1, <1>4 DEF Leaves
  <1> QED BY <1>1, <1>2, <1>3, <1>4, <1>5, <1>6, CommandDone, CommandIs

LEMMA ArchivesStep == ArchivesInv /\ [ArchivesNext]_archiveVars => ArchivesInv'
  <1> SUFFICES ASSUME ArchivesInv, [ArchivesNext]_archiveVars PROVE ArchivesInv'
    OBVIOUS
  <1>1. CASE ArchivesNext
    BY <1>1, DamageStep, PackStep, UnpackStep, UseInPlaceStep, TarFailsStep, PickStep, RefusedStep,
       ThrowsStep, VerifiedStep, InstallMainStep, RestoreFailsStep, InstallSettingsStep,
       SettingsFailStep, CompletesStep DEF ArchivesNext
  <1>2. CASE UNCHANGED archiveVars
    BY <1>2 DEF archiveVars, ArchivesInv, ArchiveTypes, MadeArchives, DirectoryIsOwned,
                HasDirectory, CommandOK, Undisturbed, Restores, Owed, Busy
  <1> QED BY <1>1, <1>2

LEMMA ArchivesInvariant == ArchivesSpec => []ArchivesInv
  BY ArchivesInitInv, ArchivesStep, PTL DEF ArchivesSpec

\* An archive keeps the parts it was made with, what was unpacked was made, and a
\* directory that is there is of a command under way or was left behind.
THEOREM ArchivesTypesHold == ArchivesSpec => []ArchivesTypeOK
  <1>1. ArchivesInv => ArchivesTypeOK
    BY DEF ArchivesInv, ArchiveTypes, MadeArchives, DirectoryIsOwned, ArchivesTypeOK, KeptArchives,
           Configurations
  <1> QED BY <1>1, ArchivesInvariant, PTL

\* Whatever fails, is damaged, interrupted or overlaps: a command that has its directory to
\* itself unpacks what it was asked to, verifies it if it is to, leaves alone what it is to
\* skip, and a restore that says complete has put the rest of what is undamaged in place.
THEOREM UnpacksTheRightArchive == ArchivesSpec => []UnpacksWhatWasAsked
  <1>1. ArchivesInv => UnpacksWhatWasAsked
    <2> SUFFICES ASSUME ArchivesInv PROVE UnpacksWhatWasAsked
      OBVIOUS
    <2>1. ASSUME NEW u \in Unpackers
          PROVE  LET it == unpacker[u]
                     of == kept[it.asked] IN
                 /\ ~it.stray => it.picked \in {OwnData, it.asked}
                 /\ (kind = "backup" /\ it.said = "complete" /\ ~it.dry /\ ~it.stray
                        /\ "metadata" \notin of.damaged)
                        => of.parts \ (it.skip \cup of.damaged) \subseteq it.put
                 /\ (it.verify /\ it.at \in {"main", "settings", "cleaning"} /\ ~it.stray /\ ~it.inPlace)
                        => kept[it.picked].damaged \subseteq {"metadata"}
                 /\ it.said = "refused" => it.put = {}
                 /\ it.put \cap it.skip = {}
      BY CommandIs DEF CommandOK, Undisturbed, Restores, Owed
    <2>2. kind = "bundle" => configured = first
      BY DEF ArchivesInv, MadeArchives
    <2> QED BY <2>1, <2>2 DEF UnpacksWhatWasAsked
  <1> QED BY <1>1, ArchivesInvariant, PTL
=============================================================================
