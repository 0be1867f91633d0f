-------------------------- MODULE WorkspaceAccess --------------------------
(***************************************************************************)
(* Who may administer a workspace: registration and bootstrap of the first *)
(* user, invitations, changes of role and removals, sign-in and renewal of *)
(* tokens (auth/plugin.ts, api/users.ts), for the default workspace.       *)
(*                                                                         *)
(* Handlers of several requests interleave at every await.  Each reads     *)
(* counts or roles in one statement and writes in a later one, without a   *)
(* transaction.  A request is authorised by the claims of its access token,*)
(* which stay what they were when the token was issued.                    *)
(*                                                                         *)
(* Passwords are right, the lockout and the second factor are left out.    *)
(***************************************************************************)
CONSTANTS
    Users,
    Requests,           \* handlers of several statements, bound on their overlap
    SelfRegistration    \* ALLOW_SELF_REGISTRATION

ASSUME AccessAssumption == SelfRegistration \in BOOLEAN

Roles == {"admin", "member"}    \* workspace_admin, and the roles without rights

VARIABLES
    accounts,           \* rows of users
    deploymentAdmins,   \* those with is_deployment_admin
    role,               \* user_workspace_roles of the workspace, "none": no row
    access,             \* access[u]: what u's access token says
    todo                \* todo[r]: what r handles, and the statement it is at

usersTable == <<accounts, deploymentAdmins, role>>
accessVars == <<usersTable, access, todo>>

(* "admin": a token that requireRoles('workspace_admin') accepts.  A user  *)
(* who has signed in and not out keeps a refresh cookie, also when the     *)
(* access token has expired.                                               *)
Claims == {"none", "expired", "user", "admin"}

Kinds == {"none", "register", "bootstrap", "invite", "change", "remove"}

Steps == {"idle", "creating", "assigning", "counting", "writing"}

(* seen and others: what the look-up and the count of r returned.          *)
Idle == [kind |-> "none", step |-> "idle", target |-> {}, to |-> "member",
         first |-> FALSE, seen |-> "none", others |-> {}]

AccessTypeOK ==
    /\ accounts \subseteq Users
    /\ deploymentAdmins \subseteq accounts
    /\ role \in [Users -> Roles \cup {"none"}]
    /\ \A u \in Users \ accounts : role[u] = "none"
    /\ access \in [Users -> Claims]
    /\ \A u \in Users \ accounts : access[u] = "none"
    /\ todo \in [Requests ->
          [kind : Kinds, step : Steps, target : SUBSET Users, to : Roles,
           first : BOOLEAN, seen : Roles \cup {"none"}, others : SUBSET Users]]

AccessInit ==
    /\ accounts = {} /\ deploymentAdmins = {}
    /\ role = [u \in Users |-> "none"]
    /\ access = [u \in Users |-> "none"]
    /\ todo = [r \in Requests |-> Idle]

-----------------------------------------------------------------------------

Admins == {u \in Users : role[u] = "admin"}

(* What a token issued now says.  Without a role there is no workspace in  *)
(* it, and requireWorkspace refuses whatever the holder may be.            *)
Rights(u) ==
    IF role[u] = "admin" \/ (u \in deploymentAdmins /\ role[u] # "none")
    THEN "admin" ELSE "user"

At(r, k, step) == todo[r].kind = k /\ todo[r].step = step

Target(r) == CHOOSE u \in todo[r].target : TRUE

Goto(r, step) == todo' = [todo EXCEPT ![r].step = step]

End(r) == todo' = [todo EXCEPT ![r] = Idle]

(* A request arrives and its first statement, if it reads, is executed:    *)
(* nothing is remembered that was read before.                             *)
Start(r, request) == todo[r] = Idle /\ todo' = [todo EXCEPT ![r] = request]

-----------------------------------------------------------------------------
(* Sign-in and tokens.                                                     *)

Login(u) ==
    /\ u \in accounts
    /\ access' = [access EXCEPT ![u] = Rights(u)]
    /\ UNCHANGED <<usersTable, todo>>

(* The hook before every handler, the one for renewals included, asks for  *)
(* an access token that is valid.                                          *)
Admitted(u) == access[u] \notin {"none", "expired"}

(* The new access token carries the role as it is now.                     *)
Refresh(u) ==
    /\ Admitted(u)
    /\ access' = [access EXCEPT ![u] = Rights(u)]
    /\ UNCHANGED <<usersTable, todo>>

Logout(u) ==
    /\ Admitted(u)
    /\ access' = [access EXCEPT ![u] = "none"]
    /\ UNCHANGED <<usersTable, todo>>

AccessExpires(u) ==
    /\ Admitted(u)
    /\ access' = [access EXCEPT ![u] = "expired"]
    /\ UNCHANGED <<usersTable, todo>>

-----------------------------------------------------------------------------
(* The first user.                                                         *)

(* The count of users decides what comes of the request: nothing, a member,*)
(* or the first user.                                                      *)
Register(r, u) ==
    /\ accounts = {} \/ SelfRegistration
    /\ Start(r, [Idle EXCEPT !.kind = "register", !.step = "creating",
                             !.target = {u}, !.first = (accounts = {})])
    /\ UNCHANGED <<usersTable, access>>

Bootstrap(r, u) ==
    /\ accounts = {}
    /\ Start(r, [Idle EXCEPT !.kind = "bootstrap", !.step = "creating",
                             !.target = {u}, !.first = TRUE])
    /\ UNCHANGED <<usersTable, access>>

(* The INSERT, after the password was hashed; an address that is there     *)
(* already is a conflict.                                                  *)
CreateUser(r) ==
    /\ \/ At(r, "register", "creating")
       \/ At(r, "bootstrap", "creating")
    /\ LET u == Target(r)
       IN  IF u \in accounts
           THEN End(r) /\ UNCHANGED <<accounts, deploymentAdmins>>
           ELSE /\ accounts' = accounts \cup {u}
                /\ deploymentAdmins' = IF todo[r].first
                       THEN deploymentAdmins \cup {u} ELSE deploymentAdmins
                /\ Goto(r, "assigning")
    /\ UNCHANGED <<role, access>>

(* ON CONFLICT DO NOTHING; who registers is signed in at once.             *)
AssignRole(r) ==
    /\ \/ At(r, "register", "assigning")
       \/ At(r, "bootstrap", "assigning")
    /\ LET u == Target(r)
       IN  /\ role' = [role EXCEPT ![u] = IF @ # "none" THEN @
                                 ELSE IF todo[r].first THEN "admin" ELSE "member"]
           /\ IF todo[r].kind = "register"
              THEN access' = [access EXCEPT ![u] =
                                 IF todo[r].first THEN "admin" ELSE "user"]
              ELSE UNCHANGED access
    /\ End(r)
    /\ UNCHANGED <<accounts, deploymentAdmins>>

-----------------------------------------------------------------------------
(* The administrators' requests, authorised by the claims of a token.      *)

Invite(r, u, to) ==
    /\ \E by \in Users : access[by] = "admin"
    /\ Start(r, [Idle EXCEPT !.kind = "invite", !.step = "creating",
                             !.target = {u}, !.to = to])
    /\ UNCHANGED <<usersTable, access>>

(* The last administrator is neither demoted nor removed.                  *)
ChangeIf(r, u, to, others) ==
    /\ \E by \in Users : access[by] = "admin"
    /\ to = "admin" \/ others # {}
    /\ Start(r, [Idle EXCEPT !.kind = "change", !.step = "writing", !.target = {u},
                     !.to = to, !.others = IF to = "admin" THEN {} ELSE others])
    /\ UNCHANGED <<usersTable, access>>

\* Mutant: a count that includes the administrator who is to be changed.
ChangeCountingAll(r, u, to) == ChangeIf(r, u, to, Admins)

Change(r, u, to) == ChangeIf(r, u, to, Admins \ {u})

(* The role of the target is looked up; administrators are counted if it is*)
(* one, in another statement.                                              *)
Remove(r, u) ==
    /\ \E by \in Users \ {u} : access[by] = "admin"
    /\ Start(r, [Idle EXCEPT !.kind = "remove", !.target = {u}, !.seen = role[u],
                   !.step = IF role[u] = "admin" THEN "counting" ELSE "writing"])
    /\ UNCHANGED <<usersTable, access>>

CountAdmins(r) ==
    /\ At(r, "remove", "counting")
    /\ LET others == Admins \ todo[r].target
       IN  IF others = {} THEN End(r)
           ELSE todo' = [todo EXCEPT ![r].step = "writing", ![r].others = others]
    /\ UNCHANGED <<usersTable, access>>

(* ON CONFLICT DO NOTHING: the address may have an account already.        *)
InviteUser(r) ==
    /\ At(r, "invite", "creating")
    /\ accounts' = accounts \cup todo[r].target
    /\ Goto(r, "assigning")
    /\ UNCHANGED <<deploymentAdmins, role, access>>

(* ON CONFLICT DO UPDATE: an invitation also changes a role.               *)
InviteRole(r) ==
    /\ At(r, "invite", "assigning")
    /\ role' = [role EXCEPT ![Target(r)] = todo[r].to]
    /\ End(r)
    /\ UNCHANGED <<accounts, deploymentAdmins, access>>

WriteRole(r) ==
    /\ At(r, "change", "writing")
    /\ role' = [role EXCEPT ![Target(r)] = IF @ = "none" THEN @ ELSE todo[r].to]
    /\ End(r)
    /\ UNCHANGED <<accounts, deploymentAdmins, access>>

DeleteRole(r) ==
    /\ At(r, "remove", "writing")
    /\ role' = [role EXCEPT ![Target(r)] = "none"]
    /\ End(r)
    /\ UNCHANGED <<accounts, deploymentAdmins, access>>

(* A statement throws, or the process dies, between two statements.        *)
RequestCut(r) ==
    /\ todo[r] # Idle
    /\ End(r)
    /\ UNCHANGED <<usersTable, access>>

-----------------------------------------------------------------------------

RequestStep(r) ==
    \/ CreateUser(r) \/ AssignRole(r) \/ InviteUser(r) \/ InviteRole(r)
    \/ CountAdmins(r) \/ WriteRole(r) \/ DeleteRole(r)

AccessNext ==
    \/ \E r \in Requests :
          \/ RequestStep(r) \/ RequestCut(r)
          \/ \E u \in Users :
                \/ Register(r, u) \/ Bootstrap(r, u) \/ Remove(r, u)
                \/ \E to \in Roles : Invite(r, u, to) \/ Change(r, u, to)
    \/ \E u \in Users : Login(u) \/ Refresh(u) \/ Logout(u) \/ AccessExpires(u)

AccessSpec == AccessInit /\ [][AccessNext]_accessVars

-----------------------------------------------------------------------------
(* Properties.                                                             *)

\* A change of role or a removal takes the last administrator only if the others
\* it had counted have lost the role since, or if its target was no administrator
\* when looked up: one request at a time, the guard keeps the workspace an
\* administrator (users.ts:70-85, 106-125).
LastAdminNeedsOverlap ==
    [][\A r \in Requests :
          /\ todo[r].kind \in {"change", "remove"} /\ todo[r].step = "writing"
          /\ todo'[r] = Idle /\ Admins # {} /\ Admins' = {}
          => \/ todo[r].others # {} /\ todo[r].others \cap Admins = {}
             \/ todo[r].kind = "remove" /\ todo[r].seen # "admin"]_accessVars
=============================================================================
