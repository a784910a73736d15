------------------------------ MODULE Accounts ------------------------------
(***************************************************************************)
(* Users, invitations, password resets, dashboard sessions and API keys of *)
(* all tenants.                                                            *)
(*                                                                         *)
(* UNIQUE (tenant_id, email) covers removed users too, so a tenant and an  *)
(* email name a row of users.  A request is one transaction; an action is  *)
(* what it does between two points where another can run, its rows seen by *)
(* the others when the transaction ends with it.  A session cookie is      *)
(* signed and never revoked: it keeps the role the user had when it was    *)
(* issued, and logging out only makes the browser forget it.               *)
(***************************************************************************)
EXTENDS Integers, FiniteSets

CONSTANTS
  Tenants, Emails,
  Invitations, Resets, Keys,  \* ids of rows that can be created
  Requests,        \* requests of more than one statement
  InvitableRoles,  \* INVITABLE_ROLES
  Provisioned,     \* the members each tenant may have at the start
  MaxSessions,     \* bound: nobody logs in once so many cookies are out
  NoRequest, NoUser

Users == Tenants \X Emails
Roles == {"owner"} \cup InvitableRoles
NoRole == "none"
Managers == {"owner", "admin"}

\* The dashboard makes one owner, at signup; rows inserted otherwise may make
\* more, and no tenant with members is without one.
ASSUME RolesAssumption == "owner" \notin InvitableRoles /\ NoRole \notin InvitableRoles
ASSUME FiniteAssumption == IsFiniteSet(Tenants) /\ IsFiniteSet(Emails)
ASSUME BoundsAssumption == MaxSessions \in Nat
ASSUME ProvisionedAssumption ==
  /\ Provisioned \subseteq [Users -> Roles \cup {NoRole}]
  /\ \A P \in Provisioned :
       /\ \A u, v \in Users : P[u] # NoRole /\ P[v] # NoRole /\ u[2] = v[2] => u = v
       /\ \A u \in Users : P[u] # NoRole => \E v \in Users : v[1] = u[1] /\ P[v] = "owner"
ASSUME IdsAssumption == Resets \cap (Invitations \cup {0}) = {}
ASSUME NoneAssumption == NoRequest \notin Requests /\ NoUser \notin Users

VARIABLES
  user,       \* rows of users: status, role, and who set the password last
  inv,        \* rows of invitations; a revoked one is a deleted row
  reset,      \* rows of password_resets
  key,        \* rows of api_keys
  sessions,   \* the cookies issued: a user and the role it had
  ownersLock, \* holder of the FOR UPDATE locks on the owners of a tenant
  pc, req,    \* what each request does next; what it works on, and the cookie
              \* that a change of a member was sent with
  result      \* its answer

rows == <<user, inv, reset, key>>
control == <<pc, req, result>>
vars == <<user, inv, reset, key, sessions, ownersLock, pc, req, result>>

Account(status, role, pw) == [status |-> status, role |-> role, pw |-> pw]
Invitation(state, u, role, expired) ==
  [state |-> state, user |-> u, role |-> role, expired |-> expired]
Row(state, u) == [state |-> state, user |-> u]
Session(u, role) == [user |-> u, role |-> role]
NoSession == Session(NoUser, NoRole)
Work(by, u, seen, change, item) ==
  [by |-> by, user |-> u, seen |-> seen, change |-> change, item |-> item]
Idle == Work(NoSession, NoUser, NoRole, NoRole, 0)

Init ==
  /\ \E P \in Provisioned :
       user = [u \in Users |-> IF P[u] = NoRole THEN Account("none", NoRole, NoRequest)
                                                ELSE Account("active", P[u], NoRequest)]
  /\ inv = [i \in Invitations |-> Invitation("none", NoUser, NoRole, FALSE)]
  /\ reset = [x \in Resets |-> Row("none", NoUser)]
  /\ key = [k \in Keys |-> Row("none", NoUser)]
  /\ sessions = {}
  /\ ownersLock = [t \in Tenants |-> NoRequest]
  /\ pc = [r \in Requests |-> "new"]
  /\ req = [r \in Requests |-> Idle]
  /\ result = [r \in Requests |-> "none"]

-----------------------------------------------------------------------------
(* Helpers *)

Active(u) == user[u].status = "active"
Owners(t) == {u \in Users : u[1] = t /\ Active(u) /\ user[u].role = "owner"}
EmailHasUser(e) == \E u \in Users : u[2] = e /\ Active(u)

\* Mutant: an admin may manage anyone.
CanManageAnyone(actor, target) == actor \in Managers

CanManage(actor, target) ==
  \/ actor = "owner"
  \/ actor = "admin" /\ target # "owner"

WouldOrphanOwners(role, count) == role = "owner" /\ count <= 1

\* requireRole: what the cookie says decides.
ManagerSessions == {s \in sessions : s.role \in Managers}

\* findUserByEmail and the answer of the password check
Login(u) ==
  /\ Active(u)
  /\ Cardinality(sessions) < MaxSessions
  /\ sessions' = sessions \cup {Session(u, user[u].role)}
  /\ UNCHANGED <<rows, ownersLock, control>>

Begin(r, label, work) ==
  /\ pc[r] = "new"
  /\ pc' = [pc EXCEPT ![r] = label]
  /\ req' = [req EXCEPT ![r] = work]

Answer(r, code) ==
  /\ pc' = [pc EXCEPT ![r] = "done"]
  /\ result' = [result EXCEPT ![r] = code]

Refuse(r, code) ==
  /\ pc[r] = "new"
  /\ Answer(r, code)
  /\ UNCHANGED req

-----------------------------------------------------------------------------
(* Signing up: signup_tenant *)

CheckSignup(r, e) ==
  /\ \/ EmailHasUser(e) /\ Refuse(r, "email_taken")
     \/ /\ ~EmailHasUser(e)
        /\ \E t \in Tenants :   \* gen_random_uuid()
             /\ \A u \in Users : u[1] = t => user[u].status = "none"
             /\ \A q \in Requests : pc[q] = "signup" => req[q].user[1] # t
             /\ Begin(r, "signup", Work(NoSession, <<t, e>>, NoRole, NoRole, 0))
        /\ UNCHANGED result
  /\ UNCHANGED <<rows, sessions, ownersLock>>

\* Mutant: without the index users_email_active.
InsertOwnerUnindexed(r) ==
  /\ pc[r] = "signup"
  /\ user' = [user EXCEPT ![req[r].user] = Account("active", "owner", r)]
  /\ sessions' = sessions \cup {Session(req[r].user, "owner")}
  /\ Answer(r, "ok")
  /\ UNCHANGED <<inv, reset, key, ownersLock, req>>

\* The tenant, its policy and its owner; the unique index users_email_active
\* refuses an email that has got a user meanwhile.
InsertOwner(r) ==
  /\ pc[r] = "signup"
  /\ \/ /\ EmailHasUser(req[r].user[2])
        /\ Answer(r, "email_taken")
        /\ UNCHANGED <<user, sessions>>
     \/ /\ ~EmailHasUser(req[r].user[2])
        /\ user' = [user EXCEPT ![req[r].user] = Account("active", "owner", r)]
        /\ sessions' = sessions \cup {Session(req[r].user, "owner")}
        /\ Answer(r, "ok")
  /\ UNCHANGED <<inv, reset, key, ownersLock, req>>

-----------------------------------------------------------------------------
(* Invitations *)

\* emailHasUser runs on a connection of its own, before the INSERT.
CheckInvite(r, s, e, role) ==
  /\ \/ EmailHasUser(e) /\ Refuse(r, "email_taken")
     \/ /\ ~EmailHasUser(e)
        /\ Begin(r, "invite", Work(NoSession, <<s.user[1], e>>, NoRole, role, 0))
        /\ UNCHANGED result
  /\ UNCHANGED <<rows, sessions, ownersLock>>

\* invitations_pending_email: one pending row for a tenant and an email.
InsertInvite(r, i) ==
  /\ pc[r] = "invite"
  /\ inv[i].state = "none"
  /\ \/ /\ \E j \in Invitations : inv[j].state = "pending" /\ inv[j].user = req[r].user
        /\ Answer(r, "already_invited")
        /\ UNCHANGED inv
     \/ /\ ~ \E j \in Invitations : inv[j].state = "pending" /\ inv[j].user = req[r].user
        /\ inv' = [inv EXCEPT ![i] = Invitation("pending", req[r].user, req[r].change, FALSE)]
        /\ Answer(r, "ok")
  /\ UNCHANGED <<user, reset, key, sessions, ownersLock, req>>

RevokeInvite(s, i) ==
  /\ inv[i].state = "pending"
  /\ inv[i].user[1] = s.user[1]
  /\ inv' = [inv EXCEPT ![i].state = "revoked"]
  /\ UNCHANGED <<user, reset, key, sessions, ownersLock, control>>

\* Seven days pass; the row stays and keeps its email's place.
InviteExpires(i) ==
  /\ inv[i].state = "pending"
  /\ ~inv[i].expired
  /\ inv' = [inv EXCEPT ![i].expired = TRUE]
  /\ UNCHANGED <<user, reset, key, sessions, ownersLock, control>>

\* accept_invitation as far as its checks
ReadInvite(r, i) ==
  /\ inv[i].state # "none"
  /\ \/ inv[i].state = "revoked" /\ Refuse(r, "invalid_token")
     \/ inv[i].state = "accepted" /\ Refuse(r, "already_accepted")
     \/ inv[i].state = "pending" /\ inv[i].expired /\ Refuse(r, "expired")
     \/ /\ inv[i].state = "pending" /\ ~inv[i].expired
        /\ EmailHasUser(inv[i].user[2])
        /\ Refuse(r, "email_taken")
     \/ /\ inv[i].state = "pending" /\ ~inv[i].expired
        /\ ~EmailHasUser(inv[i].user[2])
        /\ Begin(r, "accept", Work(NoSession, inv[i].user, NoRole, inv[i].role, i))
        /\ UNCHANGED result
  /\ UNCHANGED <<rows, sessions, ownersLock>>

Admit(r) ==
  /\ user[req[r].user].status = "none"
  /\ ~EmailHasUser(req[r].user[2])
  /\ inv' = [inv EXCEPT ![req[r].item].state = "accepted"]
  /\ user' = [user EXCEPT ![req[r].user] = Account("active", req[r].change, r)]
  /\ sessions' = sessions \cup {Session(req[r].user, req[r].change)}
  /\ Answer(r, "ok")

\* Mutant: the row is not asked again whether it is pending.
AcceptBlind(r) ==
  /\ pc[r] = "accept"
  /\ Admit(r)
  /\ UNCHANGED <<reset, key, ownersLock, req>>

\* The UPDATE that claims the row, and the INSERT; a unique violation is not
\* handled and undoes both.
AcceptInvite(r) ==
  /\ pc[r] = "accept"
  /\ \/ /\ inv[req[r].item].state # "pending"
        /\ Answer(r, "already_accepted")
        /\ UNCHANGED <<user, inv, sessions>>
     \/ inv[req[r].item].state = "pending" /\ Admit(r)
     \/ /\ inv[req[r].item].state = "pending"
        /\ user[req[r].user].status # "none" \/ EmailHasUser(req[r].user[2])
        /\ Answer(r, "unique_violation")
        /\ UNCHANGED <<user, inv, sessions>>
  /\ UNCHANGED <<reset, key, ownersLock, req>>

-----------------------------------------------------------------------------
(* Changing a member's role, and removing a member *)

\* change is the new role, or NoRole for a removal.
ReadTarget(r, s, u, change) ==
  /\ u[1] = s.user[1]
  /\ \/ user[u].status # "active" /\ Refuse(r, "not_found")
     \/ /\ Active(u) /\ ~CanManage(s.role, user[u].role)
        /\ Refuse(r, "forbidden")
     \/ /\ Active(u) /\ CanManage(s.role, user[u].role)
        /\ Begin(r, "count", Work(s, u, user[u].role, change, 0))
        /\ UNCHANGED result
  /\ UNCHANGED <<rows, sessions, ownersLock>>

\* Mutant: the owners are counted without FOR UPDATE.
CountUnlocked(r) ==
  LET t == req[r].user[1]
  IN /\ pc[r] = "count"
     /\ ~WouldOrphanOwners(req[r].seen, Cardinality(Owners(t)))
     /\ pc' = [pc EXCEPT ![r] = "write"]
     /\ UNCHANGED <<rows, sessions, ownersLock, req, result>>

\* SELECT ... FOR UPDATE waits for the transactions that hold an owner's row
\* and counts what they leave.  The role of the target was read before.
CountOwners(r) ==
  LET t == req[r].user[1]
      orphan == WouldOrphanOwners(req[r].seen, Cardinality(Owners(t)))
  IN /\ pc[r] = "count"
     /\ ownersLock[t] = NoRequest
     /\ \/ orphan /\ Answer(r, "last_owner") /\ UNCHANGED ownersLock
        \/ /\ ~orphan
           /\ ownersLock' = [ownersLock EXCEPT ![t] = r]
           /\ pc' = [pc EXCEPT ![r] = "write"]
           /\ UNCHANGED result
     /\ UNCHANGED <<rows, sessions, req>>

Unlock(r) == ownersLock' = [t \in Tenants |->
                             IF ownersLock[t] = r THEN NoRequest ELSE ownersLock[t]]

WriteRole(r) ==
  /\ pc[r] = "write" /\ req[r].change # NoRole
  /\ user' = [user EXCEPT ![req[r].user].role = req[r].change]
  /\ Unlock(r)
  /\ Answer(r, "ok")
  /\ UNCHANGED <<inv, reset, key, sessions, req>>

\* Mutant: the removed row keeps no role.
WriteRemovalErased(r) ==
  /\ pc[r] = "write" /\ req[r].change = NoRole
  /\ user' = [user EXCEPT ![req[r].user] = Account("removed", NoRole, r)]
  /\ Unlock(r)
  /\ Answer(r, "ok")
  /\ UNCHANGED <<inv, reset, key, sessions, req>>

WriteRemoval(r) ==
  /\ pc[r] = "write" /\ req[r].change = NoRole
  /\ user' = [user EXCEPT ![req[r].user].status = "deleted"]
  /\ key' = [k \in Keys |-> IF key[k] = Row("active", req[r].user)
                              THEN Row("revoked", req[r].user) ELSE key[k]]
  /\ Unlock(r)
  /\ Answer(r, "ok")
  /\ UNCHANGED <<inv, reset, sessions, req>>

-----------------------------------------------------------------------------
(* Passwords *)

IssueReset(s, u, x) ==
  /\ reset[x].state = "none"
  /\ u[1] = s.user[1]
  /\ Active(u) /\ CanManage(s.role, user[u].role)
  /\ reset' = [reset EXCEPT ![x] = Row("open", u)]
  /\ UNCHANGED <<user, inv, key, sessions, ownersLock, control>>

\* One hour passes.
ResetExpires(x) ==
  /\ reset[x].state = "open"
  /\ reset' = [reset EXCEPT ![x].state = "expired"]
  /\ UNCHANGED <<user, inv, key, sessions, ownersLock, control>>

\* consume_password_reset as far as its checks
ReadReset(r, x) ==
  /\ \/ reset[x].state = "used" /\ Refuse(r, "already_used")
     \/ reset[x].state = "expired" /\ Refuse(r, "expired")
     \/ /\ reset[x].state = "open"
        /\ Begin(r, "reset", Work(NoSession, reset[x].user, NoRole, NoRole, x))
        /\ UNCHANGED result
  /\ UNCHANGED <<rows, sessions, ownersLock>>

\* Mutant: used_at is not asked again.
UseResetAgain(r) ==
  /\ pc[r] = "reset"
  /\ reset' = [reset EXCEPT ![req[r].item].state = "used"]
  /\ user' = [user EXCEPT ![req[r].user].pw = r]
  /\ Answer(r, "ok")
  /\ UNCHANGED <<inv, key, sessions, ownersLock, req>>

\* The UPDATE asks again for used_at, not for expires_at; the password of a
\* removed user is set as well.
UseReset(r) ==
  /\ pc[r] = "reset"
  /\ \/ /\ reset[req[r].item].state = "used"
        /\ Answer(r, "already_used")
        /\ UNCHANGED <<user, reset>>
     \/ /\ reset[req[r].item].state # "used"
        /\ reset' = [reset EXCEPT ![req[r].item].state = "used"]
        /\ user' = [user EXCEPT ![req[r].user].pw = r]
        /\ Answer(r, "ok")
  /\ UNCHANGED <<inv, key, sessions, ownersLock, req>>

\* POST /dashboard/account/password: the current password is verified
VerifyPassword(r, s) ==
  /\ \/ Refuse(r, "incorrect")
     \/ Begin(r, "password", Work(NoSession, s.user, NoRole, NoRole, 0)) /\ UNCHANGED result
  /\ UNCHANGED <<rows, sessions, ownersLock>>

\* and the new one is written, whatever was set in between.
SetPassword(r) ==
  /\ pc[r] = "password"
  /\ user' = [user EXCEPT ![req[r].user].pw = r]
  /\ Answer(r, "ok")
  /\ UNCHANGED <<inv, reset, key, sessions, ownersLock, req>>

-----------------------------------------------------------------------------
(* API keys *)

\* Nothing asks whether the issuer is still a member.
IssueKey(s, k) ==
  /\ key[k].state = "none"
  /\ key' = [key EXCEPT ![k] = Row("active", s.user)]
  /\ UNCHANGED <<user, inv, reset, sessions, ownersLock, control>>

RevokeKey(s, k) ==
  /\ key[k].state = "active"
  /\ key[k].user[1] = s.user[1]
  /\ key' = [key EXCEPT ![k].state = "revoked"]
  /\ UNCHANGED <<user, inv, reset, sessions, ownersLock, control>>

-----------------------------------------------------------------------------
\* The connection fails: ROLLBACK.
Abort(r) ==
  /\ pc[r] \notin {"new", "done"}
  /\ Unlock(r)
  /\ Answer(r, "error")
  /\ UNCHANGED <<rows, sessions, req>>

Next ==
  \/ \E u \in Users : Login(u)
  \/ \E r \in Requests, e \in Emails : CheckSignup(r, e)
  \/ \E r \in Requests : InsertOwner(r)
  \/ \E r \in Requests, s \in ManagerSessions, e \in Emails, role \in InvitableRoles :
       CheckInvite(r, s, e, role)
  \/ \E r \in Requests, i \in Invitations : InsertInvite(r, i)
  \/ \E s \in ManagerSessions, i \in Invitations : RevokeInvite(s, i)
  \/ \E i \in Invitations : InviteExpires(i)
  \/ \E r \in Requests, i \in Invitations : ReadInvite(r, i)
  \/ \E r \in Requests : AcceptInvite(r)
  \/ \E r \in Requests, s \in ManagerSessions, u \in Users,
        change \in InvitableRoles \cup {NoRole} : ReadTarget(r, s, u, change)
  \/ \E r \in Requests : CountOwners(r)
  \/ \E r \in Requests : WriteRole(r)
  \/ \E r \in Requests : WriteRemoval(r)
  \/ \E s \in ManagerSessions, u \in Users, x \in Resets : IssueReset(s, u, x)
  \/ \E x \in Resets : ResetExpires(x)
  \/ \E r \in Requests, x \in Resets : ReadReset(r, x)
  \/ \E r \in Requests : UseReset(r)
  \/ \E r \in Requests, s \in sessions : VerifyPassword(r, s)
  \/ \E r \in Requests : SetPassword(r)
  \/ \E s \in ManagerSessions, k \in Keys : IssueKey(s, k)
  \/ \E s \in ManagerSessions, k \in Keys : RevokeKey(s, k)
  \/ \E r \in Requests : Abort(r)

Spec == Init /\ [][Next]_vars

-----------------------------------------------------------------------------
(* Properties *)

\* What a request answers; "error" is a transaction rolled back.
Answers == {"none", "ok", "email_taken", "already_invited", "invalid_token",
            "already_accepted", "expired", "unique_violation", "not_found", "forbidden",
            "last_owner", "already_used", "incorrect", "error"}

\* The shape of the state.
TypeOK ==
  /\ user \in [Users -> [status : {"none", "active", "deleted"},
                         role : Roles \cup {NoRole}, pw : Requests \cup {NoRequest}]]
  /\ inv \in [Invitations -> [state : {"none", "pending", "accepted", "revoked"},
                user : Users \cup {NoUser}, role : InvitableRoles \cup {NoRole},
                expired : BOOLEAN]]
  /\ reset \in [Resets -> [state : {"none", "open", "used", "expired"},
                           user : Users \cup {NoUser}]]
  /\ key \in [Keys -> [state : {"none", "active", "revoked"}, user : Users \cup {NoUser}]]
  /\ sessions \subseteq [user : Users, role : Roles]
  /\ ownersLock \in [Tenants -> Requests \cup {NoRequest}]
  /\ result \in [Requests -> Answers]
  /\ pc \in [Requests -> {"new", "signup", "invite", "accept", "count", "write",
                          "reset", "password", "done"}]
  /\ req \in [Requests -> [by : [user : Users \cup {NoUser}, role : Roles \cup {NoRole}],
                           user : Users \cup {NoUser}, seen : Roles \cup {NoRole},
                           change : InvitableRoles \cup {NoRole},
                           item : Invitations \cup Resets \cup {0}]]
  /\ \A r \in Requests : pc[r] \notin {"new", "done"} => req[r].user \in Users

\* A tenant that has members has an owner, whichever owners demote or remove
\* each other and themselves at the same time (wouldOrphanOwners).
TenantKeepsAnOwner ==
  \A u \in Users : user[u].status # "none" => Owners(u[1]) # {}

\* An email signs in to one tenant: no two active users share it, however
\* signups and acceptances of two tenants' invitations race (find_user_by_email
\* takes the first it finds).
EmailNamesOneUser ==
  \A u, v \in Users : Active(u) /\ Active(v) /\ u[2] = v[2] => u = v

\* A user becomes active as the owner of a tenant nobody was in, or with the
\* role of an invitation that was pending and is spent by that very step: one
\* revoked while it is being accepted admits nobody.
NobodyJoinsUninvited ==
  [][\A u \in Users : ~Active(u) /\ user'[u].status = "active" =>
       \/ /\ user'[u].role = "owner"
          /\ \A v \in Users : v[1] = u[1] => user[v].status = "none"
       \/ \E i \in Invitations :
            /\ inv[i] = Invitation("pending", u, user'[u].role, inv[i].expired)
            /\ inv'[i].state = "accepted"]_vars

\* An owner loses the role or the membership only to a request sent with a cookie
\* that was issued, in the same tenant, to an owner: never to an admin's or another
\* tenant's, whatever became of the role the request read before it waited for the
\* lock.  The cookie keeps its role (requireRole), so its holder may have been
\* demoted or removed since.
OwnersCookie(s, u) == s \in sessions /\ s.role = "owner" /\ s.user[1] = u[1]
OwnersAnswerToOwners ==
  [][\A u \in Users :
       u \in Owners(u[1]) /\ ~(user'[u].status = "active" /\ user'[u].role = "owner") =>
       \E r \in Requests : /\ pc[r] = "write" /\ pc'[r] = "done"
                           /\ req[r].user = u /\ OwnersCookie(req[r].by, u)]_vars

\* A reset link sets a password once, whoever opens it at the same time.
ResetLinkWorksOnce ==
  \A q, r \in Requests :
    /\ pc[q] = "done" /\ pc[r] = "done" /\ result[q] = "ok" /\ result[r] = "ok"
    /\ req[q].item \in Resets /\ req[q].item = req[r].item
    => q = r
=============================================================================
