---------------------------- MODULE AccountsProofs ----------------------------
(***************************************************************************)
(* Proofs about users, invitations, resets and sessions, for any tenants,  *)
(* emails, links, cookies and requests.                                    *)
(***************************************************************************)
EXTENDS Accounts, FiniteSetTheorems, TLAPS

-----------------------------------------------------------------------------
(* The invariant *)

\* Somebody who is or was a member; a tenant that anybody is or was in.
Member(u) == user[u].status # "none"
Founded(t) == \E u \in Users : u[1] = t /\ Member(u)
IsOwner(u) == Active(u) /\ user[u].role = "owner"

\* A request works on the row its label says; an invitation that was read keeps
\* its user and role.
Tasks ==
  \A r \in Requests :
    /\ pc[r] \in {"signup", "invite", "count", "write", "password"} => req[r].item = 0
    /\ pc[r] = "reset" =>
         req[r].item \in Resets /\ reset[req[r].item].state # "none"
    /\ pc[r] = "accept" =>
         /\ req[r].item \in Invitations
         /\ inv[req[r].item].state # "none"
         /\ inv[req[r].item].user = req[r].user
         /\ inv[req[r].item].role = req[r].change

\* Links and cookies name users, of tenants that somebody is or was in.
Referenced ==
  /\ \A s \in sessions : Member(s.user)
  /\ \A u \in Users : Active(u) => user[u].role \in Roles
  /\ \A x \in Resets : reset[x].state # "none" => reset[x].user \in Users
  /\ \A i \in Invitations : inv[i].state # "none" =>
       /\ inv[i].user \in Users /\ inv[i].role \in InvitableRoles
       /\ Founded(inv[i].user[1])
  /\ \A r \in Requests :
       /\ pc[r] = "invite" => Founded(req[r].user[1]) /\ req[r].change \in InvitableRoles
       /\ pc[r] \in {"count", "write"} => Member(req[r].user)

\* A tenant that is being signed up is nobody else's.
SignupsAreFresh ==
  \A r \in Requests : pc[r] = "signup" =>
    /\ ~Founded(req[r].user[1])
    /\ \A q \in Requests : pc[q] = "signup" /\ q # r => req[q].user[1] # req[r].user[1]

\* Who is about to change a member holds its tenant's owners, and another owner
\* stays behind an owner.  Nobody who was not an owner has become one since.
OwnersAreLocked ==
  \A r \in Requests :
    /\ pc[r] = "write" => ownersLock[req[r].user[1]] = r
    /\ pc[r] = "write" /\ req[r].seen = "owner" =>
         \E v \in Users : v[1] = req[r].user[1] /\ IsOwner(v) /\ v # req[r].user
    /\ pc[r] \in {"count", "write"} =>
         /\ req[r].seen = "owner" => OwnersCookie(req[r].by, req[r].user)
         /\ req[r].seen # "owner" => ~IsOwner(req[r].user)

\* Who has answered that it used a reset link has marked it.
LinksAreSpent ==
  \A r \in Requests :
    pc[r] = "done" /\ result[r] = "ok" /\ req[r].item \in Resets =>
      reset[req[r].item].state = "used"

IInv ==
  /\ TypeOK /\ Tasks /\ Referenced /\ SignupsAreFresh /\ OwnersAreLocked
  /\ LinksAreSpent /\ TenantKeepsAnOwner /\ EmailNamesOneUser /\ ResetLinkWorksOnce

-----------------------------------------------------------------------------
(* Rows and what requests work on, by name *)

UserRow == [status : {"none", "active", "deleted"},
            role : Roles \cup {NoRole}, pw : Requests \cup {NoRequest}]
InvitationRow == [state : {"none", "pending", "accepted", "revoked"},
                  user : Users \cup {NoUser}, role : InvitableRoles \cup {NoRole},
                  expired : BOOLEAN]
ResetRow == [state : {"none", "open", "used", "expired"}, user : Users \cup {NoUser}]
KeyRow == [state : {"none", "active", "revoked"}, user : Users \cup {NoUser}]
Cookie == [user : Users, role : Roles]
Labels == {"new", "signup", "invite", "accept", "count", "write", "reset", "password",
           "done"}
Task == [by : [user : Users \cup {NoUser}, role : Roles \cup {NoRole}],
         user : Users \cup {NoUser},
         seen : Roles \cup {NoRole}, change : InvitableRoles \cup {NoRole},
         item : Invitations \cup Resets \cup {0}]

RowTypes ==
  /\ user \in [Users -> UserRow] /\ inv \in [Invitations -> InvitationRow]
  /\ reset \in [Resets -> ResetRow] /\ key \in [Keys -> KeyRow]
  /\ sessions \subseteq Cookie /\ ownersLock \in [Tenants -> Requests \cup {NoRequest}]

ControlTypes ==
  /\ result \in [Requests -> Answers] /\ pc \in [Requests -> Labels] /\ req \in [Requests -> Task]
  /\ \A r \in Requests : pc[r] \notin {"new", "done"} => req[r].user \in Users

Types == RowTypes /\ ControlTypes

-----------------------------------------------------------------------------
(* Lemmas *)

LEMMA TypesAreTypeOK == (TypeOK <=> Types) /\ (TypeOK' <=> Types')
BY DEF TypeOK, Types, RowTypes, ControlTypes, UserRow, InvitationRow, ResetRow,
   KeyRow, Cookie, Labels, Task

\* The rows the statements write.
LEMMA UsersWritten ==
  ASSUME NEW r \in Requests, NEW role \in Roles
  PROVE  /\ Account("active", role, r) \in UserRow
         /\ \A a \in UserRow :
              /\ [a EXCEPT !.pw = r] \in UserRow
              /\ [a EXCEPT !.status = "deleted"] \in UserRow
              /\ [a EXCEPT !.role = role] \in UserRow
BY DEF UserRow, Account

LEMMA LinksWritten ==
  /\ \A i \in InvitationRow :
       /\ [i EXCEPT !.state = "accepted"] \in InvitationRow
       /\ [i EXCEPT !.state = "revoked"] \in InvitationRow
       /\ [i EXCEPT !.expired = TRUE] \in InvitationRow
  /\ \A u \in Users, role \in InvitableRoles \cup {NoRole} :
       Invitation("pending", u, role, FALSE) \in InvitationRow
  /\ \A u \in Users : Row("open", u) \in ResetRow
  /\ \A x \in ResetRow :
       /\ [x EXCEPT !.state = "used"] \in ResetRow
       /\ [x EXCEPT !.state = "expired"] \in ResetRow
  /\ \A u \in Users : Row("active", u) \in KeyRow /\ Row("revoked", u) \in KeyRow
  /\ \A k \in KeyRow : [k EXCEPT !.state = "revoked"] \in KeyRow
BY DEF InvitationRow, ResetRow, KeyRow, Invitation, Row

LEMMA AnotherOwner ==
  ASSUME NEW t, NEW u, ~WouldOrphanOwners("owner", Cardinality(Owners(t)))
  PROVE  \E v \in Users : v[1] = t /\ IsOwner(v) /\ v # u
<1> SUFFICES ASSUME Owners(t) \subseteq {u} PROVE FALSE
  BY DEF Owners, IsOwner
<1>1. IsFiniteSet({u}) /\ Cardinality({u}) = 1
  BY FS_Singleton
<1>2. Cardinality(Owners(t)) <= 1
  BY <1>1, FS_Subset
<1>3. QED
  BY <1>2 DEF WouldOrphanOwners

LEMMA InvInit == Init => IInv
<1> SUFFICES ASSUME Init PROVE IInv
  OBVIOUS
<1>1. PICK P \in Provisioned :
        user = [u \in Users |-> IF P[u] = NoRole THEN Account("none", NoRole, NoRequest)
                                                 ELSE Account("active", P[u], NoRequest)]
  BY DEF Init
<1>2. /\ P \in [Users -> Roles \cup {NoRole}]
      /\ \A u, v \in Users : P[u] # NoRole /\ P[v] # NoRole /\ u[2] = v[2] => u = v
      /\ \A u \in Users : P[u] # NoRole => \E v \in Users : v[1] = u[1] /\ P[v] = "owner"
  BY ProvisionedAssumption
<1>3. \A u \in Users :
        /\ user[u].status = IF P[u] = NoRole THEN "none" ELSE "active"
        /\ user[u].role = P[u]
  BY <1>1 DEF Account
<1>4. TypeOK
  <2>1. user \in [Users -> UserRow]
    BY <1>1, <1>2 DEF Account, UserRow
  <2>2. Types
    BY <2>1 DEF Init, Types, RowTypes, ControlTypes, InvitationRow, ResetRow, KeyRow,
       Labels, Answers, Task, Invitation, Row, Idle, Work, NoSession, Session
  <2>3. QED
    BY <2>2, TypesAreTypeOK
<1>5. Referenced
  <2>1. \A u \in Users : Active(u) => user[u].role \in Roles
    BY <1>2, <1>3 DEF Active
  <2>2. QED
    BY <2>1 DEF Init, Referenced, Row, Invitation
<1>6. Tasks /\ SignupsAreFresh /\ OwnersAreLocked /\ LinksAreSpent /\ ResetLinkWorksOnce
  BY DEF Init, Tasks, SignupsAreFresh, OwnersAreLocked, LinksAreSpent, ResetLinkWorksOnce
<1>7. EmailNamesOneUser
  BY <1>2, <1>3 DEF EmailNamesOneUser, Active
<1>8. TenantKeepsAnOwner
  <2>1. ASSUME NEW u \in Users, user[u].status # "none"
        PROVE  Owners(u[1]) # {}
    <3>1. PICK v \in Users : v[1] = u[1] /\ P[v] = "owner"
      BY <1>2, <1>3, <2>1
    <3>2. v \in Owners(u[1])
      BY <1>3, <3>1 DEF Owners, Active, NoRole
    <3>3. QED
      BY <3>2
  <2>2. QED
    BY <2>1 DEF TenantKeepsAnOwner
<1>9. QED
  BY <1>4, <1>5, <1>6, <1>7, <1>8 DEF IInv

-----------------------------------------------------------------------------
(* What a step does to the members *)

\* The one who signs up, or is admitted, was no member.
Joins(r) ==
  LET u == req[r].user IN
  /\ u \in Users /\ ~EmailHasUser(u[2]) /\ user[u].status = "none"
  /\ pc' = [pc EXCEPT ![r] = "done"]
  /\ \/ /\ pc[r] = "signup"
        /\ user' = [user EXCEPT ![u] = Account("active", "owner", r)]
     \/ /\ pc[r] = "accept" /\ req[r].change \in InvitableRoles
        /\ inv[req[r].item].state = "pending"
        /\ inv' = [inv EXCEPT ![req[r].item].state = "accepted"]
        /\ user' = [user EXCEPT ![u] = Account("active", req[r].change, r)]

LEMMA MembersStep ==
  ASSUME IInv, Next
  PROVE  \/ \A u \in Users : user'[u].status = user[u].status /\ user'[u].role = user[u].role
         \/ \E r \in Requests : Joins(r)
         \/ \E r \in Requests : WriteRole(r) \/ WriteRemoval(r)
<1>0. RowTypes /\ ControlTypes /\ Tasks /\ Referenced /\ SignupsAreFresh
  BY TypesAreTypeOK DEF IInv, Types
<1>1. CASE UNCHANGED user
  BY <1>1
<1>2. ASSUME NEW r \in Requests, InsertOwner(r), ~UNCHANGED user PROVE Joins(r)
  <2>1. req[r].user \in Users /\ ~Founded(req[r].user[1])
    BY <1>0, <1>2 DEF InsertOwner, ControlTypes, SignupsAreFresh
  <2>2. user[req[r].user].status = "none"
    BY <2>1 DEF Founded, Member
  <2>3. QED
    BY <1>2, <2>1, <2>2 DEF InsertOwner, Answer, Joins
<1>3. ASSUME NEW r \in Requests, AcceptInvite(r), ~UNCHANGED user PROVE Joins(r)
  <2>1. req[r].user \in Users /\ req[r].change \in InvitableRoles
    BY <1>0, <1>3 DEF AcceptInvite, ControlTypes, Referenced, Tasks
  <2>2. QED
    BY <1>3, <2>1 DEF AcceptInvite, Admit, Answer, Joins
<1>4. ASSUME NEW r \in Requests, UseReset(r) \/ SetPassword(r)
      PROVE  \A u \in Users : user'[u].status = user[u].status /\ user'[u].role = user[u].role
  <2>1. user' = user \/ user' = [user EXCEPT ![req[r].user].pw = r]
    BY <1>4 DEF UseReset, SetPassword
  <2>2. user \in [Users -> UserRow] /\ req[r].user \in Users
    BY <1>0, <1>4 DEF UseReset, SetPassword, RowTypes, ControlTypes
  <2>3. QED
    BY <2>1, <2>2 DEF UserRow
<1>5. QED
  BY <1>1, <1>2, <1>3, <1>4
     DEF Next, rows, Login, CheckSignup, CheckInvite, InsertInvite, RevokeInvite,
         InviteExpires, ReadInvite, ReadTarget, CountOwners, IssueReset, ResetExpires,
         ReadReset, VerifyPassword, IssueKey, RevokeKey, Abort

\* Members stay members, and only who founds a tenant becomes an owner.
LEMMA MembersStay ==
  ASSUME IInv, Next
  PROVE  /\ \A u \in Users : Member(u) => Member(u)'
         /\ \A u \in Users : IsOwner(u)' =>
              \/ IsOwner(u)
              \/ ~Founded(u[1]) /\ \E r \in Requests : pc[r] = "signup" /\ req[r].user = u
<1>0. RowTypes /\ ControlTypes /\ Tasks /\ Referenced /\ SignupsAreFresh
  BY TypesAreTypeOK DEF IInv, Types
<1>1. CASE \A u \in Users : user'[u].status = user[u].status /\ user'[u].role = user[u].role
  BY <1>1 DEF Member, IsOwner, Active
<1>2. ASSUME NEW r \in Requests, Joins(r)
      PROVE  /\ \A u \in Users : Member(u) => Member(u)'
             /\ \A u \in Users : IsOwner(u)' =>
                  \/ IsOwner(u)
                  \/ ~Founded(u[1]) /\ \E q \in Requests : pc[q] = "signup" /\ req[q].user = u
  <2>1. user \in [Users -> UserRow] /\ req[r].user \in Users
    BY <1>2, <1>0 DEF Joins, RowTypes
  <2>2. \A u \in Users : u # req[r].user => user'[u] = user[u]
    BY <1>2, <2>1 DEF Joins
  <2>3. user'[req[r].user].status = "active"
    BY <1>2, <2>1 DEF Joins, Account
  <2>4. user'[req[r].user].role = "owner" => pc[r] = "signup" /\ ~Founded(req[r].user[1])
    BY <1>0, <1>2, <2>1, RolesAssumption DEF Joins, Account, SignupsAreFresh
  <2>5. QED
    BY <2>1, <2>2, <2>3, <2>4 DEF Member, IsOwner, Active
<1>3. ASSUME NEW r \in Requests, WriteRole(r) \/ WriteRemoval(r)
      PROVE  /\ \A u \in Users : Member(u) => Member(u)'
             /\ \A u \in Users : IsOwner(u)' =>
                  IsOwner(u)
  <2>1. user \in [Users -> UserRow] /\ req[r].user \in Users /\ req[r] \in Task
    BY <1>3, <1>0 DEF WriteRole, WriteRemoval, RowTypes, ControlTypes
  <2>2. CASE WriteRole(r)
    <3>1. req[r].change # "owner"
      BY <2>1, <2>2, RolesAssumption DEF WriteRole, Task
    <3>2. QED
      BY <2>1, <2>2, <3>1 DEF WriteRole, Member, IsOwner, Active, UserRow
  <2>3. CASE WriteRemoval(r)
    BY <2>1, <2>3 DEF WriteRemoval, Member, IsOwner, Active, UserRow
  <2>4. QED
    BY <1>3, <2>2, <2>3
<1>4. QED
  BY <1>1, <1>2, <1>3, MembersStep
-----------------------------------------------------------------------------
(* What a step does to links and requests *)

LEMMA LinksStep ==
  ASSUME IInv, Next
  PROVE  /\ \/ inv' = inv
            \/ \E i \in Invitations, row \in [state : {"pending"}, user : Users,
                   role : InvitableRoles, expired : {FALSE}] :
                 Founded(row.user[1]) /\ inv[i].state = "none" /\ inv' = [inv EXCEPT ![i] = row]
            \/ \E i \in Invitations : inv[i].state = "pending" /\
                 \/ inv' = [inv EXCEPT ![i].state = "accepted"]
                 \/ inv' = [inv EXCEPT ![i].state = "revoked"]
                 \/ inv' = [inv EXCEPT ![i].expired = TRUE]
         /\ \/ reset' = reset
            \/ \E x \in Resets : \/ /\ reset[x].state # "none"
                                    /\ reset' = [reset EXCEPT ![x].state = "used"]
                                 \/ /\ reset[x].state = "open"
                                    /\ reset' = [reset EXCEPT ![x].state = "expired"]
                                 \/ /\ reset[x].state = "none"
                                    /\ \E u \in Users :
                                         reset' = [reset EXCEPT ![x] = Row("open", u)]
<1>1. ASSUME NEW r \in Requests, NEW i \in Invitations, InsertInvite(r, i), inv' # inv
      PROVE  \E row \in [state : {"pending"}, user : Users, role : InvitableRoles,
                         expired : {FALSE}] :
               Founded(row.user[1]) /\ inv[i].state = "none" /\ inv' = [inv EXCEPT ![i] = row]
  <2>1. /\ req[r].user \in Users /\ req[r].change \in InvitableRoles
        /\ Founded(req[r].user[1])
    BY <1>1, TypesAreTypeOK DEF IInv, Types, ControlTypes, Referenced, InsertInvite
  <2>2. QED
    BY <1>1, <2>1 DEF InsertInvite, Invitation
<1>2. ASSUME NEW r \in Requests, AcceptInvite(r), inv' # inv
      PROVE  /\ req[r].item \in Invitations /\ inv[req[r].item].state = "pending"
             /\ inv' = [inv EXCEPT ![req[r].item].state = "accepted"]
  BY <1>2 DEF AcceptInvite, Admit, IInv, Tasks
<1>3. ASSUME NEW r \in Requests, UseReset(r), reset' # reset
      PROVE  /\ req[r].item \in Resets /\ reset[req[r].item].state # "none"
             /\ reset' = [reset EXCEPT ![req[r].item].state = "used"]
  BY <1>3 DEF UseReset, IInv, Tasks
<1>4. \/ inv' = inv
      \/ \E r \in Requests, i \in Invitations : InsertInvite(r, i)
      \/ \E r \in Requests : AcceptInvite(r)
      \/ \E i \in Invitations : inv[i].state = "pending" /\
           (inv' = [inv EXCEPT ![i].state = "revoked"] \/ inv' = [inv EXCEPT ![i].expired = TRUE])
  BY DEF Next, rows, Login, CheckSignup, InsertOwner, CheckInvite, RevokeInvite,
         InviteExpires, ReadInvite, ReadTarget, CountOwners, WriteRole, WriteRemoval,
         IssueReset, ResetExpires, ReadReset, UseReset, VerifyPassword, SetPassword,
         IssueKey, RevokeKey, Abort
<1>5. \/ reset' = reset
      \/ \E r \in Requests : UseReset(r)
      \/ \E x \in Resets : \/ /\ reset[x].state = "open"
                              /\ reset' = [reset EXCEPT ![x].state = "expired"]
                           \/ /\ reset[x].state = "none"
                              /\ \E u \in Users : reset' = [reset EXCEPT ![x] = Row("open", u)]
  BY DEF Next, rows, Login, CheckSignup, InsertOwner, CheckInvite, InsertInvite,
         RevokeInvite, InviteExpires, ReadInvite, AcceptInvite, ReadTarget, CountOwners,
         WriteRole, WriteRemoval, IssueReset, ResetExpires, ReadReset, VerifyPassword,
         SetPassword, IssueKey, RevokeKey, Abort
<1>6. QED
  BY <1>1, <1>2, <1>3, <1>4, <1>5

\* An invitation keeps its user and role, a reset link its user; a link that is
\* used stays so.
LEMMA LinksStay ==
  ASSUME IInv, Next
  PROVE  /\ \A i \in Invitations : inv[i].state # "none" =>
              /\ inv'[i].state # "none"
              /\ inv'[i].user = inv[i].user /\ inv'[i].role = inv[i].role
         /\ \A x \in Resets :
              /\ reset[x].state # "none" => reset'[x].state # "none"
              /\ reset[x].state = "used" => reset'[x].state = "used"
<1>0. inv \in [Invitations -> InvitationRow] /\ reset \in [Resets -> ResetRow]
  BY TypesAreTypeOK DEF IInv, Types, RowTypes
<1>1. \A i \in Invitations : inv[i].state # "none" =>
        /\ inv'[i].state # "none"
        /\ inv'[i].user = inv[i].user /\ inv'[i].role = inv[i].role
  <2>1. CASE \E i \in Invitations, row \in [state : {"pending"}, user : Users,
                 role : InvitableRoles, expired : {FALSE}] :
               inv[i].state = "none" /\ inv' = [inv EXCEPT ![i] = row]
    BY <1>0, <2>1
  <2>2. CASE \E i \in Invitations : \/ inv' = [inv EXCEPT ![i].state = "accepted"]
                                    \/ inv' = [inv EXCEPT ![i].state = "revoked"]
                                    \/ inv' = [inv EXCEPT ![i].expired = TRUE]
    BY <1>0, <2>2 DEF InvitationRow
  <2>3. QED
    BY <2>1, <2>2, LinksStep
<1>2. \A x \in Resets :
        /\ reset[x].state # "none" => reset'[x].state # "none"
        /\ reset[x].state = "used" => reset'[x].state = "used"
  BY <1>0, LinksStep DEF ResetRow
<1>3. QED
  BY <1>1, <1>2

\* What a request that begins may work on.
Suits(label, work) ==
  /\ work.user \in Users
  /\ label \in {"signup", "invite", "count", "password"} => work.item = 0
  /\ label = "signup" =>
       /\ ~Founded(work.user[1])
       /\ \A q \in Requests : pc[q] = "signup" => req[q].user[1] # work.user[1]
  /\ label = "invite" => Founded(work.user[1]) /\ work.change \in InvitableRoles
  /\ label = "accept" =>
       /\ work.item \in Invitations /\ inv[work.item].state # "none"
       /\ inv[work.item].user = work.user /\ inv[work.item].role = work.change
  /\ label = "count" =>
       /\ Member(work.user)
       /\ work.seen = "owner" => OwnersCookie(work.by, work.user)
       /\ work.seen # "owner" => ~IsOwner(work.user)
  /\ label = "reset" => work.item \in Resets /\ reset[work.item].state # "none"

Begins(r) ==
  \E label \in Labels \ {"new", "done", "write"}, work \in Task :
    Suits(label, work) /\ Begin(r, label, work) /\ UNCHANGED result

\* A request that began to use a link answers "ok" when it has marked it.
Ends(r) ==
  /\ UNCHANGED req /\ pc[r] # "done"
  /\ \E code \in Answers :
       /\ Answer(r, code)
       /\ code = "ok" =>
            /\ pc[r] # "new"
            /\ pc[r] = "reset" =>
                 /\ reset[req[r].item].state # "used"
                 /\ reset' = [reset EXCEPT ![req[r].item].state = "used"]

GoesOn(r) ==
  /\ pc[r] = "count" /\ CountOwners(r)
  /\ pc' = [pc EXCEPT ![r] = "write"] /\ UNCHANGED <<req, result>>

\* A request begins, ends, or goes on from the count to the write.
LEMMA RequestsStep ==
  ASSUME IInv, Next
  PROVE  \/ UNCHANGED control
         \/ \E r \in Requests : Begins(r) \/ Ends(r) \/ GoesOn(r)
<1>0. RowTypes /\ ControlTypes /\ Referenced
  BY TypesAreTypeOK DEF IInv, Types
<1>1. ASSUME NEW r \in Requests, NEW e \in Emails, CheckSignup(r, e), ~Ends(r)
      PROVE  Begins(r)
  <2>1. PICK t \in Tenants :
          /\ \A u \in Users : u[1] = t => user[u].status = "none"
          /\ \A q \in Requests : pc[q] = "signup" => req[q].user[1] # t
          /\ Begin(r, "signup", Work(NoSession, <<t, e>>, NoRole, NoRole, 0))
          /\ UNCHANGED result
    BY <1>1 DEF CheckSignup, Refuse, Ends, Answers
  <2> DEFINE work == Work(NoSession, <<t, e>>, NoRole, NoRole, 0)
  <2>2. work \in Task /\ work.item = 0 /\ work.user \in Users /\ work.user[1] = t
    BY DEF Task, Work, NoSession, Session, Users
  <2>3. Suits("signup", work)
    BY <2>1, <2>2 DEF Suits, Founded, Member
  <2>4. QED
    BY <2>1, <2>2, <2>3 DEF Begins, Labels
<1>2. ASSUME NEW r \in Requests, NEW s \in ManagerSessions, NEW e \in Emails,
             NEW role \in InvitableRoles, CheckInvite(r, s, e, role), ~Ends(r)
      PROVE  Begins(r)
  <2> DEFINE work == Work(NoSession, <<s.user[1], e>>, NoRole, role, 0)
  <2>1. Begin(r, "invite", work) /\ UNCHANGED result
    BY <1>2 DEF CheckInvite, Refuse, Ends, Answers
  <2>2. s.role \in Roles /\ s.user \in Users /\ Member(s.user)
    BY <1>0 DEF RowTypes, Cookie, ManagerSessions, Referenced
  <2>3. <<s.user[1], e>> \in Users
    BY <2>2 DEF Users
  <2>4. /\ work \in Task /\ work.item = 0 /\ work.change = role
        /\ work.user \in Users /\ work.user[1] = s.user[1]
    BY <2>2, <2>3 DEF Task, Work, NoSession, Session
  <2>5. Suits("invite", work)
    BY <2>2, <2>4 DEF Suits, Founded
  <2>6. QED
    BY <2>1, <2>4, <2>5 DEF Begins, Labels
<1>3. ASSUME NEW r \in Requests, NEW i \in Invitations, ReadInvite(r, i), ~Ends(r)
      PROVE  Begins(r)
  <2> DEFINE work == Work(NoSession, inv[i].user, NoRole, inv[i].role, i)
  <2>1. Begin(r, "accept", work) /\ UNCHANGED result /\ inv[i].state # "none"
    BY <1>3 DEF ReadInvite, Refuse, Ends, Answers
  <2>2. inv[i].user \in Users /\ inv[i].role \in InvitableRoles
    BY <1>0, <2>1 DEF Referenced
  <2>3. /\ work \in Task /\ work.item = i
        /\ work.user = inv[i].user /\ work.change = inv[i].role
    BY <2>2 DEF Task, Work, NoSession, Session
  <2>4. Suits("accept", work)
    BY <2>1, <2>2, <2>3 DEF Suits
  <2>5. QED
    BY <2>1, <2>3, <2>4 DEF Begins, Labels
<1>4. ASSUME NEW r \in Requests, NEW s \in ManagerSessions, NEW u \in Users,
             NEW change \in InvitableRoles \cup {NoRole}, ReadTarget(r, s, u, change), ~Ends(r)
      PROVE  Begins(r)
  <2> DEFINE work == Work(s, u, user[u].role, change, 0)
  <2>1. /\ Begin(r, "count", work) /\ UNCHANGED result
        /\ Active(u) /\ CanManage(s.role, user[u].role) /\ u[1] = s.user[1]
    BY <1>4 DEF ReadTarget, Refuse, Ends, Answers
  <2>2. s \in sessions /\ s \in Cookie /\ user[u].role \in Roles
    BY <1>0, <2>1 DEF RowTypes, ManagerSessions, Referenced
  <2>3. /\ work \in Task /\ work.item = 0 /\ work.user = u
        /\ work.by = s /\ work.seen = user[u].role
    BY <2>2 DEF Task, Work, Cookie
  <2>4. user[u].role = "owner" => OwnersCookie(s, u)
    BY <2>1, <2>2 DEF CanManage, OwnersCookie
  <2>5. Suits("count", work)
    BY <2>1, <2>3, <2>4 DEF Suits, Member, Active, IsOwner
  <2>6. QED
    BY <2>1, <2>3, <2>5 DEF Begins, Labels
<1>5. ASSUME NEW r \in Requests, NEW x \in Resets, ReadReset(r, x), ~Ends(r)
      PROVE  Begins(r)
  <2> DEFINE work == Work(NoSession, reset[x].user, NoRole, NoRole, x)
  <2>1. Begin(r, "reset", work) /\ UNCHANGED result /\ reset[x].state = "open"
    BY <1>5 DEF ReadReset, Refuse, Ends, Answers
  <2>2. work \in Task /\ work.item = x /\ work.user \in Users
    BY <1>0, <2>1 DEF Task, Work, NoSession, Session, Referenced
  <2>3. Suits("reset", work)
    BY <2>1, <2>2 DEF Suits
  <2>4. QED
    BY <2>1, <2>2, <2>3 DEF Begins, Labels
<1>6. ASSUME NEW r \in Requests, NEW s \in sessions, VerifyPassword(r, s), ~Ends(r)
      PROVE  Begins(r)
  <2> DEFINE work == Work(NoSession, s.user, NoRole, NoRole, 0)
  <2>1. Begin(r, "password", work) /\ UNCHANGED result
    BY <1>6 DEF VerifyPassword, Refuse, Ends, Answers
  <2>2. work \in Task /\ work.item = 0 /\ work.user \in Users
    BY <1>0 DEF Task, Work, NoSession, Session, RowTypes, Cookie
  <2>3. Suits("password", work)
    BY <2>2 DEF Suits
  <2>4. QED
    BY <2>1, <2>2, <2>3 DEF Begins, Labels
<1>7. ASSUME NEW r \in Requests, CountOwners(r) PROVE Ends(r) \/ GoesOn(r)
  BY <1>7 DEF CountOwners, Ends, GoesOn, Answers
<1>8. ASSUME NEW r \in Requests,
             \/ InsertOwner(r) \/ AcceptInvite(r) \/ WriteRole(r) \/ WriteRemoval(r)
             \/ UseReset(r) \/ SetPassword(r) \/ Abort(r)
             \/ \E i \in Invitations : InsertInvite(r, i)
      PROVE  Ends(r)
  BY <1>8 DEF InsertOwner, AcceptInvite, Admit, WriteRole, WriteRemoval, UseReset,
     SetPassword, Abort, InsertInvite, Ends, Answers
<1>9. QED
  BY <1>1, <1>2, <1>3, <1>4, <1>5, <1>6, <1>7, <1>8
     DEF Next, Login, RevokeInvite, InviteExpires, IssueReset, ResetExpires, IssueKey,
         RevokeKey

-----------------------------------------------------------------------------
(* Each part of the invariant, step by step *)

LEMMA ControlStep == IInv /\ Next => ControlTypes'
<1> SUFFICES ASSUME IInv, Next PROVE ControlTypes'
  OBVIOUS
<1>0. ControlTypes
  BY TypesAreTypeOK DEF IInv, Types
<1> USE <1>0 DEF ControlTypes, Labels
<1>1. CASE UNCHANGED control
  BY <1>1 DEF control
<1>2. ASSUME NEW r \in Requests, Begins(r) PROVE ControlTypes'
  BY <1>2 DEF Begins, Begin, Suits
<1>3. ASSUME NEW r \in Requests, Ends(r) PROVE ControlTypes'
  BY <1>3 DEF Ends, Answer
<1>4. ASSUME NEW r \in Requests, GoesOn(r) PROVE ControlTypes'
  BY <1>4 DEF GoesOn
<1>5. QED
  BY <1>1, <1>2, <1>3, <1>4, RequestsStep

LEMMA TypesStep == IInv /\ Next => TypeOK'
<1> SUFFICES ASSUME IInv, Next PROVE RowTypes'
  BY ControlStep, TypesAreTypeOK DEF Types
<1>0. RowTypes /\ ControlTypes /\ Tasks /\ Referenced
  BY TypesAreTypeOK DEF IInv, Types
<1> USE DEF RowTypes
<1>1. ASSUME NEW u \in Users, Login(u) PROVE RowTypes'
  BY <1>0, <1>1 DEF Login, Session, Cookie, Referenced, rows
<1>2. ASSUME NEW r \in Requests, InsertOwner(r) PROVE RowTypes'
  <2>1. req[r].user \in Users /\ "owner" \in Roles
    BY <1>0, <1>2 DEF InsertOwner, ControlTypes, Roles
  <2>2. QED
    BY <1>0, <1>2, <2>1, UsersWritten DEF InsertOwner, Session, Cookie
<1>3. ASSUME NEW r \in Requests, NEW i \in Invitations, InsertInvite(r, i) PROVE RowTypes'
  <2>1. req[r].user \in Users /\ req[r].change \in InvitableRoles
    BY <1>0, <1>3 DEF InsertInvite, ControlTypes, Referenced
  <2>2. QED
    <3>1. Invitation("pending", req[r].user, req[r].change, FALSE) \in InvitationRow
      BY <2>1, LinksWritten
    <3>2. inv' \in [Invitations -> InvitationRow]
      BY <1>0, <1>3, <3>1 DEF InsertInvite
    <3>3. QED
      BY <1>0, <1>3, <3>2 DEF InsertInvite
<1>4. ASSUME NEW r \in Requests, AcceptInvite(r) PROVE RowTypes'
  <2>1. /\ req[r].user \in Users /\ req[r].item \in Invitations
        /\ req[r].change \in InvitableRoles /\ req[r].change \in Roles
    BY <1>0, <1>4 DEF AcceptInvite, ControlTypes, Referenced, Tasks, Roles
  <2>2. CASE UNCHANGED <<user, inv, sessions>>
    BY <1>0, <1>4, <2>2 DEF AcceptInvite
  <2>3. CASE Admit(r)
    <3>1. Account("active", req[r].change, r) \in UserRow
      BY <2>1, UsersWritten
    <3>2. user' \in [Users -> UserRow] /\ inv' \in [Invitations -> InvitationRow]
      BY <1>0, <2>1, <2>3, <3>1, LinksWritten DEF Admit
    <3>3. sessions' \subseteq Cookie
      BY <1>0, <2>1, <2>3 DEF Admit, Session, Cookie
    <3>4. QED
      BY <1>0, <1>4, <3>2, <3>3 DEF AcceptInvite
  <2>4. QED
    BY <1>4, <2>2, <2>3 DEF AcceptInvite
<1>5. ASSUME NEW r \in Requests, CountOwners(r) PROVE RowTypes'
  <2>1. req[r].user[1] \in Tenants
    BY <1>0, <1>5 DEF CountOwners, ControlTypes, Users
  <2>2. QED
    BY <1>0, <1>5, <2>1 DEF CountOwners, rows
<1>6. ASSUME NEW r \in Requests, Unlock(r)
      PROVE  ownersLock' \in [Tenants -> Requests \cup {NoRequest}]
  BY <1>0, <1>6 DEF Unlock
<1>7. ASSUME NEW r \in Requests, WriteRole(r) PROVE RowTypes'
  <2>1. req[r].change \in Roles /\ req[r].user \in Users
    BY <1>0, <1>7 DEF WriteRole, ControlTypes, Task, Roles
  <2>2. QED
    BY <1>0, <1>6, <1>7, <2>1, UsersWritten DEF WriteRole
<1>8. ASSUME NEW r \in Requests, WriteRemoval(r) PROVE RowTypes'
  <2>1. req[r].user \in Users /\ "owner" \in Roles
    BY <1>0, <1>8 DEF WriteRemoval, ControlTypes, Roles
  <2>2. user' \in [Users -> UserRow]
    BY <1>0, <1>8, <2>1, UsersWritten DEF WriteRemoval
  <2>3. key' \in [Keys -> KeyRow]
    BY <1>0, <1>8, <2>1, LinksWritten DEF WriteRemoval
  <2>4. QED
    BY <1>0, <1>6, <1>8, <2>2, <2>3 DEF WriteRemoval
<1>9. ASSUME NEW r \in Requests, Abort(r) PROVE RowTypes'
  BY <1>0, <1>6, <1>9 DEF Abort, rows
<1>10. ASSUME NEW r \in Requests, UseReset(r) \/ SetPassword(r) PROVE RowTypes'
  <2>1. /\ req[r].user \in Users /\ "owner" \in Roles
        /\ pc[r] = "reset" => req[r].item \in Resets
    BY <1>0, <1>10 DEF UseReset, SetPassword, ControlTypes, Tasks, Roles
  <2>2. user' = user \/ user' = [user EXCEPT ![req[r].user].pw = r]
    BY <1>10 DEF UseReset, SetPassword
  <2>3. user' \in [Users -> UserRow]
    <3>1. [user[req[r].user] EXCEPT !.pw = r] \in UserRow
      BY <1>0, <2>1, UsersWritten
    <3>2. QED
      BY <1>0, <2>1, <2>2, <3>1
  <2>4. reset' \in [Resets -> ResetRow]
    <3>1. \/ reset' = reset
          \/ pc[r] = "reset" /\ reset' = [reset EXCEPT ![req[r].item].state = "used"]
      BY <1>10 DEF UseReset, SetPassword
    <3>2. ASSUME pc[r] = "reset" PROVE [reset[req[r].item] EXCEPT !.state = "used"] \in ResetRow
      BY <1>0, <2>1, <3>2, LinksWritten
    <3>3. QED
      BY <1>0, <2>1, <3>1, <3>2
  <2>5. QED
    BY <1>0, <1>10, <2>3, <2>4 DEF UseReset, SetPassword
<1>11. ASSUME NEW s \in ManagerSessions, NEW i \in Invitations, RevokeInvite(s, i)
       PROVE  RowTypes'
  BY <1>0, <1>11, LinksWritten DEF RevokeInvite
<1>12. ASSUME NEW s \in ManagerSessions, NEW u \in Users, NEW x \in Resets, IssueReset(s, u, x)
       PROVE  RowTypes'
  BY <1>0, <1>12, LinksWritten DEF IssueReset
<1>13. ASSUME NEW s \in ManagerSessions, NEW k \in Keys, IssueKey(s, k) \/ RevokeKey(s, k)
       PROVE  RowTypes'
  BY <1>0, <1>13, LinksWritten DEF IssueKey, RevokeKey, ManagerSessions, Cookie
<1>14. ASSUME NEW i \in Invitations, InviteExpires(i) PROVE RowTypes'
  BY <1>0, <1>14, LinksWritten DEF InviteExpires
<1>15. ASSUME NEW x \in Resets, ResetExpires(x) PROVE RowTypes'
  BY <1>0, <1>15, LinksWritten DEF ResetExpires
<1>16. CASE UNCHANGED <<rows, sessions, ownersLock>>
  BY <1>0, <1>16 DEF rows
<1>17. QED
  BY <1>1, <1>2, <1>3, <1>4, <1>5, <1>7, <1>8, <1>9, <1>10, <1>11, <1>12, <1>13, <1>14,
     <1>15, <1>16
     DEF Next, CheckSignup, CheckInvite, ReadInvite, ReadTarget, ReadReset, VerifyPassword

LEMMA TasksStep == IInv /\ Next => Tasks'
<1> SUFFICES ASSUME IInv, Next PROVE Tasks'
  OBVIOUS
<1>0. ControlTypes /\ Tasks
  BY TypesAreTypeOK DEF IInv, Types
<1> USE <1>0, LinksStay DEF ControlTypes, Tasks
<1>1. CASE UNCHANGED control
  BY <1>1 DEF control
<1>2. ASSUME NEW r \in Requests, Begins(r) PROVE Tasks'
  BY <1>2 DEF Begins, Begin, Suits
<1>3. ASSUME NEW r \in Requests, Ends(r) PROVE Tasks'
  BY <1>3 DEF Ends, Answer
<1>4. ASSUME NEW r \in Requests, GoesOn(r) PROVE Tasks'
  BY <1>4 DEF GoesOn
<1>5. QED
  BY <1>1, <1>2, <1>3, <1>4, RequestsStep

\* A tenant gets its first member by the signup that is under way for it.
LEMMA FoundedStep ==
  ASSUME IInv, Next
  PROVE  \A u \in Users : Member(u)' /\ ~Founded(u[1]) =>
           \E r \in Requests : Joins(r) /\ pc[r] = "signup" /\ req[r].user = u
<1>0. RowTypes /\ Tasks /\ Referenced
  BY TypesAreTypeOK DEF IInv, Types
<1>1. SUFFICES ASSUME NEW u \in Users, Member(u)', ~Founded(u[1])
               PROVE  \E r \in Requests : Joins(r) /\ pc[r] = "signup" /\ req[r].user = u
  OBVIOUS
<1>2. ~Member(u)
  BY <1>1 DEF Founded
<1>3. \E r \in Requests : Joins(r)
  <2>1. ASSUME NEW r \in Requests, WriteRole(r) \/ WriteRemoval(r) PROVE FALSE
    <3>1. Member(req[r].user) /\ user \in [Users -> UserRow]
      BY <1>0, <2>1 DEF Referenced, RowTypes, WriteRole, WriteRemoval
    <3>2. user'[u] = user[u]
      BY <1>2, <2>1, <3>1 DEF WriteRole, WriteRemoval
    <3>3. QED
      BY <1>1, <1>2, <3>2 DEF Member
  <2>2. QED
    BY <1>1, <1>2, <2>1, MembersStep DEF Member
<1>4. PICK r \in Requests : Joins(r)
  BY <1>3
<1>5. req[r].user = u
  BY <1>0, <1>1, <1>2, <1>4 DEF Joins, Member, RowTypes
<1>6. pc[r] = "signup"
  BY <1>0, <1>1, <1>4, <1>5 DEF Joins, Tasks, Referenced
<1>7. QED
  BY <1>4, <1>5, <1>6

LEMMA FreshStep == IInv /\ Next => SignupsAreFresh'
<1> SUFFICES ASSUME IInv, Next PROVE SignupsAreFresh'
  OBVIOUS
<1>0. ControlTypes /\ SignupsAreFresh
  BY TypesAreTypeOK DEF IInv, Types
<1>1. \A q \in Requests : pc'[q] = "signup" =>
        /\ ~Founded(req'[q].user[1])
        /\ \A p \in Requests : pc'[p] = "signup" /\ p # q => req'[p].user[1] # req'[q].user[1]
  <2> USE <1>0 DEF ControlTypes, SignupsAreFresh
  <2>1. CASE UNCHANGED control
    BY <2>1 DEF control
  <2>2. ASSUME NEW r \in Requests, Begins(r)
        PROVE  \A q \in Requests : pc'[q] = "signup" =>
                 /\ ~Founded(req'[q].user[1])
                 /\ \A p \in Requests : pc'[p] = "signup" /\ p # q =>
                      req'[p].user[1] # req'[q].user[1]
    BY <2>2 DEF Begins, Begin, Suits
  <2>3. ASSUME NEW r \in Requests, Ends(r) \/ GoesOn(r)
        PROVE  /\ req' = req /\ \A q \in Requests : pc'[q] = "signup" => pc[q] = "signup"
    BY <2>3 DEF Ends, GoesOn, Answer
  <2>4. QED
    BY <2>1, <2>2, <2>3, RequestsStep
<1>2. ASSUME NEW q \in Requests, pc'[q] = "signup",
             NEW u \in Users, u[1] = req'[q].user[1], Member(u)'
      PROVE  FALSE
  <2>1. ~Founded(u[1])
    BY <1>1, <1>2
  <2>2. PICK r \in Requests : Joins(r) /\ pc[r] = "signup" /\ req[r].user = u
    BY <1>2, <2>1, FoundedStep
  <2>3. pc' = [pc EXCEPT ![r] = "done"] /\ q # r
    BY <1>0, <1>2, <2>2 DEF Joins, ControlTypes
  <2>4. pc[q] = "signup" /\ req' = req
    <3>1. ~ UNCHANGED control
      BY <1>0, <2>2, <2>3 DEF control, ControlTypes
    <3>2. ASSUME NEW p \in Requests, Begins(p) PROVE FALSE
      BY <1>0, <2>2, <2>3, <3>2 DEF Begins, Begin, Labels, ControlTypes
    <3>3. req' = req
      BY <3>1, <3>2, RequestsStep DEF Ends, GoesOn
    <3>4. QED
      BY <1>0, <1>2, <2>3, <3>3 DEF ControlTypes
  <2>5. QED
    BY <1>0, <1>2, <2>2, <2>3, <2>4 DEF SignupsAreFresh
<1>3. QED
  BY <1>1, <1>2 DEF SignupsAreFresh, Founded

LEMMA ReferencedStep == IInv /\ Next => Referenced'
<1> SUFFICES ASSUME IInv, Next PROVE Referenced'
  OBVIOUS
<1>0. RowTypes /\ ControlTypes /\ Tasks /\ Referenced
  BY TypesAreTypeOK DEF IInv, Types
<1>1. \A u \in Users : Member(u) => Member(u)'
  BY MembersStay
<1>2. \A t : Founded(t) => \E u \in Users : u[1] = t /\ Member(u)'
  BY <1>1 DEF Founded
<1>3. \A s \in sessions' : Member(s.user)'
  <2>1. ASSUME NEW u \in Users, Login(u) PROVE \A s \in sessions' : Member(s.user)'
    BY <1>0, <1>1, <2>1 DEF Login, Session, Active, Member, Referenced, RowTypes, Cookie
  <2>2. ASSUME NEW r \in Requests, InsertOwner(r) \/ AcceptInvite(r)
        PROVE  \A s \in sessions' : Member(s.user)'
    <3>1. req[r].user \in Users
      BY <1>0, <2>2 DEF InsertOwner, AcceptInvite, ControlTypes
    <3>2. \/ sessions' = sessions
          \/ \E role : /\ sessions' = sessions \cup {Session(req[r].user, role)}
                       /\ user'[req[r].user].status = "active"
      BY <1>0, <2>2, <3>1 DEF InsertOwner, AcceptInvite, Admit, Account, RowTypes
    <3>3. QED
      BY <1>0, <1>1, <3>1, <3>2 DEF Session, Member, Referenced, RowTypes, Cookie
  <2>3. CASE UNCHANGED sessions
    BY <1>0, <1>1, <2>3 DEF Referenced, RowTypes, Cookie
  <2>4. QED
    BY <2>1, <2>2, <2>3
       DEF Next, rows, CheckSignup, CheckInvite, InsertInvite, RevokeInvite,
           InviteExpires, ReadInvite, ReadTarget, CountOwners, WriteRole, WriteRemoval,
           IssueReset, ResetExpires, ReadReset, UseReset, VerifyPassword, SetPassword,
           IssueKey, RevokeKey, Abort
<1>4. \A u \in Users : Active(u)' => user'[u].role \in Roles
  <2>1. ASSUME NEW r \in Requests, Joins(r)
        PROVE  \A u \in Users : Active(u)' => user'[u].role \in Roles
    BY <1>0, <2>1 DEF Joins, Account, Roles, Active, Referenced, RowTypes
  <2>2. ASSUME NEW r \in Requests, WriteRole(r)
        PROVE  \A u \in Users : Active(u)' => user'[u].role \in Roles
    <3>1. req[r].change \in Roles
      BY <1>0, <2>2 DEF WriteRole, ControlTypes, Task, Roles
    <3>2. QED
      BY <1>0, <2>2, <3>1 DEF WriteRole, Active, Referenced, RowTypes, UserRow
  <2>3. ASSUME NEW r \in Requests, WriteRemoval(r)
        PROVE  \A u \in Users : Active(u)' => user'[u].role \in Roles
    BY <1>0, <2>3 DEF WriteRemoval, Active, Referenced, RowTypes, UserRow
  <2>4. QED
    BY <1>0, <2>1, <2>2, <2>3, MembersStep DEF Active, Referenced
<1>5. \A x \in Resets : reset'[x].state # "none" => reset'[x].user \in Users
  BY <1>0, LinksStep DEF Referenced, RowTypes, ResetRow, Row
<1>6. ASSUME NEW i \in Invitations, inv'[i].state # "none"
      PROVE  /\ inv'[i].user \in Users /\ inv'[i].role \in InvitableRoles
             /\ Founded(inv'[i].user[1])
  <2>1. CASE \E j \in Invitations, row \in [state : {"pending"}, user : Users,
                 role : InvitableRoles, expired : {FALSE}] :
               Founded(row.user[1]) /\ inv[j].state = "none" /\ inv' = [inv EXCEPT ![j] = row]
    BY <1>0, <1>6, <2>1 DEF Referenced, RowTypes
  <2>2. CASE \/ inv' = inv
             \/ \E j \in Invitations : inv[j].state = "pending" /\
                  \/ inv' = [inv EXCEPT ![j].state = "accepted"]
                  \/ inv' = [inv EXCEPT ![j].state = "revoked"]
                  \/ inv' = [inv EXCEPT ![j].expired = TRUE]
    <3>1. inv[i].state # "none"
      BY <1>0, <1>6, <2>2 DEF RowTypes
    <3>2. inv'[i].user = inv[i].user /\ inv'[i].role = inv[i].role
      BY <3>1, LinksStay
    <3>3. QED
      BY <1>0, <3>1, <3>2 DEF Referenced
  <2>3. QED
    BY <2>1, <2>2, LinksStep
<1>7. ASSUME NEW r \in Requests
      PROVE  /\ pc'[r] = "invite" =>
                  Founded(req'[r].user[1]) /\ req'[r].change \in InvitableRoles
             /\ pc'[r] \in {"count", "write"} => Member(req'[r].user) /\ req'[r].user \in Users
  <2> USE <1>0 DEF ControlTypes, Referenced
  <2>1. CASE UNCHANGED control
    BY <2>1 DEF control
  <2>2. CASE \E q \in Requests : Begins(q)
    BY <2>2 DEF Begins, Begin, Suits
  <2>3. CASE \E q \in Requests : Ends(q) \/ GoesOn(q)
    BY <2>3 DEF Ends, GoesOn, Answer
  <2>4. QED
    BY <2>1, <2>2, <2>3, RequestsStep
<1>8. QED
  BY <1>1, <1>2, <1>3, <1>4, <1>5, <1>6, <1>7 DEF Referenced, Founded

-----------------------------------------------------------------------------
(* Owners *)

\* An owner ceases to be one by the write of a request that works on it.
LEMMA OwnersGone ==
  ASSUME IInv, Next
  PROVE  \A u \in Users : IsOwner(u) /\ ~IsOwner(u)' =>
           \E r \in Requests : pc[r] = "write" /\ pc'[r] = "done" /\ req[r].user = u
<1>0. RowTypes /\ ControlTypes
  BY TypesAreTypeOK DEF IInv, Types
<1>1. SUFFICES ASSUME NEW u \in Users, IsOwner(u), ~IsOwner(u)'
               PROVE  \E r \in Requests : pc[r] = "write" /\ pc'[r] = "done" /\ req[r].user = u
  OBVIOUS
<1>2. ASSUME NEW r \in Requests, Joins(r) PROVE FALSE
  BY <1>0, <1>1, <1>2 DEF Joins, IsOwner, Active, RowTypes
<1>3. ASSUME NEW r \in Requests, WriteRole(r) \/ WriteRemoval(r)
      PROVE  pc[r] = "write" /\ pc'[r] = "done" /\ req[r].user = u
  <2>1. pc[r] = "write" /\ pc' = [pc EXCEPT ![r] = "done"]
    BY <1>3 DEF WriteRole, WriteRemoval, Answer
  <2>2. req[r].user # u => user'[u] = user[u]
    BY <1>0, <1>3 DEF WriteRole, WriteRemoval, RowTypes
  <2>3. QED
    BY <1>0, <1>1, <2>1, <2>2 DEF IsOwner, Active, ControlTypes
<1>4. QED
  BY <1>1, <1>2, <1>3, MembersStep DEF IsOwner, Active

\* A lock is let go by the end of its holder only, and taken when it is free.
LEMMA LocksStep ==
  ASSUME IInv, Next
  PROVE  \A q \in Requests, t \in Tenants : ownersLock[t] = q =>
           ownersLock'[t] = q \/ pc'[q] # "write"
<1>0. RowTypes /\ ControlTypes
  BY TypesAreTypeOK DEF IInv, Types
<1>1. ASSUME NEW r \in Requests, CountOwners(r)
      PROVE  \A q \in Requests, t \in Tenants : ownersLock[t] = q => ownersLock'[t] = q
  BY <1>0, <1>1, NoneAssumption DEF CountOwners, RowTypes
<1>2. ASSUME NEW r \in Requests, WriteRole(r) \/ WriteRemoval(r) \/ Abort(r)
      PROVE  \A q \in Requests, t \in Tenants : ownersLock[t] = q =>
               ownersLock'[t] = q \/ pc'[q] # "write"
  <2>1. Unlock(r) /\ pc' = [pc EXCEPT ![r] = "done"]
    BY <1>2 DEF WriteRole, WriteRemoval, Abort, Answer
  <2>2. QED
    BY <1>0, <2>1 DEF Unlock, ControlTypes, RowTypes
<1>3. CASE UNCHANGED ownersLock
  BY <1>3
<1>4. QED
  BY <1>1, <1>2, <1>3
     DEF Next, Login, CheckSignup, InsertOwner, CheckInvite, InsertInvite, RevokeInvite,
         InviteExpires, ReadInvite, AcceptInvite, ReadTarget, IssueReset, ResetExpires,
         ReadReset, UseReset, VerifyPassword, SetPassword, IssueKey, RevokeKey

\* While a request holds the owners of a tenant, it alone takes one away.
LEMMA LockedOwnersStay ==
  ASSUME IInv, Next, NEW q \in Requests, pc[q] = "write", pc'[q] = "write"
  PROVE  \A v \in Users : v[1] = req[q].user[1] /\ IsOwner(v) => IsOwner(v)'
<1> SUFFICES ASSUME NEW v \in Users, v[1] = req[q].user[1], IsOwner(v), ~IsOwner(v)'
             PROVE  FALSE
  OBVIOUS
<1>1. PICK r \in Requests : pc[r] = "write" /\ pc'[r] = "done" /\ req[r].user = v
  BY OwnersGone
<1>2. ownersLock[v[1]] = r /\ ownersLock[v[1]] = q
  BY <1>1 DEF IInv, OwnersAreLocked
<1>3. QED
  BY <1>1, <1>2

LEMMA LockStep == IInv /\ Next => OwnersAreLocked'
<1> SUFFICES ASSUME IInv, Next PROVE OwnersAreLocked'
  OBVIOUS
<1>0. RowTypes /\ ControlTypes /\ Referenced /\ OwnersAreLocked
  BY TypesAreTypeOK DEF IInv, Types
<1>1. ASSUME NEW q \in Requests, pc[q] = "write", pc'[q] = "write", req'[q] = req[q]
      PROVE  /\ ownersLock'[req[q].user[1]] = q
             /\ req[q].seen = "owner" =>
                  \E v \in Users : v[1] = req[q].user[1] /\ IsOwner(v)' /\ v # req[q].user
  <2>1. req[q].user[1] \in Tenants
    BY <1>0, <1>1 DEF ControlTypes, Users
  <2>2. QED
    BY <1>0, <1>1, <2>1, LocksStep, LockedOwnersStay DEF OwnersAreLocked
<1>2. ASSUME NEW q \in Requests, GoesOn(q)
      PROVE  /\ ownersLock'[req[q].user[1]] = q
             /\ req[q].seen = "owner" =>
                  \E v \in Users : v[1] = req[q].user[1] /\ IsOwner(v)' /\ v # req[q].user
  <2>1. /\ ~WouldOrphanOwners(req[q].seen, Cardinality(Owners(req[q].user[1])))
        /\ ownersLock' = [ownersLock EXCEPT ![req[q].user[1]] = q] /\ user' = user
    BY <1>0, <1>2 DEF GoesOn, CountOwners, Answer, rows, ControlTypes
  <2>2. req[q].user[1] \in Tenants
    BY <1>0, <1>2 DEF GoesOn, ControlTypes, Users
  <2>3. req[q].seen = "owner" =>
          \E v \in Users : v[1] = req[q].user[1] /\ IsOwner(v) /\ v # req[q].user
    <3>1. SUFFICES ASSUME req[q].seen = "owner"
                   PROVE  \E v \in Users : v[1] = req[q].user[1] /\ IsOwner(v) /\ v # req[q].user
      OBVIOUS
    <3>2. ~WouldOrphanOwners("owner", Cardinality(Owners(req[q].user[1])))
      BY <2>1, <3>1
    <3>3. QED
      BY <3>2, AnotherOwner
  <2>4. QED
    BY <1>0, <2>1, <2>2, <2>3 DEF RowTypes, IsOwner, Active
<1>3. \A u \in Users : Member(u) /\ ~IsOwner(u) => ~IsOwner(u)'
  BY MembersStay DEF Founded
<1>4. sessions \subseteq sessions'
  BY DEF Next, rows, control, Login, CheckSignup, InsertOwner, CheckInvite, InsertInvite,
         RevokeInvite, InviteExpires, ReadInvite, AcceptInvite, Admit, ReadTarget, CountOwners,
         WriteRole, WriteRemoval, IssueReset, ResetExpires, ReadReset, UseReset,
         VerifyPassword, SetPassword, IssueKey, RevokeKey, Abort
<1>5. \A s, u : OwnersCookie(s, u) => OwnersCookie(s, u)'
  BY <1>4 DEF OwnersCookie
<1>6. ASSUME NEW r \in Requests, pc'[r] = "write"
      PROVE  /\ ownersLock'[req'[r].user[1]] = r
             /\ req'[r].seen = "owner" =>
                  \E v \in Users : v[1] = req'[r].user[1] /\ IsOwner(v)' /\ v # req'[r].user
  <2> USE <1>0 DEF ControlTypes
  <2>1. CASE UNCHANGED control
    BY <1>1, <1>6, <2>1 DEF control
  <2>2. ASSUME NEW q \in Requests, Begins(q)
        PROVE  pc[r] = "write" /\ req'[r] = req[r]
    BY <1>6, <2>2 DEF Begins, Begin, Labels
  <2>3. ASSUME NEW q \in Requests, Ends(q)
        PROVE  pc[r] = "write" /\ req'[r] = req[r]
    BY <1>6, <2>3 DEF Ends, Answer
  <2>4. ASSUME NEW q \in Requests, GoesOn(q)
        PROVE  req' = req /\ (GoesOn(r) \/ pc[r] = "write")
    BY <1>6, <2>4 DEF GoesOn
  <2>5. QED
    BY <1>1, <1>2, <1>6, <2>1, <2>2, <2>3, <2>4, RequestsStep
<1>7. ASSUME NEW r \in Requests, pc'[r] \in {"count", "write"}
      PROVE  /\ req'[r].seen = "owner" => OwnersCookie(req[r].by, req[r].user)'
             /\ req'[r].seen # "owner" => \A u \in Users : u = req'[r].user => ~IsOwner(u)'
  <2> DEFINE Right(work) == /\ work.seen = "owner" => OwnersCookie(work.by, work.user)
                            /\ work.seen # "owner" => ~IsOwner(work.user)
                            /\ Member(work.user)
  <2> USE <1>0 DEF ControlTypes
  <2>1. pc[r] \in {"count", "write"} => Right(req[r])
    BY DEF OwnersAreLocked, Referenced
  <2>2. ASSUME NEW q \in Requests, Begins(q), q # r
        PROVE  pc[r] \in {"count", "write"} /\ req'[r] = req[r]
    BY <1>7, <2>2 DEF Begins, Begin
  <2>3. CASE Begins(r)
    <3>1. PICK work \in Task : Suits("count", work) /\ req' = [req EXCEPT ![r] = work]
      BY <1>7, <2>3 DEF Begins, Begin, Labels
    <3>2. Right(work) /\ req'[r] = work
      BY <3>1 DEF Suits
    <3>3. QED
      BY <1>3, <1>5, <3>2
  <2>4. ASSUME UNCHANGED control \/ \E q \in Requests : Ends(q) \/ GoesOn(q)
        PROVE  pc[r] \in {"count", "write"} /\ req'[r] = req[r]
    BY <1>7, <2>4 DEF control, Ends, GoesOn, Answer
  <2>5. CASE pc[r] \in {"count", "write"} /\ req'[r] = req[r]
    BY <1>3, <1>5, <2>1, <2>5
  <2>6. QED
    BY <2>2, <2>3, <2>4, <2>5, RequestsStep
<1>8. ASSUME NEW r \in Requests, pc'[r] \in {"count", "write"}
      PROVE  req'[r].user \in Users
  BY <1>8, ControlStep DEF ControlTypes
<1>9. QED
  BY <1>6, <1>7, <1>8 DEF OwnersAreLocked

LEMMA OwnerStep == IInv /\ Next => TenantKeepsAnOwner'
<1> SUFFICES ASSUME IInv, Next, NEW u \in Users, Member(u)'
             PROVE  \E v \in Users : v[1] = u[1] /\ IsOwner(v)'
  BY DEF TenantKeepsAnOwner, Owners, IsOwner, Active, Member
<1>0. RowTypes /\ Referenced /\ OwnersAreLocked
  BY TypesAreTypeOK DEF IInv, Types
<1>1. CASE Founded(u[1])
  <2>1. PICK v \in Users : v[1] = u[1] /\ IsOwner(v)
    <3>1. PICK m \in Users : m[1] = u[1] /\ user[m].status # "none"
      BY <1>1 DEF Founded, Member
    <3>2. Owners(u[1]) # {}
      BY <3>1 DEF IInv, TenantKeepsAnOwner
    <3>3. QED
      BY <3>2 DEF Owners, IsOwner
  <2>2. CASE IsOwner(v)'
    BY <2>1, <2>2
  <2>3. CASE ~IsOwner(v)'
    <3>1. PICK r \in Requests : pc[r] = "write" /\ pc'[r] = "done" /\ req[r].user = v
      BY <2>1, <2>3, OwnersGone
    <3>2. PICK w \in Users : w[1] = u[1] /\ IsOwner(w) /\ w # v
      BY <1>0, <2>1, <3>1 DEF OwnersAreLocked
    <3>3. ASSUME ~IsOwner(w)' PROVE FALSE
      <4>1. PICK q \in Requests : pc[q] = "write" /\ pc'[q] = "done" /\ req[q].user = w
        BY <3>2, <3>3, OwnersGone
      <4>2. ownersLock[u[1]] = q /\ ownersLock[u[1]] = r
        BY <1>0, <2>1, <3>1, <3>2, <4>1 DEF OwnersAreLocked
      <4>3. QED
        BY <3>1, <3>2, <4>1, <4>2
    <3>4. QED
      BY <3>2, <3>3
  <2>4. QED
    BY <2>2, <2>3
<1>2. CASE ~Founded(u[1])
  <2>1. PICK r \in Requests : Joins(r) /\ pc[r] = "signup" /\ req[r].user = u
    BY <1>2, FoundedStep
  <2>2. IsOwner(u)'
    BY <1>0, <2>1 DEF Joins, Account, IsOwner, Active, RowTypes
  <2>3. QED
    BY <2>2
<1>3. QED
  BY <1>1, <1>2

-----------------------------------------------------------------------------
(* Emails and reset links *)

LEMMA EmailStep == IInv /\ Next => EmailNamesOneUser'
<1> SUFFICES ASSUME IInv, Next PROVE EmailNamesOneUser'
  OBVIOUS
<1>0. RowTypes /\ EmailNamesOneUser
  BY TypesAreTypeOK DEF IInv, Types
<1>1. ASSUME NEW r \in Requests, Joins(r) PROVE EmailNamesOneUser'
  BY <1>0, <1>1 DEF Joins, EmailHasUser, EmailNamesOneUser, Active, RowTypes
<1>2. ASSUME NEW r \in Requests, WriteRole(r) \/ WriteRemoval(r)
      PROVE  \A u \in Users : Active(u)' => Active(u)
  BY <1>0, <1>2 DEF WriteRole, WriteRemoval, Active, RowTypes, UserRow
<1>3. QED
  BY <1>0, <1>1, <1>2, MembersStep DEF EmailNamesOneUser, Active

\* A request answers that it used a link in the step that marks the link.
LEMMA LinkIsUsed ==
  ASSUME IInv, Next, NEW r \in Requests,
         pc'[r] = "done", result'[r] = "ok", req'[r].item \in Resets
  PROVE  /\ req'[r].item = req[r].item
         /\ \/ pc[r] = "done" /\ result[r] = "ok"
            \/ /\ pc[r] # "done" /\ pc' = [pc EXCEPT ![r] = "done"]
               /\ reset[req[r].item].state # "used"
               /\ reset'[req[r].item].state = "used"
<1>0. ControlTypes /\ Tasks
  BY TypesAreTypeOK DEF IInv, Types
<1>1. CASE UNCHANGED control
  BY <1>1 DEF control
<1>2. ASSUME NEW q \in Requests, Begins(q) PROVE UNCHANGED <<req[r], pc[r], result[r]>>
  BY <1>0, <1>2 DEF Begins, Begin, ControlTypes
<1>3. ASSUME NEW q \in Requests, GoesOn(q) PROVE UNCHANGED <<req[r], pc[r], result[r]>>
  BY <1>0, <1>3 DEF GoesOn, ControlTypes
<1>4. ASSUME NEW q \in Requests, Ends(q), q # r
      PROVE  UNCHANGED <<req[r], pc[r], result[r]>>
  BY <1>0, <1>4 DEF Ends, Answer, ControlTypes
<1>5. CASE Ends(r)
  <2>1. pc[r] # "new" /\ pc[r] # "done" /\ req' = req /\ pc' = [pc EXCEPT ![r] = "done"]
    BY <1>0, <1>5 DEF Ends, Answer, ControlTypes
  <2>2. pc[r] = "reset"
    BY <1>0, <2>1, IdsAssumption DEF ControlTypes, Labels, Tasks
  <2>3. /\ reset[req[r].item].state # "used"
        /\ reset' = [reset EXCEPT ![req[r].item].state = "used"]
    BY <1>0, <1>5, <2>2 DEF Ends, Answer, ControlTypes
  <2>4. reset \in [Resets -> ResetRow] /\ req[r].item \in Resets
    BY <2>1, TypesAreTypeOK DEF IInv, Types, RowTypes
  <2>5. reset'[req[r].item].state = "used"
    BY <2>3, <2>4 DEF ResetRow
  <2>6. QED
    BY <2>1, <2>3, <2>5
<1>6. QED
  BY <1>1, <1>2, <1>3, <1>4, <1>5, RequestsStep

LEMMA LinkStep == IInv /\ Next => LinksAreSpent' /\ ResetLinkWorksOnce'
<1> SUFFICES ASSUME IInv, Next PROVE LinksAreSpent' /\ ResetLinkWorksOnce'
  OBVIOUS
<1>0. ControlTypes /\ LinksAreSpent /\ ResetLinkWorksOnce
  BY TypesAreTypeOK DEF IInv, Types
<1>1. LinksAreSpent'
  BY <1>0, LinkIsUsed, LinksStay DEF LinksAreSpent
<1>2. ASSUME NEW q \in Requests, NEW r \in Requests, q # r,
             pc'[q] = "done", pc'[r] = "done", result'[q] = "ok", result'[r] = "ok",
             req'[q].item \in Resets, req'[q].item = req'[r].item
      PROVE  FALSE
  <2>1. req'[q].item = req[q].item /\ req'[r].item = req[r].item
    BY <1>2, LinkIsUsed
  <2>2. ASSUME NEW p \in Requests, pc[p] = "done", result[p] = "ok", req[p].item \in Resets
        PROVE  reset[req[p].item].state = "used"
    BY <1>0, <2>2 DEF LinksAreSpent
  <2>3. CASE pc[q] = "done" /\ result[q] = "ok"
    <3>1. pc[r] = "done" /\ result[r] = "ok"
      <4>1. reset[req[r].item].state = "used"
        BY <1>2, <2>1, <2>2, <2>3
      <4>2. QED
        BY <1>2, <4>1, LinkIsUsed
    <3>2. QED
      BY <1>0, <1>2, <2>1, <2>3, <3>1 DEF ResetLinkWorksOnce
  <2>4. CASE pc[q] # "done" /\ pc' = [pc EXCEPT ![q] = "done"]
               /\ reset[req[q].item].state # "used"
    <3>1. pc[r] = "done"
      BY <1>0, <1>2, <2>4 DEF ControlTypes
    <3>2. result[r] = "ok"
      BY <1>2, <3>1, LinkIsUsed
    <3>3. QED
      BY <1>2, <2>1, <2>2, <2>4, <3>1, <3>2
  <2>5. QED
    BY <1>2, <2>3, <2>4, LinkIsUsed
<1>3. QED
  BY <1>1, <1>2 DEF ResetLinkWorksOnce

-----------------------------------------------------------------------------
(* The theorems *)

LEMMA Inductive == Spec => []IInv
<1>1. IInv /\ UNCHANGED vars => IInv'
  BY DEF IInv, TypeOK, Tasks, Referenced, SignupsAreFresh, OwnersAreLocked,
     LinksAreSpent, TenantKeepsAnOwner, EmailNamesOneUser, ResetLinkWorksOnce, Founded,
     OwnersCookie, Member, IsOwner, Owners, Active, vars
<1>2. IInv /\ [Next]_vars => IInv'
  BY <1>1, TypesStep, TasksStep, ReferencedStep, FreshStep, LockStep, LinkStep, OwnerStep,
     EmailStep DEF IInv
<1>3. QED
  BY <1>2, InvInit, PTL DEF Spec

\* Every variable keeps its type, for any tenants, emails, links and requests.
THEOREM AccountTypes == Spec => []TypeOK
<1>1. IInv => TypeOK
  BY DEF IInv
<1>2. QED
  BY <1>1, Inductive, PTL

\* However many owners demote and remove each other and themselves at the same
\* time, a tenant with members has an owner (wouldOrphanOwners and FOR UPDATE).
THEOREM OwnerRemains == Spec => []TenantKeepsAnOwner
<1>1. IInv => TenantKeepsAnOwner
  BY DEF IInv
<1>2. QED
  BY <1>1, Inductive, PTL

\* However signups and acceptances race, no two active users share an email
\* (users_email_active).
THEOREM EmailsAreUnique == Spec => []EmailNamesOneUser
<1>1. IInv => EmailNamesOneUser
  BY DEF IInv
<1>2. QED
  BY <1>1, Inductive, PTL

\* No reset link sets two passwords, whoever opens it at the same time.
THEOREM LinksWorkOnce == Spec => []ResetLinkWorksOnce
<1>1. IInv => ResetLinkWorksOnce
  BY DEF IInv
<1>2. QED
  BY <1>1, Inductive, PTL

\* Nobody becomes active but as the first of a tenant, or by an invitation that
\* was pending and is spent by that step.
THEOREM JoinsAreInvited == Spec => NobodyJoinsUninvited
<1> DEFINE Invited ==
      \A u \in Users : ~Active(u) /\ user'[u].status = "active" =>
        \/ /\ user'[u].role = "owner"
           /\ \A v \in Users : v[1] = u[1] => user[v].status = "none"
        \/ \E i \in Invitations :
             /\ inv[i] = Invitation("pending", u, user'[u].role, inv[i].expired)
             /\ inv'[i].state = "accepted"
<1>1. ASSUME IInv, Next PROVE Invited
  <2>0. RowTypes /\ Tasks /\ SignupsAreFresh
    BY <1>1, TypesAreTypeOK DEF IInv, Types
  <2>1. SUFFICES ASSUME NEW u \in Users, ~Active(u), user'[u].status = "active"
                 PROVE  \/ /\ user'[u].role = "owner"
                           /\ \A v \in Users : v[1] = u[1] => user[v].status = "none"
                        \/ \E i \in Invitations :
                             /\ inv[i] = Invitation("pending", u, user'[u].role, inv[i].expired)
                             /\ inv'[i].state = "accepted"
    OBVIOUS
  <2>2. ASSUME NEW r \in Requests, WriteRole(r) \/ WriteRemoval(r) PROVE FALSE
    BY <2>0, <2>1, <2>2 DEF WriteRole, WriteRemoval, Active, RowTypes, UserRow
  <2>3. PICK r \in Requests : Joins(r)
    BY <1>1, <2>1, <2>2, MembersStep DEF Active
  <2>4. req[r].user = u
    BY <2>0, <2>1, <2>3 DEF Joins, Active, RowTypes
  <2>5. CASE pc[r] = "signup" /\ user' = [user EXCEPT ![u] = Account("active", "owner", r)]
    BY <2>0, <2>4, <2>5 DEF Account, SignupsAreFresh, Founded, Member, RowTypes
  <2>6. CASE /\ pc[r] = "accept" /\ inv[req[r].item].state = "pending"
             /\ inv' = [inv EXCEPT ![req[r].item].state = "accepted"]
             /\ user' = [user EXCEPT ![u] = Account("active", req[r].change, r)]
    <3> DEFINE i == req[r].item
    <3>1. /\ i \in Invitations /\ inv[i].user = u /\ inv[i].role = req[r].change
          /\ inv[i] \in InvitationRow
      BY <2>0, <2>4, <2>6 DEF Tasks, RowTypes
    <3>2. user'[u].role = req[r].change /\ inv'[i].state = "accepted"
      BY <2>0, <2>6, <3>1 DEF Account, RowTypes, InvitationRow
    <3>3. inv[i] = Invitation("pending", u, user'[u].role, inv[i].expired)
      BY <2>6, <3>1, <3>2 DEF Invitation, InvitationRow
    <3>4. QED
      BY <3>1, <3>2, <3>3
  <2>7. QED
    BY <2>3, <2>4, <2>5, <2>6 DEF Joins
<1>2. UNCHANGED vars => Invited
  BY DEF vars, Active
<1>3. QED
  BY <1>1, <1>2, Inductive, PTL DEF Spec, NobodyJoinsUninvited

\* Only a request sent with a cookie that was issued to an owner of the same tenant takes
\* an owner's role or membership away; the holder may have lost its own role since.
THEOREM OwnersAreSafe == Spec => OwnersAnswerToOwners
<1> DEFINE Safe ==
      \A u \in Users :
        u \in Owners(u[1]) /\ ~(user'[u].status = "active" /\ user'[u].role = "owner") =>
          \E r \in Requests : /\ pc[r] = "write" /\ pc'[r] = "done"
                              /\ req[r].user = u /\ OwnersCookie(req[r].by, u)
<1>1. ASSUME IInv, Next PROVE Safe
  <2>1. SUFFICES ASSUME NEW u \in Users, IsOwner(u), ~IsOwner(u)'
                 PROVE  \E r \in Requests : /\ pc[r] = "write" /\ pc'[r] = "done"
                                            /\ req[r].user = u /\ OwnersCookie(req[r].by, u)
    BY DEF Owners, IsOwner, Active
  <2>2. PICK r \in Requests : pc[r] = "write" /\ pc'[r] = "done" /\ req[r].user = u
    BY <1>1, <2>1, OwnersGone
  <2>3. OwnersCookie(req[r].by, u)
    BY <1>1, <2>1, <2>2 DEF IInv, OwnersAreLocked
  <2>4. QED
    BY <2>2, <2>3
<1>2. UNCHANGED vars => Safe
  BY DEF vars, Owners, Active
<1>3. QED
  BY <1>1, <1>2, Inductive, PTL DEF Spec, OwnersAnswerToOwners
=============================================================================
