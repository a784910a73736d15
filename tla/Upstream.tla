-------------------------------- MODULE Upstream --------------------------------
(***************************************************************************)
(* The tenant's Openprovider account: its credentials, the data key they   *)
(* are encrypted under, the cached token, and the locks of the             *)
(* transactions that need them, from the first to the settlement after the *)
(* call upstream.                                                          *)
(*                                                                         *)
(* Everything runs in a transaction on a connection of one pool.  A        *)
(* transaction reads what is committed and what it wrote itself (READ      *)
(* COMMITTED) and keeps each lock it took to its end.  Five kinds meet on  *)
(* the rows of a tenant: an owner who connects the account, a tool called  *)
(* in allow-mode, a proposal, an approval over MCP and one over the        *)
(* dashboard.  They take the audit lock, the account row and the           *)
(* confirmation in different orders, so they can wait on each other in a   *)
(* circle: PostgreSQL then aborts one of them.                             *)
(*                                                                         *)
(* The token manager of a request serves that request alone, whose calls   *)
(* follow each other: its map of logins in flight never holds one.  A      *)
(* token that expired is one that is not there.                            *)
(***************************************************************************)
EXTENDS Integers, FiniteSets, SequencesExt

CONSTANTS
  Owners,      \* POSTs of /dashboard/openprovider, and tenant:onboard
  Callers,     \* allow-mode tools/call requests
  Proposers,   \* confirm-mode ones
  Approvers,   \* confirm_pending calls, for one confirmation
  Dashboards,  \* dashboard approvals of the same confirmation
  Creators,    \* those that call create_contact through withIdempotency
  Meetings,    \* sets of requests: those of one of them come
  None,        \* nobody; nothing stored; nothing written
  PoolSize,    \* max of the connection pool
  MaxExpiries  \* bound on the times a cached token expires

Requests == Owners \cup Callers \cup Proposers \cup Approvers \cup Dashboards

ASSUME RequestsAssumption ==
  /\ None \notin Requests /\ IsFiniteSet(Owners)
  /\ Owners \cap (Callers \cup Proposers \cup Approvers \cup Dashboards) = {}
  /\ Callers \cap (Proposers \cup Approvers \cup Dashboards) = {}
  /\ Proposers \cap (Approvers \cup Dashboards) = {}
  /\ Approvers \cap Dashboards = {}
  /\ Creators \subseteq Callers \cup Approvers
  /\ Meetings \subseteq SUBSET Requests
ASSUME BoundsAssumption == PoolSize \in Nat \ {0} /\ MaxExpiries \in Nat

VARIABLES
  db,        \* the committed rows: username, key, secret, token, conf, resv
  own,       \* what each transaction has written to them
  holder,    \* who holds each lock
  pc,        \* "new", "run", "done" (or never come), or "aborted" by the database
  todo,      \* the steps a request has left
  read,      \* what it has read for its next statement
  ran,       \* the requests whose operation was sent, answered or not
  expiries   \* tokens expired so far

vars == <<db, own, holder, pc, todo, read, ran, expiries>>
outside == <<ran, expiries>>

-----------------------------------------------------------------------------
(* Rows, locks and transactions *)

\* "conf" is who consumed the confirmation and "resv" who settled its reservation.
Fields == {"username", "key", "secret", "token", "conf", "resv"}
Locks == {"policy", "audit", "account", "key", "secret", "conf", "resv", "idem"}
Nothing == [f \in Fields |-> None]
NoRead == [username |-> None, password |-> None, key |-> None, version |-> 0]

View(r, f) == IF own[r][f] # None THEN own[r][f] ELSE db[f]
Write(r, f, value) == own' = [own EXCEPT ![r][f] = value]

Take(r, lock) ==
  /\ holder[lock] \in {None, r}
  /\ holder' = [holder EXCEPT ![lock] = r]
Released(r) == [l \in Locks |-> IF holder[l] = r THEN None ELSE holder[l]]

Connections == {r \in Requests : pc[r] = "run"}

\* The statements and calls of each kind of request, in the order of the code.
\* "price" is a getToken that may do without an account, "token" the one of a handler.
Connecting == <<"account", "key", "version", "secret">>
Calling == <<"audit", "token", "send", "record">>
Proposing == <<"policy", "price", "audit">>
Approving == <<"audit", "load", "price", "drift", "conf", "token", "send", "record",
               "settle">>

\* Mutant: the dashboard writes an audit row once it has run.
AuditedAtTheEnd == <<"load", "price", "drift", "conf", "token", "send", "settle", "audit">>

OnDashboard == <<"load", "price", "drift", "conf", "token", "send", "settle">>

Program(r) ==
  CASE r \in Owners     -> Connecting
    [] r \in Callers    -> Calling
    [] r \in Proposers  -> Proposing
    [] r \in Approvers  -> Approving
    [] r \in Dashboards -> OnDashboard

Init ==
  /\ db = Nothing
  /\ own = [r \in Requests |-> Nothing]
  /\ holder = [l \in Locks |-> None]
  /\ \E meeting \in Meetings :
       pc = [r \in Requests |-> IF r \in meeting THEN "new" ELSE "done"]
  /\ todo = [r \in Requests |-> <<>>]
  /\ read = [r \in Requests |-> NoRead]
  /\ ran = {} /\ expiries = 0

At(r, steps) == pc[r] = "run" /\ todo[r] # <<>> /\ Head(todo[r]) \in steps
Then(r, steps) == todo' = [todo EXCEPT ![r] = steps]
Advance(r) == Then(r, Tail(todo[r]))
Stop(r) == Then(r, <<>>)

\* What is left once the handler has returned or thrown: the settlement, if the
\* request has claimed the confirmation.
End(r, settlement) == Then(r, IF own[r]["conf"] = r THEN <<settlement>> ELSE <<>>)
Fail(r) == End(r, "release")

\* pool.connect, BEGIN.
Begin(r) ==
  /\ pc[r] = "new" /\ Cardinality(Connections) < PoolSize
  /\ pc' = [pc EXCEPT ![r] = "run"]
  /\ Then(r, Program(r))
  /\ UNCHANGED <<db, own, holder, read, outside>>

\* Mutant: the client is released without ending its transaction.
FinishOpen(r) ==
  /\ pc[r] = "run" /\ todo[r] = <<>>
  /\ pc' = [pc EXCEPT ![r] = "done"]
  /\ UNCHANGED <<db, own, holder, todo, read, outside>>

\* COMMIT, also after an error that was answered, and release.
Finish(r) ==
  /\ pc[r] = "run" /\ todo[r] = <<>>
  /\ pc' = [pc EXCEPT ![r] = "done"]
  /\ db' = [f \in Fields |-> View(r, f)]
  /\ own' = [own EXCEPT ![r] = Nothing]
  /\ read' = [read EXCEPT ![r] = NoRead]
  /\ holder' = Released(r)
  /\ UNCHANGED <<todo, ran, expiries>>

-----------------------------------------------------------------------------
(* Connecting the account: onboardCredentials *)

\* Mutant: the row of the account is not waited for.
UpsertUnlocked(r) ==
  /\ At(r, {"account"})
  /\ Write(r, "username", r) /\ Advance(r)
  /\ UNCHANGED <<db, holder, pc, read, outside>>

\* INSERT ... ON CONFLICT DO UPDATE; a cached token stays in the row.
UpsertAccount(r) ==
  /\ At(r, {"account"}) /\ Take(r, "account")
  /\ Write(r, "username", r) /\ Advance(r)
  /\ UNCHANGED <<db, pc, read, outside>>

\* The tenant's data key if there is one, else one is generated.
getTenantDek(r) ==
  /\ At(r, {"key"})
  /\ IF View(r, "key") = None
       THEN Then(r, <<"generate">> \o Tail(todo[r])) /\ UNCHANGED read
       ELSE Advance(r) /\ read' = [read EXCEPT ![r].key = View(r, "key")]
  /\ UNCHANGED <<db, own, holder, pc, outside>>

\* generateDataKey and its INSERT ... ON CONFLICT DO UPDATE.
setTenantKey(r) ==
  /\ At(r, {"generate"}) /\ Take(r, "key")
  /\ Write(r, "key", r) /\ Advance(r)
  /\ read' = [read EXCEPT ![r].key = r]
  /\ UNCHANGED <<db, pc, outside>>

\* Mutant: the version is counted up here and by the upsert.
ReadNextVersion(r) ==
  LET prev == View(r, "secret") IN
    /\ At(r, {"version"})
    /\ read' = [read EXCEPT ![r].version = IF prev = None THEN 1 ELSE prev.version + 1]
    /\ Advance(r)
    /\ UNCHANGED <<db, own, holder, pc, outside>>

ReadVersion(r) ==
  LET prev == View(r, "secret") IN
    /\ At(r, {"version"})
    /\ read' = [read EXCEPT ![r].version = IF prev = None THEN 0 ELSE prev.version]
    /\ Advance(r)
    /\ UNCHANGED <<db, own, holder, pc, outside>>

upsertSecret(r) ==
  /\ At(r, {"secret"}) /\ Take(r, "secret")
  /\ Write(r, "secret", [password |-> r, key |-> read[r].key,
                         version |-> read[r].version + 1])
  /\ Advance(r)
  /\ UNCHANGED <<db, pc, read, outside>>

-----------------------------------------------------------------------------
(* getToken *)

Opens(r, box) == box.key = View(r, "key")

\* The cached token; a token that does not open is an error.
CachedToken(r) ==
  LET token == View(r, "token") IN
    /\ At(r, {"price", "token"})
    /\ CASE token = None    -> Then(r, <<"username", "password", "login", "store">>
                                       \o todo[r])
         [] Opens(r, token) -> Advance(r)
         [] OTHER           -> Fail(r)
    /\ UNCHANGED <<db, own, holder, pc, read, outside>>

\* The step that asked for the token, behind the first n of a login.
Asked(r, n) == todo[r][n + 1]
Got(r, n) == Then(r, SubSeq(todo[r], n + 2, Len(todo[r])))

\* Username and password are two reads.  Without an account there is nothing to
\* price, and an error for a tool that sends.
ReadUsername(r) ==
  /\ At(r, {"username"})
  /\ IF View(r, "username") # None THEN Advance(r)
     ELSE IF Asked(r, 4) = "price" THEN Got(r, 4) ELSE Fail(r)
  /\ read' = [read EXCEPT ![r].username = View(r, "username")]
  /\ UNCHANGED <<db, own, holder, pc, outside>>

ReadPassword(r) ==
  LET secret == View(r, "secret") IN
    /\ At(r, {"password"})
    /\ IF secret # None /\ Opens(r, secret)
         THEN read' = [read EXCEPT ![r].password = secret.password] /\ Advance(r)
         ELSE UNCHANGED read /\ Fail(r)
    /\ UNCHANGED <<db, own, holder, pc, outside>>

\* POST /auth/login refuses a username with the password of another.
Login(r) ==
  /\ At(r, {"login"})
  /\ \/ read[r].username = read[r].password /\ Advance(r)
     \/ Fail(r)
  /\ UNCHANGED <<db, own, holder, pc, read, outside>>

\* cache.set: an UPDATE of the row of the account.
StoreToken(r) ==
  /\ At(r, {"store"}) /\ Take(r, "account")
  /\ Write(r, "token", [of |-> read[r].username, key |-> View(r, "key")])
  /\ Got(r, 1)
  /\ UNCHANGED <<db, pc, read, outside>>

-----------------------------------------------------------------------------
(* What surrounds it *)

\* SELECT ... FOR UPDATE of the policy; the advisory lock of an audit row.
TakeLock(r) ==
  /\ At(r, {"policy", "audit"}) /\ Take(r, Head(todo[r]))
  /\ Advance(r)
  /\ UNCHANGED <<db, own, pc, read, outside>>

\* loadConfirmation and its tests: consumed, or expired, other arguments, other role.
Load(r) ==
  /\ At(r, {"load"})
  /\ \/ db["conf"] = None /\ Advance(r)
     \/ Stop(r)
  /\ UNCHANGED <<db, own, holder, pc, read, outside>>

\* The new price is near the estimate, or the hold is released without a claim.
Drift(r) ==
  /\ At(r, {"drift"})
  /\ Advance(r) \/ Then(r, <<"release">>)
  /\ UNCHANGED <<db, own, holder, pc, read, outside>>

\* claimConfirmation: no row is left to lock once it is consumed.
Claim(r) ==
  /\ At(r, {"conf"})
  /\ IF db["conf"] # None
       THEN Stop(r) /\ UNCHANGED <<own, holder>>
       ELSE Take(r, "conf") /\ Write(r, "conf", r) /\ Advance(r)
  /\ UNCHANGED <<db, pc, read, outside>>

\* withIdempotency answers from a record of an earlier call.
Replay(r) ==
  /\ At(r, {"token"}) /\ r \in Creators
  /\ End(r, "settle")
  /\ UNCHANGED <<db, own, holder, pc, read, outside>>

\* The operation is sent: it is answered, or fails with its effect unknown; or
\* nothing could be sent.
Send(r) ==
  /\ At(r, {"send"})
  /\ \/ ran' = ran \cup {r} /\ (Advance(r) \/ Fail(r))
     \/ UNCHANGED ran /\ Fail(r)
  /\ UNCHANGED <<db, own, holder, pc, read, expiries>>

\* withIdempotency inserts its record; two of one key wait for each other.
Record(r) ==
  /\ At(r, {"record"})
  /\ IF r \in Creators THEN Take(r, "idem") ELSE UNCHANGED holder
  /\ Advance(r)
  /\ UNCHANGED <<db, own, pc, read, outside>>

\* settleConfirmation, after unclaimConfirmation if the handler failed: the row of
\* the reservation is waited for while it is pending, with the claim or without.
Settle(r) ==
  LET unclaimed == IF At(r, {"release"}) THEN [own[r] EXCEPT !["conf"] = None] ELSE own[r]
  IN /\ At(r, {"settle", "release"})
     /\ IF db["resv"] # None
          THEN own' = [own EXCEPT ![r] = unclaimed] /\ UNCHANGED holder
          ELSE Take(r, "resv") /\ own' = [own EXCEPT ![r] = [unclaimed EXCEPT !["resv"] = r]]
     /\ Advance(r)
     /\ UNCHANGED <<db, pc, read, outside>>

\* A token lives twelve hours.
Expire ==
  /\ expiries < MaxExpiries /\ db["token"] # None
  /\ expiries' = expiries + 1
  /\ db' = [db EXCEPT !["token"] = None]
  /\ UNCHANGED <<own, holder, pc, todo, read, ran>>

-----------------------------------------------------------------------------
(* Deadlocks *)

LockOf == [step \in {"policy", "audit", "account", "generate", "secret", "store",
                     "conf", "record", "settle", "release"} |->
             CASE step = "generate"              -> "key"
               [] step = "store"                 -> "account"
               [] step = "record"                -> "idem"
               [] step \in {"settle", "release"} -> "resv"
               [] OTHER                          -> step]

\* A statement waits for the row it is about to write, if it finds one to write.
Waits(r) ==
  /\ At(r, DOMAIN LockOf)
  /\ At(r, {"conf"}) => db["conf"] = None
  /\ At(r, {"settle", "release"}) => db["resv"] = None
  /\ At(r, {"record"}) => r \in Creators
WaitsFor(r) == IF Waits(r) THEN holder[LockOf[Head(todo[r])]] ELSE None
Circle(S) == S # {} /\ {WaitsFor(r) : r \in S} = S /\ \A r \in S : WaitsFor(r) # r

\* The database rolls back one transaction of a circle: nothing it does from then
\* on succeeds, and its connection goes back to the pool.
Abort(r) ==
  /\ \E S \in SUBSET Connections : r \in S /\ Circle(S)
  /\ pc' = [pc EXCEPT ![r] = "aborted"]
  /\ Stop(r)
  /\ own' = [own EXCEPT ![r] = Nothing]
  /\ read' = [read EXCEPT ![r] = NoRead]
  /\ holder' = Released(r)
  /\ UNCHANGED <<db, outside>>

Step(r) ==
  \/ Begin(r) \/ Finish(r) \/ TakeLock(r) \/ Load(r) \/ Drift(r) \/ Claim(r)
  \/ Replay(r) \/ Send(r) \/ Record(r) \/ Settle(r)
  \/ UpsertAccount(r) \/ getTenantDek(r) \/ setTenantKey(r)
  \/ ReadVersion(r) \/ upsertSecret(r)
  \/ CachedToken(r) \/ ReadUsername(r) \/ ReadPassword(r) \/ Login(r)
  \/ StoreToken(r)

Next == Expire \/ \E r \in Requests : Step(r) \/ Abort(r)

\* A request that can go on does, and a circle is found: the event loop and the
\* database run, upstream answers or is given up on (after 30 s by client.ts; the
\* login's fetch has no limit of its own and ends by those of Node's fetch), a lock
\* or a connection that is free is given to one that waits, and deadlock_timeout
\* passes.
Fairness ==
  /\ \A r \in Requests : WF_vars(Step(r))
  /\ WF_vars(\E r \in Requests : Abort(r))

Spec == Init /\ [][Next]_vars /\ Fairness

-----------------------------------------------------------------------------
(* Properties *)

Steps == {"policy", "audit", "account", "key", "generate", "version", "secret",
          "price", "token", "username", "password", "login", "store", "load", "drift",
          "conf", "send", "record", "settle", "release"}
Secrets == [password : Owners, key : Owners, version : 1..Cardinality(Owners)]
Tokens == [of : Owners, key : Owners]
Values == [username |-> Owners, key |-> Owners, secret |-> Secrets, token |-> Tokens,
           conf |-> Approvers \cup Dashboards, resv |-> Approvers \cup Dashboards]

\* The types of the variables: no connection of the account counts the version of
\* the password up more than once.
TypeOK ==
  /\ \A f \in Fields :
       /\ db[f] \in Values[f] \cup {None}
       /\ \A r \in Requests : own[r][f] \in Values[f] \cup {None}
  /\ holder \in [Locks -> Requests \cup {None}]
  /\ pc \in [Requests -> {"new", "run", "done", "aborted"}]
  /\ \A r \in Requests : Len(todo[r]) <= 11 /\ ToSet(todo[r]) \subseteq Steps
  /\ read \in [Requests -> [username : Owners \cup {None},
                            password : Owners \cup {None},
                            key : Owners \cup {None},
                            version : 0..Cardinality(Owners)]]
  /\ ran \subseteq Requests /\ expiries \in 0..MaxExpiries

\* What is stored can be read back: the password and the cached token are
\* encrypted under the data key the tenant has, whatever connections of the
\* account and logins cross each other (getTenantDek is the "single source of
\* truth", the row of the account serialises the writers).
AccountIsReadable ==
  \A f \in {"secret", "token"} : db[f] # None => db[f].key = db["key"]

\* The database never rolls back a request whose operation went upstream, although
\* it still waits: for the record of create_contact, and for the reservation, which an
\* approval that found the price changed writes without the claim.  Neither can close
\* a circle: records are written under the audit lock only, and whoever has written
\* the reservation waits for nothing more (getToken before the handler's call, the
\* audit row before the handler, the claim before it, settleConfirmation last).
VictimNeverRan == \A r \in Requests : pc[r] = "aborted" => r \notin ran

\* Every request ends, and its connection is free again, although requests wait
\* for each other's locks with their connections held: nothing waits for a second
\* connection, and a circle costs one of its requests (cleanup, withTenantConn).
EveryRequestEnds == <>(\A r \in Requests : pc[r] \in {"done", "aborted"})
=============================================================================
