-------------------------- MODULE ContactIdempotency --------------------------
(***************************************************************************)
(* create_contact, the one write that runs without a confirmation, and the *)
(* records that keep a repeated call from creating a second contact.       *)
(*                                                                         *)
(* A tools/call is one transaction.  The audit row of the call takes the   *)
(* tenant's advisory lock, which is held to the end of the transaction and *)
(* is all that serialises two calls with one key.  withIdempotency then    *)
(* looks for a live record, and without one sends the POST and stores the  *)
(* result.  The HTTP client sends a POST again after a 5xx or a 429, and   *)
(* gives up on it after 30 seconds whether or not it was carried out.      *)
(* The answer is sent before the COMMIT.                                   *)
(*                                                                         *)
(* A dashboard approval of create_contact runs the same tool without       *)
(* withIdempotency and without an audit row.                               *)
(***************************************************************************)
EXTENDS Integers, FiniteSets

CONSTANTS
  Callers,     \* tools/call requests for create_contact
  Dashboard,   \* dashboard approvals of a create_contact
  Args,        \* the arguments they may carry: [scalars, nested]
  NoRequest,   \* nobody holds the lock; no result
  Window,      \* the ten minutes of a record, in ticks
  MaxNow,      \* bound on the clock
  MaxCrashes   \* bound on the crashes of the server

Requests == Callers \cup Dashboard

ASSUME RequestsAssumption ==
  Callers \cap Dashboard = {} /\ NoRequest \notin Requests
ASSUME BoundsAssumption ==
  Window \in Nat \ {0} /\ MaxNow \in Nat /\ MaxCrashes \in Nat

VARIABLES
  now,       \* the clock of the database
  crashes,   \* crashes so far
  contacts,  \* the contacts at Openprovider, by the request that created them:
             \* those a repeated POST created twice are one
  records,   \* the committed rows of idempotency_records
  lock,      \* who holds the tenant's audit lock
  pc,        \* what each request does next
  args,      \* its arguments
  start,     \* when its transaction began, which is now() throughout
  try,       \* attempt(n) of its POST, while it is under way
  result,    \* the contact it answers with
  created    \* it is the one that created it: the row it inserts

vars ==
  <<now, crashes, contacts, records, lock, pc, args, start, try, result, created>>

-----------------------------------------------------------------------------
(* Keys and records *)

\* Mutant: the key is that of the tool and the tenant alone.
KeyOfTheTool(a) == <<>>

\* The list of top-level keys filters nested objects too: name, phone and
\* address of a contact are left out of its key.
idempotencyKeyFor(a) == <<a.scalars>>

Keys == {idempotencyKeyFor(a) : a \in Args}
NoRecord == [result |-> NoRequest, expires |-> 0]
Live(k, t) == records[k].expires > t

Init ==
  /\ now = 0 /\ crashes = 0
  /\ contacts = {}
  /\ records = [k \in Keys |-> NoRecord]
  /\ lock = NoRequest
  /\ pc = [r \in Requests |-> "new"]
  /\ args \in [Requests -> Args]
  /\ start = [r \in Requests |-> 0]
  /\ try = [r \in Requests |-> 0]
  /\ result = [r \in Requests |-> NoRequest]
  /\ created = [r \in Requests |-> FALSE]

Goto(r, label) == pc' = [pc EXCEPT ![r] = label]
InFlight == {r \in Requests : pc[r] \notin {"new", "done", "gone"}}

-----------------------------------------------------------------------------
(* The transaction of a request *)

Begin(r) ==
  /\ pc[r] = "new"
  /\ start' = [start EXCEPT ![r] = now]
  /\ Goto(r, IF r \in Callers THEN "call" ELSE "token")
  /\ UNCHANGED <<now, crashes, contacts, records, lock, args, try, result, created>>

\* Mutant: the row of a tool.call is written without the lock.
AuditUnlocked(r) ==
  /\ pc[r] = "call"
  /\ Goto(r, "lookup")
  /\ UNCHANGED <<now, crashes, contacts, records, lock, args, start, try, result,
                 created>>

\* The tool.call row waits for pg_advisory_xact_lock.
AuditCall(r) ==
  /\ pc[r] = "call" /\ lock = NoRequest
  /\ lock' = r
  /\ Goto(r, "lookup")
  /\ UNCHANGED <<now, crashes, contacts, records, args, start, try, result, created>>

LookUp(r) ==
  LET k == idempotencyKeyFor(args[r]) IN
    /\ pc[r] = "lookup"
    /\ IF Live(k, start[r])
         THEN Goto(r, "reply") /\ result' = [result EXCEPT ![r] = records[k].result]
         ELSE Goto(r, "token") /\ UNCHANGED result
    /\ UNCHANGED <<now, crashes, contacts, records, lock, args, start, try, created>>

\* The handler: a token, or an error without one.
GetToken(r) ==
  /\ pc[r] = "token"
  /\ \E label \in {"send", "reply"} : Goto(r, label)
  /\ UNCHANGED <<now, crashes, contacts, records, lock, args, start, try, result,
                 created>>

\* INSERT ... ON CONFLICT DO NOTHING, which is seen from the COMMIT on.
Store(r) ==
  /\ pc[r] = "store"
  /\ created' = [created EXCEPT ![r] = TRUE]
  /\ Goto(r, "reply")
  /\ UNCHANGED <<now, crashes, contacts, records, lock, args, start, try, result>>

\* The audit row of the result, then the answer.
Reply(r) ==
  /\ pc[r] = "reply"
  /\ Goto(r, "commit")
  /\ UNCHANGED <<now, crashes, contacts, records, lock, args, start, try, result,
                 created>>

\* A key that is there, live or expired, keeps its row.
Commit(r) ==
  LET k == idempotencyKeyFor(args[r]) IN
    /\ pc[r] = "commit"
    /\ records' = IF created[r] /\ records[k] = NoRecord
                    THEN [records EXCEPT ![k] = [result |-> result[r],
                                                 expires |-> start[r] + Window]]
                    ELSE records
    /\ lock' = IF lock = r THEN NoRequest ELSE lock
    /\ Goto(r, "done")
    /\ UNCHANGED <<now, crashes, contacts, args, start, try, result, created>>

-----------------------------------------------------------------------------
(* attempt(n) of the POST *)

Created(r) == contacts' = contacts \cup {r}
Carried(r) == Created(r) \/ UNCHANGED contacts

Leave(r, label) == Goto(r, label) /\ try' = [try EXCEPT ![r] = 0]

\* Mutant: one attempt more.
AgainUpTo(r, limit) ==
  IF try[r] <= limit
    THEN try' = [try EXCEPT ![r] = @ + 1] /\ UNCHANGED pc
    ELSE Leave(r, "reply")

\* Again unless it was the last of its kind.
AgainUnder(r, limit) ==
  IF try[r] < limit
    THEN try' = [try EXCEPT ![r] = @ + 1] /\ UNCHANGED pc
    ELSE Leave(r, "reply")

Ok(r) ==
  /\ Created(r)
  /\ result' = [result EXCEPT ![r] = r]
  /\ Leave(r, IF r \in Callers THEN "store" ELSE "reply")
ServerError(r) == Carried(r) /\ AgainUnder(r, 3) /\ UNCHANGED result
RateLimited(r) == AgainUnder(r, 2) /\ UNCHANGED <<contacts, result>>
Refused(r) == Leave(r, "reply") /\ UNCHANGED <<contacts, result>>
TimedOut(r) == Carried(r) /\ Leave(r, "reply") /\ UNCHANGED result

Post(r) ==
  /\ pc[r] = "send"
  /\ Ok(r) \/ ServerError(r) \/ RateLimited(r) \/ Refused(r) \/ TimedOut(r)
  /\ UNCHANGED <<now, crashes, records, lock, args, start, created>>

-----------------------------------------------------------------------------
(* The clock and the server *)

Tick ==
  /\ now < MaxNow
  /\ now' = now + 1
  /\ UNCHANGED <<crashes, contacts, records, lock, pc, args, start, try, result,
                 created>>

\* Every transaction in flight is rolled back and its lock released; a POST that
\* was sent stays sent.
Crash ==
  /\ crashes < MaxCrashes /\ InFlight # {}
  /\ crashes' = crashes + 1
  /\ pc' = [r \in Requests |-> IF r \in InFlight THEN "gone" ELSE pc[r]]
  /\ lock' = NoRequest
  /\ try' = [r \in Requests |-> 0]
  /\ UNCHANGED <<now, contacts, records, args, start, result, created>>

Step(r) ==
  \/ Begin(r) \/ AuditCall(r) \/ LookUp(r) \/ GetToken(r)
  \/ Post(r) \/ Store(r) \/ Reply(r) \/ Commit(r)

Next == Tick \/ Crash \/ \E r \in Requests : Step(r)

Spec == Init /\ [][Next]_vars

-----------------------------------------------------------------------------
(* Properties *)

\* The types of the variables: attempt(n) never goes beyond its fourth.
TypeOK ==
  /\ now \in 0..MaxNow /\ crashes \in 0..MaxCrashes
  /\ contacts \subseteq Requests
  /\ records \in [Keys -> [result : Requests \cup {NoRequest},
                           expires : 0..(MaxNow + Window)]]
  /\ lock \in Callers \cup {NoRequest}
  /\ pc \in [Requests -> {"new", "call", "lookup", "token", "send", "store",
                          "reply", "commit", "done", "gone"}]
  /\ args \in [Requests -> Args]
  /\ start \in [Requests -> 0..MaxNow]
  /\ try \in [Requests -> 0..3]
  /\ result \in [Requests -> Requests \cup {NoRequest}]
  /\ created \in [Requests -> BOOLEAN]

Answered(r) == pc[r] \in {"commit", "done"} /\ result[r] # NoRequest
Kept(r) == pc[r] = "done" /\ created[r]

\* Of two calls with one key that both created their contact and committed, one
\* began after the record of the key had expired: while the first record of a
\* key is live, however the calls interleave, a contact is created once
\* (withIdempotency, serialised by the audit row of the call).
DuplicateHasACause ==
  \A r, s \in Callers :
    (/\ r # s /\ Kept(r) /\ Kept(s)
     /\ idempotencyKeyFor(args[r]) = idempotencyKeyFor(args[s]))
    => \E c \in {r, s} :
         start[c] >= records[idempotencyKeyFor(args[s])].expires

\* A contact that is answered exists and was created with the scalar arguments of
\* the call, whoever created it: what is stored and replayed survived the
\* roll-backs, the repeated POSTs and the crashes (withIdempotency, attempt).
AnswerNamesItsContact ==
  \A r \in Requests : Answered(r) =>
    result[r] \in contacts /\ args[result[r]].scalars = args[r].scalars

\* src/README.md:50 promises "idempotent on identical args (10-min window)": of
\* two calls that create a contact with the same arguments, one begins at least a
\* window after the other.
IdempotentForTenMinutes ==
  \A r, s \in Callers : (r # s /\ Kept(r) /\ Kept(s) /\ args[r] = args[s]) =>
    start[r] >= start[s] + Window \/ start[s] >= start[r] + Window
=============================================================================
