-------------------------- MODULE ConfirmationFlow --------------------------
(***************************************************************************)
(* Propose and approve: how one tenant's billable and destructive tools    *)
(* are run.  A proposal reserves its estimated cost against the tenant's   *)
(* monthly limit (dispatchFactory.propose); an approver, through the MCP   *)
(* tool confirm_pending or the dashboard, re-validates it, claims it,      *)
(* executes the tool upstream and settles the reservation.                 *)
(*                                                                         *)
(* Every request is one Postgres transaction (READ COMMITTED) on its own   *)
(* connection.  An action is what a request does between two points where  *)
(* another can run: one statement that waits for a lock or reads committed *)
(* rows, or one call upstream, with the code that follows it.              *)
(*                                                                         *)
(* conf and resv are the committed rows; what a running transaction has    *)
(* written and not committed is in wrow and wresv, and having written a    *)
(* row is holding its row lock.  Requests are not reused: a finite number  *)
(* of requests of each kind is the bound on a behaviour.                   *)
(***************************************************************************)
EXTENDS Integers, FiniteSets, FiniteSetsExt

CONSTANTS
  Confs,          \* confirmation ids
  Proposers,      \* MCP calls of a confirm-mode tool
  McpApprovers,   \* MCP calls of confirm_pending
  DashApprovers,  \* POSTs of /dashboard/confirmations/:id/approve
  NoRequest,      \* holder of a free lock
  NoConf,         \* target of a request that has none yet
  Tools,          \* confirm-mode tools
  DashTools,      \* the tools the dashboard's approve route registers
  PricesOf,       \* prices, in cents, the upstream may quote for each tool
  Roles,          \* roles of users
  RoleOf,         \* the caller's role, "" for a service principal
  ApproverRoles,  \* policy.required_approver_roles of each tool
  Limit,          \* policy.spend_caps.limit_eur, in cents
  TTL,            \* CONFIRM_TTL_MS
  MaxAttempts,    \* HTTP attempts of one handler (first call and retries)
  MaxNow          \* bound on the clock

Approvers == McpApprovers \cup DashApprovers
Requests == Proposers \cup Approvers
NoRole == ""
Amounts == {0} \cup (UNION {PricesOf[t] : t \in Tools})

ASSUME KindsAssumption ==
  /\ Proposers \cap Approvers = {}
  /\ McpApprovers \cap DashApprovers = {}
  /\ NoRequest \notin Requests
  /\ NoConf \notin Confs
ASSUME ToolsAssumption ==
  /\ Tools # {}
  /\ DashTools \subseteq Tools
  /\ PricesOf \in [Tools -> SUBSET Nat]
  /\ RoleOf \in [Requests -> Roles \cup {NoRole}]
  /\ ApproverRoles \in [Tools -> SUBSET Roles]
  /\ \A r \in DashApprovers : RoleOf[r] \in {"owner", "admin"}  \* requireRole
ASSUME NumbersAssumption ==
  /\ Limit \in Nat /\ TTL \in Nat \ {0} /\ MaxNow \in Nat
  /\ MaxAttempts \in Nat \ {0}

VARIABLES
  now,         \* the clock, of the application and of the database
  connected,   \* the tenant has an Openprovider account
  conf,        \* committed rows of confirmations
  resv,        \* committed status of each row of spend_reservations
  policyLock,  \* holder of the row lock on the tenant's policy
  auditLock,   \* holder of the audit trigger's advisory lock
  pc,          \* what each request does next
  began,       \* now() of each transaction: the time it began
  target,      \* the confirmation each request works on
  seen,        \* liveSpendCents as a proposal read it
  wrow,        \* what each transaction has written to its confirmation row
  wresv,       \* the status it has written to the reservation row
  result,      \* the answer of each request
  effects,     \* operations applied upstream for each confirmation
  late         \* history: confirmations whose reservation was committed
               \* after they had expired

vars == <<now, connected, conf, resv, policyLock, auditLock, pc, began,
          target, seen, wrow, wresv, result, effects, late>>
env == <<now, connected>>
rows == <<conf, resv>>
locks == <<policyLock, auditLock>>
writes == <<wrow, wresv>>
history == <<effects, late>>

ConfStates == {"absent", "inserting", "open", "consumed"}
ResvStates == {"none", "pending", "committed", "released"}
RowWrites == {"none", "inserted", "claimed", "unclaimed"}
Pcs == {"new", "lockPolicy", "readSpend", "decide", "auditProposal",
        "auditCall", "preload", "load", "price", "release", "claim",
        "exec", "settle", "unclaim", "commit", "done"}
Results == {"none", "proposed", "spend_cap_exceeded", "ok", "upstream_error",
            "confirmation_not_found", "confirmation_expired",
            "validation_failed", "approver_role_required", "price_changed",
            "tool_not_found", "rolled_back"}

Row(s, t, e, x) == [state |-> s, tool |-> t, est |-> e, expires |-> x]
NoRow == Row("absent", CHOOSE t \in Tools : TRUE, 0, 0)

Init ==
  /\ now = 0
  /\ connected \in BOOLEAN
  /\ conf = [c \in Confs |-> NoRow]
  /\ resv = [c \in Confs |-> "none"]
  /\ policyLock = NoRequest /\ auditLock = NoRequest
  /\ pc = [r \in Requests |-> "new"]
  /\ began = [r \in Requests |-> 0]
  /\ target = [r \in Requests |-> NoConf]
  /\ seen = [r \in Requests |-> 0]
  /\ wrow = [r \in Requests |-> "none"]
  /\ wresv = [r \in Requests |-> "none"]
  /\ result = [r \in Requests |-> "none"]
  /\ effects = [c \in Confs |-> 0]
  /\ late = {}

-----------------------------------------------------------------------------
(* Helpers *)

Goto(r, label) == pc' = [pc EXCEPT ![r] = label]

\* The handler has its answer; what is left of the request is its commit.
Finish(r, code) == Goto(r, "commit") /\ result' = [result EXCEPT ![r] = code]

\* Mutant: the claim is a plain check that waits for no one.
NoConfLocked(r) == FALSE

\* Another transaction has written the row and not ended: an UPDATE waits.
ConfLocked(r) == \E q \in Requests \ {r} :
                   target[q] = target[r] /\ wrow[q] # "none"
ResvLocked(r) == \E q \in Requests \ {r} :
                   target[q] = target[r] /\ wresv[q] # "none"

\* The reservations liveSpendCents counts at time t.
Live(t) == {c \in Confs : \/ resv[c] = "committed"
                          \/ /\ resv[c] = "pending"
                             /\ conf[c].state = "open"
                             /\ conf[c].expires > t}
Spend(S) == MapThenSumSet(LAMBDA c : conf[c].est, S)
LiveSpendCents(t) == Spend(Live(t))

\* Math.round(estimate * (1 + DRIFT_TOLERANCE)), DRIFT_TOLERANCE = 0.05
Tolerated(estimate) == (estimate * 105 + 50) \div 100

Billable(t) == PricesOf[t] # {0}

\* Mutant: the UPDATE loses its AND status = 'pending'.
SettleAny(r, outcome) ==
  /\ ~ResvLocked(r)
  /\ wresv' = [wresv EXCEPT ![r] = outcome]

\* UPDATE spend_reservations SET status WHERE status = 'pending': it waits
\* for the row, then sees the status last committed.
SettleReservation(r, outcome) ==
  /\ ~ResvLocked(r)
  /\ wresv' = [wresv EXCEPT ![r] =
                 IF resv[target[r]] = "pending" THEN outcome ELSE @]

-----------------------------------------------------------------------------
(* Proposals *)

BeginProposal(r) ==
  /\ pc[r] = "new"
  /\ Goto(r, "lockPolicy")
  /\ began' = [began EXCEPT ![r] = now]
  /\ UNCHANGED <<env, rows, locks, target, seen, writes, result, history>>

\* Mutant: the SELECT of the policy row loses its FOR UPDATE.
PolicyNotLocked(r) ==
  /\ pc[r] = "lockPolicy"
  /\ Goto(r, "readSpend")
  /\ UNCHANGED <<env, rows, locks, began, target, seen, writes, result, history>>

\* SELECT 1 FROM policies ... FOR UPDATE
LockPolicy(r) ==
  /\ pc[r] = "lockPolicy"
  /\ policyLock = NoRequest
  /\ policyLock' = r
  /\ Goto(r, "readSpend")
  /\ UNCHANGED <<env, rows, auditLock, began, target, seen, writes, result,
                 history>>

ReadSpend(r) ==
  /\ pc[r] = "readSpend"
  /\ seen' = [seen EXCEPT ![r] = LiveSpendCents(began[r])]
  /\ Goto(r, "decide")
  /\ UNCHANGED <<env, rows, locks, began, target, writes, result, history>>

\* The upstream is asked for the price; without a connected account the
\* estimate is 0.  A positive estimate is held against the limit.
Propose(r) ==
  /\ pc[r] = "decide"
  /\ \E t \in Tools, estimate \in Amounts :
       /\ estimate \in (IF connected THEN PricesOf[t] ELSE {0})
       /\ IF estimate > 0 /\ seen[r] + estimate > Limit
            THEN /\ result' = [result EXCEPT ![r] = "spend_cap_exceeded"]
                 /\ UNCHANGED <<conf, target, writes>>
            ELSE \E c \in Confs :
                 /\ conf[c].state = "absent"
                 /\ conf' = [conf EXCEPT ![c] =
                               Row("inserting", t, estimate, now + TTL)]
                 /\ target' = [target EXCEPT ![r] = c]
                 /\ wrow' = [wrow EXCEPT ![r] = "inserted"]
                 /\ wresv' = [wresv EXCEPT ![r] = "pending"]
                 /\ result' = [result EXCEPT ![r] = "proposed"]
  /\ Goto(r, "auditProposal")
  /\ UNCHANGED <<env, resv, locks, began, seen, history>>

\* The price or the login fails: the error leaves the dispatcher unaudited.
ProposalFails(r) ==
  /\ pc[r] = "decide"
  /\ Finish(r, "upstream_error")
  /\ UNCHANGED <<env, rows, locks, began, target, seen, writes, history>>

\* The audit row of a proposal or of its refusal comes last.
AuditProposal(r) ==
  /\ pc[r] = "auditProposal"
  /\ auditLock = NoRequest
  /\ auditLock' = r
  /\ Goto(r, "commit")
  /\ UNCHANGED <<env, rows, policyLock, began, target, seen, writes, result,
                 history>>

-----------------------------------------------------------------------------
(* Approvals *)

\* confirm_pending is an allow-mode tool: the audit row of the call comes
\* first, and its advisory lock is held until the transaction ends.
BeginMcpApproval(r) ==
  /\ pc[r] = "new"
  /\ \E c \in Confs : target' = [target EXCEPT ![r] = c]
  /\ Goto(r, "auditCall")
  /\ UNCHANGED <<env, rows, locks, began, seen, writes, result, history>>

AuditCall(r) ==
  /\ pc[r] = "auditCall"
  /\ auditLock = NoRequest
  /\ auditLock' = r
  /\ Goto(r, "load")
  /\ UNCHANGED <<env, rows, policyLock, began, target, seen, writes, result,
                 history>>

BeginDashApproval(r) ==
  /\ pc[r] = "new"
  /\ \E c \in Confs : target' = [target EXCEPT ![r] = c]
  /\ Goto(r, "preload")
  /\ UNCHANGED <<env, rows, locks, began, seen, writes, result, history>>

\* validateConfirmation up to its pricing; the dashboard route has loaded the
\* row once before, for its arguments, and made the first two tests.
Refusal(r, sameArgs) ==
  LET row == conf[target[r]] IN
  IF row.state # "open" THEN "confirmation_not_found"
  ELSE IF now >= row.expires THEN "confirmation_expired"
  ELSE IF pc[r] = "preload" THEN "none"
  ELSE IF ~sameArgs THEN "validation_failed"
  ELSE IF RoleOf[r] \notin ApproverRoles[row.tool] THEN "approver_role_required"
  ELSE "none"

Load(r) ==
  /\ pc[r] \in {"preload", "load"}
  /\ \E sameArgs \in (IF r \in McpApprovers THEN BOOLEAN ELSE {TRUE}) :
       IF Refusal(r, sameArgs) # "none"
         THEN Finish(r, Refusal(r, sameArgs))
         ELSE /\ Goto(r, IF pc[r] = "preload" THEN "load" ELSE "price")
              /\ UNCHANGED result
  /\ UNCHANGED <<env, rows, locks, began, target, seen, writes, history>>

\* The fresh price: without an account it is 0 through MCP, and on the
\* dashboard only for a tool that has no price.
FreshPrices(r) ==
  LET t == conf[target[r]].tool IN
  IF connected THEN PricesOf[t]
  ELSE IF r \in DashApprovers /\ Billable(t) THEN {}
  ELSE {0}

Reprice(r) ==
  /\ pc[r] = "price"
  /\ \E fresh \in FreshPrices(r) :
       IF fresh > Tolerated(conf[target[r]].est)
         THEN Goto(r, "release") /\ UNCHANGED result
         ELSE IF r \in DashApprovers /\ conf[target[r]].tool \notin DashTools
                THEN Finish(r, "tool_not_found")
                ELSE Goto(r, "claim") /\ UNCHANGED result
  /\ UNCHANGED <<env, rows, locks, began, target, seen, writes, history>>

RepriceFails(r) ==
  /\ pc[r] = "price"
  /\ Finish(r, "upstream_error")
  /\ UNCHANGED <<env, rows, locks, began, target, seen, writes, history>>

\* price_changed: the reservation is released, the confirmation stays open.
Release(r) ==
  /\ pc[r] = "release"
  /\ SettleReservation(r, "released")
  /\ Finish(r, "price_changed")
  /\ UNCHANGED <<env, rows, locks, began, target, seen, wrow, history>>

\* Mutant: consume ignores the result of the claim.
ClaimUnchecked(r) ==
  /\ pc[r] = "claim"
  /\ ~ConfLocked(r)
  /\ wrow' = [wrow EXCEPT ![r] = "claimed"]
  /\ Goto(r, "exec")
  /\ UNCHANGED <<env, rows, locks, began, target, seen, wresv, result, history>>

\* UPDATE confirmations SET consumed_at WHERE consumed_at IS NULL RETURNING:
\* it waits for another claim of the row to end and re-evaluates the WHERE.
Claim(r) ==
  /\ pc[r] = "claim"
  /\ ~ConfLocked(r)
  /\ IF conf[target[r]].state = "open"
       THEN /\ wrow' = [wrow EXCEPT ![r] = "claimed"]
            /\ Goto(r, "exec")
            /\ UNCHANGED result
       ELSE /\ Finish(r, "confirmation_not_found")
            /\ UNCHANGED wrow
  /\ UNCHANGED <<env, rows, locks, began, target, seen, wresv, history>>

\* The tool's handler: its HTTP call is retried on a 5xx, so n of its
\* attempts may have been applied; it returns only if the last one was.
\* Without an account it throws before any attempt.
Execute(r) ==
  /\ pc[r] = "exec"
  /\ \E n \in 0 .. MaxAttempts, answered \in BOOLEAN :
       /\ connected \/ n = 0
       /\ answered => n > 0
       /\ effects' = [effects EXCEPT ![target[r]] = @ + n]
       /\ Goto(r, IF answered THEN "settle" ELSE "unclaim")
  /\ UNCHANGED <<env, rows, locks, began, target, seen, writes, result, late>>

SettleCommitted(r) ==
  /\ pc[r] = "settle"
  /\ SettleReservation(r, "committed")
  /\ Finish(r, "ok")
  /\ UNCHANGED <<env, rows, locks, began, target, seen, wrow, history>>

\* unclaimConfirmation, then settleConfirmation with 'released'
SettleReleased(r) ==
  /\ pc[r] = "unclaim"
  /\ wrow' = [wrow EXCEPT ![r] = "unclaimed"]
  /\ SettleReservation(r, "released")
  /\ Finish(r, "upstream_error")
  /\ UNCHANGED <<env, rows, locks, began, target, seen, history>>

-----------------------------------------------------------------------------
(* The end of a transaction *)

\* Mutant: a failed request's connection goes back to the pool with its
\* transaction still open.
UnlockIfOk(r) ==
  /\ IF result[r] \in {"ok", "proposed"}
       THEN /\ policyLock' = IF policyLock = r THEN NoRequest ELSE policyLock
            /\ auditLock' = IF auditLock = r THEN NoRequest ELSE auditLock
       ELSE UNCHANGED locks
  /\ wrow' = [wrow EXCEPT ![r] = "none"]
  /\ wresv' = [wresv EXCEPT ![r] = "none"]
  /\ Goto(r, "done")

Unlock(r) ==
  /\ policyLock' = IF policyLock = r THEN NoRequest ELSE policyLock
  /\ auditLock' = IF auditLock = r THEN NoRequest ELSE auditLock
  /\ wrow' = [wrow EXCEPT ![r] = "none"]
  /\ wresv' = [wresv EXCEPT ![r] = "none"]
  /\ Goto(r, "done")

\* Mutants: a failed execution keeps its claim; it writes a state of its own.
KeepsClaim(r) == IF wrow[r] = "inserted" THEN "open" ELSE "consumed"
WritesReleased(r) == IF wrow[r] = "claimed" THEN "consumed"
                     ELSE IF wrow[r] = "unclaimed" THEN "released" ELSE "open"

StateWritten(r) == CASE wrow[r] = "claimed" -> "consumed"
                     [] wrow[r] \in {"inserted", "unclaimed"} -> "open"

Commit(r) ==
  /\ pc[r] = "commit"
  /\ conf' = [c \in Confs |->
                IF target[r] = c /\ wrow[r] # "none"
                  THEN [conf[c] EXCEPT !.state = StateWritten(r)]
                  ELSE conf[c]]
  /\ resv' = [c \in Confs |->
                IF target[r] = c /\ wresv[r] # "none" THEN wresv[r] ELSE resv[c]]
  /\ late' = late \cup {c \in Confs : /\ target[r] = c
                                      /\ wresv[r] = "committed"
                                      /\ now >= conf[c].expires}
  /\ Unlock(r)
  /\ UNCHANGED <<env, began, target, seen, result, effects>>

\* Mutant: the page is rendered before the COMMIT too.
AnswerLeavesEarly(r) == IF pc[r] = "commit" THEN result[r] ELSE "rolled_back"

\* An MCP answer leaves before the COMMIT and is not called back; the
\* dashboard's page is rendered after it.
AnswerAfterAbort(r) ==
  IF pc[r] = "commit" /\ r \notin DashApprovers THEN result[r]
  ELSE "rolled_back"

\* A crash, a lost connection, a statement that fails or a deadlock's victim:
\* the writes are undone, what the upstream applied is not.
Abort(r) ==
  /\ pc[r] \notin {"new", "done"}
  /\ conf' = [c \in Confs |->
                IF target[r] = c /\ wrow[r] = "inserted" THEN NoRow ELSE conf[c]]
  /\ result' = [result EXCEPT ![r] = AnswerAfterAbort(r)]
  /\ Unlock(r)
  /\ UNCHANGED <<env, resv, began, target, seen, history>>

-----------------------------------------------------------------------------
(* The environment *)

Tick == /\ now < MaxNow
        /\ now' = now + 1
        /\ UNCHANGED <<connected, rows, locks, pc, began, target, seen, writes,
                       result, history>>

\* The owner connects the Openprovider account on the dashboard.
Connect == /\ ~connected
           /\ connected' = TRUE
           /\ UNCHANGED <<now, rows, locks, pc, began, target, seen, writes,
                          result, history>>

Begin(r) == \/ r \in Proposers /\ BeginProposal(r)
            \/ r \in McpApprovers /\ BeginMcpApproval(r)
            \/ r \in DashApprovers /\ BeginDashApproval(r)

ProposalStep(r) == \/ LockPolicy(r) \/ ReadSpend(r) \/ Propose(r)
                   \/ ProposalFails(r) \/ AuditProposal(r)

ApprovalStep(r) == \/ AuditCall(r) \/ Load(r) \/ Reprice(r) \/ RepriceFails(r)
                   \/ Release(r) \/ Claim(r) \/ Execute(r)
                   \/ SettleCommitted(r) \/ SettleReleased(r)

Step(r) == ProposalStep(r) \/ ApprovalStep(r) \/ Commit(r)

Next == \/ \E r \in Requests : Begin(r) \/ Step(r) \/ Abort(r)
        \/ Tick
        \/ Connect

Spec == Init /\ [][Next]_vars

\* Node runs the continuation of every answered await, Postgres grants a row
\* or advisory lock when its holder's transaction ends, and the HTTP client
\* gives up on an attempt after 30 seconds.
FairSpec == Spec /\ \A r \in Requests : WF_vars(Step(r))

-----------------------------------------------------------------------------
(* Properties *)

\* Every variable keeps its type.
TypeOK ==
  /\ now \in Nat /\ connected \in BOOLEAN
  /\ conf \in [Confs -> [state : ConfStates, tool : Tools, est : Nat,
                         expires : Nat]]
  /\ resv \in [Confs -> ResvStates]
  /\ policyLock \in Requests \cup {NoRequest}
  /\ auditLock \in Requests \cup {NoRequest}
  /\ pc \in [Requests -> Pcs]
  /\ began \in [Requests -> Nat]
  /\ target \in [Requests -> Confs \cup {NoConf}]
  /\ DOMAIN seen = Requests
  /\ wrow \in [Requests -> RowWrites]
  /\ wresv \in [Requests -> ResvStates]
  /\ result \in [Requests -> Results]
  /\ effects \in [Confs -> Nat]
  /\ late \subseteq Confs

\* A claim is exclusive: of the approvers of one confirmation, MCP and
\* dashboard, at most one is between its claim and the end of its transaction,
\* so the tool is never executed twice at the same time
\* (claimConfirmation's conditional UPDATE and its row lock).
SingleExecutor ==
  \A q, r \in Approvers :
    (/\ wrow[q] # "none" /\ wrow[r] # "none"
     /\ target[q] = target[r]) => q = r

\* The ledger and the confirmations agree, whatever was rolled back: a
\* confirmation is marked consumed only if its tool took effect upstream and
\* its reservation no longer counts as a hold, and a reservation is committed
\* only for a consumed confirmation.
LedgerMatchesConsumption ==
  \A c \in Confs :
    /\ conf[c].state = "consumed" => effects[c] > 0 /\ resv[c] \notin {"none", "pending"}
    /\ resv[c] = "committed" => conf[c].state = "consumed"

\* What is settled stays settled: no later approval, failure or roll-back
\* reopens a consumed confirmation, executes its tool again or changes a
\* settled reservation.
SettledIsFinal ==
  [][\A c \in Confs :
       /\ conf[c].state = "consumed" =>
            conf'[c].state = "consumed" /\ effects'[c] = effects[c]
       /\ resv[c] \in {"committed", "released"} => resv'[c] = resv[c]]_vars

\* The tenant's limit bounds what is spent and held, apart from reservations
\* that were committed after their confirmation had expired
\* (the policy row lock around liveSpendCents and the insert).
SpendWithinLimitUnlessLate ==
  Spend(Live(now) \ late) <= Limit

\* repo.ts: settleConfirmation "Marks the confirmation consumed and the
\* reservation committed (success)".
ConsumedIsCounted ==
  \A c \in Confs : conf[c].state = "consumed" => resv[c] = "committed"

\* What the dashboard told its user is what the database holds: "approved and
\* executed" only for a confirmation this request has consumed.
DashboardAnswerIsDurable ==
  \A r \in DashApprovers :
    pc[r] = "done" /\ result[r] = "ok" => conf[target[r]].state = "consumed"

\* Nobody waits for ever: whatever the locks a request meets (policy row,
\* audit lock, confirmation and reservation rows), it ends.
EveryRequestEnds ==
  \A r \in Requests : pc[r] # "new" ~> pc[r] = "done"

-----------------------------------------------------------------------------
(* Implementation of the abstract promise *)

Holds(r, c) == target[r] = c /\ wrow[r] = "claimed"

HeldAt(c, labels) == \E r \in Approvers : Holds(r, c) /\ pc[r] \in labels

StatusOf(c) ==
  IF conf[c].state \in {"absent", "inserting"} THEN "absent"
  ELSE IF conf[c].state = "consumed" THEN "done"
  ELSE IF HeldAt(c, {"exec"}) THEN "executing"
  ELSE IF HeldAt(c, {"settle", "commit"}) THEN "executed"
  ELSE "open"

Promise == INSTANCE SingleUseApproval
             WITH status <- [c \in Confs |-> StatusOf(c)]

\* Requests, transactions, crashes and lost answers implement the promise of
\* a single-use approval.
KeepsPromise == Promise!Spec
=============================================================================
