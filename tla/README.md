# TLA+ verification project of openprovider-mcp

openprovider-mcp is a multi-tenant MCP server in front of the Openprovider
reseller API.  A tool call arrives over HTTP, is run inside one Postgres
transaction scoped to the caller's tenant, and may cost real money: registering
a domain cannot be undone.  What the code must get right is mostly not an
algorithm but the interleaving of transactions, upstream calls, crashes and
clocks around a few rows, and the gates a call passes on its way.  That is what
is modelled here.

## 1. Inventory

| Component | State | Operations | Modelled in |
|---|---|---|---|
| Confirmation flow (`server.ts`, `policies/repo.ts`, `policies/idempotency.ts`, `mcp/confirm-pending.ts`, `dashboard/routes/confirmations.ts`) | rows `confirmations`, `spend_reservations`, row lock of `policies` | propose; approve through the MCP tool `confirm_pending` or the dashboard: validate, re-price, claim, execute, settle or un-claim | ConfirmationFlow, SingleUseApproval |
| Dispatcher and request transaction (`mcp/dispatch.ts`, `server.ts` dispatchFactory, `mcp/transport.ts`) | one pooled connection and transaction per call | BEGIN; resolve mode; deny, propose or run; audit; answer; COMMIT | Gate (branches), ConfirmationFlow (transaction) |
| Policy engine (`policies/engine.ts`, `schema.ts`, `money.ts`) | the tenant's policy document | rule for a tool (exact, then longest wildcard), role gate, TLD gate, spend gate | PolicyEngine |
| Pricing (`policies/pricing/`) | price caches of the pricers built with each request | price of a tool's arguments | PolicyEngine (partly) |
| Tools, catalog, schemas (`tools/`, `mcp/tool-catalog.ts`, `openprovider/types.ts`) | none | 97 tools, one upstream operation each; three tool lists | ToolRegistry |
| Idempotency records (`policies/idempotency.ts`) | rows `idempotency_records` | replay or run `create_contact` | ContactIdempotency |
| HTTP client (`openprovider/client.ts`) | a circuit breaker around `checkDomain` | a request with up to four attempts of 30 s | ContactIdempotency, ConfirmationFlow (partly) |
| Audit chain (`audit/`, migrations 0005, 0010, 0022, `scripts/audit-verify.ts`, `audit-seal.ts`) | rows `audit_events` chained by hash, `audit_archives`, objects in a bucket | append (trigger), verify, seal | AuditChain |
| Token manager and cache (`openprovider/token-manager.ts`, `token-cache-pg.ts`) | encrypted token in `openprovider_accounts` | get a token, log in, store | Upstream |
| Secrets store and data keys (`secrets/`) | `tenant_keys` (wrapped data key), `tenant_secrets` | put, get | Upstream |
| Onboarding (`tenants/onboard-credentials.ts`, `dashboard/routes/openprovider.ts`) | the account row | connect or replace credentials | Upstream |
| Users, invitations, resets (`dashboard/user-admin.ts`, `dashboard/routes/users.ts`, `auth/`, migrations 0012, 0013, 0020) | `users`, `invitations`, `password_resets` | sign up, invite, revoke, accept, change role, remove, reset, change password | Accounts |
| Dashboard sessions (`dashboard/session.ts`, `routes/auth.ts`) | a signed cookie that carries tenant, user and role | log in, requireRole | Accounts (partly) |
| API keys (`auth/api-key.ts`, `dashboard/routes/keys.ts`) | `api_keys` | issue, revoke, resolve | Accounts, Gate (partly) |
| Policy, audit and overview pages | none | save a policy; the rest only reads | Gate (partly) |
| MCP transport (`mcp/transport.ts`, `sdk-transport.ts`) | a map of SDK sessions, a rate limit | initialize, list tools, call | Gate (tools/call only) |
| Redaction, observability, configuration, scripts, frontend | none that matters here | | not modelled |

Components meet in four places.  Every request is one transaction on one
connection of a pool of ten.  The audit trigger's advisory lock, the `policies` row,
the account row and the confirmation row are the locks they take, in different
orders.  A proposal leaves a row that another request, over another path and
perhaps under another policy, executes.  And the upstream is outside all of it.

Hard behaviours, in the order of what they can cost:

* **Two transactions on one row.**  READ COMMITTED: a read sees what has been
  committed, an UPDATE waits for the row and re-evaluates its WHERE.  Conditional
  UPDATEs, unique indexes and a few FOR UPDATEs are the only mutual exclusion.
* **The upstream is outside the transaction.**  A roll-back undoes the claim, not
  the registered domain.  The client repeats a request after a 5xx.
* **Time.**  A hold counts until its confirmation expires; expiry is tested before
  the re-pricing and before the wait for the row, never at the claim or the commit.
  An idempotency record expires and keeps its key.
* **State read before it is used.**  A mode resolved under one policy and a proposal
  decided under the next; a role read before the wait for the owners' rows; a cookie
  whose role is hours old; a data key looked for before it is generated.
* **Answers.**  MCP answers before its COMMIT, the dashboard after it.
* **Two copies of one path.**  MCP and dashboard each have a validation and a tool
  list of their own.
* **Locks held across calls upstream**, with a connection held while waiting.

`PROJECT.json` lists the hazards with their lines and the properties that cover them.

## 2. Plan

1. **ConfirmationFlow** with **SingleUseApproval** (its abstract promise) and proofs.  *Done.*
2. **AuditChain** and proofs.  *Done.*
3. **Accounts**, **ToolRegistry**, **PolicyEngine**, **Gate**, **ContactIdempotency**,
   **Upstream**, each checked.  *Done.*
4. **ContactIdempotencyProofs**, **AccountsProofs** and **UpstreamProofs**.  *Done.*
5. **PolicyEngineProofs** (the two gates as theorems about the pure functions) and
   **GateProofs** (what follows for whole calls).  *Done.*
6. The spending limit and the dashboard's answer in **ConfirmationFlowProofs**.  *Done.*

What is left would need more state: the tenant's months (`repo.ts:55`), a token that
outlives its credentials (`token-manager.ts:60`), the circuit breaker.

How the modules relate: `Gate` EXTENDS `PolicyEngine`, which EXTENDS `ToolRegistry`; the
other components share rows but not definitions, and each takes from its neighbours
what it needs (ConfirmationFlow has the audit lock but not the chain, Upstream
the claim and the settlement but not the amounts).  Each has an MC module of its name for TLC.

## 3. ConfirmationFlow

One tenant.  Each request (a proposal, an MCP approval, a dashboard approval) is a
process with a program counter `pc`; one request is one transaction.  An action is
what a request does between two points where another can run: a statement that
waits or that reads committed rows, or a call upstream, and the code after it.

| Variable | Code |
|---|---|
| `conf[c]` | the row of `confirmations`: absent, inserted and not committed, open (`consumed_at IS NULL`), consumed; tool, estimate, `expires_at` |
| `resv[c]` | `spend_reservations.status`, `"none"` while there is no committed row |
| `wrow[r]`, `wresv[r]` | what the transaction of `r` has written to them; having written a row is holding its lock |
| `policyLock`, `auditLock` | `SELECT ... FOR UPDATE` on `policies`; `pg_advisory_xact_lock` of the audit trigger |
| `began[r]`, `now` | `now()` of a transaction is the time it began (used by `liveSpendCents`); `Date.now()` is the clock (used by the expiry test) |
| `seen[r]` | the live spend a proposal has read |
| `connected` | a row of `openprovider_accounts` |
| `effects[c]` | operations the upstream has applied for `c` |
| `result[r]` | what the caller was told |
| `late` | history: reservations committed after their confirmation had expired |

A proposal: `BeginProposal`, `LockPolicy`, `ReadSpend`, `Propose` (price, spend gate,
both INSERTs) or `ProposalFails`, `AuditProposal`, `Commit`.  An approval:
`BeginMcpApproval` and `AuditCall` (the audit row that opens the call takes the
tenant's audit lock) or `BeginDashApproval` (the route loads the row once more, for
its arguments, and writes no audit row); then `Load`, `Reprice` or `RepriceFails`,
`Release` (price_changed), `Claim`, `Execute`, `SettleCommitted` or `SettleReleased`
(un-claim and release in one transaction), `Commit`.  `Abort` can replace any step
after the first: a crash, a lost connection, a failed statement, a deadlock's victim.
It undoes the writes and leaves `effects`.  `Tick` and `Connect` are the environment.

Modelled by what they do: a price is any amount of `PricesOf[tool]` at each asking;
the drift test is `(estimate * 105 + 50) \div 100`, the code's rounding on integer cents;
a handler applies 0 to `MaxAttempts` operations and answers or not, the retries of
`client.ts`; arguments match the stored hash or not.

Left out: the calendar month of the window (all holds are of one month); denials of
the policy engine other than the cap and changes of the policy while requests run
(Gate has both); the dispatcher's consume branch (the transport never passes a token,
so nothing reaches it); the row lock a login takes on the account row (Upstream has
it: here a deadlock's victim is an `Abort`); other tenants (row-level security separates them).

**SingleUseApproval** says what the flow promises about one confirmation: absent, open,
executing, executed, done; an execution starts only from open, no two overlap, done
is final, and an execution whose end is lost may go back to open with its effects
kept.  `Promise` maps the flow onto it: a confirmation is executing while the
transaction that holds the claim is at its call upstream, executed until that
transaction ends, done when the claim is committed.

### Properties

* `SingleExecutor`, `LedgerMatchesConsumption`, `SettledIsFinal`, `KeepsPromise`,
  `SpendWithinLimitUnlessLate`, `DashboardAnswerIsDurable`, `EveryRequestEnds` hold.
* `ConsumedIsCounted` is what a comment says and the code does not keep (section 10).

### Fairness

`FairSpec` has weak fairness of each request's own steps (`Step`): Node runs the
continuation of an answered await, Postgres grants a lock when its holder's
transaction ends, and a call upstream ends: `client.ts` abandons an attempt after 30 s,
the login (`token-manager.ts:34`) gives its `fetch` no limit, so that Node's own (300 s for
the headers and between parts of the body) ends it.  Nothing is assumed of crashes, of the clock or of the arrival of requests.  Requests are finitely many,
so weak fairness is enough for locks: after the other requests have ended a
waiting one is continuously enabled.

### Runs and bounds

On `MCConfirmationFlow`.  `CHECK_DEADLOCK FALSE` because requests are not reused:
when the last has ended the system stops, as a server without traffic does.

| Run | Instance | Question |
|---|---|---|
| `flow` | 2 confirmations, 2 proposals and an approver on each path, prices 10 and 20, limit 20, clock 0..1, hold of 1 | limit, exclusion, ledger, finality, durable answers, refinement, types |
| `live` | the same requests, 2 tools of which the dashboard knows one, limit 10 | does every request end |
| `uncounted` | 1 proposal and an approver on each path | the finding |

A limit of 20 admits two holds of 10 or one of 20, so that a second proposal can
overshoot it; price drift needs two prices 100 % apart; expiry needs the clock to
pass `TTL` once; two approvers race for one confirmation or work on two.  One attempt
(`MaxAttempts = 1`) already has the three outcomes of a call: applied and answered,
applied and lost, not applied.  The proofs cover every value of these constants.

## 4. AuditChain

The audit log of one tenant.  A request is one transaction that inserts up to
`MaxRows` rows (an allow-mode call writes two, the call and its result); a run of
`audit:seal` is one transaction as well.

| Variable | Code |
|---|---|
| `nextId` | the sequence of `audit_events.id`; never rolled back |
| `lock` | `pg_advisory_xact_lock` in `audit_events_chain` |
| `log`, `mine[w]` | rows of `audit_events`, committed and not: `id`, `at` (`occurred_at`), `seq` (`chain_seq`), `prev` (`prev_hash`) |
| `at[w]`, `drawn[w]` | `now()` of the transaction; the id its INSERT has drawn and not used |
| `archives` | rows of `audit_archives`: `period_end`, the rows archived, `last_id` |
| `objects[day]` | the object under `audit/<tenant>/<day>.ndjson.gz` |
| `before[s]`, `from[s]`, `batch[s]` | the cut-off, the watermark and the rows of a seal |

A hash is named by the id of its row: `row_hash` covers `prev_hash` and the row, ids
are unique and rows are never updated.  `DrawId` and `Chain` are the two halves of
one INSERT: the default `nextval` is evaluated before the BEFORE trigger runs, and
the trigger may then wait for the lock.  `Chain` reads the last row by `chain_seq`
among committed rows and the transaction's own; the lock is kept until `CommitRequest`
or `AbortRequest`.  A seal is `BeginSeal` (the watermark), `ReadRows` (a second
statement, so it may see more), `PutObject`, `RecordArchive`; `AbortSeal` is an
error or a crash at any point and leaves what was uploaded.

External: the bucket refuses to replace an object, since `README.md:223` requires a
locked retention policy.  Assumed: the cut-off of a seal is not in the future
(`BeginSeal`), and for `SealedOnce` that seals do not overlap: `sealTenant` takes no
lock, so two seals with different cut-offs that read one watermark archive the same
rows twice.  Left out: tampering (no grant allows an UPDATE), the content and
compression of an archive, other tenants (they only make gaps in the ids, which
`AbortRequest` makes too), `audit:verify`'s recomputation of a hash nobody changed.
The run `audit` has `SealsOverlap = FALSE`; `ArchivesIntact` is proved for both values.
Approvals on the dashboard write no audit row.

* `ChainIsLinear`, `ChainGrowsAtTheEnd`, `SealedOnce`, `ArchiveMatchesObject` hold.
* `VerifierAccepts` fails: the trigger was moved to `chain_seq` because ids and chain
  order differ (comment of migration 0022), the verifier still walks by id.

| Run (`MCAuditChain`) | Instance | Question |
|---|---|---|
| `audit` | 3 requests of 2 rows, 2 seals in turn, clock 0..2 | one chain that grows at its end, a row archived once, an archive that keeps its object, types |
| `verify` | 2 requests, no seal | the finding |

`MaxNow` bounds the clock and with it the days a seal may name, `MaxRows` the rows of a
request.  Two rows per request let a transaction chain onto its own row, and
abort after one of two; three requests let a third wait while the lock passes
from one to another; two seals on one day meet on one key.
`CHECK_DEADLOCK FALSE`: requests and seals are not reused.  The specification has no
fairness, since nothing here is claimed to happen eventually.

## 5. Accounts

Users of all tenants, invitations, resets, cookies and keys.  A row of `users` is named
by its tenant and email, since `UNIQUE (tenant_id, email)` covers deleted rows; rows are
`user`, `inv`, `reset`, `key`.  `sessions` are the cookies issued: a user and the role it
had then.  A cookie is signed and nothing revokes it, so none leaves the set.
`ownersLock[t]` is the `SELECT ... FOR UPDATE` of the active owners of `t`.

A request of several statements has a `pc` and what it works on (`req`); its steps are
the points where another transaction can run:

| Request | Steps |
|---|---|
| signup | `CheckSignup` (is the email taken), `InsertOwner` (`signup_tenant`, unique index) |
| invite | `CheckInvite` (a connection of its own), `InsertInvite` (unique index on pending rows) |
| accept | `ReadInvite` (the checks of `accept_invitation`), `AcceptInvite` (its UPDATE and INSERT) |
| role, remove | `ReadTarget` (`canManage`), `CountOwners` (waits, `wouldOrphanOwners`), `WriteRole` or `WriteRemoval` |
| reset | `IssueReset`, `ReadReset`, `UseReset` |
| password | `VerifyPassword`, `SetPassword` |

`Login`, `RevokeInvite`, `IssueKey` and `RevokeKey` are one statement each; `InviteExpires` and
`ResetExpires` are the clock; `Abort` is a roll-back.

* `TenantKeepsAnOwner`: owners who demote and remove each other, with cookies that
  still say owner, never leave a tenant without one.
* `EmailNamesOneUser`: signups and acceptances in two tenants never give two active
  users one email.
* `NobodyJoinsUninvited`: a user appears as the owner of a new tenant or by spending a
  pending invitation in the same step, whatever was revoked meanwhile.
* `OwnersAnswerToOwners`: an owner loses the role or the membership only to a request
  sent with a cookie of the same tenant that was issued to an owner: never to an
  admin's or another tenant's, although the target's role is read before the wait for
  the lock.  It does not say that the sender is an owner still: cookies are never
  revoked (phase 6b design, line 76), and the stale cookie of a demoted or removed owner
  works in the model as it does in the code.
* `ResetLinkWorksOnce`: of two openings of a link one sets a password.

Run `members`: two tenants, three emails, three requests, one invitation, one reset, one
key, one cookie from `Login` beside those of signups and acceptances; tenant `t1` starts
with one owner, with three, or with two and an admin (`Provisioned`: the dashboard makes
one owner, further ones are inserted by hand).  Two owners and two requests are what an orphaned tenant takes; the third
request lets a signup race an acceptance beside a removal.  Requests are symmetric.
Not modelled: the hash of a password, expiry of a cookie, CSRF.

## 6. ToolRegistry, PolicyEngine, Gate

`ToolRegistry` is data: a tool is its name (first word and rest, as policies match them)
and the client operation its handler calls; `DispatchTools`, `CatalogTools` and
`DashboardTools` are the three lists of the source; of a schema it keeps the nested
objects and whether one is required.  `PolicyEngine` is the pure functions: `ruleFor`,
`toolMode`, `resolveToolMode`, `tldsOf`, `evaluate`, `price`, and `DEFAULT_POLICY`.  An amount
is 0 or 1 and a limit is 0 or 1: enough or not enough for one billable call.

`Gate` puts them to work.  `Dispatch` takes any tool with any arguments from any principal
and goes through every branch of the dispatcher; `Propose` reads the policy again,
prices and decides; `Run` is the handler of an allow-mode tool; an approval is
`BeginDashApproval` or a `confirm_pending` call, then `Validate` and `Execute`.  `SavePolicy`
can fall between any two.  `rows[r]` are the audit rows of the request, `ran` is what was
sent upstream, with the policy under which it was let in.  Arguments are `[flat, objects]`;
`canonicalArgs` sees of an object only whether it is there, which is what
`JSON.stringify` with a list of keys does.

* `ReadersChangeNothing`, `PolicyIsObeyed`, `ScalarsAreBound`, `ProposedTldsAreAllowed`,
  `CatalogIsCallable`, `AnswersAreAudited` hold.
* `ExecutesWhatWasProposed` and `ZeroCapBlocksBillables` do not (section 10).

Run `calls`, and the two findings, on `MCGate`: every tool of the registry, one caller, one
approver on each path, two values for scalars and two TLDs, three policies (default;
raised with a refused TLD; wildcards beside names, with approvers of their own) and
one change of policy.  Each property is about one call and the approvals of its
proposal, so one caller is enough; both approvers can meet on it.

## 7. ContactIdempotency

`create_contact` is the write that needs no confirmation.  A call is `Begin`, `AuditCall`
(the tool.call row takes the tenant's lock), `LookUp`, `GetToken`, `Post` (attempt by
attempt: answered, 5xx, 429, refused, timed out), `Store`, `Reply`, `Commit`; the dashboard's
approval of a `create_contact` has no audit row and no record.  `start[r]` is `now()` of the
transaction, which the test of expiry and the new `expires_at` use.  `Crash` rolls back
every transaction in flight.  `contacts` are those at Openprovider by the request that
made them; the ones repeated POSTs of one request made are counted as one.

* `DuplicateHasACause`: two committed calls with one key both create a contact only if
  one began after the record had expired.  It rests on the audit lock: no statement of
  `withIdempotency` excludes two look-ups of one key.
* `AnswerNamesItsContact`: what is answered, from upstream or from a record, exists and
  was made with these scalar arguments.
* `IdempotentForTenMinutes` fails (section 10).

Runs: `contact` has two callers and a dashboard approval, two arguments, a window of two
ticks on a clock of 0..3 and one crash, so that a record can be written, used,
expire and be missed; `tenminutes` has three callers with equal arguments.

## 8. Upstream

Who may log in as the tenant, and who waits for whom.  `db` and `own[r]` are the rows
committed and written by `r`: username, data key (`key`), password (`secret`) and cached
token, each with the key it is encrypted under; who consumed the confirmation (`conf`)
and who settled its reservation (`resv`).  `holder` are the locks, `todo[r]` the statements
and calls a request has left.  Each kind has a program, in the order of its code:

| Program | Statements and calls |
|---|---|
| `Connecting` | account row, data key, version of the password, password |
| `Calling` | audit row, token, send, idempotency record |
| `Proposing` | policy row, token for the price, audit row |
| `Approving` | audit row, load, token for the price, drift, claim, token, send, record, settle |
| `OnDashboard` | the same without audit row and record |

A token that is not cached puts the statements of a login in front (`CachedToken`).
`Load` and `Claim` end an approval that finds the confirmation consumed; `Drift` may
release the reservation without a claim (price_changed); `Replay` is an answer of
`withIdempotency` that needs no call; a handler that fails goes on to `release`, which
un-claims and settles (`End`, `Fail`).  `Creators` are the requests that call
`create_contact` and write a record.

`Circle` is a set of requests each waiting for another's lock, and `Abort` is PostgreSQL
rolling one of them back (external).  Circles are real: an allow-mode call holds the
audit lock and waits for the account row, which a proposal that has logged in holds
while it waits for the audit lock.

* `AccountIsReadable`: password and token are under the key the tenant has.  Two first
  connections both find no key; the row of the account, written first, serialises them.
* `VictimNeverRan`: the request a deadlock costs has sent nothing upstream, on any path.
  A request that has sent does still wait: for the record of an equal `create_contact`,
  and for the reservation, which an approver on the other path that found the price
  changed writes without holding the claim.  Neither wait can be part of a circle: a
  record is written under the audit lock only, and whoever has written the reservation
  has only its commit to do.
* `EveryRequestEnds`, also with fewer connections than requests.

Fairness: `WF_vars(Step(r))` for each request (the event loop and the database run, a call
upstream ends by the limits of section 3, a free lock or connection is granted to one
that waits) and weak fairness of some `Abort` (`deadlock_timeout`).  Requests are finitely
many, so no one is overtaken for ever.

Run `upstream` (`MCUpstream`): a pool of three, a token that expires once, and one of two
`Meetings`, the sets of requests that come: one request of each of the five kinds, or two
owners with a call, a proposal and an approval over MCP.  The call and the MCP approval
are of `create_contact`, so that their records and look-ups meet.  The first meeting has
every lock order there is, and two approvers at one reservation; in the second the key
is at stake, which takes two owners who connect the account.  All six at once are too
many states for the liveness property; the invariants are proved for any number of each,
whoever comes.

## 9. What is proved

`ConfirmationFlowProofs` proves, for any number of confirmations, requests, tools and
prices and for any limit, `TypeCorrect`, `ClaimIsExclusive`, `LedgerIsSound`,
`SettlementIsFinal`, `SpendingIsBounded` and `DashboardTellsTheTruth`; `ConfirmationFlowRefinement` proves `Implements`: every behaviour of
`Spec` is one of `SingleUseApproval` under the mapping.  The assumptions are those
of the module: kinds of requests are disjoint, prices are naturals, approver roles
are roles, the dashboard admits owners and admins.

None of the invariants is inductive: that a consumed confirmation has been executed
depends on which program counters can hold a claim.  `IInv` adds

* `Paths`: what a request can have written at each `pc`;
* `Writes`: what a transaction has written is on its own target, by its own kind;
* `WrittenRows`: a row with an uncommitted write is still in the state the write found;
* `Exclusive`: two requests never have both written the same confirmation row, nor
  the same reservation row;
* `Executed`: a request past `exec` with an answer has applied an operation;
* `Ledger`: `LedgerMatchesConsumption` with what is written and not yet committed.

Each is preserved by each action (one step per action in the proof); TLC checked
`IInv` on small instances before it was proved.  The refinement
maps `Claim` to the start of an execution, `Execute` to its success or failure,
`Commit` to consumption and `Abort` to undoing; every other step stutters.

`SpendingIsBounded` proves `SpendWithinLimitUnlessLate` from `SpendInv`, which adds to `IInv`

* `LockHeld`: a proposal holds the policy's row lock from its count to the end of the
  transaction that inserts, so no two are there at once;
* `Budget`: what counts (live and not `late`) is within the limit, is at most what a
  proposal has `seen` until it decides, and leaves room for an insert that is not yet
  committed;
* `Clock` (a transaction began in the past, so what it counts as live includes all that
  is live later) and `IsFiniteSet(Booked)`, so that the sum is one of finitely many rows.

The argument: only the commit of an insert makes a row begin to count
(`CommitShrinks`, `CommitInserts`); everything else lets holds expire, be released, or
turn from held to spent, unless it was late.  `Spend` is a fold over a set, so the proof
needs induction over data.  The library's induction theorems take an operator, which no
installed prover can instantiate; `SubsetInduction` is the same principle with the
property given as a *set* of subsets, from the well-foundedness of strict inclusion
(`WFMin`).  From it follow that the recursive function of `MapThenFoldSet` exists
(`FoldExists`), that its choice of elements does not matter (`SumOfElement`), and that
fewer rows do not sum to more (`SumShrinks`).

`DashboardTellsTheTruth` proves `DashboardAnswerIsDurable` by `Told`: a dashboard request
whose answer is success holds its claim until the commit, and the row it consumed
stays consumed (`StepIsFinal`).  TLC checked `SpendInv` and `Told` on the instance of `flow`.

`AuditChainProofs` proves, for any number of requests, seals and rows, `AuditTypes`,
`ChainLinear`, `ChainGrows`, `ArchivesIntact` (whether seals overlap or not) and, under
`~SealsOverlap`, `SealsDisjoint`.  Its `IInv` adds to the types

* `Locked`: only the holder of the lock has uncommitted rows, and they follow all
  committed ones; without it a commit could fork the chain;
* `Drawn`: an id is drawn once and lies below the sequence;
* `Chained`: the committed rows with those of any one transaction are a chain;
* `Sealed`: a batch lies above its watermark, an upload is under its key;
* `Sequential`: a seal that runs alone started at or above every archive's `last_id`.

`TriggerExtendsChain` is the lemma about the trigger; `MaxIsGreatest` says that `Max` of a
bounded set of naturals is its greatest element, from the well-foundedness of `<`.
The cut-off of a seal, the ids and the clock are arbitrary naturals.  All the
safety properties of `AuditChain` that hold are proved.

**ContactIdempotencyProofs**: `TypeOK`, `DuplicateHasACause`, `AnswerNamesItsContact`, for
any set of calls and any bound on time, contacts and crashes.  `DuplicateHasACause` speaks
of committed calls only and is not inductive alone; `IInv` adds why it stays true.
`LockIsHeld`: a caller past its audit row holds the tenant's lock, so no two are between
look-up and commit.  `OnlyCallersStore`: no dashboard approval writes a record.
`KeptIsRecorded`: a committed creation has a record of its key, which is never replaced
(`ON CONFLICT DO NOTHING`).  `CreatorsFoundNone`: a caller that creates found no live
record when it began, and while it holds the lock nobody else can write one.  So when it
commits, either no creation of its key was kept before, or it began after the expiry.
`ResultsExist` (results and records name contacts of their own key) carries
`AnswerNamesItsContact` through roll-backs and repeated POSTs.

**AccountsProofs**: all the properties of Accounts, for any tenants, emails, links, keys,
cookies, requests and initial members (`ProvisionedAssumption`: an active email is
one user's and a tenant with members has an owner; `IdsAssumption`: ids of different
tables differ).  TLC checked `IInv` on the instance of `members` first.  It adds

* `OwnersAreLocked`: who is about to write holds the tenant's lock, and a second owner
  stands behind an owner it works on; who works on an owner has a cookie that was
  issued to an owner of that tenant; whoever was seen as no owner has not become one
  since, because no role change makes an owner;
* `SignupsAreFresh`: a tenant that is being signed up is nobody else's, so its first
  member is its owner;
* `Referenced` and `Tasks`: cookies, links and requests name users of tenants that exist,
  and an invitation that was read keeps its user and role;
* `LinksAreSpent`: who has answered that it used a link has marked it.

The proof does not go action by action for each part: `MembersStep`, `LinksStep` and
`RequestsStep` say what any step can do to users, to links and to the requests, and
each part follows from these.  `AnotherOwner` is the lemma about the count: two owners
counted are an owner besides any one.

**PolicyEngineProofs**: `GatesAgree` (whatever policy, tool, arguments, caller and money:
`resolveToolMode` denies exactly what `evaluate` refuses for its mode or role, and a call
that `evaluate` lets pass is in the mode that was resolved), `ReadToolsChangeNothing` (no
tool that `isReadTool` allows by its name sends a write, tool by tool over the registry),
`CatalogIsKnown` and `DefaultDeniesOwnersNothing`.

**GateProofs**: all the properties of Gate that hold, for any set of policies, callers,
approvers, TLDs and values.  `PoliciesAssumption` says of a policy document what the
schema it is parsed with says (`schema.ts:3`: modes are allow and confirm, approvers are
roles).  `RequestOK` ties each request to its `pc`: `CallOK` (who runs was let through,
under the policy remembered with the call; who is past `Validate` has the proposal's
scalars and a role it names), `RefusalOK` (why a call was refused), `RowsOK` (which audit
rows there are at each point and with each answer).  `Proposals` and `Effects` carry
that to what lies in `conf` and `ran`.  A change of policy between two steps disturbs
none of it, because each part names the policy it was decided under.  One lemma says
that a step is its own request's alone (`Bystander`), then there is one per action.

**UpstreamProofs**: types, `AccountIsReadable` and `VictimNeverRan`, for any owners, callers,
proposers, approvers and pool.  The kinds are disjoint and the owners finitely many
(`RequestsAssumption`).  Its `IInv` says of each request

* `ToDo`: what is left is the rest of its program, with a login or the generation of
  the key in front, or the settlement alone;
* `SentOK`: who has sent its operation has at most the record and the settlement left;
* `LocksOK`: a call over MCP holds the audit lock from its first step to its end, a record
  is written under that lock only, and who holds the reservation has only to commit;
* `OwnerOK`: only the owner that holds the account's row writes key and password; it
  writes a key where there is none and the password under the key it sees;
* `LoginOK`: a token that is written is under the key of the tenant: who has read a
  password has seen a key, and the key is never replaced;
* the version of the password is at most the number of owners whose transaction has
  ended, and one more for the owner that holds the row.

`NoneHasSent` is the argument for `VictimNeverRan`: who has sent waits for the record or
for the reservation.  The holder of a record would hold the audit lock, which the one
that waits holds itself; the holder of the reservation waits for nobody.  So no one who
has sent is in a circle, and only a member of a circle is rolled back.

Proved are now all the invariants and action properties the passing runs check.  Liveness
(`EveryRequestEnds` of ConfirmationFlow and Upstream) is model-checked only: the provers
have no rule for fairness.

## 10. Findings

| Run | What the code does | Where it says otherwise |
|---|---|---|
| `uncounted` | a confirmation whose reservation was released (price change, failed attempt) stays approvable; the later approval commits no reservation | `repo.ts:157` |
| `verify` | the verifier walks by id, the trigger chains by `chain_seq` | phase 7 design, line 198 |
| `contentbound` | the hash of the arguments does not see what is inside nested objects, and the approver's arguments are executed | enterprise design, line 427 |
| `zerocap` | a billable tool whose price upstream's answer does not name is priced 0 (`domain-check.ts:34`) and passes a limit of 0, and so does one without a domain in its arguments (`domain-check.ts:52`) | `README.md:67` |
| `tenminutes` | an expired idempotency record is never replaced, so its key is not idempotent again | `README.md:50` |

Also part of the models, without a run of their own:

* *Confirmation flow.*  A hold that expires while its approval is under way is free for
  other proposals and is committed afterwards, above the limit (`late` in
  `SpendWithinLimitUnlessLate`; phase 4 design, line 161).  An operation whose answer or
  COMMIT was lost can be approved and executed again (phase 5 design, line 163).  The
  claim does not test `expires_at` (`README.md:74`).  An account connected between
  pricing and execution makes a billable call with nothing reserved (`CHANGELOG.md:51`).
* *Audit.*  A row whose id was drawn before a sealed one, and committed after the seal has
  read, lies below the watermark for ever (`README.md:261`).  Two seals that overlap
  archive rows twice (`SealedOnce` with `SealsOverlap = TRUE`).
* *Gate.*  An approval does not evaluate the policy again: approvers and TLDs are those of
  the proposal.  An allow-mode tool passes neither TLD nor spend gate.  An unknown tool and
  a price that cannot be had leave no audit row (enterprise design, line 592).  The
  dashboard's list has 11 tools, so a proposal of `renew_domain` ends there with
  `tool_not_found`; over MCP only the dev token is a user and can approve.
* *create_contact.*  Name, phone and address are not part of the key, so a contact that
  differs in them only is answered with the other one.  The dashboard's approval is neither
  audited nor idempotent.
* *Accounts.*  A removed user cannot be invited again into the same tenant: the unique
  constraint still holds the email.  A key issued with the cookie of a removed user
  survives the removal (`README.md:179`).  A reset link sets a removed user's password too.
* *Upstream.*  New credentials leave the cached token in place, and a login under way may
  store the old account's token after them; nothing calls `invalidate`.  Username and
  password are two reads, so a login can carry the old one of one and the new of the
  other; it is refused and the request fails.

## 11. Not modelled

Observability, configuration, frontend and local-run scripts: no state the rest
depends on.  Redaction: it changes what is logged, not what is decided.  Row-level
security: declarative, and each model is of one tenant (Accounts of two).  The calendar
month of the spend window: all holds of an instance are of one month.  The arithmetic of
currencies and periods, and the price caches, which live as long as the request that
built them.  SDK sessions and the rate limit.  The circuit breaker: it wraps
`checkDomain` only, counts for all tenants of a process and is a library (opossum)
whose rolling statistics decide when it opens; to its callers an open breaker is a
call that failed.

## 12. Running it

    tlc -config ConfirmationFlow_flow.cfg MCConfirmationFlow
    tlc -config AuditChain_audit.cfg MCAuditChain
    tlc -config Accounts_members.cfg MCAccounts
    tlc -config Gate_calls.cfg MCGate
    tlc -config ContactIdempotency_contact.cfg MCContactIdempotency
    tlc -config Upstream_upstream.cfg MCUpstream
    tlapm ConfirmationFlowProofs.tla
    tlapm ConfirmationFlowRefinement.tla
    tlapm AuditChainProofs.tla
    tlapm ContactIdempotencyProofs.tla
    tlapm AccountsProofs.tla
    tlapm PolicyEngineProofs.tla
    tlapm GateProofs.tla
    tlapm UpstreamProofs.tla

Definitions marked "Mutant" in a module are plausible mistakes; replacing the
definition below one by it makes the property named in `PROJECT.json` fail.
