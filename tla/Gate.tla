-------------------------------- MODULE Gate --------------------------------
(***************************************************************************)
(* Who may run which tool with which arguments: the dispatcher of          *)
(* tools/call, the policy engine behind it, and the two ways to approve a  *)
(* proposal, over the tools and policies of PolicyEngine.                  *)
(*                                                                         *)
(* ConfirmationFlow takes the same proposals and approvals apart statement *)
(* by statement for their locks, their money and their roll-backs.  Here a *)
(* step is what a request does from one read of shared rows to the next:   *)
(* the policy as the mode is resolved, the policy and the spend as a       *)
(* proposal is decided, the confirmation as it is validated and as it is   *)
(* claimed.  The commit of a request is taken with its answer.             *)
(***************************************************************************)
EXTENDS PolicyEngine, Sequences

CONSTANTS
  Callers,        \* MCP requests that call any tool but confirm_pending
  McpApprovers,   \* MCP requests that call confirm_pending
  DashApprovers,  \* POSTs of /dashboard/confirmations/:id/approve
  NoConf,         \* the confirmation of a call that is not about one
  Flats,          \* what the scalar arguments of a call may hold
  TLDs,           \* what its nested objects may hold
  Policies,       \* names of the policies an owner may save
  Default,        \* the name of DEFAULT_POLICY
  Doc(_),         \* the policy of a name
  MaxSaves        \* bound on the policies saved

McpRequests == Callers \cup McpApprovers
Approvers == McpApprovers \cup DashApprovers
Requests == McpRequests \cup DashApprovers
Confs == Callers  \* a call proposes at most once

ASSUME RequestsAssumption ==
  /\ Callers \cap Approvers = {} /\ McpApprovers \cap DashApprovers = {}
  /\ NoConf \notin Requests
ASSUME PoliciesAssumption ==
  /\ Default \in Policies /\ Doc(Default) = DEFAULT_POLICY
  /\ \A p \in Policies :
       /\ Doc(p).limit \in {0, 1}
       /\ Doc(p).allowed \subseteq TLDs /\ Doc(p).denied \subseteq TLDs
       /\ \A key \in DOMAIN Doc(p).rules :
            /\ Doc(p).rules[key].mode \in Modes
            /\ Doc(p).rules[key].approvers \subseteq Roles
  /\ NoObjects \notin TLDs
  /\ MaxSaves \in Nat

VARIABLES
  policy,     \* the tenant's policy row, by name
  saves,      \* policies saved so far
  connected,  \* the tenant has an Openprovider account (it connects once, and
              \* ConfirmationFlow has the approvals that span it)
  conf,       \* the rows of confirmations
  call,       \* what each request asks, as whom; history: under which policy
  pc,         \* what each request does next
  result,     \* its answer
  rows,       \* the audit rows of its transaction
  ran         \* history: the operations sent upstream

vars == <<policy, saves, connected, conf, call, pc, result, rows, ran>>
tenant == <<policy, saves, connected>>

-----------------------------------------------------------------------------
(* Principals *)

User(role) == [kind |-> "user", role |-> role, write |-> FALSE]
Service(write) == [kind |-> "service", role |-> "", write |-> write]

\* An API key is a service; the dev bearer token is an owner.
devPrincipal == User("owner")
McpPrincipals == {Service(TRUE), Service(FALSE), devPrincipal}
DashPrincipals == {User("owner"), User("admin")}  \* requireRole

callerRole(p) == IF p.kind = "user" THEN p.role
                 ELSE IF p.write THEN "operator" ELSE "viewer"
approverRole(p) == IF p.kind = "user" THEN p.role ELSE ""

-----------------------------------------------------------------------------
(* Calls and confirmations *)

META_TOOLS == {createConfirmPendingTool, createListPendingConfirmationsTool}
UnknownTool == Tool("no_such", "tool", NoOp)

ObjectsOf(t) ==
  IF SchemaOf(t).fields = {} THEN {NoObjects}
  ELSE IF SchemaOf(t).required THEN TLDs ELSE TLDs \cup {NoObjects}
ArgsOf(t) == [flat : Flats, objects : ObjectsOf(t)]

\* Mutant: the hash leaves the arguments out.
NothingHashed(args) == <<>>

\* The sorted list of top-level keys given to JSON.stringify filters the keys
\* of nested objects too: of an object the hash sees that it is there.
canonicalArgs(args) == <<args.flat, args.objects # NoObjects>>

Call(t, args, p, c) == [tool |-> t, args |-> args, principal |-> p, conf |-> c,
                        policy |-> policy]
NoCall == "none"

Confirmation(t, args, estimate) ==
  [state |-> "open", tool |-> t, args |-> args, estimate |-> estimate,
   approvers |-> requiredApproverRoles(Doc(policy), t), policy |-> policy]
NoRow == [state |-> "absent"]
Proposed == {c \in Confs : conf[c] # NoRow}

Init ==
  /\ policy = Default /\ saves = 0
  /\ connected \in BOOLEAN
  /\ conf = [c \in Confs |-> NoRow]
  /\ call = [r \in Requests |-> NoCall]
  /\ pc = [r \in Requests |-> "new"]
  /\ result = [r \in Requests |-> "none"]
  /\ rows = [r \in Requests |-> <<>>]
  /\ ran = {}

Goto(r, label) == pc' = [pc EXCEPT ![r] = label]
Audit(r, event) == rows' = [rows EXCEPT ![r] = Append(@, event)]
Answer(r, code) == Goto(r, "done") /\ result' = [result EXCEPT ![r] = code]

\* Mutants: a refusal is answered without an audit row; with a new event type.
RefuseSilently(r, code) == Answer(r, code) /\ UNCHANGED rows
RefuseAsDenied(r, code) == Answer(r, code) /\ Audit(r, "tool.denied")

\* An answer whose audit row says that the call failed.
Refuse(r, code) == Answer(r, code) /\ Audit(r, "tool.error")

\* The handler's operation, sent or not: without an account it never is.
Sent(r, t, args, c, p) ==
  ran' = ran \cup {[request |-> r, tool |-> t, args |-> args, conf |-> c,
                    policy |-> p]}
Send(r, t, args, c, p, ok) ==
  \/ connected /\ t.op # NoOp /\ Sent(r, t, args, c, p)
  \/ (ok => t.op = NoOp) /\ UNCHANGED ran

-----------------------------------------------------------------------------
(* tools/call *)

resolveMode(t, p) == IF t \in META_TOOLS THEN "allow"
                     ELSE resolveToolMode(Doc(policy), t, callerRole(p))

\* The calls a request may make.  An id is only known from its proposal;
\* confirm_pending takes any arguments with it.
CallsOf(r) ==
  IF r \in Callers
    THEN UNION {{Call(t, a, p, NoConf) : a \in ArgsOf(t), p \in McpPrincipals} :
                  t \in (CatalogTools \cup {UnknownTool})
                          \ {createConfirmPendingTool}}
    ELSE UNION {{Call(createConfirmPendingTool, a, p, c) :
                   a \in ArgsOf(conf[c].tool), p \in McpPrincipals} :
                  c \in Proposed}

\* No tool of this name: the one answer that leaves no audit row behind it.
DispatchUnknown(r, k) ==
  /\ k.tool \notin DispatchTools
  /\ Answer(r, "tool_not_found")
  /\ UNCHANGED <<tenant, conf, rows, ran>>

\* The arguments do not parse.
DispatchInvalid(r, k) ==
  /\ k.tool \in DispatchTools
  /\ Refuse(r, "validation_failed")
  /\ UNCHANGED <<tenant, conf, ran>>

DispatchDenied(r, k) ==
  /\ k.tool \in DispatchTools
  /\ resolveMode(k.tool, k.principal) = "deny"
  /\ Refuse(r, "policy_denied")
  /\ UNCHANGED <<tenant, conf, ran>>

DispatchProposal(r, k) ==
  /\ k.tool \in DispatchTools
  /\ resolveMode(k.tool, k.principal) = "confirm"
  /\ Goto(r, "propose")
  /\ UNCHANGED <<tenant, conf, result, rows, ran>>

DispatchAllowed(r, k) ==
  /\ k.tool \in DispatchTools
  /\ resolveMode(k.tool, k.principal) = "allow"
  /\ Audit(r, "tool.call")
  /\ Goto(r, IF k.tool = createConfirmPendingTool THEN "validate" ELSE "run")
  /\ UNCHANGED <<tenant, conf, result, ran>>

Dispatch(r) ==
  /\ pc[r] = "new"
  /\ \E k \in CallsOf(r) :
       /\ call' = [call EXCEPT ![r] = k]
       /\ \/ DispatchUnknown(r, k) \/ DispatchInvalid(r, k)
          \/ DispatchDenied(r, k) \/ DispatchProposal(r, k)
          \/ DispatchAllowed(r, k)

\* An allow-mode tool: neither the TLDs nor the spend are looked at.  A repeated
\* create_contact may be answered from its record (ContactIdempotency).
Run(r) ==
  /\ pc[r] = "run"
  /\ \E ok \in BOOLEAN :
       /\ \/ Send(r, call[r].tool, call[r].args, NoConf, call[r].policy, ok)
          \/ ok /\ call[r].tool = createCreateContactTool /\ UNCHANGED ran
       /\ Answer(r, IF ok THEN "ok" ELSE "upstream_error")
       /\ Audit(r, IF ok THEN "tool.result" ELSE "tool.error")
  /\ UNCHANGED <<tenant, conf, call>>

\* The policy is read again, under its row lock.  What is already spent is 0
\* or the whole limit; the rest of it is ConfirmationFlow.  A token is asked for
\* whatever the tool costs, and its login may fail.
Propose(r) ==
  /\ pc[r] = "propose"
  /\ \E live \in {0, Doc(policy).limit},
        estimate \in (IF connected THEN {Fails} \cup price(call[r].tool, call[r].args)
                                   ELSE {0}) :
       LET decision == evaluate(Doc(policy), call[r].tool, call[r].args,
                                callerRole(call[r].principal), live, estimate)
       IN IF estimate = Fails
            THEN Answer(r, "upstream_error") /\ UNCHANGED <<conf, rows>>
          ELSE IF decision = "confirm"
            THEN /\ conf' = [conf EXCEPT ![r] =
                               Confirmation(call[r].tool, call[r].args, estimate)]
                 /\ Answer(r, "proposed")
                 /\ Audit(r, "tool.call")
          ELSE /\ Refuse(r, IF decision = "allow" THEN "not_confirm_mode"
                            ELSE decision)
               /\ UNCHANGED conf
  /\ UNCHANGED <<tenant, call, ran>>

-----------------------------------------------------------------------------
(* Approvals *)

\* The dashboard takes the arguments of the row, which it has loaded and
\* found open; it writes no audit row.
BeginDashApproval(r) ==
  /\ pc[r] = "new"
  /\ \E c \in Proposed, p \in DashPrincipals :
       IF conf[c].state = "open"
         THEN /\ call' = [call EXCEPT ![r] =
                            Call(createConfirmPendingTool, conf[c].args, p, c)]
              /\ Goto(r, "validate")
              /\ UNCHANGED result
         ELSE Answer(r, "confirmation_not_found") /\ UNCHANGED call
  /\ UNCHANGED <<tenant, conf, rows, ran>>

RefuseApproval(r, code) ==
  IF r \in DashApprovers THEN Answer(r, code) /\ UNCHANGED rows
  ELSE Refuse(r, code)

Refusal(r) ==
  LET row == conf[call[r].conf] IN
  IF row.state = "consumed" THEN "confirmation_not_found"
  ELSE IF row.state = "expired" THEN "confirmation_expired"
  ELSE IF canonicalArgs(call[r].args) # canonicalArgs(row.args)
    THEN "validation_failed"
  ELSE IF approverRole(call[r].principal) \notin row.approvers
    THEN "approver_role_required"
  ELSE "none"

\* The fresh price, of the stored tool with the approver's arguments.  Without
\* an account MCP takes 0; the dashboard asks, with no token, and fails.
FreshPrices(r) ==
  LET prices == price(conf[call[r].conf].tool, call[r].args) IN
  IF connected THEN {Fails} \cup prices
  ELSE IF r \in McpApprovers \/ prices = {0} THEN {0} ELSE {Fails}

\* The tools an approval can execute.
ToolsFor(r) == IF r \in DashApprovers THEN DashboardTools ELSE DispatchTools

Validate(r) ==
  /\ pc[r] = "validate"
  /\ IF Refusal(r) # "none" THEN RefuseApproval(r, Refusal(r))
     ELSE \E fresh \in FreshPrices(r) :
            IF fresh = Fails THEN RefuseApproval(r, "upstream_error")
            ELSE IF fresh > conf[call[r].conf].estimate
              THEN RefuseApproval(r, "price_changed")
            ELSE IF conf[call[r].conf].tool \notin ToolsFor(r)
              THEN RefuseApproval(r, "tool_not_found")
            ELSE Goto(r, "claim") /\ UNCHANGED <<result, rows>>
  /\ UNCHANGED <<tenant, conf, call, ran>>

\* The claim, the execution of the stored tool with the approver's arguments,
\* and the settlement.  The claim asks for an unconsumed row, whatever its age.
Execute(r) ==
  /\ pc[r] = "claim"
  /\ LET c == call[r].conf IN
     IF conf[c].state = "consumed"
       THEN /\ RefuseApproval(r, "confirmation_not_found")
            /\ UNCHANGED <<conf, ran>>
       ELSE \E ok \in BOOLEAN :
            /\ Send(r, conf[c].tool, call[r].args, c, conf[c].policy, ok)
            /\ conf' = [conf EXCEPT ![c].state = IF ok THEN "consumed" ELSE @]
            /\ IF ok THEN /\ Answer(r, "ok")
                          /\ IF r \in DashApprovers THEN UNCHANGED rows
                             ELSE Audit(r, "tool.result")
               ELSE RefuseApproval(r, "upstream_error")
  /\ UNCHANGED <<tenant, call>>

-----------------------------------------------------------------------------
(* The rest of the world *)

\* The transaction is rolled back, and its audit rows with it.
Abort(r) ==
  /\ pc[r] \notin {"new", "done"}
  /\ Answer(r, "rolled_back")
  /\ rows' = [rows EXCEPT ![r] = <<>>]
  /\ UNCHANGED <<tenant, conf, call, ran>>

\* POST /dashboard/policy, or policy:set
SavePolicy ==
  /\ saves < MaxSaves
  /\ saves' = saves + 1
  /\ policy' \in Policies
  /\ UNCHANGED <<connected, conf, call, pc, result, rows, ran>>

Expire(c) ==
  /\ conf[c].state = "open"
  /\ conf' = [conf EXCEPT ![c].state = "expired"]
  /\ UNCHANGED <<tenant, call, pc, result, rows, ran>>

Next ==
  \/ \E r \in McpRequests : Dispatch(r)
  \/ \E r \in Callers : Run(r) \/ Propose(r)
  \/ \E r \in DashApprovers : BeginDashApproval(r)
  \/ \E r \in Approvers : Validate(r) \/ Execute(r)
  \/ \E r \in Requests : Abort(r)
  \/ \E c \in Confs : Expire(c)
  \/ SavePolicy

Spec == Init /\ [][Next]_vars

-----------------------------------------------------------------------------
(* Properties *)

Pcs == {"new", "run", "propose", "validate", "claim", "done"}
AuditEvents == {"tool.call", "tool.result", "tool.error"}

\* Every variable keeps its type.
TypeOK ==
  /\ policy \in Policies /\ saves \in 0 .. MaxSaves /\ connected \in BOOLEAN
  /\ \A c \in Proposed :
       /\ conf[c].state \in {"open", "consumed", "expired"}
       /\ conf[c].tool \in DispatchTools /\ conf[c].estimate \in {0, 1}
       /\ conf[c].approvers \subseteq Roles
  /\ \A r \in Requests : pc[r] \notin {"new", "done"} =>
       /\ call[r].tool \in DispatchTools
       /\ call[r].principal \in McpPrincipals \cup DashPrincipals
  /\ pc \in [Requests -> Pcs]
  /\ \A r \in Requests : \A i \in DOMAIN rows[r] : rows[r][i] \in AuditEvents
  /\ \A e \in ran : e.request \in Requests /\ e.tool \in DispatchTools

PrincipalOf(e) == call[e.request].principal

\* Whoever may only read changes nothing upstream, neither by calling a tool
\* that the policy allows to everyone nor by approving somebody's proposal
\* (resolveToolMode, "the single gate the allow-mode dispatch path and the
\* confirm-mode propose path must agree on").
ReadersChangeNothing ==
  \A e \in ran : Writes(e.tool) => callerRole(PrincipalOf(e)) \notin Readers

\* A tool that the policy in force at its call names as a confirm-mode tool,
\* whatever wildcards stand next to that name, runs only as an approved
\* proposal, and its approver is a user, of a role that policy names, never an
\* API key (ruleFor, requiredApproverRoles, validateConfirmation).
PolicyIsObeyed ==
  \A e \in ran :
    LET rules == Doc(e.policy).rules
        name == Name(e.tool)
    IN name \in DOMAIN rules /\ rules[name].mode = "confirm" =>
         /\ e.conf # NoConf
         /\ PrincipalOf(e).kind = "user"
         /\ PrincipalOf(e).role \in rules[name].approvers

\* Between proposal and execution no scalar argument changes, whoever approves
\* and on whichever path (canonicalArgsHash).
ScalarsAreBound ==
  \A e \in ran : e.conf # NoConf =>
    /\ e.tool = conf[e.conf].tool
    /\ e.args.flat = conf[e.conf].args.flat

\* A new registration is never proposed for a TLD that the policy read with
\* the proposal refuses, though the mode may have been resolved under another.
ProposedTldsAreAllowed ==
  \A c \in Proposed : conf[c].tool = createRegisterDomainTool =>
    ~TldRefused(Doc(conf[c].policy), conf[c].args.objects)

\* What the catalog announces can be called: no tool of tools/list is unknown
\* to the dispatcher, and under the default policy an owner is denied none.
CatalogIsCallable ==
  \A r \in Callers : pc[r] = "done" /\ call[r].tool \in CatalogTools =>
    /\ result[r] # "tool_not_found"
    /\ call[r].policy = Default /\ call[r].principal = devPrincipal =>
         result[r] # "policy_denied"

\* The audit rows of an answered call tell its outcome, and an operation that
\* reached the upstream was announced by a row before it, unless the
\* transaction was rolled back.  A name nobody knows and a price that cannot be
\* had leave no row.
AnswersAreAudited ==
  \A r \in McpRequests :
    pc[r] = "done" /\ result[r] \notin {"tool_not_found", "rolled_back"} =>
      /\ rows[r] = <<>> => result[r] = "upstream_error"
      /\ rows[r] # <<>> =>
           rows[r][Len(rows[r])] = CASE result[r] = "ok" -> "tool.result"
                             [] result[r] = "proposed" -> "tool.call"
                             [] OTHER -> "tool.error"
      /\ (\E e \in ran : e.request = r) => rows[r] # <<>> /\ rows[r][1] = "tool.call"

\* design.md, content-bound confirmations: "the LLM cannot smuggle different
\* args between proposal and execution".
ExecutesWhatWasProposed ==
  \A e \in ran : e.conf # NoConf => e.args = conf[e.conf].args

\* README, spend controls: a "spend cap of 0 ... means all billable write tools
\* (e.g. register_domain, update_domain) are blocked until the cap is raised".
ZeroCapBlocksBillables ==
  \A e \in ran : e.tool \in Billable => Doc(e.policy).limit > 0
=============================================================================
