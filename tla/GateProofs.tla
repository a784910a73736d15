------------------------------ MODULE GateProofs ------------------------------
(***************************************************************************)
(* Proofs about the gates of a call, for any number of requests, any       *)
(* policies a tenant may save and any arguments: who runs what, and what   *)
(* an approval may still change.                                           *)
(***************************************************************************)
EXTENDS Gate, PolicyEngineProofs, SequenceTheorems

-----------------------------------------------------------------------------
(* Rows, calls and answers, by name *)

Args == [flat : Flats, objects : TLDs \cup {NoObjects}]
Principals == McpPrincipals \cup DashPrincipals
ConfRow == [state : {"open", "consumed", "expired"}, tool : DispatchTools, args : Args,
            estimate : {0, 1}, approvers : SUBSET Roles, policy : Policies]
CallRow == [tool : DispatchTools \cup {UnknownTool}, args : Args, principal : Principals,
            conf : Confs \cup {NoConf}, policy : Policies]
Effect == [request : Requests, tool : DispatchTools, args : Args,
           conf : Confs \cup {NoConf}, policy : Policies]
Answers == {"none", "ok", "proposed", "tool_not_found", "validation_failed",
            "policy_denied", "upstream_error", "not_confirm_mode", "tool_not_permitted",
            "insufficient_role", "tld_refused", "spend_cap_exceeded",
            "confirmation_not_found", "confirmation_expired", "approver_role_required",
            "price_changed", "rolled_back"}

-----------------------------------------------------------------------------
(* The invariant *)

RowTypes ==
  /\ policy \in Policies /\ saves \in 0 .. MaxSaves /\ connected \in BOOLEAN
  /\ conf \in [Confs -> ConfRow \cup {NoRow}]
  /\ ran \subseteq Effect

ControlTypes ==
  /\ call = [r \in Requests |-> call[r]]
  /\ pc \in [Requests -> Pcs]
  /\ result \in [Requests -> Answers]
  /\ rows \in [Requests -> Seq(AuditEvents)]

\* Who has sent an operation upstream.
Senders == {e.request : e \in ran}

\* The policy lets a call through without an approval.
LetsThrough(p, t, principal) == resolveToolMode(Doc(p), t, callerRole(principal)) = "allow"

\* Only a call runs or proposes, and it has not proposed before; only an approver
\* validates and claims.  Who has been validated passed the checks that the row
\* cannot change under.
CallOK(r) ==
  /\ pc[r] \notin {"new", "done"} => call[r] \in CallRow /\ call[r].tool \in DispatchTools
  /\ pc[r] \in {"run", "propose"} => r \in Callers /\ call[r].args \in ArgsOf(call[r].tool)
  /\ pc[r] \in {"new", "run", "propose"} /\ r \in Callers => conf[r] = NoRow
  /\ pc[r] = "run" => \/ call[r].tool \in META_TOOLS
                      \/ LetsThrough(call[r].policy, call[r].tool, call[r].principal)
  /\ pc[r] \in {"validate", "claim"} => r \in Approvers /\ call[r].conf \in Proposed
  /\ pc[r] = "claim" =>
       /\ canonicalArgs(call[r].args) = canonicalArgs(conf[call[r].conf].args)
       /\ approverRole(call[r].principal) \in conf[call[r].conf].approvers

\* Why a call was refused.
RefusalOK(r) ==
  r \in Callers /\ pc[r] = "done" =>
    /\ call[r] \in CallRow
    /\ result[r] = "tool_not_found" => call[r].tool \notin DispatchTools
    /\ result[r] = "policy_denied" =>
         /\ call[r].tool \notin META_TOOLS
         /\ resolveToolMode(Doc(call[r].policy), call[r].tool,
                            callerRole(call[r].principal)) = "deny"

\* The audit rows of a call, while it is under way and when it is answered.
RowsOK(r) ==
  r \in McpRequests =>
    /\ pc[r] \in {"new", "propose"} => rows[r] = <<>>
    /\ pc[r] \in {"run", "validate", "claim"} => rows[r] = <<"tool.call">>
    /\ pc[r] = "done" /\ result[r] \notin {"tool_not_found", "rolled_back"} =>
         \/ result[r] = "upstream_error" /\ rows[r] = <<>> /\ r \notin Senders
         \/ result[r] \notin {"ok", "proposed"} /\ rows[r] = <<"tool.error">> /\ r \notin Senders
         \/ result[r] = "proposed" /\ rows[r] = <<"tool.call">>
         \/ result[r] \notin {"ok", "proposed"} /\ rows[r] = <<"tool.call", "tool.error">>
         \/ result[r] = "ok" /\ rows[r] = <<"tool.call", "tool.result">>

RequestOK(r) == CallOK(r) /\ RefusalOK(r) /\ RowsOK(r)

\* A row names the approvers of the policy it was proposed under.
Proposals ==
  \A c \in Proposed :
    conf[c].approvers = requiredApproverRoles(Doc(conf[c].policy), conf[c].tool)

\* What went upstream was let through, or is an approved proposal.
Effects ==
  \A e \in ran :
    /\ pc[e.request] = "done" /\ call[e.request] \in CallRow /\ e.tool.op # NoOp
    /\ e.conf = NoConf => LetsThrough(e.policy, e.tool, PrincipalOf(e))
    /\ e.conf # NoConf =>
         /\ e.conf \in Proposed
         /\ e.tool = conf[e.conf].tool /\ e.policy = conf[e.conf].policy
         /\ e.args.flat = conf[e.conf].args.flat
         /\ approverRole(PrincipalOf(e)) \in conf[e.conf].approvers

IInv ==
  /\ RowTypes /\ ControlTypes /\ Proposals /\ Effects /\ ProposedTldsAreAllowed
  /\ \A r \in Requests : RequestOK(r)

-----------------------------------------------------------------------------
(* Lemmas *)

LEMMA AppendToOne == ASSUME NEW a, NEW b PROVE Append(<<a>>, b) = <<a, b>>
<1>1. <<a>> \in Seq({a, b}) /\ <<a, b>> \in Seq({a, b})
  OBVIOUS
<1>2. Append(<<a>>, b) \in Seq({a, b})
  BY <1>1, AppendProperties
<1>3. \A i \in 1..2 : Append(<<a>>, b)[i] = <<a, b>>[i]
  OBVIOUS
<1>4. Len(Append(<<a>>, b)) = 2 /\ Len(<<a, b>>) = 2
  OBVIOUS
<1>5. QED
  BY <1>1, <1>2, <1>3, <1>4, SeqEqual

LEMMA PoliciesAreWellFormed ==
  /\ \A p \in Policies : WellFormed(Doc(p))
  /\ Default \in Policies /\ Doc(Default) = DEFAULT_POLICY
BY PoliciesAssumption DEF WellFormed

LEMMA ArgsAreTyped ==
  /\ \A t : ArgsOf(t) \subseteq Args
  /\ \A a \in ArgsOf(createRegisterDomainTool) : a.objects # NoObjects
<1>1. \A t : ArgsOf(t) \subseteq Args
  BY DEF ArgsOf, ObjectsOf, Args
<1>2. ObjectsOf(createRegisterDomainTool) = TLDs
  BY RegistrationHasDomain DEF ObjectsOf, Nested
<1>3. QED
  BY <1>1, <1>2, PoliciesAssumption DEF ArgsOf

LEMMA Proposal ==
  ASSUME RowTypes, NEW c \in Proposed
  PROVE  c \in Confs /\ conf[c] \in ConfRow
BY DEF RowTypes, Proposed

LEMMA NoRowIsNoProposal == NoRow \notin ConfRow
<1> SUFFICES ASSUME NEW row \in ConfRow PROVE row.state # NoRow.state
  OBVIOUS
<1> QED
  BY DEF ConfRow, NoRow

LEMMA MetaTools ==
  /\ createConfirmPendingTool \in DispatchTools /\ UnknownTool \notin DispatchTools
  /\ \A t \in META_TOOLS : t.op = NoOp
<1>1. UnknownTool.noun = "tool" /\ \A t \in DispatchTools : t.noun # "tool"
  BY DEF UnknownTool, NoOp, DispatchTools, Tool,
     createCheckDomainTool, createListDomainsTool, createGetDomainTool,
     createListContactsTool, createGetContactTool, createRegisterDomainTool,
     createUpdateDomainTool, createCreateContactTool, createUpdateContactTool,
     createDeleteContactTool, createListPendingConfirmationsTool,
     createSuggestDomainTool, createGetDomainAuthcodeTool,
     createResetDomainAuthcodeTool, createApproveDomainTransferTool,
     createSendFoa1DomainTransferTool, createDeleteDomainTool,
     createRestartDomainOperationTool, createRenewDomainTool,
     createTransferDomainTool, createTradeDomainTool, createRestoreDomainTool,
     createListDnsZonesTool, createGetDnsZoneTool, createListDnsZoneRecordsTool,
     createListNameserversTool, createGetNameserverTool, createListNsGroupsTool,
     createGetNsGroupTool, createListDnsTemplatesTool, createGetDnsTemplateTool,
     createCreateDnsZoneTool, createUpdateDnsZoneTool, createCreateNameserverTool,
     createUpdateNameserverTool, createCreateNsGroupTool, createUpdateNsGroupTool,
     createCreateDnsTemplateTool, createCreateDomainTokenTool,
     createDeleteDnsZoneTool, createDeleteNameserverTool, createDeleteNsGroupTool,
     createDeleteDnsTemplateTool, createListTldsTool, createGetTldTool,
     createGetDomainPriceTool, createListTagsTool, createCreateTagTool,
     createDeleteTagTool, createListSslProductsTool, createGetSslProductTool,
     createListSslOrdersTool, createGetSslOrderTool, createGetSslApproverEmailsTool,
     createUpdateSslOrderTool, createUpdateSslApproverEmailTool,
     createResendSslApproverEmailTool, createCreateCsrTool, createDecodeCsrTool,
     createCreateSslOtpTokenTool, createCreateSslOrderTool, createRenewSslOrderTool,
     createReissueSslOrderTool, createCancelSslOrderTool, createListCustomersTool,
     createGetCustomerTool, createCreateCustomerTool, createUpdateCustomerTool,
     createDeleteCustomerTool, createListEmailTemplatesTool,
     createCreateEmailTemplateTool, createUpdateEmailTemplateTool,
     createDeleteEmailTemplateTool, createListEmailVerificationDomainsTool,
     createStartEmailVerificationTool, createRestartEmailVerificationTool,
     createGetDmarcTool, createListDmarcSubscriptionsTool, createCreateDmarcTool,
     createRetryDmarcTool, createDmarcSsoLoginTool, createDeleteDmarcTool,
     createGetSpamExpertsDomainTool, createSpamExpertsLoginUrlTool,
     createCreateSpamExpertsDomainTool, createUpdateSpamExpertsDomainTool,
     createDeleteSpamExpertsDomainTool, createListLicensePricesTool,
     createListLicenseItemsTool, createListPleskLicensesTool,
     createGetPleskLicenseTool, createGetPleskKeyTool, createCreatePleskLicenseTool,
     createUpdatePleskLicenseTool, createResetPleskHwidTool,
     createDeletePleskLicenseTool, createConfirmPendingTool
<1>2. createConfirmPendingTool \in DispatchTools
  BY DEF DispatchTools
<1>3. \A t \in META_TOOLS : t.op = NoOp
  BY DEF META_TOOLS, createConfirmPendingTool, createListPendingConfirmationsTool, Tool
<1>4. QED
  BY <1>1, <1>2, <1>3

\* The calls a request may make.
LEMMA CallsAreTyped ==
  ASSUME RowTypes, NEW r \in McpRequests, NEW k \in CallsOf(r)
  PROVE  /\ k \in CallRow /\ k.policy = policy /\ k.principal \in McpPrincipals
         /\ r \in Callers => /\ k.tool # createConfirmPendingTool /\ k.conf = NoConf
                             /\ k.args \in ArgsOf(k.tool)
         /\ r \notin Callers => k.tool = createConfirmPendingTool /\ k.conf \in Proposed
<1>1. CASE r \in Callers
  <2>1. PICK t \in (CatalogTools \cup {UnknownTool}) \ {createConfirmPendingTool} :
          \E a \in ArgsOf(t), p \in McpPrincipals : k = Call(t, a, p, NoConf)
    BY <1>1 DEF CallsOf
  <2>2. t \in DispatchTools \cup {UnknownTool}
    BY <2>1, CatalogIsKnown
  <2>3. QED
    BY <1>1, <2>1, <2>2, ArgsAreTyped DEF Call, CallRow, Principals, RowTypes
<1>2. CASE r \notin Callers
  <2>1. PICK c \in Proposed :
          \E a \in ArgsOf(conf[c].tool), p \in McpPrincipals :
            k = Call(createConfirmPendingTool, a, p, c)
    BY <1>2 DEF CallsOf
  <2>2. c \in Confs
    BY <2>1, Proposal
  <2>3. QED
    BY <1>2, <2>1, <2>2, ArgsAreTyped, MetaTools DEF Call, CallRow, Principals, RowTypes
<1>3. QED
  BY <1>1, <1>2

LEMMA InvInit == Init => IInv
<1> SUFFICES ASSUME Init PROVE IInv
  OBVIOUS
<1>1. Proposed = {} /\ ran = {} /\ \A r \in Requests : pc[r] = "new" /\ rows[r] = <<>>
  BY DEF Init, Proposed
<1>2. RowTypes /\ ControlTypes
  BY PoliciesAreWellFormed, PoliciesAssumption
     DEF Init, RowTypes, ControlTypes, Pcs, Answers
<1>3. \A r \in Requests : CallOK(r)
  BY <1>1 DEF Init, CallOK, Requests, McpRequests, Confs
<1>4. \A r \in Requests : RefusalOK(r) /\ RowsOK(r)
  BY <1>1 DEF RefusalOK, RowsOK
<1>5. Proposals /\ Effects /\ ProposedTldsAreAllowed
  BY <1>1 DEF Proposals, Effects, ProposedTldsAreAllowed
<1>6. QED
  BY <1>2, <1>3, <1>4, <1>5 DEF IInv, RequestOK

-----------------------------------------------------------------------------
(* What a step does *)

\* The price a proposal is decided with, and the decision.
LEMMA ProposalStep ==
  ASSUME IInv, NEW r \in Callers, Propose(r)
  PROVE  /\ pc[r] = "propose" /\ pc' = [pc EXCEPT ![r] = "done"]
         /\ UNCHANGED <<tenant, call, ran>>
         /\ \/ /\ result' = [result EXCEPT ![r] = "upstream_error"]
               /\ UNCHANGED <<conf, rows>>
            \/ /\ result' = [result EXCEPT ![r] = "proposed"]
               /\ rows' = [rows EXCEPT ![r] = Append(@, "tool.call")]
               /\ \E row \in ConfRow :
                    /\ conf' = [conf EXCEPT ![r] = row]
                    /\ row.approvers = requiredApproverRoles(Doc(row.policy), row.tool)
                    /\ row.tool = createRegisterDomainTool =>
                         ~TldRefused(Doc(row.policy), row.args.objects)
            \/ /\ rows' = [rows EXCEPT ![r] = Append(@, "tool.error")]
               /\ UNCHANGED conf
               /\ \E code \in {"not_confirm_mode", "tool_not_permitted", "insufficient_role",
                               "tld_refused", "spend_cap_exceeded"} :
                    result' = [result EXCEPT ![r] = code]
<1>1. RowTypes /\ CallOK(r) /\ pc[r] = "propose"
  BY DEF IInv, RequestOK, Requests, McpRequests, Propose
<1>2. /\ call[r] \in CallRow /\ call[r].tool \in DispatchTools
      /\ call[r].args \in ArgsOf(call[r].tool)
  BY <1>1 DEF CallOK
<1>3. PICK live \in {0, Doc(policy).limit},
           estimate \in (IF connected THEN {Fails} \cup price(call[r].tool, call[r].args)
                                      ELSE {0}) :
        LET decision == evaluate(Doc(policy), call[r].tool, call[r].args,
                                 callerRole(call[r].principal), live, estimate)
        IN IF estimate = Fails
             THEN Answer(r, "upstream_error") /\ UNCHANGED <<conf, rows>>
           ELSE IF decision = "confirm"
             THEN /\ conf' = [conf EXCEPT ![r] =
                                Confirmation(call[r].tool, call[r].args, estimate)]
                  /\ Answer(r, "proposed")
                  /\ Audit(r, "tool.call")
           ELSE /\ Refuse(r, IF decision = "allow" THEN "not_confirm_mode"
                             ELSE decision)
                /\ UNCHANGED conf
  BY DEF Propose
<1> DEFINE decision == evaluate(Doc(policy), call[r].tool, call[r].args,
                                callerRole(call[r].principal), live, estimate)
           row == Confirmation(call[r].tool, call[r].args, estimate)
<1>4. WellFormed(Doc(policy)) /\ policy \in Policies
  BY <1>1, PoliciesAreWellFormed DEF RowTypes
<1>5. decision \in {"allow", "confirm", "tool_not_permitted", "insufficient_role",
                    "tld_refused", "spend_cap_exceeded"}
  BY <1>4, GatesAgree DEF Modes
<1>6. UNCHANGED <<tenant, call, ran>>
  BY DEF Propose
<1>7. CASE estimate = Fails
  BY <1>1, <1>3, <1>6, <1>7 DEF Answer, Goto
<1>8. CASE estimate # Fails /\ decision = "confirm"
  <2>1. estimate \in {0, 1}
    BY <1>3, <1>8, PriceTypes
  <2>2. row \in ConfRow
    BY <1>2, <1>4, <2>1, ArgsAreTyped, ModesOfTools DEF Confirmation, ConfRow
  <2>3. row.approvers = requiredApproverRoles(Doc(row.policy), row.tool)
    BY DEF Confirmation
  <2>4. row.tool = createRegisterDomainTool =>
          ~TldRefused(Doc(row.policy), row.args.objects)
    <3> SUFFICES ASSUME call[r].tool = createRegisterDomainTool
                 PROVE  ~TldRefused(Doc(policy), call[r].args.objects)
      BY DEF Confirmation
    <3>1. call[r].args.objects \in tldsOf(call[r].tool, call[r].args)
      BY <1>2, ArgsAreTyped, RegistrationTld
    <3>2. QED
      BY <1>8, <3>1 DEF evaluate
  <2> HIDE DEF row
  <2>5. conf' = [conf EXCEPT ![r] = row] /\ Answer(r, "proposed") /\ Audit(r, "tool.call")
    BY <1>3, <1>8 DEF row
  <2>6. QED
    BY <1>1, <1>6, <2>2, <2>3, <2>4, <2>5 DEF Answer, Goto, Audit
<1>9. CASE estimate # Fails /\ decision # "confirm"
  <2> DEFINE code == IF decision = "allow" THEN "not_confirm_mode" ELSE decision
  <2>1. code \in {"not_confirm_mode", "tool_not_permitted", "insufficient_role",
                  "tld_refused", "spend_cap_exceeded"}
    BY <1>5, <1>9
  <2>2. Refuse(r, code) /\ UNCHANGED conf
    BY <1>3, <1>9
  <2> HIDE DEF code
  <2>3. QED
    BY <1>1, <1>6, <2>1, <2>2 DEF Refuse, Answer, Goto, Audit
<1>10. QED
  BY <1>7, <1>8, <1>9

\* What of a row an approval may rely on never changes.
SameProposal(row, new) ==
  /\ new.tool = row.tool /\ new.args = row.args /\ new.approvers = row.approvers
  /\ new.policy = row.policy

LEMMA StateChanges ==
  ASSUME RowTypes, NEW c \in Proposed, NEW s \in {"open", "consumed", "expired"},
         conf' = [conf EXCEPT ![c].state = s]
  PROVE  /\ conf' \in [Confs -> ConfRow \cup {NoRow}]
         /\ \A d \in Confs \ {c} : conf'[d] = conf[d]
         /\ SameProposal(conf[c], conf'[c]) /\ conf'[c] \in ConfRow
<1>1. c \in Confs /\ conf[c] \in ConfRow
  BY Proposal
<1>2. [conf[c] EXCEPT !.state = s] \in ConfRow
      /\ SameProposal(conf[c], [conf[c] EXCEPT !.state = s])
  BY <1>1 DEF ConfRow, SameProposal
<1>3. QED
  BY <1>1, <1>2 DEF RowTypes

\* The claim of an approval, what it sends and how it settles.
LEMMA ApprovalStep ==
  ASSUME IInv, NEW r \in Approvers, Execute(r)
  PROVE  /\ pc[r] = "claim" /\ pc' = [pc EXCEPT ![r] = "done"]
         /\ UNCHANGED <<tenant, call>>
         /\ \/ UNCHANGED conf
            \/ conf' = [conf EXCEPT ![call[r].conf].state = "consumed"]
         /\ \/ UNCHANGED ran
            \/ /\ conf[call[r].conf].tool.op # NoOp
               /\ Sent(r, conf[call[r].conf].tool, call[r].args, call[r].conf,
                       conf[call[r].conf].policy)
         /\ \/ /\ result' = [result EXCEPT ![r] = "ok"]
               /\ rows' = IF r \in DashApprovers THEN rows
                          ELSE [rows EXCEPT ![r] = Append(@, "tool.result")]
            \/ /\ \E code \in {"confirmation_not_found", "upstream_error"} :
                    result' = [result EXCEPT ![r] = code]
               /\ rows' = IF r \in DashApprovers THEN rows
                          ELSE [rows EXCEPT ![r] = Append(@, "tool.error")]
<1>1. pc[r] = "claim" /\ UNCHANGED <<tenant, call>>
  BY DEF Execute
<1> DEFINE c == call[r].conf
<1>2. CallOK(r) /\ RowTypes
  BY DEF IInv, RequestOK, Requests, Approvers, McpRequests
<1>3. c \in Proposed
  BY <1>1, <1>2 DEF CallOK
<1>4. conf = [conf EXCEPT ![c].state = @]
  <2>1. c \in Confs /\ conf[c] \in ConfRow
    BY <1>2, <1>3, Proposal
  <2>2. [conf[c] EXCEPT !.state = conf[c].state] = conf[c]
    BY <2>1 DEF ConfRow
  <2>3. QED
    BY <1>2, <2>1, <2>2 DEF RowTypes
<1>5. CASE conf[c].state = "consumed"
  BY <1>1, <1>5 DEF Execute, RefuseApproval, Refuse, Answer, Goto, Audit
<1>6. CASE conf[c].state # "consumed"
  <2>1. PICK ok \in BOOLEAN :
          /\ Send(r, conf[c].tool, call[r].args, c, conf[c].policy, ok)
          /\ conf' = [conf EXCEPT ![c].state = IF ok THEN "consumed" ELSE @]
          /\ IF ok THEN /\ Answer(r, "ok")
                        /\ IF r \in DashApprovers THEN UNCHANGED rows
                           ELSE Audit(r, "tool.result")
             ELSE RefuseApproval(r, "upstream_error")
    BY <1>6 DEF Execute
  <2>2. conf' = [conf EXCEPT ![c].state = "consumed"] \/ UNCHANGED conf
    BY <1>4, <2>1
  <2>3. UNCHANGED ran \/ /\ conf[c].tool.op # NoOp
                         /\ Sent(r, conf[c].tool, call[r].args, c, conf[c].policy)
    BY <2>1 DEF Send
  <2>4. QED
    BY <1>1, <2>1, <2>2, <2>3 DEF RefuseApproval, Refuse, Answer, Goto, Audit
<1>7. QED
  BY <1>5, <1>6

LEMMA ConfStep ==
  ASSUME IInv, Next
  PROVE  \/ UNCHANGED conf
         \/ \E c \in Proposed, s \in {"consumed", "expired"} :
              conf' = [conf EXCEPT ![c].state = s]
         \/ \E r \in Callers : Propose(r)
<1>1. ASSUME NEW r \in Approvers, Execute(r), ~UNCHANGED conf
      PROVE  \E c \in Proposed : conf' = [conf EXCEPT ![c].state = "consumed"]
  <2>1. pc[r] = "claim" /\ conf' = [conf EXCEPT ![call[r].conf].state = "consumed"]
    BY <1>1, ApprovalStep
  <2>2. call[r].conf \in Proposed
    BY <2>1 DEF IInv, RequestOK, CallOK, Requests, Approvers, McpRequests
  <2>3. QED
    BY <2>1, <2>2
<1>2. ASSUME NEW c \in Confs, Expire(c)
      PROVE  c \in Proposed /\ conf' = [conf EXCEPT ![c].state = "expired"]
  BY <1>2 DEF Expire, Proposed, NoRow
<1>3. QED
  BY <1>1, <1>2 DEF Next, Dispatch, DispatchUnknown, DispatchInvalid, DispatchDenied,
     DispatchProposal, DispatchAllowed, Run, BeginDashApproval, Validate, Abort, SavePolicy

\* Rows are written once; only their state changes.
LEMMA RowsStay ==
  ASSUME IInv, Next
  PROVE  /\ conf' \in [Confs -> ConfRow \cup {NoRow}]
         /\ \A c \in Proposed : c \in Proposed' /\ SameProposal(conf[c], conf'[c])
         /\ \A c \in Confs : c \notin Proposed =>
              \/ conf'[c] = NoRow
              \/ /\ pc[c] = "propose" /\ pc' = [pc EXCEPT ![c] = "done"]
                 /\ conf'[c].approvers =
                      requiredApproverRoles(Doc(conf'[c].policy), conf'[c].tool)
                 /\ conf'[c].tool = createRegisterDomainTool =>
                      ~TldRefused(Doc(conf'[c].policy), conf'[c].args.objects)
<1>1. RowTypes
  BY DEF IInv
<1>2. CASE UNCHANGED conf
  BY <1>1, <1>2 DEF RowTypes, Proposed, SameProposal
<1>3. ASSUME NEW c \in Proposed, NEW s \in {"consumed", "expired"},
             conf' = [conf EXCEPT ![c].state = s]
      PROVE  /\ conf' \in [Confs -> ConfRow \cup {NoRow}]
             /\ \A d \in Proposed : d \in Proposed' /\ SameProposal(conf[d], conf'[d])
             /\ \A d \in Confs : d \notin Proposed => conf'[d] = NoRow
  BY <1>1, <1>3, StateChanges, NoRowIsNoProposal DEF Proposed, SameProposal
<1>4. ASSUME NEW r \in Callers, Propose(r), ~UNCHANGED conf
      PROVE  /\ conf' \in [Confs -> ConfRow \cup {NoRow}]
             /\ \A c \in Proposed : c \in Proposed' /\ SameProposal(conf[c], conf'[c])
             /\ \A c \in Confs : c \notin Proposed =>
                  \/ conf'[c] = NoRow
                  \/ /\ pc[c] = "propose" /\ pc' = [pc EXCEPT ![c] = "done"]
                     /\ conf'[c].approvers =
                          requiredApproverRoles(Doc(conf'[c].policy), conf'[c].tool)
                     /\ conf'[c].tool = createRegisterDomainTool =>
                          ~TldRefused(Doc(conf'[c].policy), conf'[c].args.objects)
  <2>1. PICK row \in ConfRow :
          /\ conf' = [conf EXCEPT ![r] = row]
          /\ row.approvers = requiredApproverRoles(Doc(row.policy), row.tool)
          /\ row.tool = createRegisterDomainTool =>
               ~TldRefused(Doc(row.policy), row.args.objects)
    BY <1>4, ProposalStep
  <2>2. pc[r] = "propose" /\ pc' = [pc EXCEPT ![r] = "done"]
    BY <1>4, ProposalStep
  <2>3. conf[r] = NoRow
    BY <2>2 DEF IInv, RequestOK, CallOK, Requests, McpRequests
  <2>4. conf'[r] = row /\ \A c \in Confs \ {r} : conf'[c] = conf[c]
    BY <1>1, <2>1 DEF RowTypes, Confs
  <2>5. conf' \in [Confs -> ConfRow \cup {NoRow}]
    BY <1>1, <2>1 DEF RowTypes
  <2>6. \A c \in Proposed : c \in Proposed' /\ SameProposal(conf[c], conf'[c])
    BY <2>3, <2>4 DEF Proposed, SameProposal
  <2>7. \A c \in Confs : c \notin Proposed => c = r \/ conf'[c] = NoRow
    BY <2>4 DEF Proposed
  <2>8. QED
    BY <2>1, <2>2, <2>4, <2>5, <2>6, <2>7
<1>5. QED
  BY <1>2, <1>3, <1>4, ConfStep

-----------------------------------------------------------------------------
(* The requests that do not act *)

\* An answer, and what a step may add to the audit rows of the request.
Adds(r) ==
  \/ UNCHANGED rows \/ rows' = [rows EXCEPT ![r] = <<>>]
  \/ \E event \in AuditEvents : rows' = [rows EXCEPT ![r] = Append(@, event)]
Ends(r) ==
  /\ pc' = [pc EXCEPT ![r] = "done"] /\ Adds(r)
  /\ \E code \in Answers : result' = [result EXCEPT ![r] = code]

LEMMA AnswersEnd ==
  ASSUME NEW r, NEW code \in Answers
  PROVE  /\ Answer(r, code) /\ Adds(r) => Ends(r)
         /\ Refuse(r, code) => Ends(r)
         /\ RefuseApproval(r, code) => Ends(r)
BY DEF Answer, Goto, Refuse, RefuseApproval, Audit, Ends, Adds, AuditEvents

\* One request acts at a time; what it was asked is set at its first step.
Acts(r) ==
  /\ \/ Ends(r)
     \/ /\ \E label \in Pcs \ {"new"} : pc' = [pc EXCEPT ![r] = label]
        /\ UNCHANGED result /\ Adds(r)
  /\ \/ UNCHANGED call
     \/ pc[r] = "new" /\ \E k : call' = [call EXCEPT ![r] = k]
  /\ pc[r] # "done"
  /\ \A e \in ran' \ ran : e.request = r

\* The actions of a request.
StepOf(r) ==
  \/ r \in McpRequests /\ Dispatch(r)
  \/ r \in Callers /\ (Run(r) \/ Propose(r))
  \/ r \in DashApprovers /\ BeginDashApproval(r)
  \/ r \in Approvers /\ (Validate(r) \/ Execute(r))
  \/ Abort(r)

LEMMA OneActs ==
  ASSUME IInv, Next
  PROVE  \/ UNCHANGED <<pc, call, result, rows, ran>>
         \/ \E r \in Requests : StepOf(r) /\ Acts(r)
<1>2. ASSUME NEW r \in McpRequests, Dispatch(r) PROVE Acts(r)
  <2>1. PICK k \in CallsOf(r) :
          /\ call' = [call EXCEPT ![r] = k]
          /\ \/ DispatchUnknown(r, k) \/ DispatchInvalid(r, k)
             \/ DispatchDenied(r, k) \/ DispatchProposal(r, k)
             \/ DispatchAllowed(r, k)
    BY <1>2 DEF Dispatch
  <2>2. pc[r] = "new" /\ UNCHANGED ran
    BY <1>2 DEF Dispatch, DispatchUnknown, DispatchInvalid, DispatchDenied,
       DispatchProposal, DispatchAllowed
  <2>3. CASE DispatchUnknown(r, k) \/ DispatchInvalid(r, k) \/ DispatchDenied(r, k)
    <3>1. Ends(r)
      BY <2>3, AnswersEnd
         DEF DispatchUnknown, DispatchInvalid, DispatchDenied, Answers, Adds
    <3>2. QED
      BY <2>1, <2>2, <3>1 DEF Acts
  <2>4. CASE DispatchProposal(r, k) \/ DispatchAllowed(r, k)
    BY <2>1, <2>2, <2>4
       DEF Acts, DispatchProposal, DispatchAllowed, Goto, Audit, Adds, AuditEvents, Pcs
  <2>5. QED
    BY <2>1, <2>3, <2>4
<1>3. ASSUME NEW r \in Callers, Run(r) PROVE Acts(r)
  <2>1. Ends(r)
    BY <1>3, AnswersEnd DEF Run, Answers, Adds, Audit, AuditEvents
  <2>2. QED
    BY <1>3, <2>1 DEF Acts, Run, Send, Sent
<1>4. ASSUME NEW r \in Callers, Propose(r) PROVE Acts(r)
  <2>1. Ends(r)
    BY <1>4, ProposalStep DEF Ends, Adds, Answers, AuditEvents
  <2>2. QED
    BY <1>4, <2>1, ProposalStep DEF Acts
<1>5. ASSUME NEW r \in DashApprovers, BeginDashApproval(r) PROVE Acts(r)
  <2>1. PICK c \in Proposed, p \in DashPrincipals :
          IF conf[c].state = "open"
            THEN /\ call' = [call EXCEPT ![r] =
                               Call(createConfirmPendingTool, conf[c].args, p, c)]
                 /\ Goto(r, "validate")
                 /\ UNCHANGED result
            ELSE Answer(r, "confirmation_not_found") /\ UNCHANGED call
    BY <1>5 DEF BeginDashApproval
  <2>2. pc[r] = "new" /\ UNCHANGED <<rows, ran>>
    BY <1>5 DEF BeginDashApproval
  <2>3. CASE conf[c].state = "open"
    BY <2>1, <2>2, <2>3 DEF Acts, Goto, Adds, Pcs
  <2>4. CASE conf[c].state # "open"
    <3>1. Ends(r)
      BY <2>1, <2>2, <2>4, AnswersEnd DEF Answers, Adds
    <3>2. QED
      BY <2>1, <2>2, <2>4, <3>1 DEF Acts
  <2>5. QED
    BY <2>3, <2>4
<1>6. ASSUME NEW r \in Approvers, Validate(r) PROVE Acts(r)
  <2>1. pc[r] = "validate" /\ UNCHANGED <<call, ran>>
    BY <1>6 DEF Validate
  <2>2. \/ \E code \in {Refusal(r), "upstream_error", "price_changed", "tool_not_found"} :
             RefuseApproval(r, code)
        \/ Goto(r, "claim") /\ UNCHANGED <<result, rows>>
    BY <1>6 DEF Validate
  <2>3. Refusal(r) \in Answers
    BY DEF Refusal, Answers
  <2>4. Ends(r) \/ (Goto(r, "claim") /\ UNCHANGED <<result, rows>>)
    <3>1. ASSUME NEW code \in {Refusal(r), "upstream_error", "price_changed", "tool_not_found"},
                 RefuseApproval(r, code)
          PROVE  Ends(r)
      <4>1. code \in Answers
        BY <2>3 DEF Answers
      <4>2. QED
        BY <3>1, <4>1, AnswersEnd
    <3>2. QED
      BY <2>2, <3>1
  <2>5. QED
    BY <2>1, <2>4 DEF Acts, Goto, Adds, Pcs
<1>7. ASSUME NEW r \in Approvers, Execute(r) PROVE Acts(r)
  <2>1. pc[r] = "claim" /\ pc' = [pc EXCEPT ![r] = "done"] /\ UNCHANGED call
    BY <1>7, ApprovalStep DEF tenant
  <2>2. \E code \in Answers : result' = [result EXCEPT ![r] = code]
    BY <1>7, ApprovalStep DEF Answers
  <2>3. Adds(r)
    BY <1>7, ApprovalStep DEF Adds, AuditEvents
  <2>4. \A e \in ran' \ ran : e.request = r
    <3>1. ran' = ran \/ \E t, args, c, p : Sent(r, t, args, c, p)
      BY <1>7, ApprovalStep
    <3>2. QED
      BY <3>1 DEF Sent
  <2>5. QED
    BY <2>1, <2>2, <2>3, <2>4 DEF Acts, Ends
<1>8. ASSUME NEW r \in Requests, Abort(r) PROVE Acts(r)
  <2>1. Ends(r)
    BY <1>8, AnswersEnd DEF Abort, Answers, Adds
  <2>2. QED
    BY <1>8, <2>1 DEF Acts, Abort
<1>9. QED
  BY <1>2, <1>3, <1>4, <1>5, <1>6, <1>7, <1>8
     DEF Next, StepOf, Expire, SavePolicy, Requests, McpRequests, Approvers

\* What it leaves alone.
LEMMA OthersStay ==
  ASSUME ControlTypes, NEW r \in Requests, Acts(r)
  PROVE  /\ \A q \in Requests \ {r} : /\ pc'[q] = pc[q] /\ call'[q] = call[q]
                                      /\ result'[q] = result[q] /\ rows'[q] = rows[q]
         /\ pc'[r] # "new" /\ (pc[r] # "new" => call'[r] = call[r])
         /\ ControlTypes'
<1>1. \A event \in AuditEvents, s \in Seq(AuditEvents) : Append(s, event) \in Seq(AuditEvents)
  OBVIOUS
<1>2. /\ rows' \in [Requests -> Seq(AuditEvents)]
      /\ \A q \in Requests \ {r} : rows'[q] = rows[q]
  <2>1. Adds(r)
    BY DEF Acts, Ends
  <2>2. UNCHANGED rows \/ \E s \in Seq(AuditEvents) : rows' = [rows EXCEPT ![r] = s]
    <3>1. <<>> \in Seq(AuditEvents) /\ rows[r] \in Seq(AuditEvents)
      BY DEF ControlTypes
    <3>2. QED
      BY <1>1, <2>1, <3>1 DEF Adds
  <2>3. QED
    BY <2>2 DEF ControlTypes
<1>3. /\ pc' \in [Requests -> Pcs] /\ result' \in [Requests -> Answers] /\ pc'[r] # "new"
      /\ \A q \in Requests \ {r} : pc'[q] = pc[q] /\ result'[q] = result[q]
  <2>1. \E label \in Pcs \ {"new"} : pc' = [pc EXCEPT ![r] = label]
    BY DEF Acts, Ends, Pcs
  <2>2. UNCHANGED result \/ \E code \in Answers : result' = [result EXCEPT ![r] = code]
    BY DEF Acts, Ends
  <2>3. QED
    BY <2>1, <2>2 DEF ControlTypes
<1>4. /\ call' = [q \in Requests |-> call'[q]]
      /\ \A q \in Requests \ {r} : call'[q] = call[q]
      /\ pc[r] # "new" => call'[r] = call[r]
  BY DEF ControlTypes, Acts
<1>5. QED
  BY <1>2, <1>3, <1>4 DEF ControlTypes

LEMMA TypesStay ==
  ASSUME IInv, Next
  PROVE  RowTypes' /\ ControlTypes'
<1>1. RowTypes /\ ControlTypes
  BY DEF IInv
<1>2. policy' \in Policies /\ saves' \in 0 .. MaxSaves /\ connected' \in BOOLEAN
  <2>1. UNCHANGED tenant \/ SavePolicy
    BY ProposalStep, ApprovalStep
       DEF Next, Dispatch, DispatchUnknown, DispatchInvalid, DispatchDenied, DispatchProposal,
           DispatchAllowed, Run, BeginDashApproval, Validate, Abort, Expire
  <2>2. QED
    BY <1>1, <2>1, PoliciesAssumption DEF tenant, SavePolicy, RowTypes
<1>3. ran' \subseteq Effect
  <2>1. ASSUME NEW r \in Callers, Run(r) PROVE ran' \subseteq Effect
    <3>1. call[r] \in CallRow /\ call[r].tool \in DispatchTools
      BY <1>1, <2>1 DEF IInv, RequestOK, CallOK, Run, Requests, McpRequests
    <3>2. ran' = ran \/ Sent(r, call[r].tool, call[r].args, NoConf, call[r].policy)
      BY <2>1 DEF Run, Send
    <3>3. QED
      BY <1>1, <3>1, <3>2 DEF RowTypes, CallRow, Sent, Effect, Requests, McpRequests
  <2>2. ASSUME NEW r \in Approvers, Execute(r) PROVE ran' \subseteq Effect
    <3>1. /\ call[r] \in CallRow /\ call[r].conf \in Proposed
          /\ call[r].conf \in Confs /\ conf[call[r].conf] \in ConfRow
      BY <1>1, <2>2, ApprovalStep, Proposal
         DEF IInv, RequestOK, CallOK, Requests, McpRequests, Approvers
    <3>2. \/ ran' = ran
          \/ Sent(r, conf[call[r].conf].tool, call[r].args, call[r].conf,
                  conf[call[r].conf].policy)
      BY <2>2, ApprovalStep
    <3>3. QED
      BY <1>1, <3>1, <3>2
         DEF RowTypes, CallRow, ConfRow, Sent, Effect, Requests, McpRequests, Approvers
  <2>3. QED
    BY <1>1, <2>1, <2>2, ProposalStep
       DEF Next, Dispatch, DispatchUnknown, DispatchInvalid, DispatchDenied, DispatchProposal,
           DispatchAllowed, BeginDashApproval, Validate, Abort, Expire, SavePolicy, RowTypes
<1>4. ControlTypes'
  <2>1. CASE UNCHANGED <<pc, call, result, rows, ran>>
    BY <1>1, <2>1 DEF ControlTypes
  <2>2. QED
    BY <1>1, <2>1, OneActs, OthersStay
<1>5. QED
  BY <1>2, <1>3, <1>4, RowsStay DEF RowTypes

-----------------------------------------------------------------------------
(* Every step preserves the invariant *)

LEMMA ProposalsStay ==
  ASSUME IInv, Next
  PROVE  Proposals' /\ ProposedTldsAreAllowed'
<1> SUFFICES ASSUME NEW c \in Proposed'
             PROVE  /\ conf'[c].approvers =
                         requiredApproverRoles(Doc(conf'[c].policy), conf'[c].tool)
                    /\ conf'[c].tool = createRegisterDomainTool =>
                         ~TldRefused(Doc(conf'[c].policy), conf'[c].args.objects)
  BY DEF Proposals, ProposedTldsAreAllowed
<1>1. c \in Confs /\ conf'[c] # NoRow
  BY DEF Proposed
<1>2. CASE c \in Proposed
  BY <1>2, RowsStay DEF IInv, Proposals, ProposedTldsAreAllowed, SameProposal
<1>3. CASE c \notin Proposed
  BY <1>1, <1>3, RowsStay
<1>4. QED
  BY <1>2, <1>3

\* What was sent before stays as it was.
LEMMA EffectsStay ==
  ASSUME IInv, Next
  PROVE  \A e \in ran :
           /\ pc'[e.request] = "done" /\ call'[e.request] \in CallRow /\ e.tool.op # NoOp
           /\ e.conf = NoConf => LetsThrough(e.policy, e.tool, call'[e.request].principal)
           /\ e.conf # NoConf =>
                /\ e.conf \in Proposed'
                /\ e.tool = conf'[e.conf].tool /\ e.policy = conf'[e.conf].policy
                /\ e.args.flat = conf'[e.conf].args.flat
                /\ approverRole(call'[e.request].principal) \in conf'[e.conf].approvers
<1> TAKE e \in ran
<1>1. /\ e.request \in Requests /\ pc[e.request] = "done" /\ call[e.request] \in CallRow
      /\ e.tool.op # NoOp
      /\ e.conf = NoConf => LetsThrough(e.policy, e.tool, call[e.request].principal)
      /\ e.conf # NoConf =>
           /\ e.conf \in Proposed
           /\ e.tool = conf[e.conf].tool /\ e.policy = conf[e.conf].policy
           /\ e.args.flat = conf[e.conf].args.flat
           /\ approverRole(call[e.request].principal) \in conf[e.conf].approvers
  BY DEF IInv, Effects, PrincipalOf, RowTypes, Effect
<1>2. pc'[e.request] = "done" /\ call'[e.request] = call[e.request]
  <2>1. CASE UNCHANGED <<pc, call, result, rows, ran>>
    BY <1>1, <2>1
  <2>2. ASSUME NEW r \in Requests, Acts(r)
        PROVE  pc'[e.request] = "done" /\ call'[e.request] = call[e.request]
    BY <1>1, <2>2, OthersStay DEF IInv, Acts
  <2>3. QED
    BY <2>1, <2>2, OneActs
<1>3. e.conf # NoConf => e.conf \in Proposed' /\ SameProposal(conf[e.conf], conf'[e.conf])
  BY <1>1, RowsStay
<1>4. QED
  BY <1>1, <1>2, <1>3 DEF SameProposal

LEMMA EffectsHold ==
  ASSUME IInv, Next
  PROVE  Effects'
<1> DEFINE Fine(e) ==
      /\ pc'[e.request] = "done" /\ call'[e.request] \in CallRow /\ e.tool.op # NoOp
      /\ e.conf = NoConf => LetsThrough(e.policy, e.tool, call'[e.request].principal)
      /\ e.conf # NoConf =>
           /\ e.conf \in Proposed'
           /\ e.tool = conf'[e.conf].tool /\ e.policy = conf'[e.conf].policy
           /\ e.args.flat = conf'[e.conf].args.flat
           /\ approverRole(call'[e.request].principal) \in conf'[e.conf].approvers
<1>1. \A e \in ran : Fine(e)
  BY EffectsStay
<1>2. ASSUME NEW r \in Callers, Run(r), NEW e \in ran' \ ran PROVE Fine(e)
  <2>1. e = [request |-> r, tool |-> call[r].tool, args |-> call[r].args, conf |-> NoConf,
             policy |-> call[r].policy] /\ call[r].tool.op # NoOp
    BY <1>2 DEF Run, Send, Sent
  <2>2. pc'[r] = "done" /\ call'[r] = call[r]
    BY <1>2 DEF Run, Answer, Goto, IInv, ControlTypes, Requests, McpRequests
  <2>3. /\ call[r] \in CallRow
        /\ \/ call[r].tool \in META_TOOLS
           \/ LetsThrough(call[r].policy, call[r].tool, call[r].principal)
    BY <1>2 DEF Run, IInv, RequestOK, CallOK, Requests, McpRequests
  <2>4. QED
    BY <2>1, <2>2, <2>3, MetaTools
<1>3. ASSUME NEW r \in Approvers, Execute(r), NEW e \in ran' \ ran PROVE Fine(e)
  <2> DEFINE c == call[r].conf
  <2>1. e = [request |-> r, tool |-> conf[c].tool, args |-> call[r].args, conf |-> c,
             policy |-> conf[c].policy] /\ conf[c].tool.op # NoOp
    <3>1. conf[c].tool.op # NoOp /\ Sent(r, conf[c].tool, call[r].args, c, conf[c].policy)
      BY <1>3, ApprovalStep
    <3>2. QED
      BY <1>3, <3>1 DEF Sent
  <2>2. r \in Requests /\ pc[r] = "claim" /\ pc'[r] = "done" /\ call'[r] = call[r]
    BY <1>3, ApprovalStep DEF IInv, ControlTypes, Requests, McpRequests, Approvers
  <2>3. /\ call[r] \in CallRow /\ c \in Proposed
        /\ canonicalArgs(call[r].args) = canonicalArgs(conf[c].args)
        /\ approverRole(call[r].principal) \in conf[c].approvers
    BY <2>2 DEF IInv, RequestOK, CallOK
  <2>4. c \in Proposed' /\ SameProposal(conf[c], conf'[c]) /\ c # NoConf
    BY <2>3, RowsStay, Proposal, RequestsAssumption
       DEF IInv, Confs, Requests, McpRequests
  <2>5. QED
    BY <2>1, <2>2, <2>3, <2>4 DEF canonicalArgs, SameProposal
<1>4. \A e \in ran' : e \in ran \/ (\E r \in Callers : Run(r)) \/ (\E r \in Approvers : Execute(r))
  BY ProposalStep
     DEF Next, Dispatch, DispatchUnknown, DispatchInvalid, DispatchDenied, DispatchProposal,
         DispatchAllowed, BeginDashApproval, Validate, Abort, Expire, SavePolicy
<1>5. \A e \in ran' : Fine(e)
  BY <1>1, <1>2, <1>3, <1>4
<1>6. QED
  BY <1>5 DEF Effects, PrincipalOf

\* A request that does not act keeps its part: the rows it relies on stay, and nobody
\* sends in its name.
LEMMA Bystander ==
  ASSUME IInv, Next, NEW q \in Requests,
         pc'[q] = pc[q], call'[q] = call[q], result'[q] = result[q], rows'[q] = rows[q],
         q \in Senders' => q \in Senders
  PROVE  RequestOK(q)'
<1>1. RequestOK(q)
  BY DEF IInv
<1>2. /\ call[q].conf \in Proposed =>
           /\ call[q].conf \in Proposed'
           /\ conf'[call[q].conf].args = conf[call[q].conf].args
           /\ conf'[call[q].conf].approvers = conf[call[q].conf].approvers
  BY RowsStay DEF SameProposal
<1>3. q \in Callers /\ pc[q] \in {"new", "run", "propose"} => conf'[q] = NoRow
  <2> SUFFICES ASSUME q \in Callers, pc[q] \in {"new", "run", "propose"}
               PROVE  conf'[q] = NoRow
    OBVIOUS
  <2>1. q \notin Proposed /\ q \in Confs
    BY <1>1 DEF RequestOK, CallOK, Proposed, Confs
  <2>2. ~(pc[q] = "propose" /\ pc' = [pc EXCEPT ![q] = "done"])
    BY DEF IInv, ControlTypes
  <2>3. QED
    BY <2>1, <2>2, RowsStay
<1>4. CallOK(q)'
  BY <1>1, <1>2, <1>3 DEF RequestOK, CallOK, Proposed
<1>5. RefusalOK(q)'
  BY <1>1 DEF RequestOK, RefusalOK
<1>6. RowsOK(q)'
  BY <1>1 DEF RequestOK, RowsOK
<1>7. QED
  BY <1>4, <1>5, <1>6 DEF RequestOK

LEMMA DispatchOK ==
  ASSUME IInv, NEW r \in McpRequests, Dispatch(r)
  PROVE  RequestOK(r)'
<1>1. PICK k \in CallsOf(r) :
        /\ call' = [call EXCEPT ![r] = k]
        /\ \/ DispatchUnknown(r, k) \/ DispatchInvalid(r, k)
           \/ DispatchDenied(r, k) \/ DispatchProposal(r, k)
           \/ DispatchAllowed(r, k)
  BY DEF Dispatch
<1>2. /\ pc[r] = "new" /\ RowTypes /\ ControlTypes /\ RequestOK(r) /\ r \in Requests
      /\ UNCHANGED <<tenant, conf, ran>>
  BY <1>1 DEF Dispatch, IInv, DispatchUnknown, DispatchInvalid, DispatchDenied,
     DispatchProposal, DispatchAllowed, Requests
<1>3. call'[r] = k
  BY <1>1, <1>2 DEF ControlTypes
<1>4. /\ k \in CallRow /\ k.policy = policy
      /\ r \in Callers => /\ k.tool # createConfirmPendingTool /\ k.args \in ArgsOf(k.tool)
      /\ r \notin Callers => /\ k.tool = createConfirmPendingTool /\ k.conf \in Proposed
                             /\ r \in Approvers
  BY <1>2, CallsAreTyped DEF McpRequests, Approvers
<1>5. rows[r] = <<>> /\ (r \in Callers => conf[r] = NoRow) /\ r \notin Senders'
  BY <1>2 DEF RequestOK, RowsOK, CallOK, IInv, Effects, Senders
<1>6. CASE DispatchUnknown(r, k)
  <2>1. k.tool \notin DispatchTools /\ pc'[r] = "done" /\ result'[r] = "tool_not_found"
    BY <1>2, <1>6 DEF DispatchUnknown, Answer, Goto, ControlTypes
  <2>2. QED
    BY <1>3, <1>4, <2>1 DEF RequestOK, CallOK, RefusalOK, RowsOK
<1>7. CASE DispatchInvalid(r, k)
  <2>1. /\ pc'[r] = "done" /\ result'[r] = "validation_failed" /\ rows'[r] = <<"tool.error">>
    BY <1>2, <1>5, <1>7 DEF DispatchInvalid, Refuse, Audit, Answer, Goto, ControlTypes
  <2>2. QED
    BY <1>3, <1>4, <1>5, <2>1 DEF RequestOK, CallOK, RefusalOK, RowsOK
<1>8. CASE DispatchDenied(r, k)
  <2>1. /\ pc'[r] = "done" /\ result'[r] = "policy_denied" /\ rows'[r] = <<"tool.error">>
    BY <1>2, <1>5, <1>8 DEF DispatchDenied, Refuse, Audit, Answer, Goto, ControlTypes
  <2>2. /\ k.tool \notin META_TOOLS
        /\ resolveToolMode(Doc(k.policy), k.tool, callerRole(k.principal)) = "deny"
    BY <1>4, <1>8 DEF DispatchDenied, resolveMode
  <2>3. QED
    BY <1>3, <1>4, <1>5, <2>1, <2>2 DEF RequestOK, CallOK, RefusalOK, RowsOK
<1>9. CASE DispatchProposal(r, k)
  <2>1. pc'[r] = "propose" /\ rows'[r] = <<>> /\ k.tool \in DispatchTools
    BY <1>2, <1>5, <1>9 DEF DispatchProposal, Goto, ControlTypes
  <2>2. r \in Callers
    BY <1>4, <1>9 DEF DispatchProposal, resolveMode, META_TOOLS
  <2>3. QED
    BY <1>2, <1>3, <1>4, <1>5, <2>1, <2>2 DEF RequestOK, CallOK, RefusalOK, RowsOK
<1>10. CASE DispatchAllowed(r, k)
  <2>1. /\ pc'[r] = IF k.tool = createConfirmPendingTool THEN "validate" ELSE "run"
        /\ rows'[r] = <<"tool.call">> /\ k.tool \in DispatchTools
    BY <1>2, <1>5, <1>10 DEF DispatchAllowed, Audit, Goto, ControlTypes
  <2>2. k.tool \in META_TOOLS \/ LetsThrough(k.policy, k.tool, k.principal)
    BY <1>4, <1>10 DEF DispatchAllowed, resolveMode, LetsThrough
  <2>3. QED
    BY <1>2, <1>3, <1>4, <1>5, <2>1, <2>2
       DEF RequestOK, CallOK, RefusalOK, RowsOK, Proposed, Confs
<1>11. QED
  BY <1>1, <1>6, <1>7, <1>8, <1>9, <1>10

LEMMA CallerOK ==
  ASSUME IInv, NEW r \in Callers, Run(r) \/ Propose(r)
  PROVE  RequestOK(r)'
<1>1. /\ RowTypes /\ ControlTypes /\ RequestOK(r) /\ r \in Requests /\ r \in McpRequests
      /\ r \notin Approvers
  BY RequestsAssumption DEF IInv, Requests, McpRequests
<1>2. /\ pc[r] \in {"run", "propose"} /\ pc' = [pc EXCEPT ![r] = "done"] /\ UNCHANGED call
  BY ProposalStep DEF Run, Answer, Goto
<1>3. call'[r] = call[r] /\ call[r] \in CallRow /\ pc'[r] = "done"
  BY <1>1, <1>2 DEF RequestOK, CallOK, ControlTypes
<1>4. r \notin Senders
  BY <1>2 DEF IInv, Effects, Senders
<1>5. CASE Run(r)
  <2>1. rows[r] = <<"tool.call">>
    BY <1>1, <1>5 DEF Run, RequestOK, RowsOK
  <2>2. \/ /\ result' = [result EXCEPT ![r] = "ok"]
           /\ rows' = [rows EXCEPT ![r] = Append(@, "tool.result")]
        \/ /\ result' = [result EXCEPT ![r] = "upstream_error"]
           /\ rows' = [rows EXCEPT ![r] = Append(@, "tool.error")]
    BY <1>5 DEF Run, Answer, Audit
  <2>3. \/ result'[r] = "ok" /\ rows'[r] = <<"tool.call", "tool.result">>
        \/ result'[r] = "upstream_error" /\ rows'[r] = <<"tool.call", "tool.error">>
    BY <1>1, <2>1, <2>2, AppendToOne DEF ControlTypes
  <2>4. QED
    BY <1>1, <1>3, <2>3 DEF RequestOK, CallOK, RefusalOK, RowsOK
<1>6. CASE Propose(r)
  <2>1. rows[r] = <<>> /\ ran' = ran
    BY <1>1, <1>6, ProposalStep DEF RequestOK, RowsOK
  <2>2. \/ result'[r] = "upstream_error" /\ rows'[r] = <<>>
        \/ result'[r] = "proposed" /\ rows'[r] = <<"tool.call">>
        \/ /\ rows'[r] = <<"tool.error">>
           /\ result'[r] \in {"not_confirm_mode", "tool_not_permitted", "insufficient_role",
                              "tld_refused", "spend_cap_exceeded"}
    BY <1>1, <1>6, <2>1, ProposalStep DEF ControlTypes
  <2>3. QED
    BY <1>1, <1>3, <1>4, <2>1, <2>2 DEF RequestOK, CallOK, RefusalOK, RowsOK, Senders
<1>7. QED
  BY <1>5, <1>6

LEMMA BeginDashOK ==
  ASSUME IInv, NEW r \in DashApprovers, BeginDashApproval(r)
  PROVE  RequestOK(r)'
<1>1. /\ RowTypes /\ ControlTypes /\ r \in Requests /\ r \in Approvers
      /\ r \notin McpRequests /\ r \notin Callers /\ pc[r] = "new" /\ UNCHANGED <<tenant, conf>>
  BY RequestsAssumption DEF IInv, BeginDashApproval, Requests, McpRequests, Approvers
<1>2. PICK c \in Proposed, p \in DashPrincipals :
        IF conf[c].state = "open"
          THEN /\ call' = [call EXCEPT ![r] =
                             Call(createConfirmPendingTool, conf[c].args, p, c)]
               /\ Goto(r, "validate")
               /\ UNCHANGED result
          ELSE Answer(r, "confirmation_not_found") /\ UNCHANGED call
  BY DEF BeginDashApproval
<1>3. c \in Confs /\ conf[c] \in ConfRow
  BY <1>1, Proposal
<1>4. CASE conf[c].state = "open"
  <2> DEFINE k == Call(createConfirmPendingTool, conf[c].args, p, c)
  <2>1. call'[r] = k /\ pc'[r] = "validate"
    BY <1>1, <1>2, <1>4 DEF ControlTypes, Goto
  <2>2. k \in CallRow /\ k.tool \in DispatchTools /\ k.conf = c
    BY <1>1, <1>2, <1>3, MetaTools DEF Call, CallRow, ConfRow, Principals, RowTypes
  <2> HIDE DEF k
  <2>3. QED
    BY <1>1, <1>2, <2>1, <2>2 DEF RequestOK, CallOK, RefusalOK, RowsOK, Proposed
<1>5. CASE conf[c].state # "open"
  <2>1. pc'[r] = "done"
    BY <1>1, <1>2, <1>5 DEF ControlTypes, Answer, Goto
  <2>2. QED
    BY <1>1, <2>1 DEF RequestOK, CallOK, RefusalOK, RowsOK
<1>6. QED
  BY <1>4, <1>5

LEMMA ApproverOK ==
  ASSUME IInv, Next, NEW r \in Approvers, Validate(r) \/ Execute(r)
  PROVE  RequestOK(r)'
<1>1. /\ RowTypes /\ ControlTypes /\ RequestOK(r) /\ r \in Requests /\ r \notin Callers
      /\ r \in McpRequests => r \notin DashApprovers
  BY RequestsAssumption DEF IInv, Requests, McpRequests, Approvers
<1>2. pc[r] \in {"validate", "claim"} /\ UNCHANGED call
  BY ApprovalStep DEF Validate
<1>3. /\ call'[r] = call[r] /\ call[r] \in CallRow /\ call[r].conf \in Proposed
      /\ r \in McpRequests => rows[r] = <<"tool.call">>
      /\ call[r].tool \in DispatchTools
  BY <1>1, <1>2 DEF RequestOK, CallOK, RowsOK
<1>4. r \notin Senders
  BY <1>2 DEF IInv, Effects, Senders
<1>5. ASSUME NEW code \in Answers \ {"ok", "proposed"}, RefuseApproval(r, code)
      PROVE  RequestOK(r)'
  <2>1. /\ pc'[r] = "done" /\ result'[r] = code
        /\ r \in McpRequests => rows'[r] = <<"tool.call", "tool.error">>
    <3>1. pc' = [pc EXCEPT ![r] = "done"] /\ result' = [result EXCEPT ![r] = code]
      BY <1>5 DEF RefuseApproval, Refuse, Answer, Goto
    <3>2. r \in McpRequests => rows' = [rows EXCEPT ![r] = Append(@, "tool.error")]
      BY <1>1, <1>5 DEF RefuseApproval, Refuse, Audit
    <3>3. ASSUME r \in McpRequests
          PROVE  rows'[r] = <<"tool.call", "tool.error">>
      <4>1. rows[r] = <<"tool.call">> /\ rows' = [rows EXCEPT ![r] = Append(@, "tool.error")]
        BY <1>3, <3>2, <3>3
      <4>2. rows'[r] = Append(rows[r], "tool.error")
        BY <1>1, <3>3, <4>1 DEF ControlTypes
      <4>3. QED
        BY <4>1, <4>2, AppendToOne
    <3>4. QED
      BY <1>1, <3>1, <3>3 DEF ControlTypes
  <2>2. QED
    BY <1>1, <1>3, <2>1 DEF RequestOK, CallOK, RefusalOK, RowsOK
<1>6. CASE Validate(r)
  <2>1. UNCHANGED conf
    BY <1>6 DEF Validate
  <2>2. \/ \E code \in {Refusal(r), "upstream_error", "price_changed", "tool_not_found"} :
             code # "none" /\ RefuseApproval(r, code)
        \/ Refusal(r) = "none" /\ Goto(r, "claim") /\ UNCHANGED rows
    BY <1>6 DEF Validate
  <2>3. CASE Refusal(r) = "none" /\ Goto(r, "claim") /\ UNCHANGED rows
    <3>1. /\ canonicalArgs(call[r].args) = canonicalArgs(conf[call[r].conf].args)
          /\ approverRole(call[r].principal) \in conf[call[r].conf].approvers
      BY <2>3 DEF Refusal
    <3>2. pc'[r] = "claim"
      BY <1>1, <2>3 DEF ControlTypes, Goto
    <3>3. CallOK(r)'
      BY <1>1, <1>2, <1>3, <2>1, <3>1, <3>2 DEF CallOK, Proposed
    <3>4. QED
      BY <1>1, <1>3, <2>3, <3>2, <3>3 DEF RequestOK, RefusalOK, RowsOK
  <2>4. ASSUME NEW code \in {Refusal(r), "upstream_error", "price_changed", "tool_not_found"},
               RefuseApproval(r, code)
        PROVE  RequestOK(r)'
    <3>1. code \in Answers \ {"ok", "proposed"}
      BY DEF Refusal, Answers
    <3>2. QED
      BY <1>5, <2>4, <3>1
  <2>5. QED
    BY <2>2, <2>3, <2>4
<1>7. CASE Execute(r)
  <2>1. pc' = [pc EXCEPT ![r] = "done"]
    BY <1>7, ApprovalStep
  <2>2. \/ /\ result' = [result EXCEPT ![r] = "ok"]
           /\ r \in McpRequests => rows' = [rows EXCEPT ![r] = Append(@, "tool.result")]
        \/ /\ \E code \in {"confirmation_not_found", "upstream_error"} :
                result' = [result EXCEPT ![r] = code]
           /\ r \in McpRequests => rows' = [rows EXCEPT ![r] = Append(@, "tool.error")]
    BY <1>1, <1>7, ApprovalStep
  <2>3. /\ pc'[r] = "done"
        /\ \/ /\ result'[r] = "ok"
              /\ r \in McpRequests => rows'[r] = <<"tool.call", "tool.result">>
           \/ /\ result'[r] \in {"confirmation_not_found", "upstream_error"}
              /\ r \in McpRequests => rows'[r] = <<"tool.call", "tool.error">>
    <3>1. pc'[r] = "done"
      BY <1>1, <2>1 DEF ControlTypes
    <3>2. ASSUME NEW event, r \in McpRequests, rows' = [rows EXCEPT ![r] = Append(@, event)]
          PROVE  rows'[r] = <<"tool.call", event>>
      <4>1. rows[r] = <<"tool.call">>
        BY <1>3, <3>2
      <4>2. rows'[r] = Append(rows[r], event)
        BY <1>1, <3>2 DEF ControlTypes
      <4>3. QED
        BY <4>1, <4>2, AppendToOne
    <3>3. CASE /\ result' = [result EXCEPT ![r] = "ok"]
               /\ r \in McpRequests => rows' = [rows EXCEPT ![r] = Append(@, "tool.result")]
      <4>1. result'[r] = "ok"
        BY <1>1, <3>3 DEF ControlTypes
      <4>2. QED
        BY <3>1, <3>2, <3>3, <4>1
    <3>4. CASE /\ \E code \in {"confirmation_not_found", "upstream_error"} :
                    result' = [result EXCEPT ![r] = code]
               /\ r \in McpRequests => rows' = [rows EXCEPT ![r] = Append(@, "tool.error")]
      <4>1. result'[r] \in {"confirmation_not_found", "upstream_error"}
        BY <1>1, <3>4 DEF ControlTypes
      <4>2. QED
        BY <3>1, <3>2, <3>4, <4>1
    <3>5. QED
      BY <2>2, <3>3, <3>4
  <2>4. QED
    BY <1>1, <1>3, <2>3 DEF RequestOK, CallOK, RefusalOK, RowsOK
<1>8. QED
  BY <1>6, <1>7

LEMMA AbortOK ==
  ASSUME IInv, NEW r \in Requests, Abort(r)
  PROVE  RequestOK(r)'
<1>1. ControlTypes /\ RequestOK(r) /\ pc[r] \notin {"new", "done"} /\ UNCHANGED call
  BY DEF IInv, Abort
<1>2. pc'[r] = "done" /\ result'[r] = "rolled_back" /\ call'[r] = call[r]
  BY <1>1 DEF Abort, Answer, Goto, ControlTypes
<1>3. QED
  BY <1>1, <1>2 DEF RequestOK, CallOK, RefusalOK, RowsOK

LEMMA InvNext == IInv /\ [Next]_vars => IInv'
<1> SUFFICES ASSUME IInv, [Next]_vars PROVE IInv'
  OBVIOUS
<1>1. CASE UNCHANGED vars
  BY <1>1 DEF vars, IInv, RowTypes, ControlTypes, Proposals, Effects, ProposedTldsAreAllowed,
     RequestOK, CallOK, RefusalOK, RowsOK, Proposed, PrincipalOf, Senders
<1>2. CASE Next
  <2>1. RowTypes' /\ ControlTypes'
    BY <1>2, TypesStay
  <2>2. Proposals' /\ ProposedTldsAreAllowed' /\ Effects'
    BY <1>2, ProposalsStay, EffectsHold
  <2>3. ASSUME NEW q \in Requests PROVE RequestOK(q)'
    <3>1. CASE UNCHANGED <<pc, call, result, rows, ran>>
      BY <1>2, <3>1, Bystander DEF Senders
    <3>2. ASSUME NEW r \in Requests, Acts(r), q # r PROVE RequestOK(q)'
      <4>1. /\ pc'[q] = pc[q] /\ call'[q] = call[q] /\ result'[q] = result[q]
            /\ rows'[q] = rows[q]
        BY <3>2, OthersStay DEF IInv
      <4>2. q \in Senders' => q \in Senders
        BY <3>2 DEF Acts, Senders
      <4>3. QED
        BY <1>2, <4>1, <4>2, Bystander
    <3>3. CASE StepOf(q)
      BY <1>2, <3>3, DispatchOK, CallerOK, BeginDashOK, ApproverOK, AbortOK DEF StepOf
    <3>4. QED
      BY <1>2, <3>1, <3>2, <3>3, OneActs
  <2>4. QED
    BY <2>1, <2>2, <2>3 DEF IInv
<1>3. QED
  BY <1>1, <1>2

-----------------------------------------------------------------------------
(* Theorems *)

LEMMA InvHolds == Spec => []IInv
BY InvInit, InvNext, PTL DEF Spec

\* Every variable keeps its type, for any requests, policies and arguments.
THEOREM GateTypes == Spec => []TypeOK
<1>1. IInv => TypeOK
  <2> SUFFICES ASSUME IInv PROVE TypeOK
    OBVIOUS
  <2>1. RowTypes /\ ControlTypes /\ \A r \in Requests : CallOK(r)
    BY DEF IInv, RequestOK
  <2>2. \A c \in Proposed :
          /\ conf[c].state \in {"open", "consumed", "expired"}
          /\ conf[c].tool \in DispatchTools /\ conf[c].estimate \in {0, 1}
          /\ conf[c].approvers \subseteq Roles
    BY <2>1, Proposal DEF ConfRow
  <2>3. \A r \in Requests : pc[r] \notin {"new", "done"} =>
          /\ call[r].tool \in DispatchTools
          /\ call[r].principal \in McpPrincipals \cup DashPrincipals
    BY <2>1 DEF CallOK, CallRow, Principals
  <2>4. \A r \in Requests : \A i \in DOMAIN rows[r] : rows[r][i] \in AuditEvents
    BY <2>1 DEF ControlTypes
  <2>5. \A e \in ran : e.request \in Requests /\ e.tool \in DispatchTools
    BY <2>1 DEF RowTypes, Effect
  <2>6. QED
    BY <2>1, <2>2, <2>3, <2>4, <2>5 DEF TypeOK, RowTypes, ControlTypes
<1>2. QED
  BY <1>1, InvHolds, PTL

\* Whoever approves is a user, an owner or an admin: an API key has no role, and no
\* policy can name that of nobody.
LEMMA ApproversAreUsers ==
  ASSUME NEW p \in Principals, NEW approvers \in SUBSET Roles, approverRole(p) \in approvers
  PROVE  p.kind = "user" /\ p.role \in approvers /\ callerRole(p) \notin Readers
<1>1. p \in {Service(TRUE), Service(FALSE), User("owner"), User("admin")}
  BY DEF Principals, McpPrincipals, DashPrincipals, devPrincipal
<1>2. "" \notin approvers
  BY DEF Roles
<1>3. CASE p \in {Service(TRUE), Service(FALSE)}
  <2>1. p.kind # "user"
    <3>1. Service(TRUE).kind = "service" /\ Service(FALSE).kind = "service"
      BY DEF Service
    <3>2. QED
      BY <1>3, <3>1
  <2>2. QED
    BY <1>2, <2>1 DEF approverRole
<1>4. CASE p \in {User("owner"), User("admin")}
  <2>1. p.kind = "user" /\ p.role \in {"owner", "admin"}
    BY <1>4 DEF User
  <2>2. QED
    BY <2>1 DEF approverRole, callerRole, Readers
<1>5. QED
  BY <1>1, <1>3, <1>4

\* Whoever may only read changes nothing upstream: not by a call, and not by approving
\* somebody's proposal, under any policies.
THEOREM ReadersAreHarmless == Spec => []ReadersChangeNothing
<1>1. IInv => ReadersChangeNothing
  <2> SUFFICES ASSUME IInv, NEW e \in ran, Writes(e.tool)
               PROVE  callerRole(PrincipalOf(e)) \notin Readers
    BY DEF ReadersChangeNothing
  <2>1. e \in Effect /\ PrincipalOf(e) \in Principals
    BY DEF IInv, RowTypes, Effects, PrincipalOf, CallRow
  <2>2. CASE e.conf = NoConf
    <3>1. LetsThrough(e.policy, e.tool, PrincipalOf(e)) /\ ~isReadTool(e.tool)
      BY <2>1, <2>2, ReadToolsChangeNothing DEF IInv, Effects, Effect
    <3>2. QED
      BY <3>1, ReadersOnlyRead DEF LetsThrough
  <2>3. CASE e.conf # NoConf
    <3>1. /\ e.conf \in Proposed /\ conf[e.conf] \in ConfRow
          /\ approverRole(PrincipalOf(e)) \in conf[e.conf].approvers
      BY <2>3, Proposal DEF IInv, Effects
    <3>2. QED
      BY <2>1, <3>1, ApproversAreUsers DEF ConfRow
  <2>4. QED
    BY <2>2, <2>3
<1>2. QED
  BY <1>1, InvHolds, PTL

\* A tool that a policy names as a confirm-mode tool runs only as a proposal that a
\* user of a role it names has approved, whatever else the policy says.
THEOREM PoliciesAreObeyed == Spec => []PolicyIsObeyed
<1>1. IInv => PolicyIsObeyed
  <2> SUFFICES ASSUME IInv, NEW e \in ran,
                      Name(e.tool) \in DOMAIN Doc(e.policy).rules,
                      Doc(e.policy).rules[Name(e.tool)].mode = "confirm"
               PROVE  /\ e.conf # NoConf
                      /\ PrincipalOf(e).kind = "user"
                      /\ PrincipalOf(e).role \in Doc(e.policy).rules[Name(e.tool)].approvers
    BY DEF PolicyIsObeyed
  <2>1. PrincipalOf(e) \in Principals
    BY DEF IInv, RowTypes, Effects, PrincipalOf, CallRow
  <2>2. e.conf # NoConf
    <3>1. ~LetsThrough(e.policy, e.tool, PrincipalOf(e))
      BY NamesComeFirst DEF LetsThrough, resolveToolMode
    <3>2. QED
      BY <3>1 DEF IInv, Effects
  <2>3. /\ e.conf \in Proposed /\ conf[e.conf] \in ConfRow
        /\ e.tool = conf[e.conf].tool /\ e.policy = conf[e.conf].policy
        /\ approverRole(PrincipalOf(e)) \in conf[e.conf].approvers
    BY <2>2, Proposal DEF IInv, Effects
  <2>4. conf[e.conf].approvers = Doc(e.policy).rules[Name(e.tool)].approvers
    BY <2>3, NamesComeFirst DEF IInv, Proposals
  <2>5. conf[e.conf].approvers \in SUBSET Roles
    BY <2>3 DEF ConfRow
  <2>6. QED
    BY <2>1, <2>2, <2>3, <2>4, <2>5, ApproversAreUsers
<1>2. QED
  BY <1>1, InvHolds, PTL

\* Between proposal and execution neither the tool nor a scalar argument changes.
THEOREM ScalarsStayBound == Spec => []ScalarsAreBound
<1>1. IInv => ScalarsAreBound
  BY DEF IInv, Effects, ScalarsAreBound
<1>2. QED
  BY <1>1, InvHolds, PTL

\* No proposal of a registration names a TLD that the policy it was decided under
\* refuses.
THEOREM TldsAreChecked == Spec => []ProposedTldsAreAllowed
<1>1. IInv => ProposedTldsAreAllowed
  BY DEF IInv
<1>2. QED
  BY <1>1, InvHolds, PTL

\* Every tool of tools/list is known to the dispatcher, and none is denied to an owner
\* under the policy of a new tenant.
THEOREM CatalogCanBeCalled == Spec => []CatalogIsCallable
<1>1. IInv => CatalogIsCallable
  <2> SUFFICES ASSUME IInv, NEW r \in Callers, pc[r] = "done", call[r].tool \in CatalogTools
               PROVE  /\ result[r] # "tool_not_found"
                      /\ call[r].policy = Default /\ call[r].principal = devPrincipal =>
                           result[r] # "policy_denied"
    BY DEF CatalogIsCallable
  <2>1. RefusalOK(r)
    BY DEF IInv, RequestOK, Requests, McpRequests
  <2>2. call[r].tool \notin META_TOOLS =>
          resolveToolMode(DEFAULT_POLICY, call[r].tool, "owner") # "deny"
    BY DefaultDeniesOwnersNothing DEF META_TOOLS
  <2>3. callerRole(devPrincipal) = "owner" /\ Doc(Default) = DEFAULT_POLICY
    BY PoliciesAssumption DEF callerRole, devPrincipal, User
  <2>4. QED
    BY <2>1, <2>2, <2>3, CatalogIsKnown DEF RefusalOK
<1>2. QED
  BY <1>1, InvHolds, PTL

\* The audit rows of an answered call tell its outcome, and what reached the upstream
\* was announced before.
THEOREM AnswersLeaveRows == Spec => []AnswersAreAudited
<1>1. IInv => AnswersAreAudited
  <2> SUFFICES ASSUME IInv, NEW r \in McpRequests, pc[r] = "done",
                      result[r] \notin {"tool_not_found", "rolled_back"}
               PROVE  /\ rows[r] = <<>> => result[r] = "upstream_error"
                      /\ rows[r] # <<>> =>
                           rows[r][Len(rows[r])] = CASE result[r] = "ok" -> "tool.result"
                                             [] result[r] = "proposed" -> "tool.call"
                                             [] OTHER -> "tool.error"
                      /\ (\E e \in ran : e.request = r) =>
                           rows[r] # <<>> /\ rows[r][1] = "tool.call"
    BY DEF AnswersAreAudited
  <2> DEFINE last == CASE result[r] = "ok" -> "tool.result"
                       [] result[r] = "proposed" -> "tool.call"
                       [] OTHER -> "tool.error"
  <2>1. last = IF result[r] = "ok" THEN "tool.result"
               ELSE IF result[r] = "proposed" THEN "tool.call" ELSE "tool.error"
    BY Zenon
  <2> HIDE DEF last
  <2>2. \/ result[r] = "upstream_error" /\ rows[r] = <<>> /\ r \notin Senders
        \/ result[r] \notin {"ok", "proposed"} /\ rows[r] = <<"tool.error">> /\ r \notin Senders
        \/ result[r] = "proposed" /\ rows[r] = <<"tool.call">>
        \/ result[r] \notin {"ok", "proposed"} /\ rows[r] = <<"tool.call", "tool.error">>
        \/ result[r] = "ok" /\ rows[r] = <<"tool.call", "tool.result">>
    BY DEF IInv, RequestOK, RowsOK, Requests
  <2>3. /\ rows[r] = <<>> => result[r] = "upstream_error"
        /\ rows[r] # <<>> => rows[r][Len(rows[r])] = last
        /\ r \in Senders => rows[r] # <<>> /\ rows[r][1] = "tool.call"
    <3>1. CASE rows[r] = <<>> /\ result[r] = "upstream_error" /\ r \notin Senders
      BY <3>1
    <3>2. CASE result[r] \notin {"ok", "proposed"} /\ rows[r] = <<"tool.error">> /\ r \notin Senders
      BY <2>1, <3>2
    <3>3. CASE result[r] = "proposed" /\ rows[r] = <<"tool.call">>
      BY <2>1, <3>3
    <3>4. CASE result[r] \notin {"ok", "proposed"} /\ rows[r] = <<"tool.call", "tool.error">>
      BY <2>1, <3>4
    <3>5. CASE result[r] = "ok" /\ rows[r] = <<"tool.call", "tool.result">>
      BY <2>1, <3>5
    <3>6. QED
      BY <2>2, <3>1, <3>2, <3>3, <3>4, <3>5
  <2>4. QED
    BY <2>3 DEF last, Senders
<1>2. QED
  BY <1>1, InvHolds, PTL
=============================================================================
