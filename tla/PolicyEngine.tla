---------------------------- MODULE PolicyEngine ----------------------------
(***************************************************************************)
(* What a tenant's policy says of a call: src/policies/schema.ts,          *)
(* engine.ts and the pricers.  Operators only, no state.                   *)
(*                                                                         *)
(* A policy is its limit, its lists of TLDs and its rules: a function from *)
(* keys to a mode and the roles that may approve.  A key is the name of a  *)
(* tool, all the names of one first word ("list_*"), or every name ("*").  *)
(*                                                                         *)
(* Money is abstracted to 0 and 1: a billable call costs 1, a limit of 1   *)
(* is enough for one of them.                                              *)
(*                                                                         *)
(* The arguments of a call are [flat, objects]: the scalars, and what the  *)
(* nested objects hold, NoObjects when all are left out.  For a tool whose *)
(* objects include a domain, that is the TLD.                              *)
(***************************************************************************)
EXTENDS Integers, ToolRegistry

Roles == {"owner", "admin", "operator", "viewer", "auditor"}
Modes == {"allow", "confirm"}
DefaultApprovers == {"owner", "admin"}
Wild == "*"

Rule(mode, approvers) == [mode |-> mode, approvers |-> approvers]
Rules(keys, mode) == [k \in keys |-> Rule(mode, DefaultApprovers)]
Name(t) == <<t.verb, t.noun>>
Names(tools) == {Name(t) : t \in tools}

-----------------------------------------------------------------------------
(* The policy of a new tenant *)

AllowedByDefault ==
  {createCheckDomainTool, createCreateContactTool,
   createResetDomainAuthcodeTool, createApproveDomainTransferTool,
   createSendFoa1DomainTransferTool, createCreateDnsZoneTool,
   createUpdateDnsZoneTool, createCreateNameserverTool,
   createUpdateNameserverTool, createCreateNsGroupTool,
   createUpdateNsGroupTool, createCreateDnsTemplateTool,
   createCreateDomainTokenTool, createCreateTagTool,
   createUpdateSslOrderTool, createUpdateSslApproverEmailTool,
   createResendSslApproverEmailTool, createCreateCsrTool, createDecodeCsrTool,
   createCreateSslOtpTokenTool, createCreateCustomerTool,
   createUpdateCustomerTool, createCreateEmailTemplateTool,
   createUpdateEmailTemplateTool, createStartEmailVerificationTool,
   createRestartEmailVerificationTool, createCreateDmarcTool,
   createRetryDmarcTool, createDmarcSsoLoginTool,
   createSpamExpertsLoginUrlTool, createCreateSpamExpertsDomainTool,
   createUpdateSpamExpertsDomainTool, createUpdatePleskLicenseTool,
   createResetPleskHwidTool}

ConfirmedByDefault ==
  {createRegisterDomainTool, createUpdateDomainTool, createDeleteContactTool,
   createUpdateContactTool, createDeleteDomainTool,
   createRestartDomainOperationTool, createRenewDomainTool,
   createTransferDomainTool, createTradeDomainTool, createRestoreDomainTool,
   createDeleteDnsZoneTool, createDeleteNameserverTool,
   createDeleteNsGroupTool, createDeleteDnsTemplateTool, createDeleteTagTool,
   createCreateSslOrderTool, createRenewSslOrderTool,
   createReissueSslOrderTool, createCancelSslOrderTool,
   createDeleteCustomerTool, createDeleteEmailTemplateTool,
   createDeleteDmarcTool, createDeleteSpamExpertsDomainTool,
   createCreatePleskLicenseTool, createDeletePleskLicenseTool}

DEFAULT_POLICY ==
  [limit   |-> 0,
   allowed |-> {},
   denied  |-> {},
   rules   |-> Rules({"list", "get", "check", "suggest"} \X {Wild}, "allow")
               ++ Rules(Names(AllowedByDefault), "allow")
               ++ Rules(Names(ConfirmedByDefault), "confirm")]

-----------------------------------------------------------------------------
(* Which rule a tool falls under *)

\* Mutant: a wildcard is tried before the tool's own name.
WildcardFirst(policy, t) ==
  LET matching == {k \in DOMAIN policy.rules :
                     k \in {Name(t), <<t.verb, Wild>>, <<Wild, Wild>>}}
      wide == matching \ {Name(t)}
  IN [found |-> matching # {},
      key   |-> IF wide # {} THEN CHOOSE k \in wide : TRUE
                ELSE CHOOSE k \in matching : TRUE]

\* The tool's own name, or else the longest prefix that matches.
ruleFor(policy, t) ==
  LET has(k) == k \in DOMAIN policy.rules
      key == IF has(Name(t)) THEN Name(t)
             ELSE IF has(<<t.verb, Wild>>) THEN <<t.verb, Wild>>
             ELSE <<Wild, Wild>>
  IN [found |-> has(key), key |-> key]

toolMode(policy, t) ==
  LET rule == ruleFor(policy, t)
  IN IF rule.found THEN policy.rules[rule.key].mode ELSE "deny"

requiredApproverRoles(policy, t) ==
  LET rule == ruleFor(policy, t)
  IN IF rule.found THEN policy.rules[rule.key].approvers ELSE DefaultApprovers

-----------------------------------------------------------------------------
(* The engine *)

Readers == {"viewer", "auditor"}

isReadTool(t) == t.verb \in {"list", "get", "check", "suggest"}

BarredByRole(role, mode, t) ==
  role \in Readers /\ ~(mode = "allow" /\ isReadTool(t))

\* Mutant: the mode is the policy's, whoever calls.
ModeForAnyone(policy, t, role) == toolMode(policy, t)

resolveToolMode(policy, t, role) ==
  LET mode == toolMode(policy, t)
  IN IF BarredByRole(role, mode, t) THEN "deny" ELSE mode

NoObjects == "none"

\* Mutant: the TLDs are read from a field no schema has.
NoTlds(t, args) == {}

\* Only these two tools are asked for TLDs, and update_domain's schema has
\* no domain.
tldsOf(t, args) ==
  IF t \in {createRegisterDomainTool, createUpdateDomainTool}
       /\ "domain" \in SchemaOf(t).fields
    THEN {args.objects} \ {NoObjects}
    ELSE {}

TldRefused(policy, tld) ==
  \/ tld \in policy.denied
  \/ policy.allowed # {} /\ tld \notin policy.allowed

\* The reason of a denial, or "confirm" or "allow".
evaluate(policy, t, args, role, live, estimate) ==
  LET mode == toolMode(policy, t) IN
  IF mode = "deny" THEN "tool_not_permitted"
  ELSE IF BarredByRole(role, mode, t) THEN "insufficient_role"
  ELSE IF \E tld \in tldsOf(t, args) : TldRefused(policy, tld) THEN "tld_refused"
  ELSE IF estimate > 0 /\ live + estimate > policy.limit
         THEN "spend_cap_exceeded"
  ELSE mode

-----------------------------------------------------------------------------
(* Prices *)

\* A price in another currency, a product the catalog does not have, or an
\* error of the call itself.
Fails == -1

CheckPriced == {createRegisterDomainTool, createUpdateDomainTool}
OpPriced == {createRenewDomainTool, createTransferDomainTool,
             createRestoreDomainTool}
SslPriced == {createCreateSslOrderTool, createReissueSslOrderTool}
Billable == CheckPriced \cup OpPriced \cup SslPriced
              \cup {createRenewSslOrderTool, createCreatePleskLicenseTool}

\* Priced by domain: nothing to pay when the arguments have no domain or the
\* answer has no product.
ByDomain(t, args) ==
  IF "domain" \in SchemaOf(t).fields /\ args.objects # NoObjects
    THEN {0, 1, Fails} ELSE {0}

\* Priced from a catalog: there is a price or there is an error.
FromSslCatalog == {1, Fails}
FromSslOrder == {0} \cup FromSslCatalog
FromLicenses == {1, Fails}

price(t, args) ==
  CASE t \in CheckPriced \cup OpPriced -> ByDomain(t, args)
    [] t \in SslPriced -> FromSslCatalog
    [] t = createRenewSslOrderTool -> FromSslOrder
    [] t = createCreatePleskLicenseTool -> FromLicenses
    [] OTHER -> {0}
=============================================================================
