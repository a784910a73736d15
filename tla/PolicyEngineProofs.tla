-------------------------- MODULE PolicyEngineProofs --------------------------
(***************************************************************************)
(* Proofs about the policy engine and the lists of tools: the two gates of *)
(* a call agree, whatever the policy; a tool that is read by its name      *)
(* changes nothing; what the catalog announces is known and not denied.    *)
(***************************************************************************)
EXTENDS PolicyEngine, TLAPS

-----------------------------------------------------------------------------
(* Tools that are read by their name *)

\* The operations of the tools named list_, get_, check_ and suggest_, but for the
\* searches, which are sent as POST.
ReadOps ==
  {"listDomains", "getDomain", "listContacts", "getContact", "getDomainAuthcode",
   "listDnsZones", "getDnsZone", "listDnsZoneRecords", "listNameservers",
   "getNameserver", "listNsGroups", "getNsGroup", "listDnsTemplates",
   "getDnsTemplate", "listTlds", "getTld", "getDomainPrice", "listTags",
   "listSslProducts", "getSslProduct", "listSslOrders", "getSslOrder",
   "getSslApproverEmails", "listCustomers", "getCustomer", "listEmailTemplates",
   "listEmailVerificationDomains", "getDmarc", "listDmarcSubscriptions",
   "getSpamExpertsDomain", "listLicensePrices", "listLicenseItems",
   "listPleskLicenses", "getPleskLicense", "getPleskKey"}

\* A table sends a read with GET.
SendsReadsAsGet(ops) == \A op \in ReadOps : op \in DOMAIN ops => ops[op] = "GET"

LEMMA Overlay ==
  ASSUME NEW f, NEW g
  PROVE  /\ \A x : x \in DOMAIN (f ++ g) <=> x \in DOMAIN f \/ x \in DOMAIN g
         /\ SendsReadsAsGet(f) /\ SendsReadsAsGet(g) => SendsReadsAsGet(f ++ g)
BY DEF SendsReadsAsGet, ++

LEMMA ReadsAreGets ==
  \A op \in ReadOps : op \in DOMAIN Method /\ Method[op] = "GET"
<1>1. SendsReadsAsGet(DomainOps) /\ SendsReadsAsGet(DnsOps)
  BY DEF SendsReadsAsGet, ReadOps, DomainOps, DnsOps
<1>2. SendsReadsAsGet(CatalogOps) /\ SendsReadsAsGet(SslOps) /\ SendsReadsAsGet(CustomerOps)
  BY DEF SendsReadsAsGet, ReadOps, CatalogOps, SslOps, CustomerOps
<1>3. SendsReadsAsGet(EmailOps) /\ SendsReadsAsGet(DmarcOps) /\ SendsReadsAsGet(SpamExpertsOps)
  BY DEF SendsReadsAsGet, ReadOps, EmailOps, DmarcOps, SpamExpertsOps
<1>4. SendsReadsAsGet(LicenseOps) /\ SendsReadsAsGet(CheckOps)
  BY DEF SendsReadsAsGet, ReadOps, LicenseOps, CheckOps
<1>5. SendsReadsAsGet(Method)
  BY <1>1, <1>2, <1>3, <1>4, Overlay DEF Method
<1>6. ASSUME NEW op \in ReadOps PROVE op \in DOMAIN Method
  <2>1. \/ op \in DOMAIN DomainOps \/ op \in DOMAIN DnsOps \/ op \in DOMAIN CatalogOps
        \/ op \in DOMAIN SslOps \/ op \in DOMAIN CustomerOps \/ op \in DOMAIN EmailOps
        \/ op \in DOMAIN DmarcOps \/ op \in DOMAIN SpamExpertsOps \/ op \in DOMAIN LicenseOps
    BY DEF ReadOps, DomainOps, DnsOps, CatalogOps, SslOps, CustomerOps, EmailOps,
       DmarcOps, SpamExpertsOps, LicenseOps
  <2>2. QED
    BY <2>1, Overlay DEF Method
<1>7. QED
  BY <1>5, <1>6 DEF SendsReadsAsGet

LEMMA ReadToolsAreReads ==
  \A t \in DispatchTools : isReadTool(t) => t.op \in ReadOps \cup Searches \cup {NoOp}
BY DEF isReadTool, ReadOps, Searches, NoOp, DispatchTools, Tool,
   createCheckDomainTool, createListDomainsTool, createGetDomainTool,
   createListContactsTool, createGetContactTool, createRegisterDomainTool,
   createUpdateDomainTool, createCreateContactTool, createUpdateContactTool,
   createDeleteContactTool, createListPendingConfirmationsTool,
   createSuggestDomainTool, createGetDomainAuthcodeTool,
   createResetDomainAuthcodeTool, createApproveDomainTransferTool,
   createSendFoa1DomainTransferTool, createDeleteDomainTool,
   createRestartDomainOperationTool, createRenewDomainTool,
   createTransferDomainTool, createTradeDomainTool, createRestoreDomainTool,
   createListDnsZonesTool, createGetDnsZoneTool, createListDnsZoneRecordsTool,
   createListNameserversTool, createGetNameserverTool, createListNsGroupsTool,
   createGetNsGroupTool, createListDnsTemplatesTool, createGetDnsTemplateTool,
   createCreateDnsZoneTool, createUpdateDnsZoneTool, createCreateNameserverTool,
   createUpdateNameserverTool, createCreateNsGroupTool, createUpdateNsGroupTool,
   createCreateDnsTemplateTool, createCreateDomainTokenTool,
   createDeleteDnsZoneTool, createDeleteNameserverTool, createDeleteNsGroupTool,
   createDeleteDnsTemplateTool, createListTldsTool, createGetTldTool,
   createGetDomainPriceTool, createListTagsTool, createCreateTagTool,
   createDeleteTagTool, createListSslProductsTool, createGetSslProductTool,
   createListSslOrdersTool, createGetSslOrderTool, createGetSslApproverEmailsTool,
   createUpdateSslOrderTool, createUpdateSslApproverEmailTool,
   createResendSslApproverEmailTool, createCreateCsrTool, createDecodeCsrTool,
   createCreateSslOtpTokenTool, createCreateSslOrderTool, createRenewSslOrderTool,
   createReissueSslOrderTool, createCancelSslOrderTool, createListCustomersTool,
   createGetCustomerTool, createCreateCustomerTool, createUpdateCustomerTool,
   createDeleteCustomerTool, createListEmailTemplatesTool,
   createCreateEmailTemplateTool, createUpdateEmailTemplateTool,
   createDeleteEmailTemplateTool, createListEmailVerificationDomainsTool,
   createStartEmailVerificationTool, createRestartEmailVerificationTool,
   createGetDmarcTool, createListDmarcSubscriptionsTool, createCreateDmarcTool,
   createRetryDmarcTool, createDmarcSsoLoginTool, createDeleteDmarcTool,
   createGetSpamExpertsDomainTool, createSpamExpertsLoginUrlTool,
   createCreateSpamExpertsDomainTool, createUpdateSpamExpertsDomainTool,
   createDeleteSpamExpertsDomainTool, createListLicensePricesTool,
   createListLicenseItemsTool, createListPleskLicensesTool,
   createGetPleskLicenseTool, createGetPleskKeyTool, createCreatePleskLicenseTool,
   createUpdatePleskLicenseTool, createResetPleskHwidTool,
   createDeletePleskLicenseTool, createConfirmPendingTool

\* What is allowed by its name alone, to viewers and auditors too, changes nothing
\* at Openprovider, for any of the tools (isReadTool matches on the name).
THEOREM ReadToolsChangeNothing ==
  \A t \in DispatchTools : isReadTool(t) => ~Writes(t)
BY ReadToolsAreReads, ReadsAreGets DEF Writes

-----------------------------------------------------------------------------
(* The catalog *)

\* Every tool that tools/list announces is one of the dispatcher's.
THEOREM CatalogIsKnown == CatalogTools \subseteq DispatchTools
BY DEF CatalogTools, DispatchTools

LEMMA DefaultNamesCatalog ==
  \A t \in CatalogTools \ {createConfirmPendingTool} :
    \/ t.verb \in {"list", "get", "check", "suggest"}
    \/ t \in AllowedByDefault \cup ConfirmedByDefault
BY DEF CatalogTools, AllowedByDefault, ConfirmedByDefault, Tool,
   createCheckDomainTool, createListDomainsTool, createGetDomainTool,
   createListContactsTool, createGetContactTool, createListPendingConfirmationsTool,
   createSuggestDomainTool, createGetDomainAuthcodeTool, createListDnsZonesTool,
   createGetDnsZoneTool, createListDnsZoneRecordsTool, createListNameserversTool,
   createGetNameserverTool, createListNsGroupsTool, createGetNsGroupTool,
   createListDnsTemplatesTool, createGetDnsTemplateTool, createListTldsTool,
   createGetTldTool, createGetDomainPriceTool, createListTagsTool,
   createListSslProductsTool, createGetSslProductTool, createListSslOrdersTool,
   createGetSslOrderTool, createGetSslApproverEmailsTool, createListCustomersTool,
   createGetCustomerTool, createListEmailTemplatesTool,
   createListEmailVerificationDomainsTool, createGetDmarcTool,
   createListDmarcSubscriptionsTool, createGetSpamExpertsDomainTool,
   createListLicensePricesTool, createListLicenseItemsTool,
   createListPleskLicensesTool, createGetPleskLicenseTool, createGetPleskKeyTool

LEMMA VerbsOfWildcards ==
  \A t : t.verb \in {"list", "get", "check", "suggest"} =>
    <<t.verb, Wild>> \in DOMAIN DEFAULT_POLICY.rules
BY DEF DEFAULT_POLICY, Rules, ++

\* Under the policy of a new tenant an owner is denied no tool of the catalog: one
\* that no rule names is read by its name (confirm_pending is no tool of the engine).
THEOREM DefaultDeniesOwnersNothing ==
  \A t \in CatalogTools \ {createConfirmPendingTool} :
    resolveToolMode(DEFAULT_POLICY, t, "owner") # "deny"
<1> SUFFICES ASSUME NEW t \in CatalogTools \ {createConfirmPendingTool}
             PROVE  toolMode(DEFAULT_POLICY, t) # "deny"
  BY DEF resolveToolMode, BarredByRole, Readers
<1>1. \A k \in DOMAIN DEFAULT_POLICY.rules : DEFAULT_POLICY.rules[k].mode \in Modes
  BY DEF DEFAULT_POLICY, Rules, Rule, Modes, ++
<1>2. \/ Name(t) \in DOMAIN DEFAULT_POLICY.rules
      \/ <<t.verb, Wild>> \in DOMAIN DEFAULT_POLICY.rules
  <2>1. CASE t.verb \in {"list", "get", "check", "suggest"}
    BY <2>1, VerbsOfWildcards
  <2>2. CASE t \in AllowedByDefault \cup ConfirmedByDefault
    <3>1. Name(t) \in Names(AllowedByDefault) \cup Names(ConfirmedByDefault)
      BY <2>2 DEF Names
    <3>2. QED
      BY <3>1 DEF DEFAULT_POLICY, Rules, ++
  <2>3. QED
    BY <2>1, <2>2, DefaultNamesCatalog
<1>3. ruleFor(DEFAULT_POLICY, t).found
      /\ ruleFor(DEFAULT_POLICY, t).key \in DOMAIN DEFAULT_POLICY.rules
  BY <1>2 DEF ruleFor
<1>4. QED
  BY <1>1, <1>3 DEF toolMode, Modes

-----------------------------------------------------------------------------
(* The engine *)

\* The schema of PolicyDoc: a rule's mode is one of two, its approvers are roles.
WellFormed(policy) ==
  \A key \in DOMAIN policy.rules :
    /\ policy.rules[key].mode \in Modes /\ policy.rules[key].approvers \subseteq Roles

LEMMA ModesOfTools ==
  ASSUME NEW policy, WellFormed(policy), NEW t
  PROVE  /\ toolMode(policy, t) \in Modes \cup {"deny"}
         /\ requiredApproverRoles(policy, t) \subseteq Roles
<1>1. ruleFor(policy, t).found => ruleFor(policy, t).key \in DOMAIN policy.rules
  BY DEF ruleFor
<1>2. QED
  BY <1>1 DEF WellFormed, toolMode, requiredApproverRoles, DefaultApprovers, Roles

\* The gate at the dispatch and the gate at the proposal agree, whatever policy, tool,
\* arguments, caller and money: what one denies for its mode or its caller's role the
\* other denies too, and where the second lets a call pass it is in the mode the first
\* resolved (resolveToolMode, "the single gate the allow-mode dispatch path and the
\* confirm-mode propose path must agree on").
THEOREM GatesAgree ==
  ASSUME NEW policy, WellFormed(policy), NEW t, NEW args, NEW role, NEW live, NEW estimate
  PROVE  LET first == resolveToolMode(policy, t, role)
             second == evaluate(policy, t, args, role, live, estimate)
         IN  /\ first = "deny" <=> second \in {"tool_not_permitted", "insufficient_role"}
             /\ second \in Modes => second = first
             /\ second \in Modes \cup {"tool_not_permitted", "insufficient_role",
                                       "tld_refused", "spend_cap_exceeded"}
BY ModesOfTools DEF resolveToolMode, evaluate, Modes

\* A viewer or an auditor is let through to nothing but a read by its name that the
\* policy allows, at neither gate.
LEMMA ReadersOnlyRead ==
  ASSUME NEW policy, NEW t, NEW role \in Readers, resolveToolMode(policy, t, role) # "deny"
  PROVE  isReadTool(t) /\ resolveToolMode(policy, t, role) = "allow"
BY DEF resolveToolMode, BarredByRole

\* A rule that names a tool is the rule of the tool, whatever wildcards match it too.
LEMMA NamesComeFirst ==
  ASSUME NEW policy, NEW t, Name(t) \in DOMAIN policy.rules
  PROVE  /\ toolMode(policy, t) = policy.rules[Name(t)].mode
         /\ requiredApproverRoles(policy, t) = policy.rules[Name(t)].approvers
BY DEF toolMode, requiredApproverRoles, ruleFor

-----------------------------------------------------------------------------
(* Prices and the TLD of a registration *)

LEMMA PriceTypes == \A t, args : price(t, args) \subseteq {0, 1, Fails}
BY DEF price, ByDomain, FromSslCatalog, FromSslOrder, FromLicenses

LEMMA RegistrationHasDomain ==
  SchemaOf(createRegisterDomainTool) = Nested({"domain", "name_servers"}, TRUE)
<1> DEFINE Has(f) == /\ "registerDomain" \in DOMAIN f
                     /\ f["registerDomain"] = Nested({"domain", "name_servers"}, TRUE)
<1>1. Has(DomainSchemas)
  BY DEF DomainSchemas
<1>2. \A f, g : Has(f) => Has(f ++ g)
  BY DEF ++
<1> HIDE DEF Has
<1>3. Has(Schemas)
  BY <1>1, <1>2 DEF Schemas
<1>4. QED
  BY <1>3 DEF SchemaOf, createRegisterDomainTool, Tool, Has

LEMMA RegistrationTld ==
  \A args : tldsOf(createRegisterDomainTool, args) = {args.objects} \ {NoObjects}
BY RegistrationHasDomain DEF tldsOf, Nested
=============================================================================
