---------------------------- MODULE ToolRegistry ----------------------------
(***************************************************************************)
(* The tools of the MCP server and the calls they make upstream.           *)
(*                                                                         *)
(* Every create...Tool factory of src/tools/ has the same shape: a name, a *)
(* schema for its arguments, and a handler that parses them, takes a token *)
(* from the token manager and calls one operation of the Openprovider      *)
(* client.  A tool is therefore its name and that operation.  Policies     *)
(* match a name by its first word ("list_*"), so a name is a pair.         *)
(*                                                                         *)
(* Three lists are kept by hand: the tools of the dispatcher, the ones     *)
(* tools/list announces, and the ones the dashboard's approvals can run.   *)
(***************************************************************************)

\* The entries of f, and those that g has for other keys.
f ++ g == [x \in DOMAIN f \cup DOMAIN g |-> IF x \in DOMAIN f THEN f[x] ELSE g[x]]

Tool(verb, noun, op) == [verb |-> verb, noun |-> noun, op |-> op]

\* The two tools that call nothing upstream.
NoOp == "none"

-----------------------------------------------------------------------------
(* Domains and contacts *)

createCheckDomainTool == Tool("check", "domain", "checkDomain")
createListDomainsTool == Tool("list", "domains", "listDomains")
createGetDomainTool == Tool("get", "domain", "getDomain")
createListContactsTool == Tool("list", "contacts", "listContacts")
createGetContactTool == Tool("get", "contact", "getContact")
createRegisterDomainTool == Tool("register", "domain", "registerDomain")
createUpdateDomainTool == Tool("update", "domain", "updateDomain")
createCreateContactTool == Tool("create", "contact", "createContact")
createUpdateContactTool == Tool("update", "contact", "updateContact")
createDeleteContactTool == Tool("delete", "contact", "deleteContact")
createListPendingConfirmationsTool ==
  Tool("list", "pending_confirmations", NoOp)

-----------------------------------------------------------------------------
(* Domain lifecycle *)

createSuggestDomainTool == Tool("suggest", "domain", "suggestDomain")
createGetDomainAuthcodeTool ==
  Tool("get", "domain_authcode", "getDomainAuthcode")
createResetDomainAuthcodeTool ==
  Tool("reset", "domain_authcode", "resetDomainAuthcode")
createApproveDomainTransferTool ==
  Tool("approve", "domain_transfer", "approveDomainTransfer")
createSendFoa1DomainTransferTool ==
  Tool("send", "foa1_domain_transfer", "sendFoa1DomainTransfer")
createDeleteDomainTool == Tool("delete", "domain", "deleteDomain")
createRestartDomainOperationTool ==
  Tool("restart", "domain_operation", "restartDomainOperation")
createRenewDomainTool == Tool("renew", "domain", "renewDomain")
createTransferDomainTool == Tool("transfer", "domain", "transferDomain")
createTradeDomainTool == Tool("trade", "domain", "tradeDomain")
createRestoreDomainTool == Tool("restore", "domain", "restoreDomain")

-----------------------------------------------------------------------------
(* DNS *)

createListDnsZonesTool == Tool("list", "dns_zones", "listDnsZones")
createGetDnsZoneTool == Tool("get", "dns_zone", "getDnsZone")
createListDnsZoneRecordsTool ==
  Tool("list", "dns_zone_records", "listDnsZoneRecords")
createListNameserversTool == Tool("list", "nameservers", "listNameservers")
createGetNameserverTool == Tool("get", "nameserver", "getNameserver")
createListNsGroupsTool == Tool("list", "ns_groups", "listNsGroups")
createGetNsGroupTool == Tool("get", "ns_group", "getNsGroup")
createListDnsTemplatesTool == Tool("list", "dns_templates", "listDnsTemplates")
createGetDnsTemplateTool == Tool("get", "dns_template", "getDnsTemplate")
createCreateDnsZoneTool == Tool("create", "dns_zone", "createDnsZone")
createUpdateDnsZoneTool == Tool("update", "dns_zone", "updateDnsZone")
createCreateNameserverTool == Tool("create", "nameserver", "createNameserver")
createUpdateNameserverTool == Tool("update", "nameserver", "updateNameserver")
createCreateNsGroupTool == Tool("create", "ns_group", "createNsGroup")
createUpdateNsGroupTool == Tool("update", "ns_group", "updateNsGroup")
createCreateDnsTemplateTool ==
  Tool("create", "dns_template", "createDnsTemplate")
createCreateDomainTokenTool ==
  Tool("create", "domain_token", "createDomainToken")
createDeleteDnsZoneTool == Tool("delete", "dns_zone", "deleteDnsZone")
createDeleteNameserverTool == Tool("delete", "nameserver", "deleteNameserver")
createDeleteNsGroupTool == Tool("delete", "ns_group", "deleteNsGroup")
createDeleteDnsTemplateTool ==
  Tool("delete", "dns_template", "deleteDnsTemplate")

-----------------------------------------------------------------------------
(* TLDs, prices and tags *)

createListTldsTool == Tool("list", "tlds", "listTlds")
createGetTldTool == Tool("get", "tld", "getTld")
createGetDomainPriceTool == Tool("get", "domain_price", "getDomainPrice")
createListTagsTool == Tool("list", "tags", "listTags")
createCreateTagTool == Tool("create", "tag", "createTag")
createDeleteTagTool == Tool("delete", "tag", "deleteTag")

-----------------------------------------------------------------------------
(* SSL *)

createListSslProductsTool == Tool("list", "ssl_products", "listSslProducts")
createGetSslProductTool == Tool("get", "ssl_product", "getSslProduct")
createListSslOrdersTool == Tool("list", "ssl_orders", "listSslOrders")
createGetSslOrderTool == Tool("get", "ssl_order", "getSslOrder")
createGetSslApproverEmailsTool ==
  Tool("get", "ssl_approver_emails", "getSslApproverEmails")
createUpdateSslOrderTool == Tool("update", "ssl_order", "updateSslOrder")
createUpdateSslApproverEmailTool ==
  Tool("update", "ssl_approver_email", "updateSslApproverEmail")
createResendSslApproverEmailTool ==
  Tool("resend", "ssl_approver_email", "resendSslApproverEmail")
createCreateCsrTool == Tool("create", "csr", "createCsr")
createDecodeCsrTool == Tool("decode", "csr", "decodeCsr")
createCreateSslOtpTokenTool ==
  Tool("create", "ssl_otp_token", "createSslOtpToken")
createCreateSslOrderTool == Tool("create", "ssl_order", "createSslOrder")
createRenewSslOrderTool == Tool("renew", "ssl_order", "renewSslOrder")
createReissueSslOrderTool == Tool("reissue", "ssl_order", "reissueSslOrder")
createCancelSslOrderTool == Tool("cancel", "ssl_order", "cancelSslOrder")

-----------------------------------------------------------------------------
(* Customers *)

createListCustomersTool == Tool("list", "customers", "listCustomers")
createGetCustomerTool == Tool("get", "customer", "getCustomer")
createCreateCustomerTool == Tool("create", "customer", "createCustomer")
createUpdateCustomerTool == Tool("update", "customer", "updateCustomer")
createDeleteCustomerTool == Tool("delete", "customer", "deleteCustomer")

-----------------------------------------------------------------------------
(* Email, DMARC and SpamExperts *)

createListEmailTemplatesTool ==
  Tool("list", "email_templates", "listEmailTemplates")
createCreateEmailTemplateTool ==
  Tool("create", "email_template", "createEmailTemplate")
createUpdateEmailTemplateTool ==
  Tool("update", "email_template", "updateEmailTemplate")
createDeleteEmailTemplateTool ==
  Tool("delete", "email_template", "deleteEmailTemplate")
createListEmailVerificationDomainsTool ==
  Tool("list", "email_verification_domains", "listEmailVerificationDomains")
createStartEmailVerificationTool ==
  Tool("start", "email_verification", "startEmailVerification")
createRestartEmailVerificationTool ==
  Tool("restart", "email_verification", "restartEmailVerification")
createGetDmarcTool == Tool("get", "dmarc", "getDmarc")
createListDmarcSubscriptionsTool ==
  Tool("list", "dmarc_subscriptions", "listDmarcSubscriptions")
createCreateDmarcTool == Tool("create", "dmarc", "createDmarc")
createRetryDmarcTool == Tool("retry", "dmarc", "retryDmarc")
createDmarcSsoLoginTool == Tool("dmarc", "sso_login", "dmarcSsoLogin")
createDeleteDmarcTool == Tool("delete", "dmarc", "deleteDmarc")
createGetSpamExpertsDomainTool ==
  Tool("get", "spam_experts_domain", "getSpamExpertsDomain")
createSpamExpertsLoginUrlTool ==
  Tool("spam", "experts_login_url", "spamExpertsLoginUrl")
createCreateSpamExpertsDomainTool ==
  Tool("create", "spam_experts_domain", "createSpamExpertsDomain")
createUpdateSpamExpertsDomainTool ==
  Tool("update", "spam_experts_domain", "updateSpamExpertsDomain")
createDeleteSpamExpertsDomainTool ==
  Tool("delete", "spam_experts_domain", "deleteSpamExpertsDomain")

-----------------------------------------------------------------------------
(* Licenses *)

createListLicensePricesTool ==
  Tool("list", "license_prices", "listLicensePrices")
createListLicenseItemsTool == Tool("list", "license_items", "listLicenseItems")
createListPleskLicensesTool ==
  Tool("list", "plesk_licenses", "listPleskLicenses")
createGetPleskLicenseTool == Tool("get", "plesk_license", "getPleskLicense")
createGetPleskKeyTool == Tool("get", "plesk_key", "getPleskKey")
createCreatePleskLicenseTool ==
  Tool("create", "plesk_license", "createPleskLicense")
createUpdatePleskLicenseTool ==
  Tool("update", "plesk_license", "updatePleskLicense")
createResetPleskHwidTool == Tool("reset", "plesk_hwid", "resetPleskHwid")
createDeletePleskLicenseTool ==
  Tool("delete", "plesk_license", "deletePleskLicense")

-----------------------------------------------------------------------------
(* Confirmation *)

createConfirmPendingTool == Tool("confirm", "pending", NoOp)

-----------------------------------------------------------------------------
(* The three lists *)

\* Mutant: the tools of the later batches are missing.
FirstTools ==
  {createCheckDomainTool, createListDomainsTool, createGetDomainTool,
   createListContactsTool, createGetContactTool, createRegisterDomainTool,
   createUpdateDomainTool, createCreateContactTool, createUpdateContactTool,
   createDeleteContactTool, createListPendingConfirmationsTool,
   createConfirmPendingTool}

\* tools/call: the list dispatchFactory builds for every request.
DispatchTools ==
  {createCheckDomainTool, createListDomainsTool, createGetDomainTool,
   createListContactsTool, createGetContactTool, createRegisterDomainTool,
   createUpdateDomainTool, createCreateContactTool, createUpdateContactTool,
   createDeleteContactTool, createListPendingConfirmationsTool,
   createSuggestDomainTool, createGetDomainAuthcodeTool,
   createResetDomainAuthcodeTool, createApproveDomainTransferTool,
   createSendFoa1DomainTransferTool, createDeleteDomainTool,
   createRestartDomainOperationTool, createRenewDomainTool,
   createTransferDomainTool, createTradeDomainTool, createRestoreDomainTool,
   createListDnsZonesTool, createGetDnsZoneTool, createListDnsZoneRecordsTool,
   createListNameserversTool, createGetNameserverTool, createListNsGroupsTool,
   createGetNsGroupTool, createListDnsTemplatesTool, createGetDnsTemplateTool,
   createCreateDnsZoneTool, createUpdateDnsZoneTool,
   createCreateNameserverTool, createUpdateNameserverTool,
   createCreateNsGroupTool, createUpdateNsGroupTool,
   createCreateDnsTemplateTool, createCreateDomainTokenTool,
   createDeleteDnsZoneTool, createDeleteNameserverTool,
   createDeleteNsGroupTool, createDeleteDnsTemplateTool, createListTldsTool,
   createGetTldTool, createGetDomainPriceTool, createListTagsTool,
   createCreateTagTool, createDeleteTagTool, createListSslProductsTool,
   createGetSslProductTool, createListSslOrdersTool, createGetSslOrderTool,
   createGetSslApproverEmailsTool, createUpdateSslOrderTool,
   createUpdateSslApproverEmailTool, createResendSslApproverEmailTool,
   createCreateCsrTool, createDecodeCsrTool, createCreateSslOtpTokenTool,
   createCreateSslOrderTool, createRenewSslOrderTool,
   createReissueSslOrderTool, createCancelSslOrderTool,
   createListCustomersTool, createGetCustomerTool, createCreateCustomerTool,
   createUpdateCustomerTool, createDeleteCustomerTool,
   createListEmailTemplatesTool, createCreateEmailTemplateTool,
   createUpdateEmailTemplateTool, createDeleteEmailTemplateTool,
   createListEmailVerificationDomainsTool, createStartEmailVerificationTool,
   createRestartEmailVerificationTool, createGetDmarcTool,
   createListDmarcSubscriptionsTool, createCreateDmarcTool,
   createRetryDmarcTool, createDmarcSsoLoginTool, createDeleteDmarcTool,
   createGetSpamExpertsDomainTool, createSpamExpertsLoginUrlTool,
   createCreateSpamExpertsDomainTool, createUpdateSpamExpertsDomainTool,
   createDeleteSpamExpertsDomainTool, createListLicensePricesTool,
   createListLicenseItemsTool, createListPleskLicensesTool,
   createGetPleskLicenseTool, createGetPleskKeyTool,
   createCreatePleskLicenseTool, createUpdatePleskLicenseTool,
   createResetPleskHwidTool, createDeletePleskLicenseTool,
   createConfirmPendingTool}

\* tools/list: the static catalog.
CatalogTools ==
  {createCheckDomainTool, createListDomainsTool, createGetDomainTool,
   createListContactsTool, createGetContactTool, createRegisterDomainTool,
   createUpdateDomainTool, createCreateContactTool, createUpdateContactTool,
   createDeleteContactTool, createListPendingConfirmationsTool,
   createConfirmPendingTool, createSuggestDomainTool,
   createGetDomainAuthcodeTool, createResetDomainAuthcodeTool,
   createApproveDomainTransferTool, createSendFoa1DomainTransferTool,
   createDeleteDomainTool, createRestartDomainOperationTool,
   createRenewDomainTool, createTransferDomainTool, createTradeDomainTool,
   createRestoreDomainTool, createListDnsZonesTool, createGetDnsZoneTool,
   createListDnsZoneRecordsTool, createListNameserversTool,
   createGetNameserverTool, createListNsGroupsTool, createGetNsGroupTool,
   createListDnsTemplatesTool, createGetDnsTemplateTool,
   createCreateDnsZoneTool, createUpdateDnsZoneTool,
   createCreateNameserverTool, createUpdateNameserverTool,
   createCreateNsGroupTool, createUpdateNsGroupTool,
   createCreateDnsTemplateTool, createCreateDomainTokenTool,
   createDeleteDnsZoneTool, createDeleteNameserverTool,
   createDeleteNsGroupTool, createDeleteDnsTemplateTool, createListTldsTool,
   createGetTldTool, createGetDomainPriceTool, createListTagsTool,
   createCreateTagTool, createDeleteTagTool, createListSslProductsTool,
   createGetSslProductTool, createListSslOrdersTool, createGetSslOrderTool,
   createGetSslApproverEmailsTool, createUpdateSslOrderTool,
   createUpdateSslApproverEmailTool, createResendSslApproverEmailTool,
   createCreateCsrTool, createDecodeCsrTool, createCreateSslOtpTokenTool,
   createCreateSslOrderTool, createRenewSslOrderTool,
   createReissueSslOrderTool, createCancelSslOrderTool,
   createListCustomersTool, createGetCustomerTool, createCreateCustomerTool,
   createUpdateCustomerTool, createDeleteCustomerTool,
   createListEmailTemplatesTool, createCreateEmailTemplateTool,
   createUpdateEmailTemplateTool, createDeleteEmailTemplateTool,
   createListEmailVerificationDomainsTool, createStartEmailVerificationTool,
   createRestartEmailVerificationTool, createGetDmarcTool,
   createListDmarcSubscriptionsTool, createCreateDmarcTool,
   createRetryDmarcTool, createDmarcSsoLoginTool, createDeleteDmarcTool,
   createGetSpamExpertsDomainTool, createSpamExpertsLoginUrlTool,
   createCreateSpamExpertsDomainTool, createUpdateSpamExpertsDomainTool,
   createDeleteSpamExpertsDomainTool, createListLicensePricesTool,
   createListLicenseItemsTool, createListPleskLicensesTool,
   createGetPleskLicenseTool, createGetPleskKeyTool,
   createCreatePleskLicenseTool, createUpdatePleskLicenseTool,
   createResetPleskHwidTool, createDeletePleskLicenseTool}

\* The dashboard's approve route.
DashboardTools ==
  {createCheckDomainTool, createListDomainsTool, createGetDomainTool,
   createListContactsTool, createGetContactTool, createRegisterDomainTool,
   createUpdateDomainTool, createCreateContactTool, createUpdateContactTool,
   createDeleteContactTool, createListPendingConfirmationsTool}

-----------------------------------------------------------------------------
(* The operations of the client: the method each one sends. *)

\* /domains and /contacts
DomainOps ==
  [listDomains |-> "GET", getDomain |-> "GET", listContacts |-> "GET",
   getContact |-> "GET", registerDomain |-> "POST", updateDomain |-> "PUT",
   createContact |-> "POST", updateContact |-> "PUT",
   deleteContact |-> "DELETE", suggestDomain |-> "POST",
   getDomainAuthcode |-> "GET", resetDomainAuthcode |-> "POST",
   approveDomainTransfer |-> "POST", sendFoa1DomainTransfer |-> "POST",
   deleteDomain |-> "DELETE", restartDomainOperation |-> "POST",
   renewDomain |-> "POST", transferDomain |-> "POST",
   tradeDomain |-> "POST", restoreDomain |-> "POST"]

\* /dns
DnsOps ==
  [listDnsZones |-> "GET", getDnsZone |-> "GET",
   listDnsZoneRecords |-> "GET", listNameservers |-> "GET",
   getNameserver |-> "GET", listNsGroups |-> "GET", getNsGroup |-> "GET",
   listDnsTemplates |-> "GET", getDnsTemplate |-> "GET",
   createDnsZone |-> "POST", updateDnsZone |-> "PUT",
   createNameserver |-> "POST", updateNameserver |-> "PUT",
   createNsGroup |-> "POST", updateNsGroup |-> "PUT",
   createDnsTemplate |-> "POST", createDomainToken |-> "POST",
   deleteDnsZone |-> "DELETE", deleteNameserver |-> "DELETE",
   deleteNsGroup |-> "DELETE", deleteDnsTemplate |-> "DELETE"]

\* /tlds, prices and /tags
CatalogOps ==
  [listTlds |-> "GET", getTld |-> "GET", getDomainPrice |-> "GET",
   listTags |-> "GET", createTag |-> "POST", deleteTag |-> "DELETE"]

\* /ssl
SslOps ==
  [listSslProducts |-> "GET", getSslProduct |-> "GET",
   listSslOrders |-> "GET", getSslOrder |-> "GET",
   getSslApproverEmails |-> "GET", createSslOrder |-> "POST",
   renewSslOrder |-> "POST", reissueSslOrder |-> "POST",
   cancelSslOrder |-> "POST", updateSslOrder |-> "PUT",
   updateSslApproverEmail |-> "PUT", resendSslApproverEmail |-> "POST",
   createCsr |-> "POST", decodeCsr |-> "POST", createSslOtpToken |-> "POST"]

\* /customers
CustomerOps ==
  [listCustomers |-> "GET", getCustomer |-> "GET",
   createCustomer |-> "POST", updateCustomer |-> "PUT",
   deleteCustomer |-> "DELETE"]

\* /emails and email verification
EmailOps ==
  [listEmailTemplates |-> "GET", createEmailTemplate |-> "POST",
   updateEmailTemplate |-> "PUT", deleteEmailTemplate |-> "DELETE",
   listEmailVerificationDomains |-> "GET",
   startEmailVerification |-> "POST", restartEmailVerification |-> "POST"]

\* /easydmarcs
DmarcOps ==
  [getDmarc |-> "GET", listDmarcSubscriptions |-> "GET",
   createDmarc |-> "POST", retryDmarc |-> "POST", dmarcSsoLogin |-> "GET",
   deleteDmarc |-> "DELETE"]

\* /spam-expert
SpamExpertsOps ==
  [getSpamExpertsDomain |-> "GET", spamExpertsLoginUrl |-> "POST",
   createSpamExpertsDomain |-> "POST", updateSpamExpertsDomain |-> "PUT",
   deleteSpamExpertsDomain |-> "DELETE"]

\* /licenses
LicenseOps ==
  [listLicensePrices |-> "GET", listLicenseItems |-> "GET",
   listPleskLicenses |-> "GET", getPleskLicense |-> "GET",
   getPleskKey |-> "GET", createPleskLicense |-> "POST",
   updatePleskLicense |-> "PUT", resetPleskHwid |-> "POST",
   deletePleskLicense |-> "DELETE"]

\* The one operation behind the circuit breaker.
CheckOps ==
  [checkDomain |-> "POST"]

Method == DomainOps ++ DnsOps ++ CatalogOps ++ SslOps ++ CustomerOps
            ++ EmailOps ++ DmarcOps ++ SpamExpertsOps ++ LicenseOps ++ CheckOps

\* POST is also how a search is sent.
Searches == {"checkDomain", "suggestDomain"}

\* The tool changes something at Openprovider.
Writes(t) == /\ t.op # NoOp
             /\ Method[t.op] # "GET"
             /\ t.op \notin Searches

-----------------------------------------------------------------------------
(* The schemas: the fields of the arguments that are objects, or lists of
   objects, and whether one of them is required.  The others are scalars. *)

Nested(fields, required) == [fields |-> fields, required |-> required]
Flat == Nested({}, FALSE)

\* Search, read, register and update
DomainSchemas ==
  [checkDomain |-> Nested({"domains"}, TRUE),
   registerDomain |-> Nested({"domain", "name_servers"}, TRUE),
   updateDomain |-> Nested({"name_servers"}, FALSE)]

\* Contacts
ContactSchemas ==
  [createContact |-> Nested({"name", "phone", "address"}, TRUE),
   updateContact |-> Nested({"name", "phone", "address"}, FALSE)]

\* Domain lifecycle
LifecycleSchemas ==
  [resetDomainAuthcode |-> Nested({"domain"}, FALSE),
   approveDomainTransfer |-> Nested({"domain"}, FALSE),
   renewDomain |-> Nested({"domain"}, FALSE),
   transferDomain |-> Nested({"domain"}, TRUE),
   tradeDomain |-> Nested({"domain"}, TRUE),
   restoreDomain |-> Nested({"domain"}, FALSE),
   restartDomainOperation |-> Nested({"domain"}, FALSE)]

\* DNS
DnsSchemas ==
  [createDnsZone |-> Nested({"domain", "records"}, TRUE),
   updateDnsZone |-> Nested({"domain", "records"}, TRUE),
   createNsGroup |-> Nested({"name_servers"}, TRUE),
   updateNsGroup |-> Nested({"name_servers"}, TRUE),
   createDnsTemplate |-> Nested({"records"}, FALSE)]

\* Prices and tags
CatalogSchemas ==
  [getDomainPrice |-> Nested({"domain", "additional_data"}, TRUE)]

\* SSL
SslSchemas ==
  [createSslOrder |-> Nested({"domain_validation_methods"}, TRUE),
   updateSslOrder |-> Nested({"domain_validation_methods"}, TRUE),
   reissueSslOrder |-> Nested({"domain_validation_methods"}, TRUE)]

\* Customers
CustomerSchemas ==
  [createCustomer |->
     Nested({"name", "address", "phone", "fax", "tags",
             "additional_data", "extension_additional_data"}, TRUE),
   updateCustomer |->
     Nested({"name", "address", "phone", "fax", "tags",
             "additional_data", "extension_additional_data"}, FALSE)]

\* Email, DMARC, SpamExperts and licenses
EmailSchemas ==
  [getDmarc |-> Nested({"domain"}, TRUE),
   createEmailTemplate |-> Nested({"fields", "tags"}, FALSE),
   updateEmailTemplate |-> Nested({"fields", "tags"}, FALSE),
   createDmarc |-> Nested({"domain"}, TRUE),
   createSpamExpertsDomain |-> Nested({"destinations", "products"}, TRUE),
   updateSpamExpertsDomain |->
     Nested({"destinations", "products", "aliases"}, TRUE),
   createPleskLicense |-> Nested({"attached_keys"}, FALSE),
   updatePleskLicense |-> Nested({"attached_keys"}, FALSE)]

Schemas == DomainSchemas ++ ContactSchemas ++ LifecycleSchemas ++ DnsSchemas
             ++ CatalogSchemas ++ SslSchemas ++ CustomerSchemas ++ EmailSchemas

SchemaOf(t) == IF t.op \in DOMAIN Schemas THEN Schemas[t.op] ELSE Flat
=============================================================================
