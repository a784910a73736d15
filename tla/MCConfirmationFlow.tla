------------------------ MODULE MCConfirmationFlow ------------------------
(* Small instances of ConfirmationFlow.  The tools stand for a billable tool
   both approval paths know (register), one only MCP knows (renew) and one
   without a price (contact).  *)
EXTENDS ConfirmationFlow, TLC

CONSTANTS c1, c2, c3, p1, p2, p3, m1, m2, d1, d2, register, renew, contact

OnePrice == [t \in Tools |-> IF t = contact THEN {0} ELSE {10}]

Owners == {"owner", "admin"}
EveryoneOwner == [r \in Requests |-> IF r \in Approvers THEN "owner" ELSE "operator"]
M1IsOperator == [r \in Requests |-> IF r = m1 THEN "operator" ELSE "owner"]
OwnerOrAdmin == [t \in Tools |-> Owners]
AllRoles == {"owner", "admin", "operator", "viewer", "auditor"}

RegisterOnly == [t \in Tools |-> {10}]
RegisterDrift == [t \in Tools |-> {10, 20}]

Sym == Permutations(Confs) \cup Permutations(Proposers)
         \cup Permutations(McpApprovers) \cup Permutations(DashApprovers)
===========================================================================
