------------------------------- MODULE MCGate -------------------------------
(* A small instance of Gate: every tool, the default policy, one that has
   raised the limit and refuses a TLD, and one that mixes wildcards, names and
   approvers. *)
EXTENDS Gate, TLC

CONSTANTS p1, m1, d1, f1, f2

RaisedPolicy ==
  [DEFAULT_POLICY EXCEPT !.limit = 1, !.denied = {"xyz"}]

WildcardPolicy ==
  [limit   |-> 1,
   allowed |-> {"com"},
   denied  |-> {},
   rules   |->
     (<<"create", Wild>> :> Rule("allow", DefaultApprovers))
     @@ (<<"delete", Wild>> :> Rule("confirm", {"owner"}))
     @@ (<<Wild, Wild>> :> Rule("allow", DefaultApprovers))
     @@ (Name(createCreatePleskLicenseTool) :> Rule("confirm", {"admin"}))
     @@ (Name(createRegisterDomainTool) :> Rule("confirm", DefaultApprovers))]

SomePolicies == {"default", "raised", "wildcards"}
SomeDoc(p) == CASE p = "default" -> DEFAULT_POLICY
                [] p = "raised" -> RaisedPolicy
                [] p = "wildcards" -> WildcardPolicy

Sym == Permutations(Flats)
=============================================================================
