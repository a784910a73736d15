----------------------------- MODULE MCAccounts -----------------------------
(* Small instances of Accounts.  A tenant t1 is there at the start, with one
   owner, with three, or with two and an admin; t2 can be signed up.  *)
EXTENDS Accounts, TLC

CONSTANTS t1, t2, e1, e2, e3, i1, x1, k1, r1, r2, r3

Members(owners, admins) ==
  [u \in Users |-> CASE u \in owners -> "owner"
                    [] u \in admins -> "admin"
                    [] OTHER -> NoRole]
SomeMembers == {Members({<<t1, e1>>, <<t1, e2>>}, {<<t1, e3>>}),
                Members({<<t1, e1>>, <<t1, e2>>, <<t1, e3>>}, {}),
                Members({<<t1, e1>>}, {})}

Sym == Permutations(Requests)
=============================================================================
