----------------------------- MODULE MCAuditChain -----------------------------
(* Small instances of AuditChain. *)
EXTENDS AuditChain, TLC

CONSTANTS w1, w2, w3, s1, s2, s3

Sym == Permutations(Writers) \cup Permutations(Sealers)
===============================================================================
