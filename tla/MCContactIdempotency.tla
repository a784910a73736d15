------------------------- MODULE MCContactIdempotency -------------------------
(* ContactIdempotency for TLC: two callers with a dashboard approval, or three
   callers with one contact. *)
EXTENDS ContactIdempotency, TLC

CONSTANTS c1, c2, c3, d1, none
MCCallers == {c1, c2, c3}
MCTwo == {c1, c2}
MCDashboard == {d1}
MCNobody == {}
MCArgs == {[scalars |-> "a", nested |-> "x"], [scalars |-> "b", nested |-> "y"]}
MCOneArgs == {[scalars |-> "a", nested |-> "x"]}
=============================================================================
