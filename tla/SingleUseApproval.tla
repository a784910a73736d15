------------------------- MODULE SingleUseApproval -------------------------
(***************************************************************************)
(* What the confirmation machinery promises its users, without requests,   *)
(* transactions or locks: a proposal is executed by one approval at a      *)
(* time, an approval that fails or is rolled back leaves it open for       *)
(* another one, and once an approval has gone through nothing is executed  *)
(* for that proposal any more.                                             *)
(*                                                                         *)
(* The promise is worded in confirm-pending.ts ("Atomic claim - prevents   *)
(* concurrent double-execution", "Un-claim so a transient failure leaves   *)
(* the confirmation re-approvable").  Effects counts the operations the    *)
(* upstream provider has applied; an attempt whose answer was lost has     *)
(* applied some and still leaves the proposal open.                        *)
(***************************************************************************)
EXTENDS Integers

CONSTANTS Confs,        \* confirmation ids
          MaxAttempts   \* HTTP attempts one handler makes at most

VARIABLES status,       \* the life of each confirmation
          effects       \* operations applied upstream for each confirmation

vars == <<status, effects>>

Statuses == {"absent", "open", "executing", "executed", "done"}

Init == /\ status = [c \in Confs |-> "absent"]
        /\ effects = [c \in Confs |-> 0]

Move(c, from, to) == /\ status[c] = from
                     /\ status' = [status EXCEPT ![c] = to]

\* n of the attempts made upstream took effect.
Apply(c, n) == effects' = [effects EXCEPT ![c] = @ + n]

Propose(c) == Move(c, "absent", "open") /\ UNCHANGED effects

Start(c) == Move(c, "open", "executing") /\ UNCHANGED effects

\* The handler returned a result: at least the last attempt took effect.
Succeed(c) == /\ Move(c, "executing", "executed")
              /\ \E n \in 1 .. MaxAttempts : Apply(c, n)

\* The handler threw: no attempt was answered, some may have taken effect.
Fail(c) == /\ Move(c, "executing", "open")
           /\ \E n \in 0 .. MaxAttempts : Apply(c, n)

\* The approval was rolled back, before or after its result arrived.
Undo(c) == /\ status[c] \in {"executing", "executed"}
           /\ status' = [status EXCEPT ![c] = "open"]
           /\ UNCHANGED effects

Consume(c) == Move(c, "executed", "done") /\ UNCHANGED effects

Next == \E c \in Confs :
          \/ Propose(c) \/ Start(c) \/ Succeed(c)
          \/ Fail(c) \/ Undo(c) \/ Consume(c)

Spec == Init /\ [][Next]_vars
=============================================================================
