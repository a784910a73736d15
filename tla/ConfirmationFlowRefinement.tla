--------------------- MODULE ConfirmationFlowRefinement ---------------------
(***************************************************************************)
(* ConfirmationFlow implements SingleUseApproval: seen through the         *)
(* refinement mapping StatusOf, the requests, row locks, crashes and lost  *)
(* answers of the code are the abstract approval of a single-use proposal. *)
(***************************************************************************)
EXTENDS ConfirmationFlowProofs

\* What StatusOf says of a confirmation, in a state of the invariant.
StatusFacts ==
  \A c \in Confs :
    /\ conf[c].state \in {"absent", "inserting"} => StatusOf(c) = "absent"
    /\ conf[c].state = "consumed" => StatusOf(c) = "done"
    /\ \A r \in Approvers : Holds(r, c) =>
         /\ conf[c].state = "open"
         /\ pc[r] = "exec" => StatusOf(c) = "executing"
         /\ pc[r] \in {"settle", "commit"} => StatusOf(c) = "executed"
         /\ pc[r] = "unclaim" => StatusOf(c) = "open"
    /\ conf[c].state = "open" /\ (\A r \in Approvers : ~ Holds(r, c)) =>
         StatusOf(c) = "open"

LEMMA StatusLemma == IInv => StatusFacts
  <1> SUFFICES ASSUME IInv, NEW c \in Confs
               PROVE  /\ conf[c].state \in {"absent", "inserting"} => StatusOf(c) = "absent"
                      /\ conf[c].state = "consumed" => StatusOf(c) = "done"
                      /\ \A r \in Approvers : Holds(r, c) =>
                           /\ conf[c].state = "open"
                           /\ pc[r] = "exec" => StatusOf(c) = "executing"
                           /\ pc[r] \in {"settle", "commit"} => StatusOf(c) = "executed"
                           /\ pc[r] = "unclaim" => StatusOf(c) = "open"
                      /\ conf[c].state = "open" /\ (\A r \in Approvers : ~ Holds(r, c)) =>
                           StatusOf(c) = "open"
    BY DEF StatusFacts
  <1>1. conf[c].state \in {"absent", "inserting"} => StatusOf(c) = "absent"
    BY DEF StatusOf
  <1>2. conf[c].state = "consumed" => StatusOf(c) = "done"
    BY DEF StatusOf
  <1>3. ASSUME NEW r \in Approvers, Holds(r, c)
        PROVE  /\ conf[c].state = "open"
               /\ pc[r] = "exec" => StatusOf(c) = "executing"
               /\ pc[r] \in {"settle", "commit"} => StatusOf(c) = "executed"
               /\ pc[r] = "unclaim" => StatusOf(c) = "open"
    <2>1. conf[c].state = "open"
      BY <1>3 DEF Holds, IInv, WrittenRows, Requests
    <2>2. \A q \in Approvers : Holds(q, c) => q = r
      BY <1>3 DEF Holds, IInv, Exclusive, Requests
    <2>3. QED
      BY <1>3, <2>1, <2>2 DEF StatusOf, HeldAt
  <1>4. conf[c].state = "open" /\ (\A r \in Approvers : ~ Holds(r, c)) =>
          StatusOf(c) = "open"
    BY DEF StatusOf, HeldAt
  <1>5. QED
    BY <1>1, <1>2, <1>3, <1>4

LEMMA StatusLemmaNext == IInv' => StatusFacts'
  BY StatusLemma, PTL

\* A step of request r leaves the status of every confirmation it does not
\* hold, before or after, as it was.
LEMMA StatusFrame ==
  ASSUME NEW r \in Requests, NEW c \in Confs,
         conf'[c].state = conf[c].state,
         \A q \in Approvers \ {r} : /\ pc'[q] = pc[q]
                                    /\ wrow'[q] = wrow[q]
                                    /\ target'[q] = target[q],
         ~ Holds(r, c), ~ Holds(r, c)'
  PROVE  StatusOf(c)' = StatusOf(c)
  <1>1. ASSUME NEW q \in Approvers
        PROVE  /\ (Holds(q, c) /\ pc[q] = "exec") <=> (Holds(q, c)' /\ pc'[q] = "exec")
               /\ (Holds(q, c) /\ pc[q] \in {"settle", "commit"})
                     <=> (Holds(q, c)' /\ pc'[q] \in {"settle", "commit"})
    BY DEF Holds
  <1>2. QED
    BY <1>1 DEF StatusOf, HeldAt

Statuses == [c \in Confs |-> StatusOf(c)]

\* A step in which no claim is held by the moving request, and which leaves the
\* confirmations' states alone, stutters.
LEMMA QuietStutter ==
  ASSUME IInv, NEW r \in Requests,
         \A c \in Confs : conf'[c].state = conf[c].state,
         \A q \in Approvers \ {r} : /\ pc'[q] = pc[q]
                                    /\ wrow'[q] = wrow[q]
                                    /\ target'[q] = target[q],
         wrow[r] # "claimed", wrow'[r] # "claimed", effects' = effects
  PROVE  Statuses' = Statuses /\ effects' = effects
  <1>1. \A c \in Confs : StatusOf(c)' = StatusOf(c)
    BY StatusFrame DEF Holds
  <1>2. QED
    BY <1>1 DEF Statuses

\* The six kinds of abstract step.
LEMMA InitImplements == Init => Promise!Init
  <1> SUFFICES ASSUME Init PROVE Promise!Init
    OBVIOUS
  <1>1. \A c \in Confs : StatusOf(c) = "absent"
    BY DEF Init, NoRow, Row, StatusOf
  <1>2. QED
    BY <1>1 DEF Init, Promise!Init

\* A step that changes the status of one confirmation maps to the abstract
\* step that moves it.
LEMMA OneMove ==
  ASSUME NEW c \in Confs, NEW to,
         StatusOf(c)' = to,
         \A d \in Confs \ {c} : StatusOf(d)' = StatusOf(d)
  PROVE  Statuses' = [Statuses EXCEPT ![c] = to]
  BY DEF Statuses

\* An UPDATE that wins the claim starts an execution.
LEMMA ClaimImplements ==
  ASSUME IInv, IInv', NEW r \in Requests, NEW c \in Confs, target[r] = c,
         Claim(r)
  PROVE  Promise!Next \/ UNCHANGED <<Statuses, effects>>
  <1>1. /\ pc[r] = "claim" /\ r \in Approvers
        /\ wrow[r] = "none"
    BY PathOf, NothingWritten DEF Claim
  <1>2. /\ UNCHANGED <<conf, target, effects>>
        /\ \A q \in Approvers \ {r} : pc'[q] = pc[q] /\ wrow'[q] = wrow[q]
    BY DEF Claim, Finish, Goto, rows, history, IInv, TypeOK, Requests
  <1>3. CASE conf[c].state # "open"
    <2>1. wrow' = wrow
      BY <1>3 DEF Claim
    <2>2. QED
      BY <1>1, <1>2, <2>1, QuietStutter
  <1>4. CASE conf[c].state = "open"
    <2>1. wrow'[r] = "claimed" /\ pc'[r] = "exec"
      BY <1>4 DEF Claim, Goto, IInv, TypeOK
    <2>2. \A q \in Approvers : ~ Holds(q, c)
      BY <1>1 DEF Claim, ConfLocked, Holds, Requests
    <2>3. StatusOf(c) = "open"
      BY <1>1, <1>4, <2>2, StatusLemma DEF StatusFacts
    <2>4. StatusOf(c)' = "executing"
      BY <1>1, <1>2, <2>1, StatusLemmaNext DEF StatusFacts, Holds
    <2>5. \A d \in Confs \ {c} : StatusOf(d)' = StatusOf(d)
      BY <1>2, StatusFrame DEF Holds
    <2>6. Statuses' = [Statuses EXCEPT ![c] = "executing"]
      BY <1>1, <2>4, <2>5, OneMove
    <2>7. Promise!Start(c)
      BY <1>1, <1>2, <2>3, <2>6 DEF Promise!Start, Promise!Move, Statuses
    <2>8. QED
      BY <1>1, <2>7 DEF Promise!Next
  <1>5. QED
    BY <1>3, <1>4

\* The handler's outcome ends the execution.
LEMMA ExecuteImplements ==
  ASSUME IInv, IInv', NEW r \in Requests, NEW c \in Confs, target[r] = c,
         Execute(r)
  PROVE  Promise!Next
  <1>1. /\ pc[r] = "exec" /\ r \in Approvers
        /\ wrow[r] = "claimed"
    BY PathOf DEF Execute, IInv, Writes
  <1>2. PICK n \in 0 .. MaxAttempts, answered \in BOOLEAN :
          /\ answered => n > 0
          /\ effects' = [effects EXCEPT ![c] = @ + n]
          /\ pc' = [pc EXCEPT ![r] = IF answered THEN "settle" ELSE "unclaim"]
          /\ UNCHANGED <<conf, target, wrow>>
    BY DEF Execute, Goto, rows, writes
  <1>3. StatusOf(c) = "executing"
    BY <1>1, StatusLemma DEF StatusFacts, Holds
  <1>4. \A d \in Confs \ {c} : StatusOf(d)' = StatusOf(d)
    BY <1>2, StatusFrame DEF Holds, IInv, TypeOK, Requests
  <1>5. CASE answered
    <2>1. pc'[r] = "settle"
      BY <1>2, <1>5 DEF IInv, TypeOK
    <2>2. StatusOf(c)' = "executed"
      BY <1>1, <1>2, <2>1, StatusLemmaNext DEF StatusFacts, Holds
    <2>3. Statuses' = [Statuses EXCEPT ![c] = "executed"]
      BY <1>1, <1>4, <2>2, OneMove
    <2>4. n \in 1 .. MaxAttempts
      BY <1>2, <1>5, NumbersAssumption
    <2>5. Promise!Succeed(c)
      BY <1>1, <1>2, <1>3, <2>3, <2>4
      DEF Promise!Succeed, Promise!Move, Promise!Apply, Statuses
    <2>6. QED
      BY <1>1, <2>5 DEF Promise!Next
  <1>6. CASE ~ answered
    <2>1. pc'[r] = "unclaim"
      BY <1>2, <1>6 DEF IInv, TypeOK
    <2>2. StatusOf(c)' = "open"
      BY <1>1, <1>2, <2>1, StatusLemmaNext DEF StatusFacts, Holds
    <2>3. Statuses' = [Statuses EXCEPT ![c] = "open"]
      BY <1>1, <1>4, <2>2, OneMove
    <2>4. Promise!Fail(c)
      BY <1>1, <1>2, <1>3, <2>3
      DEF Promise!Fail, Promise!Move, Promise!Apply, Statuses
    <2>5. QED
      BY <1>1, <2>4 DEF Promise!Next
  <1>7. QED
    BY <1>5, <1>6

\* Settling a reservation is invisible: a successful execution stays executed,
\* a failed one stays open.
LEMMA SettleImplements ==
  ASSUME IInv, IInv', NEW r \in Requests, NEW c \in Confs, target[r] = c,
         SettleCommitted(r) \/ SettleReleased(r)
  PROVE  UNCHANGED <<Statuses, effects>>
  <1>1. /\ pc[r] \in {"settle", "unclaim"} /\ r \in Approvers
        /\ wrow[r] = "claimed" /\ pc'[r] = "commit"
    BY PathOf DEF SettleCommitted, SettleReleased, Finish, Goto, IInv, TypeOK, Writes
  <1>2. /\ UNCHANGED <<conf, target, effects>>
        /\ \A q \in Approvers \ {r} : pc'[q] = pc[q] /\ wrow'[q] = wrow[q]
    BY DEF SettleCommitted, SettleReleased, Finish, Goto, rows, history, IInv, TypeOK,
           Requests
  <1>3. \A d \in Confs \ {c} : StatusOf(d)' = StatusOf(d)
    BY <1>2, StatusFrame DEF Holds
  <1>4. CASE SettleCommitted(r)
    <2>1. pc[r] = "settle" /\ wrow' = wrow
      BY <1>4 DEF SettleCommitted
    <2>2. StatusOf(c) = "executed"
      BY <1>1, <2>1, StatusLemma DEF StatusFacts, Holds
    <2>3. StatusOf(c)' = "executed"
      BY <1>1, <1>2, <2>1, StatusLemmaNext DEF StatusFacts, Holds
    <2>4. QED
      BY <1>2, <1>3, <2>2, <2>3 DEF Statuses
  <1>5. CASE SettleReleased(r)
    <2>1. pc[r] = "unclaim" /\ wrow'[r] = "unclaimed"
      BY <1>5 DEF SettleReleased, IInv, TypeOK
    <2>2. StatusOf(c) = "open" /\ conf[c].state = "open"
      BY <1>1, <2>1, StatusLemma DEF StatusFacts, Holds
    <2>3. \A q \in Approvers : Holds(q, c) => q = r
      BY <1>1 DEF Holds, IInv, Exclusive, Requests
    <2>4. \A q \in Approvers : ~ Holds(q, c)'
      BY <1>2, <2>1, <2>3 DEF Holds
    <2>5. StatusOf(c)' = "open"
      BY <1>1, <1>2, <2>2, <2>4, StatusLemmaNext DEF StatusFacts, Holds
    <2>6. QED
      BY <1>2, <1>3, <2>2, <2>5 DEF Statuses
  <1>6. QED
    BY <1>4, <1>5

\* The commit of an insert opens a proposal, that of a claim consumes it; any
\* other commit is invisible.
LEMMA CommitImplements ==
  ASSUME IInv, IInv', NEW r \in Requests, Commit(r)
  PROVE  Promise!Next \/ UNCHANGED <<Statuses, effects>>
  <1>1. /\ UNCHANGED <<target, effects>> /\ wrow'[r] = "none"
        /\ \A q \in Approvers \ {r} : pc'[q] = pc[q] /\ wrow'[q] = wrow[q]
    BY DEF Commit, Unlock, Goto, IInv, TypeOK, Requests
  <1>2. \A d \in Confs : conf'[d].state = IF target[r] = d /\ wrow[r] # "none"
                                            THEN StateWritten(r) ELSE conf[d].state
    BY DEF Commit, IInv, TypeOK
  <1>3. \A d \in Confs : target[r] # d => StatusOf(d)' = StatusOf(d)
    BY <1>1, <1>2, StatusFrame DEF Holds
  <1>4. CASE wrow[r] = "none"
    BY <1>1, <1>2, <1>4, QuietStutter
  <1>5. CASE wrow[r] # "none"
    <2>1. PICK c \in Confs : target[r] = c
      BY <1>5 DEF IInv, Writes
    <2>2. CASE wrow[r] = "inserted"
      <3>1. conf[c].state = "inserting" /\ conf'[c].state = "open"
        BY <1>2, <2>1, <2>2 DEF StateWritten, IInv, WrittenRows
      <3>2. \A q \in Approvers : ~ Holds(q, c)
        BY <3>1, StatusLemma DEF StatusFacts
      <3>3. \A q \in Approvers : ~ Holds(q, c)'
        BY <1>1, <3>2 DEF Holds
      <3>4. StatusOf(c) = "absent" /\ StatusOf(c)' = "open"
        BY <3>1, <3>3, StatusLemma, StatusLemmaNext DEF StatusFacts
      <3>5. Statuses' = [Statuses EXCEPT ![c] = "open"]
        BY <1>3, <2>1, <3>4, OneMove
      <3>6. Promise!Propose(c)
        BY <1>1, <3>4, <3>5 DEF Promise!Propose, Promise!Move, Statuses
      <3>7. QED
        BY <3>6 DEF Promise!Next
    <2>3. CASE wrow[r] = "claimed"
      <3>1. r \in Approvers /\ pc[r] = "commit" /\ conf'[c].state = "consumed"
        BY <1>2, <2>1, <2>3 DEF StateWritten, Commit, IInv, Writes
      <3>2. StatusOf(c) = "executed" /\ StatusOf(c)' = "done"
        BY <2>1, <2>3, <3>1, StatusLemma, StatusLemmaNext DEF StatusFacts, Holds
      <3>3. Statuses' = [Statuses EXCEPT ![c] = "done"]
        BY <1>3, <2>1, <3>2, OneMove
      <3>4. Promise!Consume(c)
        BY <1>1, <3>2, <3>3 DEF Promise!Consume, Promise!Move, Statuses
      <3>5. QED
        BY <3>4 DEF Promise!Next
    <2>4. CASE wrow[r] = "unclaimed"
      <3>1. r \in Approvers /\ conf[c].state = "open" /\ conf'[c].state = "open"
        BY <1>2, <2>1, <2>4 DEF StateWritten, IInv, Writes, WrittenRows
      <3>2. ~ Holds(r, c) /\ ~ Holds(r, c)'
        BY <1>1, <2>4 DEF Holds
      <3>3. StatusOf(c)' = StatusOf(c)
        BY <1>1, <3>1, <3>2, StatusFrame
      <3>4. QED
        BY <1>1, <1>3, <2>1, <3>3 DEF Statuses
    <2>5. QED
      BY <1>5, <2>2, <2>3, <2>4 DEF IInv, TypeOK, RowWrites
  <1>6. QED
    BY <1>4, <1>5

\* A roll-back undoes the execution its request holds, if any.
LEMMA AbortImplements ==
  ASSUME IInv, IInv', NEW r \in Requests, Abort(r)
  PROVE  Promise!Next \/ UNCHANGED <<Statuses, effects>>
  <1>1. /\ UNCHANGED <<target, effects>> /\ wrow'[r] = "none"
        /\ \A q \in Approvers \ {r} : pc'[q] = pc[q] /\ wrow'[q] = wrow[q]
    BY DEF Abort, history, Unlock, Goto, IInv, TypeOK, Requests
  <1>2. \A d \in Confs : conf'[d] = IF target[r] = d /\ wrow[r] = "inserted"
                                      THEN NoRow ELSE conf[d]
    BY DEF Abort
  <1>3. CASE wrow[r] \notin {"inserted", "claimed"}
    BY <1>1, <1>2, <1>3, QuietStutter
  <1>4. CASE wrow[r] = "inserted"
    <2>1. PICK c \in Confs : target[r] = c
      BY <1>4 DEF IInv, Writes
    <2>2. conf[c].state = "inserting" /\ conf'[c].state = "absent"
      <3>1. NoRow.state = "absent"
        BY DEF NoRow, Row
      <3>2. QED
        BY <1>2, <1>4, <2>1, <3>1 DEF IInv, WrittenRows
    <2>3. StatusOf(c) = "absent" /\ StatusOf(c)' = "absent"
      BY <2>2, StatusLemma, StatusLemmaNext DEF StatusFacts
    <2>4. \A d \in Confs \ {c} : StatusOf(d)' = StatusOf(d)
      BY <1>1, <1>2, <1>4, <2>1, StatusFrame DEF Holds
    <2>5. QED
      BY <1>1, <2>3, <2>4 DEF Statuses
  <1>5. CASE wrow[r] = "claimed"
    <2>1. PICK c \in Confs : target[r] = c
      BY <1>5 DEF IInv, Writes
    <2>2. /\ r \in Approvers /\ Holds(r, c) /\ ~ Holds(r, c)'
          /\ pc[r] \in ClaimPcs /\ conf' [c] = conf[c] /\ conf[c].state = "open"
      BY <1>1, <1>2, <1>5, <2>1 DEF Holds, IInv, Writes, WrittenRows
    <2>3. \A q \in Approvers : Holds(q, c) => q = r
      BY <2>2 DEF Holds, IInv, Exclusive, Requests
    <2>4. \A q \in Approvers : ~ Holds(q, c)'
      BY <1>1, <2>2, <2>3 DEF Holds
    <2>5. StatusOf(c)' = "open"
      BY <2>2, <2>4, StatusLemmaNext DEF StatusFacts
    <2>6. \A d \in Confs \ {c} : StatusOf(d)' = StatusOf(d)
      BY <1>1, <1>2, <1>5, <2>1, StatusFrame DEF Holds
    <2>7. StatusOf(c) \in {"executing", "executed", "open"}
      BY <2>2, StatusLemma DEF StatusFacts, ClaimPcs
    <2>8. Statuses' = [Statuses EXCEPT ![c] = "open"]
      BY <2>5, <2>6, OneMove
    <2>9. CASE StatusOf(c) = "open"
      BY <1>1, <2>5, <2>6, <2>9 DEF Statuses
    <2>10. CASE StatusOf(c) # "open"
      <3>1. Promise!Undo(c)
        BY <1>1, <2>7, <2>8, <2>10 DEF Promise!Undo, Statuses
      <3>2. QED
        BY <3>1 DEF Promise!Next
    <2>11. QED
      BY <2>9, <2>10
  <1>6. QED
    BY <1>3, <1>4, <1>5

\* The remaining actions write neither a claim nor a row.
LEMMA OthersStutter ==
  ASSUME IInv, NEW r \in Requests,
         \/ Begin(r)
         \/ ProposalStep(r)
         \/ AuditCall(r) \/ Load(r) \/ Reprice(r) \/ RepriceFails(r) \/ Release(r)
  PROVE  UNCHANGED <<Statuses, effects>>
  <1>1. /\ effects' = effects
        /\ \A q \in Approvers \ {r} : /\ pc'[q] = pc[q]
                                      /\ wrow'[q] = wrow[q]
                                      /\ target'[q] = target[q]
    <2>1. CASE Begin(r)
      BY <2>1 DEF Begin, BeginProposal, BeginMcpApproval, BeginDashApproval, Goto, writes,
                  history, IInv, TypeOK, Requests
    <2>2. CASE ProposalStep(r)
      BY <2>2 DEF ProposalStep, LockPolicy, ReadSpend, Propose, ProposalFails,
                  AuditProposal, Finish, Goto, writes, history, IInv, TypeOK, Requests
    <2>3. CASE AuditCall(r) \/ Load(r) \/ Reprice(r) \/ RepriceFails(r) \/ Release(r)
      BY <2>3 DEF AuditCall, Load, Reprice, RepriceFails, Release, Finish, Goto, writes,
                  history, IInv, TypeOK, Requests
    <2>4. QED
      BY <2>1, <2>2, <2>3
  <1>2. wrow[r] # "claimed" /\ wrow'[r] # "claimed"
    <2>1. pc[r] \notin ClaimPcs
      BY DEF Begin, BeginProposal, BeginMcpApproval, BeginDashApproval, ProposalStep,
             LockPolicy, ReadSpend, Propose, ProposalFails, AuditProposal, AuditCall, Load,
             Reprice, RepriceFails, Release, ClaimPcs
    <2>2. wrow'[r] \in {wrow[r], "inserted"}
      BY DEF Begin, BeginProposal, BeginMcpApproval, BeginDashApproval, ProposalStep,
             LockPolicy, ReadSpend, Propose, ProposalFails, AuditProposal, AuditCall, Load,
             Reprice, RepriceFails, Release, writes, IInv, TypeOK
    <2>3. QED
      BY <2>1, <2>2 DEF IInv, Writes
  <1>3. CASE UNCHANGED conf
    BY <1>1, <1>2, <1>3, QuietStutter
  <1>4. CASE ~ UNCHANGED conf
    <2>1. PICK c \in Confs : /\ conf[c].state = "absent" /\ conf'[c].state = "inserting"
                             /\ \A d \in Confs \ {c} : conf'[d] = conf[d]
      <3>1. Propose(r)
        BY <1>4 DEF Begin, BeginProposal, BeginMcpApproval, BeginDashApproval, ProposalStep,
                    LockPolicy, ReadSpend, ProposalFails, AuditProposal, AuditCall, Load,
                    Reprice, RepriceFails, Release, rows
      <3>2. QED
        BY <1>4, <3>1 DEF Propose, Row, IInv, TypeOK
    <2>2. StatusOf(c) = "absent" /\ StatusOf(c)' = "absent"
      BY <2>1 DEF StatusOf
    <2>3. \A d \in Confs \ {c} : StatusOf(d)' = StatusOf(d)
      BY <1>1, <1>2, <2>1, StatusFrame DEF Holds
    <2>4. QED
      BY <1>1, <2>2, <2>3 DEF Statuses
  <1>5. QED
    BY <1>3, <1>4

LEMMA NextImplements ==
  ASSUME IInv, IInv', [Next]_vars
  PROVE  Promise!Next \/ UNCHANGED <<Statuses, effects>>
  <1>1. CASE Tick \/ Connect \/ UNCHANGED vars
    BY <1>1 DEF Tick, Connect, vars, rows, writes, history, Statuses, StatusOf, HeldAt, Holds
  <1>2. ASSUME NEW r \in Requests, Claim(r)
        PROVE  Promise!Next \/ UNCHANGED <<Statuses, effects>>
    <2>1. PICK c \in Confs : target[r] = c
      BY <1>2, PathOf DEF Claim
    <2>2. QED
      BY <1>2, <2>1, ClaimImplements
  <1>3. ASSUME NEW r \in Requests, Execute(r) PROVE Promise!Next
    <2>1. PICK c \in Confs : target[r] = c
      BY <1>3, PathOf DEF Execute
    <2>2. QED
      BY <1>3, <2>1, ExecuteImplements
  <1>4. ASSUME NEW r \in Requests, SettleCommitted(r) \/ SettleReleased(r)
        PROVE  UNCHANGED <<Statuses, effects>>
    <2>1. PICK c \in Confs : target[r] = c
      BY <1>4, PathOf DEF SettleCommitted, SettleReleased
    <2>2. QED
      BY <1>4, <2>1, SettleImplements
  <1>5. ASSUME NEW r \in Requests, Begin(r) \/ Step(r) \/ Abort(r)
        PROVE  Promise!Next \/ UNCHANGED <<Statuses, effects>>
    BY <1>2, <1>3, <1>4, <1>5, CommitImplements, AbortImplements, OthersStutter
    DEF Step, ApprovalStep
  <1>6. QED
    BY <1>1, <1>5 DEF Next

\* The code's approval machinery implements the single-use approval.
THEOREM Implements == Spec => KeepsPromise
  <1>1. Init => Promise!Init
    BY InitImplements
  <1>2. IInv /\ IInv' /\ [Next]_vars => [Promise!Next]_(Promise!vars)
    BY NextImplements DEF Promise!vars, Statuses
  <1>3. QED
    BY <1>1, <1>2, InvariantHolds, PTL DEF Spec, KeepsPromise, Promise!Spec
=============================================================================
