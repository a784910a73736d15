----------------------- MODULE ConfirmationFlowProofs -----------------------
(***************************************************************************)
(* Theorems about ConfirmationFlow, for every set of requests,             *)
(* confirmations, tools and prices and every limit, lifetime and number of *)
(* attempts.                                                               *)
(***************************************************************************)
EXTENDS ConfirmationFlow, FiniteSetTheorems, TLAPS

ConfRecords == [state : ConfStates, tool : Tools, est : Nat, expires : Nat]

LEMMA AmountsAreNat == Amounts \subseteq Nat /\ \A t \in Tools : PricesOf[t] \subseteq Nat
  BY ToolsAssumption DEF Amounts

LEMMA NoRowIsARow == NoRow \in ConfRecords
  <1>1. (CHOOSE t \in Tools : TRUE) \in Tools
    BY ToolsAssumption
  <1>2. QED
    BY <1>1 DEF NoRow, Row, ConfRecords, ConfStates

\* Every variable keeps its type: the initial states have it.
LEMMA InitTypeOK == Init => TypeOK
  BY NoRowIsARow DEF Init, TypeOK, ConfRecords, Pcs, ResvStates, RowWrites, Results

\* Every variable keeps its type: each step keeps it.
LEMMA StepTypeOK == TypeOK /\ [Next]_vars => TypeOK'
  <1> SUFFICES ASSUME TypeOK, [Next]_vars PROVE TypeOK'
    OBVIOUS
  <1> USE DEF TypeOK, env, rows, locks, writes, history, Goto, Finish, Pcs, Results,
              ResvStates, RowWrites
  <1>1. CASE UNCHANGED vars
    BY <1>1 DEF vars
  <1>2. ASSUME NEW r \in Requests, Begin(r) PROVE TypeOK'
    BY <1>2 DEF Begin, BeginProposal, BeginMcpApproval, BeginDashApproval
  <1>3. ASSUME NEW r \in Requests, ProposalStep(r) PROVE TypeOK'
    <2>1. CASE LockPolicy(r)
      BY <2>1 DEF LockPolicy
    <2>2. CASE ReadSpend(r)
      BY <2>2 DEF ReadSpend
    <2>3. CASE Propose(r)
      <3>1. conf' \in [Confs -> ConfRecords]
        <4>1. ASSUME NEW t \in Tools, NEW e \in Amounts
              PROVE  Row("inserting", t, e, now + TTL) \in ConfRecords
          BY AmountsAreNat, NumbersAssumption DEF Row, ConfRecords, ConfStates
        <4>2. CASE conf' = conf
          BY <4>2 DEF ConfRecords
        <4>3. CASE conf' # conf
          <5>1. PICK t \in Tools, e \in Amounts, c \in Confs :
                  conf' = [conf EXCEPT ![c] = Row("inserting", t, e, now + TTL)]
            BY <2>3, <4>3 DEF Propose
          <5>2. QED
            BY <5>1, <4>1 DEF ConfRecords
        <4>4. QED
          BY <4>2, <4>3
      <3>2. target' \in [Requests -> Confs \cup {NoConf}]
        BY <2>3 DEF Propose
      <3>3. wrow' \in [Requests -> RowWrites] /\ wresv' \in [Requests -> ResvStates]
        BY <2>3 DEF Propose
      <3>4. result' \in [Requests -> Results] /\ pc' \in [Requests -> Pcs]
        BY <2>3 DEF Propose
      <3>5. QED
        BY <2>3, <3>1, <3>2, <3>3, <3>4 DEF Propose, ConfRecords
    <2>4. CASE ProposalFails(r)
      BY <2>4 DEF ProposalFails
    <2>5. CASE AuditProposal(r)
      BY <2>5 DEF AuditProposal
    <2>6. QED
      BY <1>3, <2>1, <2>2, <2>3, <2>4, <2>5 DEF ProposalStep
  <1>4. ASSUME NEW r \in Requests, ApprovalStep(r) PROVE TypeOK'
    <2>1. CASE AuditCall(r)
      BY <2>1 DEF AuditCall
    <2>2. CASE Load(r)
      BY <2>2 DEF Load, Refusal
    <2>3. CASE Reprice(r)
      BY <2>3 DEF Reprice
    <2>4. CASE RepriceFails(r)
      BY <2>4 DEF RepriceFails
    <2>5. CASE Release(r)
      BY <2>5 DEF Release, SettleReservation
    <2>6. CASE Claim(r)
      BY <2>6 DEF Claim
    <2>7. CASE Execute(r)
      <3>1. effects' \in [Confs -> Nat]
        <4>1. PICK n \in 0 .. MaxAttempts :
                effects' = [effects EXCEPT ![target[r]] = @ + n]
          BY <2>7 DEF Execute
        <4>2. n \in Nat
          BY NumbersAssumption
        <4>3. \A c \in Confs : effects[c] + n \in Nat
          BY <4>2
        <4>4. QED
          BY <4>1, <4>3
      <3>2. QED
        BY <2>7, <3>1 DEF Execute
    <2>8. CASE SettleCommitted(r)
      BY <2>8 DEF SettleCommitted, SettleReservation
    <2>9. CASE SettleReleased(r)
      BY <2>9 DEF SettleReleased, SettleReservation
    <2>10. QED
      BY <1>4, <2>1, <2>2, <2>3, <2>4, <2>5, <2>6, <2>7, <2>8, <2>9
      DEF ApprovalStep
  <1>5. ASSUME NEW r \in Requests, Commit(r) PROVE TypeOK'
    <2>1. wrow[r] # "none" => StateWritten(r) \in ConfStates
      BY DEF StateWritten, ConfStates
    <2>2. conf' \in [Confs -> ConfRecords]
      BY <1>5, <2>1 DEF Commit, ConfRecords
    <2>3. resv' \in [Confs -> ResvStates] /\ late' \subseteq Confs
      BY <1>5 DEF Commit
    <2>4. QED
      BY <1>5, <2>2, <2>3 DEF Commit, Unlock, ConfRecords
  <1>6. ASSUME NEW r \in Requests, Abort(r) PROVE TypeOK'
    <2>1. conf' \in [Confs -> ConfRecords]
      BY <1>6, NoRowIsARow DEF Abort, ConfRecords
    <2>2. QED
      BY <1>6, <2>1 DEF Abort, AnswerAfterAbort, Unlock, ConfRecords
  <1>7. CASE Tick
    BY <1>7 DEF Tick
  <1>8. CASE Connect
    BY <1>8 DEF Connect
  <1>9. QED
    BY <1>1, <1>2, <1>3, <1>4, <1>5, <1>6, <1>7, <1>8 DEF Next, Step

\* Every variable keeps its type.
THEOREM TypeCorrect == Spec => []TypeOK
  BY InitTypeOK, StepTypeOK, PTL DEF Spec

-----------------------------------------------------------------------------
(* The inductive invariant *)

ProposerPcs == {"new", "lockPolicy", "readSpend", "decide", "auditProposal",
                "commit", "done"}
ApproverPcs == {"new", "auditCall", "preload", "load", "price", "release",
                "claim", "exec", "settle", "unclaim", "commit", "done"}
ClaimPcs == {"exec", "settle", "unclaim", "commit"}

\* A request follows the path of its kind, and an approver has a target.
Paths ==
  /\ \A r \in Proposers : pc[r] \in ProposerPcs
  /\ \A r \in Approvers : /\ pc[r] \in ApproverPcs
                          /\ pc[r] # "new" => target[r] \in Confs

\* What a transaction has written, and when.
Writes ==
  \A r \in Requests :
    /\ wrow[r] # "none" \/ wresv[r] # "none" => target[r] \in Confs
    /\ wrow[r] = "inserted" =>
         /\ r \in Proposers /\ pc[r] \in {"auditProposal", "commit"}
         /\ wresv[r] = "pending"
    /\ wrow[r] \in {"claimed", "unclaimed"} => r \in Approvers /\ pc[r] \in ClaimPcs
    /\ wrow[r] = "unclaimed" => pc[r] = "commit"
    /\ pc[r] \in {"exec", "settle", "unclaim"} =>
         wrow[r] = "claimed" /\ wresv[r] = "none"
    /\ wresv[r] = "pending" => wrow[r] = "inserted"
    /\ wresv[r] = "committed" => wrow[r] = "claimed"
    /\ wresv[r] \in {"committed", "released"} => r \in Approvers /\ pc[r] = "commit"

\* The row a transaction has written is still the one it wrote over.
WrittenRows ==
  \A r \in Requests :
    /\ wrow[r] = "inserted" => conf[target[r]].state = "inserting"
    /\ wrow[r] \in {"claimed", "unclaimed"} => conf[target[r]].state = "open"
    /\ wresv[r] \in {"committed", "released"} => resv[target[r]] = "pending"

\* Row locks are exclusive.
Exclusive ==
  \A q, r \in Requests :
    q # r /\ target[q] = target[r] =>
      /\ wrow[q] = "none" \/ wrow[r] = "none"
      /\ wresv[q] = "none" \/ wresv[r] = "none"

\* The two rows of a confirmation agree.
Ledger ==
  \A c \in Confs :
    /\ resv[c] = "none" <=> conf[c].state \in {"absent", "inserting"}
    /\ resv[c] = "pending" => conf[c].state = "open"
    /\ resv[c] = "committed" => conf[c].state = "consumed"
    /\ conf[c].state = "consumed" => effects[c] > 0

\* A transaction about to consume a confirmation has executed its tool and
\* leaves no hold behind.
Executed ==
  \A r \in Approvers :
    /\ pc[r] = "settle" => effects[target[r]] > 0
    /\ pc[r] = "commit" /\ wrow[r] = "claimed" =>
         /\ effects[target[r]] > 0
         /\ wresv[r] = "committed" \/ resv[target[r]] # "pending"

IInv == TypeOK /\ Paths /\ Writes /\ WrittenRows /\ Exclusive /\ Ledger /\ Executed

\* The parts of the invariant beyond types.
Core == Paths /\ Writes /\ WrittenRows /\ Exclusive /\ Ledger /\ Executed

\* The initial states satisfy the invariant.
LEMMA InitIInv == Init => IInv
  <1> SUFFICES ASSUME Init PROVE IInv
    OBVIOUS
  <1>1. TypeOK
    BY InitTypeOK
  <1>2. \A c \in Confs : conf[c].state = "absent"
    BY DEF Init, NoRow, Row
  <1>3. Core
    BY <1>1, <1>2, KindsAssumption
    DEF Init, Core, Paths, Writes, WrittenRows, Exclusive, Ledger, Executed,
        ProposerPcs, ApproverPcs, ClaimPcs, Requests, Approvers
  <1>4. QED
    BY <1>1, <1>3 DEF IInv, Core

\* A step that moves one request without writing a row keeps the invariant.
LEMMA QuietStep ==
  ASSUME IInv, NEW r \in Requests, NEW label \in Pcs,
         pc' = [pc EXCEPT ![r] = label],
         UNCHANGED <<conf, resv, target, writes, effects>>,
         r \in Proposers => label \in ProposerPcs,
         r \in Approvers => label \in ApproverPcs /\ target[r] \in Confs,
         label \notin {"exec", "settle", "unclaim"},
         wrow[r] = "inserted" => label = "commit",
         wrow[r] \notin {"claimed", "unclaimed"},
         wresv[r] \in {"none", "pending"}
  PROVE  Core'
  <1>1. Paths'
    BY DEF IInv, TypeOK, Paths, Requests
  <1>2. Writes'
    BY DEF IInv, TypeOK, Writes, writes, ClaimPcs
  <1>3. WrittenRows'
    BY DEF IInv, TypeOK, WrittenRows, writes
  <1>4. Exclusive'
    BY DEF IInv, Exclusive, writes
  <1>5. Ledger'
    BY DEF IInv, Ledger
  <1>6. Executed'
    BY DEF IInv, TypeOK, Executed, writes, Requests
  <1>7. QED
    BY <1>1, <1>2, <1>3, <1>4, <1>5, <1>6 DEF Core

\* A request that is not past its insert, its claim or its release has
\* written nothing.
LEMMA NothingWritten ==
  ASSUME IInv, NEW r \in Requests,
         pc[r] \notin {"auditProposal", "exec", "settle", "unclaim", "commit"}
  PROVE  wrow[r] = "none" /\ wresv[r] = "none"
  BY DEF IInv, TypeOK, Writes, RowWrites, ResvStates, ClaimPcs

LEMMA PathOf ==
  ASSUME IInv, NEW r \in Requests
  PROVE  /\ pc[r] \in {"lockPolicy", "readSpend", "decide", "auditProposal"}
              => r \in Proposers /\ r \notin Approvers
         /\ pc[r] \in {"auditCall", "preload", "load", "price", "release",
                       "claim", "exec", "settle", "unclaim"}
              => r \in Approvers /\ r \notin Proposers /\ target[r] \in Confs
  BY KindsAssumption DEF IInv, Paths, Requests, ProposerPcs, ApproverPcs

LEMMA BeginCore == ASSUME IInv, NEW r \in Requests, Begin(r) PROVE Core'
  <1>1. pc[r] = "new"
    BY DEF Begin, BeginProposal, BeginMcpApproval, BeginDashApproval
  <1>2. wrow[r] = "none" /\ wresv[r] = "none"
    BY <1>1, NothingWritten
  <1>3. CASE r \in Proposers /\ BeginProposal(r)
    BY <1>2, <1>3, QuietStep, KindsAssumption
    DEF BeginProposal, Goto, rows, writes, history, Pcs, ProposerPcs
  <1>4. ASSUME r \in Approvers, NEW c \in Confs, NEW label \in {"auditCall", "preload"},
               target' = [target EXCEPT ![r] = c],
               pc' = [pc EXCEPT ![r] = label],
               UNCHANGED <<rows, writes, effects>>
        PROVE  Core'
    <2>1. Paths'
      BY <1>4, KindsAssumption DEF IInv, TypeOK, Paths, Requests, ApproverPcs
    <2>2. Writes'
      BY <1>2, <1>4 DEF IInv, TypeOK, Writes, writes
    <2>3. WrittenRows'
      BY <1>2, <1>4 DEF IInv, TypeOK, WrittenRows, writes, rows
    <2>4. Exclusive'
      BY <1>2, <1>4 DEF IInv, TypeOK, Exclusive, writes
    <2>5. Ledger'
      BY <1>4 DEF IInv, Ledger, rows
    <2>6. Executed'
      BY <1>2, <1>4 DEF IInv, TypeOK, Executed, writes, rows, Requests
    <2>7. QED
      BY <2>1, <2>2, <2>3, <2>4, <2>5, <2>6 DEF Core
  <1>5. CASE r \in McpApprovers /\ BeginMcpApproval(r)
    BY <1>4, <1>5 DEF BeginMcpApproval, Goto, Approvers, history
  <1>6. CASE r \in DashApprovers /\ BeginDashApproval(r)
    BY <1>4, <1>6 DEF BeginDashApproval, Goto, Approvers, history
  <1>7. QED
    BY <1>3, <1>5, <1>6 DEF Begin

\* The insert of a proposal: the id is fresh, so nobody else targets it with
\* something written.
LEMMA InsertCore ==
  ASSUME IInv, NEW r \in Requests, Propose(r)
  PROVE  Core'
  <1>1. pc[r] = "decide" /\ r \in Proposers /\ r \notin Approvers
    BY PathOf DEF Propose
  <1>2. wrow[r] = "none" /\ wresv[r] = "none"
    BY <1>1, NothingWritten
  <1>3. pc' = [pc EXCEPT ![r] = "auditProposal"] /\ UNCHANGED <<resv, effects>>
    BY DEF Propose, Goto, history
  <1>4. CASE UNCHANGED <<conf, target, writes>>
    BY <1>1, <1>2, <1>3, <1>4, QuietStep DEF Pcs, ProposerPcs
  <1>5. CASE ~ UNCHANGED <<conf, target, writes>>
    <2>1. PICK c \in Confs, row \in ConfRecords :
            /\ conf[c].state = "absent"
            /\ row.state = "inserting"
            /\ conf' = [conf EXCEPT ![c] = row]
            /\ target' = [target EXCEPT ![r] = c]
            /\ wrow' = [wrow EXCEPT ![r] = "inserted"]
            /\ wresv' = [wresv EXCEPT ![r] = "pending"]
      <3>1. ASSUME NEW t \in Tools, NEW e \in Amounts
            PROVE  /\ Row("inserting", t, e, now + TTL) \in ConfRecords
                   /\ Row("inserting", t, e, now + TTL).state = "inserting"
        BY AmountsAreNat, NumbersAssumption
        DEF Row, ConfRecords, ConfStates, IInv, TypeOK
      <3>2. QED
        BY <1>5, <3>1 DEF Propose
    <2>2. Paths'
      BY <1>1, <1>3, <2>1 DEF IInv, TypeOK, Paths, Requests, ProposerPcs
    <2>3. Writes'
      BY <1>1, <1>3, <2>1 DEF IInv, TypeOK, Writes, ClaimPcs
    <2>4. \A q \in Requests \ {r} : target[q] = c => wrow[q] = "none" /\ wresv[q] = "none"
      BY <2>1 DEF IInv, TypeOK, Writes, WrittenRows, Ledger, RowWrites, ResvStates
    <2>5. WrittenRows'
      BY <1>1, <1>3, <2>1, <2>4 DEF IInv, TypeOK, WrittenRows
    <2>6. Exclusive'
      BY <2>1, <2>4 DEF IInv, TypeOK, Exclusive
    <2>7. Ledger'
      BY <1>3, <2>1 DEF IInv, TypeOK, Ledger
    <2>8. Executed'
      BY <1>1, <1>3, <2>1 DEF IInv, TypeOK, Executed, Requests
    <2>9. QED
      BY <2>2, <2>3, <2>5, <2>6, <2>7, <2>8 DEF Core
  <1>6. QED
    BY <1>4, <1>5

LEMMA ProposalCore == ASSUME IInv, NEW r \in Requests, ProposalStep(r) PROVE Core'
  <1>1. CASE LockPolicy(r)
    BY <1>1, PathOf, NothingWritten, QuietStep
    DEF LockPolicy, Goto, rows, writes, history, Pcs, ProposerPcs
  <1>2. CASE ReadSpend(r)
    BY <1>2, PathOf, NothingWritten, QuietStep
    DEF ReadSpend, Goto, rows, writes, history, Pcs, ProposerPcs
  <1>3. CASE Propose(r)
    BY <1>3, InsertCore
  <1>4. CASE ProposalFails(r)
    BY <1>4, PathOf, NothingWritten, QuietStep
    DEF ProposalFails, Finish, Goto, rows, writes, history, Pcs, ProposerPcs
  <1>5. CASE AuditProposal(r)
    <2>1. pc[r] = "auditProposal" /\ r \in Proposers /\ r \notin Approvers
      BY <1>5, PathOf DEF AuditProposal
    <2>2. wrow[r] \notin {"claimed", "unclaimed"} /\ wresv[r] \in {"none", "pending"}
      BY <2>1 DEF IInv, TypeOK, Writes, ResvStates
    <2>3. QED
      BY <1>5, <2>1, <2>2, QuietStep
      DEF AuditProposal, Goto, rows, writes, history, Pcs, ProposerPcs
  <1>6. QED
    BY <1>1, <1>2, <1>3, <1>4, <1>5 DEF ProposalStep

\* A claim is granted on an open row nobody else has written.
LEMMA ClaimCore == ASSUME IInv, NEW r \in Requests, Claim(r) PROVE Core'
  <1>1. /\ pc[r] = "claim" /\ r \in Approvers /\ r \notin Proposers
        /\ target[r] \in Confs
    BY PathOf DEF Claim
  <1>2. wrow[r] = "none" /\ wresv[r] = "none"
    BY <1>1, NothingWritten
  <1>3. CASE conf[target[r]].state # "open"
    BY <1>1, <1>2, <1>3, QuietStep
    DEF Claim, Finish, Goto, rows, writes, history, Pcs, ApproverPcs
  <1>4. CASE conf[target[r]].state = "open"
    <2>1. /\ pc' = [pc EXCEPT ![r] = "exec"]
          /\ wrow' = [wrow EXCEPT ![r] = "claimed"]
          /\ UNCHANGED <<conf, resv, target, wresv, effects>>
      BY <1>4 DEF Claim, Goto, rows, history
    <2>2. Paths'
      BY <1>1, <2>1 DEF IInv, TypeOK, Paths, Requests, ApproverPcs
    <2>3. Writes'
      BY <1>1, <1>2, <2>1 DEF IInv, TypeOK, Writes, ClaimPcs
    <2>4. WrittenRows'
      BY <1>2, <1>4, <2>1 DEF IInv, TypeOK, WrittenRows
    <2>5. Exclusive'
      BY <1>2, <2>1 DEF IInv, TypeOK, Exclusive, Claim, ConfLocked
    <2>6. Ledger'
      BY <2>1 DEF IInv, Ledger
    <2>7. Executed'
      BY <1>1, <2>1 DEF IInv, TypeOK, Executed, Requests
    <2>8. QED
      BY <2>2, <2>3, <2>4, <2>5, <2>6, <2>7 DEF Core
  <1>5. QED
    BY <1>3, <1>4

\* The handler only adds to the effects of the row its request has claimed.
LEMMA ExecuteCore == ASSUME IInv, NEW r \in Requests, Execute(r) PROVE Core'
  <1>1. /\ pc[r] = "exec" /\ r \in Approvers /\ r \notin Proposers
        /\ target[r] \in Confs
    BY PathOf DEF Execute
  <1>2. wrow[r] = "claimed" /\ wresv[r] = "none"
    BY <1>1 DEF IInv, Writes
  <1>3. PICK n \in 0 .. MaxAttempts, answered \in BOOLEAN :
          /\ answered => n > 0
          /\ effects' = [effects EXCEPT ![target[r]] = @ + n]
          /\ pc' = [pc EXCEPT ![r] = IF answered THEN "settle" ELSE "unclaim"]
          /\ UNCHANGED <<conf, resv, target, wrow, wresv>>
    BY DEF Execute, Goto, rows, writes
  <1>4. n \in Nat
    BY NumbersAssumption
  <1>5. \A c \in Confs : effects'[c] >= effects[c]
    BY <1>3, <1>4 DEF IInv, TypeOK
  <1>6. answered => effects'[target[r]] > 0
    BY <1>1, <1>3, <1>4 DEF IInv, TypeOK
  <1>7. effects \in [Confs -> Nat] /\ effects' \in [Confs -> Nat]
    <2>1. effects \in [Confs -> Nat]
      BY DEF IInv, TypeOK
    <2>2. \A c \in Confs : effects[c] + n \in Nat
      BY <1>4, <2>1
    <2>3. QED
      BY <1>3, <2>1, <2>2
  <1>8. Paths'
    BY <1>1, <1>3 DEF IInv, TypeOK, Paths, Requests, ApproverPcs
  <1>9. Writes'
    BY <1>1, <1>2, <1>3 DEF IInv, TypeOK, Writes, ClaimPcs
  <1>10. WrittenRows'
    BY <1>3 DEF IInv, WrittenRows
  <1>11. Exclusive'
    BY <1>3 DEF IInv, Exclusive
  <1>12. Ledger'
    <2>1. \A c \in Confs : effects[c] > 0 => effects'[c] > 0
      BY <1>5, <1>7
    <2>2. QED
      BY <1>3, <2>1 DEF IInv, Ledger
  <1>13. Executed'
    <2>1. ASSUME NEW q \in Approvers, q # r, effects[target[q]] > 0, target[q] \in Confs
          PROVE  effects'[target[q]] > 0
      BY <1>5, <1>7, <2>1
    <2>2. \A q \in Approvers : pc[q] # "new" => target[q] \in Confs
      BY DEF IInv, Paths
    <2>3. QED
      BY <1>1, <1>3, <1>6, <2>1, <2>2 DEF IInv, TypeOK, Executed, Requests
  <1>14. QED
    BY <1>8, <1>9, <1>10, <1>11, <1>12, <1>13 DEF Core

\* A reservation is settled by one transaction at a time: the three updates of
\* its status share this step.
LEMMA SettleCore ==
  ASSUME IInv, NEW r \in Approvers, NEW outcome \in {"committed", "released"},
         r \notin Proposers, target[r] \in Confs,
         wresv[r] = "none", SettleReservation(r, outcome),
         pc' = [pc EXCEPT ![r] = "commit"],
         UNCHANGED <<conf, resv, target, effects>>,
         \/ pc[r] = "release" /\ outcome = "released" /\ wrow' = wrow
         \/ pc[r] = "settle" /\ outcome = "committed" /\ wrow' = wrow
         \/ pc[r] = "unclaim" /\ outcome = "released"
              /\ wrow' = [wrow EXCEPT ![r] = "unclaimed"]
  PROVE  Core'
  <1> DEFINE status == IF resv[target[r]] = "pending" THEN outcome ELSE "none"
  <1>1. r \in Requests
    BY DEF Requests
  <1>2. wresv' = [wresv EXCEPT ![r] = status]
    BY <1>1 DEF SettleReservation, IInv, TypeOK
  <1>3. \A q \in Requests \ {r} : target[q] = target[r] => wresv[q] = "none"
    BY DEF SettleReservation, ResvLocked
  <1>4. /\ pc[r] = "release" => wrow[r] = "none"
        /\ pc[r] \in {"settle", "unclaim"} => wrow[r] = "claimed"
    BY <1>1, NothingWritten DEF IInv, Writes
  <1>5. Paths'
    BY <1>1 DEF IInv, TypeOK, Paths, Requests, ApproverPcs
  <1>6. Writes'
    BY <1>1, <1>2, <1>4 DEF IInv, TypeOK, Writes, ClaimPcs
  <1>7. WrittenRows'
    BY <1>1, <1>2, <1>4 DEF IInv, TypeOK, WrittenRows
  <1>8. Exclusive'
    BY <1>1, <1>2, <1>3, <1>4 DEF IInv, TypeOK, Exclusive
  <1>9. Ledger'
    BY DEF IInv, Ledger
  <1>10. Executed'
    BY <1>1, <1>2, <1>4 DEF IInv, TypeOK, Executed, Requests
  <1>11. QED
    BY <1>5, <1>6, <1>7, <1>8, <1>9, <1>10 DEF Core

LEMMA ApprovalCore == ASSUME IInv, NEW r \in Requests, ApprovalStep(r) PROVE Core'
  <1> USE DEF Goto, Finish, rows, writes, history
  <1>1. CASE AuditCall(r)
    BY <1>1, PathOf, NothingWritten, QuietStep DEF AuditCall, Pcs, ApproverPcs
  <1>2. CASE Load(r)
    <2>1. /\ pc[r] \in {"preload", "load"}
          /\ \E label \in {"load", "price", "commit"} : pc' = [pc EXCEPT ![r] = label]
      BY <1>2 DEF Load
    <2>2. UNCHANGED <<conf, resv, target, wrow, wresv, effects>>
      BY <1>2 DEF Load
    <2>3. QED
      BY <2>1, <2>2, PathOf, NothingWritten, QuietStep DEF Pcs, ApproverPcs
  <1>3. CASE Reprice(r)
    <2>1. /\ pc[r] = "price"
          /\ \E label \in {"release", "claim", "commit"} : pc' = [pc EXCEPT ![r] = label]
      BY <1>3 DEF Reprice
    <2>2. UNCHANGED <<conf, resv, target, wrow, wresv, effects>>
      BY <1>3 DEF Reprice
    <2>3. QED
      BY <2>1, <2>2, PathOf, NothingWritten, QuietStep DEF Pcs, ApproverPcs
  <1>4. CASE RepriceFails(r)
    BY <1>4, PathOf, NothingWritten, QuietStep DEF RepriceFails, Pcs, ApproverPcs
  <1>5. CASE Release(r)
    BY <1>5, PathOf, NothingWritten, SettleCore DEF Release
  <1>6. CASE Claim(r)
    BY <1>6, ClaimCore
  <1>7. CASE Execute(r)
    BY <1>7, ExecuteCore
  <1>8. CASE SettleCommitted(r)
    <2>1. pc[r] = "settle" /\ wresv[r] = "none"
      BY <1>8 DEF SettleCommitted, IInv, Writes
    <2>2. QED
      BY <1>8, <2>1, PathOf, SettleCore DEF SettleCommitted
  <1>9. CASE SettleReleased(r)
    <2>1. pc[r] = "unclaim" /\ wresv[r] = "none"
      BY <1>9 DEF SettleReleased, IInv, Writes
    <2>2. QED
      BY <1>9, <2>1, PathOf, SettleCore DEF SettleReleased
  <1>10. QED
    BY <1>1, <1>2, <1>3, <1>4, <1>5, <1>6, <1>7, <1>8, <1>9 DEF ApprovalStep

\* The end of a transaction takes its writes and its locks away.
LEMMA EndCore ==
  ASSUME IInv, NEW r \in Requests, Unlock(r),
         pc[r] \notin {"new", "done"},
         UNCHANGED <<target, effects>>,
         conf' \in [Confs -> ConfRecords], resv' \in [Confs -> ResvStates],
         \A c \in Confs : target[r] # c =>
           conf'[c] = conf[c] /\ resv'[c] = resv[c],
         wrow[r] = "none" => \A c \in Confs : conf'[c] = conf[c],
         wresv[r] = "none" => \A c \in Confs : resv'[c] = resv[c],
         Ledger'
  PROVE  Core'
  <1>1. /\ pc' = [pc EXCEPT ![r] = "done"]
        /\ wrow' = [wrow EXCEPT ![r] = "none"]
        /\ wresv' = [wresv EXCEPT ![r] = "none"]
    BY DEF Unlock, Goto
  <1>2. Paths'
    BY <1>1 DEF IInv, TypeOK, Paths, Requests, ProposerPcs, ApproverPcs
  <1>3. Writes'
    BY <1>1 DEF IInv, TypeOK, Writes
  <1>4. WrittenRows'
    <2>1. ASSUME NEW q \in Requests, q # r
          PROVE  /\ wrow'[q] = "inserted" => conf'[target'[q]].state = "inserting"
                 /\ wrow'[q] \in {"claimed", "unclaimed"} => conf'[target'[q]].state = "open"
                 /\ wresv'[q] \in {"committed", "released"} => resv'[target'[q]] = "pending"
      <3>1. wrow'[q] = wrow[q] /\ wresv'[q] = wresv[q] /\ target'[q] = target[q]
        BY <1>1, <2>1 DEF IInv, TypeOK
      <3>2. wrow[q] # "none" \/ wresv[q] # "none" => target[q] \in Confs
        BY DEF IInv, Writes
      <3>3. target[q] = target[r] => wrow[q] = "none" \/ wrow[r] = "none"
        BY <2>1 DEF IInv, Exclusive
      <3>4. target[q] = target[r] => wresv[q] = "none" \/ wresv[r] = "none"
        BY <2>1 DEF IInv, Exclusive
      <3>5. QED
        BY <3>1, <3>2, <3>3, <3>4 DEF IInv, WrittenRows
    <2>2. wrow'[r] = "none" /\ wresv'[r] = "none"
      BY <1>1 DEF IInv, TypeOK
    <2>3. QED
      BY <2>1, <2>2 DEF WrittenRows
  <1>5. Exclusive'
    BY <1>1 DEF IInv, TypeOK, Exclusive
  <1>6. Executed'
    <2>1. ASSUME NEW q \in Approvers, q # r, pc[q] = "commit", wrow[q] = "claimed"
          PROVE  wresv[q] = "committed" \/ resv'[target[q]] # "pending"
      <3>1. target[q] \in Confs /\ q \in Requests /\ conf[target[q]].state = "open"
        BY <2>1 DEF IInv, Writes, WrittenRows, Requests
      <3>2. wresv[q] = "committed" \/ resv[target[q]] # "pending"
        BY <2>1 DEF IInv, Executed
      <3>3. CASE resv'[target[q]] = resv[target[q]]
        BY <3>2, <3>3
      <3>4. CASE resv'[target[q]] # resv[target[q]]
        <4>1. target[r] = target[q] /\ wresv[r] # "none"
          BY <3>1, <3>4
        <4>2. wrow[r] = "none"
          BY <2>1, <3>1, <4>1 DEF IInv, Exclusive
        <4>3. wresv[r] \in {"committed", "released"}
          BY <4>1, <4>2 DEF IInv, TypeOK, Writes, ResvStates
        <4>4. wresv[q] = "none" /\ resv[target[r]] = "pending"
          BY <2>1, <3>1, <4>1, <4>3 DEF IInv, Exclusive, WrittenRows
        <4>5. QED
          BY <3>2, <4>1, <4>4
      <3>5. QED
        BY <3>3, <3>4
    <2>2. QED
      BY <1>1, <2>1 DEF IInv, TypeOK, Executed, Requests
  <1>7. QED
    BY <1>2, <1>3, <1>4, <1>5, <1>6 DEF Core

LEMMA CommitCore == ASSUME IInv, NEW r \in Requests, Commit(r), TypeOK' PROVE Core'
  <1>1. Ledger'
    <2> SUFFICES ASSUME NEW c \in Confs
                 PROVE  /\ resv'[c] = "none" <=> conf'[c].state \in {"absent", "inserting"}
                        /\ resv'[c] = "pending" => conf'[c].state = "open"
                        /\ resv'[c] = "committed" => conf'[c].state = "consumed"
                        /\ conf'[c].state = "consumed" => effects'[c] > 0
      BY DEF Ledger
    <2>1. /\ pc[r] = "commit" /\ effects' = effects
          /\ resv'[c] = IF target[r] = c /\ wresv[r] # "none" THEN wresv[r] ELSE resv[c]
          /\ conf'[c].state = IF target[r] = c /\ wrow[r] # "none"
                                THEN StateWritten(r) ELSE conf[c].state
      BY DEF Commit, IInv, TypeOK
    <2>2. CASE target[r] # c
      BY <2>1, <2>2 DEF IInv, Ledger
    <2>3. CASE target[r] = c /\ wrow[r] = "inserted"
      BY <2>1, <2>3 DEF IInv, Writes, StateWritten
    <2>4. CASE target[r] = c /\ wrow[r] = "claimed"
      <3>1. /\ r \in Approvers /\ conf[c].state = "open" /\ effects[c] > 0
            /\ wresv[r] = "committed" \/ resv[c] # "pending"
            /\ resv[c] # "none" /\ wresv[r] # "pending"
        BY <2>1, <2>4 DEF IInv, Writes, WrittenRows, Executed, Ledger
      <3>2. StateWritten(r) = "consumed"
        BY <2>4 DEF StateWritten
      <3>3. QED
        BY <2>1, <2>4, <3>1, <3>2 DEF IInv, Writes
    <2>5. CASE target[r] = c /\ wrow[r] = "unclaimed"
      <3>1. /\ conf[c].state = "open" /\ wresv[r] \in {"none", "released"}
            /\ resv[c] \in {"pending", "released"}
        BY <2>5 DEF IInv, TypeOK, Writes, WrittenRows, Ledger, ResvStates
      <3>2. StateWritten(r) = "open"
        BY <2>5 DEF StateWritten
      <3>3. QED
        BY <2>1, <2>5, <3>1, <3>2
    <2>6. CASE target[r] = c /\ wrow[r] = "none"
      <3>1. wresv[r] \in {"none", "released"}
        BY <2>6 DEF IInv, TypeOK, Writes, ResvStates
      <3>2. wresv[r] = "released" => resv[c] = "pending" /\ conf[c].state = "open"
        BY <2>6 DEF IInv, WrittenRows, Ledger
      <3>3. QED
        BY <2>1, <2>6, <3>1, <3>2 DEF IInv, Ledger
    <2>7. QED
      BY <2>2, <2>3, <2>4, <2>5, <2>6 DEF IInv, TypeOK, RowWrites
  <1>2. \A c \in Confs : target[r] # c => conf'[c] = conf[c] /\ resv'[c] = resv[c]
    BY DEF Commit
  <1>3. /\ wrow[r] = "none" => \A c \in Confs : conf'[c] = conf[c]
        /\ wresv[r] = "none" => \A c \in Confs : resv'[c] = resv[c]
    BY DEF Commit
  <1>4. conf' \in [Confs -> ConfRecords] /\ resv' \in [Confs -> ResvStates]
    BY DEF TypeOK, ConfRecords
  <1>5. QED
    BY <1>1, <1>2, <1>3, <1>4, EndCore DEF Commit

LEMMA AbortCore == ASSUME IInv, NEW r \in Requests, Abort(r), TypeOK' PROVE Core'
  <1>1. resv' = resv /\ effects' = effects /\ target' = target
    BY DEF Abort, history
  <1>2. \A c \in Confs : conf'[c] = IF target[r] = c /\ wrow[r] = "inserted"
                                      THEN NoRow ELSE conf[c]
    BY DEF Abort
  <1>3. NoRow.state = "absent"
    BY DEF NoRow, Row
  <1>4. Ledger'
    BY <1>1, <1>2, <1>3 DEF IInv, Ledger, WrittenRows
  <1>5. conf' \in [Confs -> ConfRecords] /\ resv' \in [Confs -> ResvStates]
    BY DEF TypeOK, ConfRecords
  <1>6. QED
    BY <1>1, <1>2, <1>4, <1>5, EndCore DEF Abort

\* Each step keeps the invariant.
LEMMA StepIInv == IInv /\ [Next]_vars => IInv'
  <1> SUFFICES ASSUME IInv, [Next]_vars PROVE IInv'
    OBVIOUS
  <1>1. TypeOK'
    BY StepTypeOK DEF IInv
  <1>2. Core'
    <2>1. ASSUME UNCHANGED <<conf, resv, pc, target, wrow, wresv, effects>> PROVE Core'
      BY <2>1 DEF IInv, Core, Paths, Writes, WrittenRows, Exclusive, Ledger, Executed
    <2>2. CASE UNCHANGED vars
      BY <2>1, <2>2 DEF vars
    <2>3. CASE Tick
      BY <2>1, <2>3 DEF Tick, rows, writes, history
    <2>4. CASE Connect
      BY <2>1, <2>4 DEF Connect, rows, writes, history
    <2>5. ASSUME NEW r \in Requests, Begin(r) \/ Step(r) \/ Abort(r) PROVE Core'
      BY <1>1, <2>5, BeginCore, ProposalCore, ApprovalCore, CommitCore, AbortCore DEF Step
    <2>6. QED
      BY <2>2, <2>3, <2>4, <2>5 DEF Next
  <1>3. QED
    BY <1>1, <1>2 DEF IInv, Core

LEMMA InvariantHolds == Spec => []IInv
  BY InitIInv, StepIInv, PTL DEF Spec

-----------------------------------------------------------------------------
(* Safety *)

\* At most one approver of a confirmation is between its claim and the end of
\* its transaction (claimConfirmation).
THEOREM ClaimIsExclusive == Spec => []SingleExecutor
  <1>1. IInv => SingleExecutor
    BY DEF IInv, Exclusive, SingleExecutor, Requests
  <1>2. QED
    BY <1>1, InvariantHolds, PTL

\* A confirmation is consumed only after its tool took effect, and only then
\* is its reservation committed, whatever crashed or failed in between.
THEOREM LedgerIsSound == Spec => []LedgerMatchesConsumption
  <1>1. IInv => LedgerMatchesConsumption
    BY DEF IInv, Ledger, LedgerMatchesConsumption
  <1>2. QED
    BY <1>1, InvariantHolds, PTL

\* What a step may not undo.
Final ==
  \A c \in Confs :
    /\ conf[c].state = "consumed" =>
         conf'[c].state = "consumed" /\ effects'[c] = effects[c]
    /\ resv[c] \in {"committed", "released"} => resv'[c] = resv[c]

LEMMA StepIsFinal == ASSUME IInv, [Next]_vars PROVE Final
  <1> SUFFICES ASSUME NEW c \in Confs
               PROVE  /\ conf[c].state = "consumed" =>
                           conf'[c].state = "consumed" /\ effects'[c] = effects[c]
                      /\ resv[c] \in {"committed", "released"} => resv'[c] = resv[c]
    BY DEF Final
  <1>1. CASE UNCHANGED <<conf, resv, effects>>
    BY <1>1
  <1>2. CASE \E r \in Requests : Propose(r)
    BY <1>2 DEF Propose, history, IInv, TypeOK
  <1>3. ASSUME NEW r \in Requests, Execute(r)
        PROVE  UNCHANGED <<conf, resv>> /\ (conf[c].state = "consumed" => effects'[c] = effects[c])
    <2>1. conf[target[r]].state = "open"
      BY <1>3 DEF Execute, IInv, Writes, WrittenRows
    <2>2. QED
      BY <1>3, <2>1 DEF Execute, rows, IInv, TypeOK
  <1>4. ASSUME NEW r \in Requests, Commit(r)
        PROVE  /\ effects' = effects
               /\ conf[c].state = "consumed" => conf'[c].state = "consumed"
               /\ resv[c] \in {"committed", "released"} => resv'[c] = resv[c]
    <2>1. target[r] = c /\ wrow[r] # "none" => conf[c].state \in {"inserting", "open"}
      BY DEF IInv, TypeOK, WrittenRows, RowWrites
    <2>2. target[r] = c /\ wresv[r] # "none" => resv[c] \in {"none", "pending"}
      BY DEF IInv, TypeOK, Writes, WrittenRows, Ledger, ResvStates
    <2>3. QED
      BY <1>4, <2>1, <2>2 DEF Commit
  <1>5. ASSUME NEW r \in Requests, Abort(r)
        PROVE  /\ resv' = resv /\ effects' = effects
               /\ conf[c].state = "consumed" => conf'[c].state = "consumed"
    BY <1>5 DEF Abort, history, IInv, WrittenRows
  <1>6. ASSUME NEW r \in Requests, Begin(r) \/ Step(r), ~ Propose(r), ~ Execute(r),
               ~ Commit(r)
        PROVE  UNCHANGED <<conf, resv, effects>>
    BY <1>6 DEF Begin, Step, ProposalStep, ApprovalStep, BeginProposal, BeginMcpApproval,
       BeginDashApproval, LockPolicy, ReadSpend, ProposalFails, AuditProposal, AuditCall,
       Load, Reprice, RepriceFails, Release, Claim, SettleCommitted, SettleReleased,
       rows, history
  <1>7. CASE Tick \/ Connect \/ UNCHANGED vars
    BY <1>1, <1>7 DEF Tick, Connect, vars, rows, history
  <1>8. QED
    BY <1>1, <1>2, <1>3, <1>4, <1>5, <1>6, <1>7 DEF Next

\* A consumed confirmation stays consumed and is not executed again, and a
\* settled reservation keeps its status.
THEOREM SettlementIsFinal == Spec => SettledIsFinal
  <1>1. IInv /\ [Next]_vars => [Final]_vars
    BY StepIsFinal
  <1>2. QED
    BY <1>1, InvariantHolds, PTL DEF Spec, SettledIsFinal, Final
-----------------------------------------------------------------------------
(* Sums of estimates.  What a fold over a set computes is proved by          *)
(* induction over the finite subsets, in the form that has no operator for a *)
(* parameter: the property is the set of the subsets that have it.           *)

\* Spend, for any rows.
Sum(recs, S) == MapThenSumSet(LAMBDA c : recs[c].est, S)

\* Induction over the subsets of a finite set, the property being given as the
\* set of those that have it.
LEMMA SubsetInduction ==
  ASSUME NEW S, IsFiniteSet(S), NEW Good,
         \A T \in SUBSET S : (\A U \in SUBSET T : U # T => U \in Good) => T \in Good
  PROVE  S \in Good
  <1> DEFINE Bad == {T \in SUBSET S : T \notin Good}
             R == StrictSubsetOrdering(S)
  <1>1. IsWellFoundedOn(R, FiniteSubsetsOf(S)) /\ FiniteSubsetsOf(S) = SUBSET S
    BY FS_StrictSubsetOrderingWellFounded, FS_FiniteSubsetsOfFinite
  <1>2. SUFFICES ASSUME Bad # {} PROVE FALSE
    OBVIOUS
  <1>3. PICK T \in Bad : \A U \in Bad : <<U, T>> \notin R
    <2> HIDE DEF Bad, R
    <2>1. Bad \subseteq SUBSET S
      BY DEF Bad
    <2>2. QED
      BY <1>1, <1>2, <2>1, WFMin
  <1>4. ASSUME NEW U \in SUBSET T, U # T PROVE U \in Good
    BY <1>3, <1>4 DEF StrictSubsetOrdering
  <1>5. QED
    BY <1>3, <1>4

\* The same, one element at a time.
LEMMA FiniteInduction ==
  ASSUME NEW S, IsFiniteSet(S), NEW Good, {} \in Good,
         \A T \in SUBSET S : \A x \in S \ T : T \in Good => T \cup {x} \in Good
  PROVE  S \in Good
  <1>1. ASSUME NEW T \in SUBSET S, \A U \in SUBSET T : U # T => U \in Good
        PROVE  T \in Good
    <2>1. CASE T = {}
      BY <2>1
    <2>2. ASSUME NEW x \in T PROVE T \in Good
      <3>1. T \ {x} \in Good
        BY <1>1
      <3>2. T \ {x} \in SUBSET S /\ x \in S \ (T \ {x}) /\ (T \ {x}) \cup {x} = T
        OBVIOUS
      <3>3. QED
        BY <3>1, <3>2
    <2>3. QED
      BY <2>1, <2>2
  <1>2. QED
    BY <1>1, SubsetInduction

\* The element MapThenSumSet takes next.
Pick(s) == CHOOSE x \in s : TRUE

\* The equation of MapThenFoldSet's recursive function g, at s.
SumBody(recs, g, s) ==
  IF s = {} THEN 0 ELSE recs[Pick(s)].est + g[s \ {Pick(s)}]

\* The function MapThenFoldSet defines.
FoldOf(recs, S) == CHOOSE g : g = [s \in SUBSET S |-> SumBody(recs, g, s)]

\* The sum is the value of that function at its set.
LEMMA SumUnfolds ==
  ASSUME NEW recs, NEW S
  PROVE  Sum(recs, S) = FoldOf(recs, S)[S]
  BY DEF Sum, MapThenSumSet, MapThenFoldSet, SumBody, FoldOf, Pick

LEMMA PickIn == ASSUME NEW s, s # {} PROVE Pick(s) \in s
  BY DEF Pick

\* The recursion over the subsets of a finite set is well founded: a function
\* with that equation exists.
LEMMA FoldExists ==
  ASSUME NEW recs, NEW S, IsFiniteSet(S)
  PROVE  \E g : g = [s \in SUBSET S |-> SumBody(recs, g, s)]
  <1> DEFINE UpTo(n) == {s \in SUBSET S : Cardinality(s) <= n}
             Fits(T) == \E g : g = [s \in UpTo(Cardinality(T)) |-> SumBody(recs, g, s)]
             Good == {T \in SUBSET S : Fits(T)}
  <1>1. \A T \in SUBSET S : /\ IsFiniteSet(T)
                            /\ Cardinality(T) \in Nat /\ Cardinality(T) <= Cardinality(S)
    BY FS_Subset, FS_CardinalityType
  <1>2. {} \in Good
    <2>1. UpTo(Cardinality({})) = {{}}
      <3>1. \A s \in SUBSET S : Cardinality(s) <= 0 <=> s = {}
        BY <1>1, FS_EmptySet
      <3>2. QED
        BY <3>1, FS_EmptySet
    <2>2. LET g == [s \in {{}} |-> 0] IN g = [s \in {{}} |-> SumBody(recs, g, s)]
      BY DEF SumBody
    <2>3. QED
      BY <2>1, <2>2
  <1>3. ASSUME NEW T \in SUBSET S, NEW x \in S \ T, T \in Good
        PROVE  T \cup {x} \in Good
    <2>1. PICK g : g = [s \in UpTo(Cardinality(T)) |-> SumBody(recs, g, s)]
      BY <1>3
    <2>2. Cardinality(T \cup {x}) = Cardinality(T) + 1 /\ Cardinality(T) \in Nat
      BY <1>1, FS_AddElement
    <2> DEFINE h == [s \in UpTo(Cardinality(T \cup {x})) |-> SumBody(recs, g, s)]
    <2>3. \A s \in UpTo(Cardinality(T)) : h[s] = g[s]
      BY <2>1, <2>2, <1>1
    <2>4. ASSUME NEW s \in UpTo(Cardinality(T \cup {x})), s # {}
          PROVE  s \ {Pick(s)} \in UpTo(Cardinality(T))
      <3>1. Pick(s) \in s
        BY <2>4, PickIn
      <3>2. Cardinality(s \ {Pick(s)}) = Cardinality(s) - 1
        BY <1>1, <3>1, FS_RemoveElement
      <3>3. QED
        BY <1>1, <2>2, <3>2
    <2>5. ASSUME NEW s \in UpTo(Cardinality(T \cup {x}))
          PROVE  SumBody(recs, g, s) = SumBody(recs, h, s)
      <3>1. CASE s = {}
        BY <3>1 DEF SumBody
      <3>2. CASE s # {}
        <4>1. h[s \ {Pick(s)}] = g[s \ {Pick(s)}]
          BY <2>3, <2>4, <3>2
        <4> HIDE DEF h
        <4>2. QED
          BY <3>2, <4>1 DEF SumBody
      <3>3. QED
        BY <3>1, <3>2
    <2>6. h = [s \in UpTo(Cardinality(T \cup {x})) |-> SumBody(recs, h, s)]
      BY <2>5
    <2>7. Fits(T \cup {x})
      BY <2>6
    <2>8. QED
      BY <2>7
  <1>4. S \in Good
    <2> HIDE DEF Good
    <2>1. QED
      BY <1>2, <1>3, FiniteInduction
  <1>5. UpTo(Cardinality(S)) = SUBSET S
    BY <1>1
  <1>6. QED
    BY <1>4, <1>5

\* And its equation.
LEMMA FoldStep ==
  ASSUME NEW recs, NEW S, IsFiniteSet(S)
  PROVE  \A s \in SUBSET S : FoldOf(recs, S)[s] = SumBody(recs, FoldOf(recs, S), s)
  <1> DEFINE g == FoldOf(recs, S)
  <1>1. g = [s \in SUBSET S |-> SumBody(recs, g, s)]
    BY FoldExists DEF FoldOf
  <1> HIDE DEF g
  <1>2. \A s \in SUBSET S : g[s] = SumBody(recs, g, s)
    BY <1>1
  <1>3. QED
    BY <1>2 DEF g

\* The folds over two sets agree on the smaller one.
LEMMA FoldsAgree ==
  ASSUME NEW recs, NEW U, IsFiniteSet(U), NEW S \in SUBSET U
  PROVE  FoldOf(recs, U)[S] = Sum(recs, S)
  <1> DEFINE g == FoldOf(recs, S)
             h == FoldOf(recs, U)
             Good == {T \in SUBSET S : g[T] = h[T]}
  <1>1. IsFiniteSet(S)
    BY FS_Subset
  <1>2. ASSUME NEW T \in SUBSET S, \A V \in SUBSET T : V # T => V \in Good
        PROVE  T \in Good
    <2>1. g[T] = SumBody(recs, g, T) /\ h[T] = SumBody(recs, h, T)
      BY <1>1, FoldStep
    <2> HIDE DEF g, h
    <2>2. CASE T = {}
      BY <2>1, <2>2 DEF SumBody
    <2>3. CASE T # {}
      <3>1. T \ {Pick(T)} \in Good
        BY <1>2, <2>3, PickIn
      <3>2. QED
        BY <2>1, <2>3, <3>1 DEF SumBody
    <2>4. QED
      BY <2>2, <2>3
  <1>3. S \in Good
    <2> HIDE DEF Good
    <2>1. QED
      BY <1>1, <1>2, SubsetInduction
  <1>4. QED
    BY <1>3, SumUnfolds

\* Nothing sums to 0.
LEMMA SumOfNothing == ASSUME NEW recs PROVE Sum(recs, {}) = 0
  BY SumUnfolds, FoldStep, FS_EmptySet DEF SumBody

\* The fold adds what it picks to the fold of the rest.
LEMMA SumPicks ==
  ASSUME NEW recs, NEW S, IsFiniteSet(S), S # {}
  PROVE  Sum(recs, S) = recs[Pick(S)].est + Sum(recs, S \ {Pick(S)})
  <1>1. Sum(recs, S) = SumBody(recs, FoldOf(recs, S), S)
    BY SumUnfolds, FoldStep
  <1>2. FoldOf(recs, S)[S \ {Pick(S)}] = Sum(recs, S \ {Pick(S)})
    BY FoldsAgree
  <1>3. QED
    BY <1>1, <1>2 DEF SumBody

\* A sum of natural numbers is one.
LEMMA SumIsNat ==
  ASSUME NEW recs, NEW S, IsFiniteSet(S), \A c \in S : recs[c].est \in Nat
  PROVE  Sum(recs, S) \in Nat
  <1> DEFINE Good == {T \in SUBSET S : Sum(recs, T) \in Nat}
  <1>1. ASSUME NEW T \in SUBSET S, \A U \in SUBSET T : U # T => U \in Good
        PROVE  T \in Good
    <2>1. CASE T = {}
      BY <2>1, SumOfNothing
    <2>2. CASE T # {}
      <3>1. Pick(T) \in T /\ IsFiniteSet(T)
        BY <2>2, PickIn, FS_Subset
      <3>2. T \ {Pick(T)} \in Good
        BY <1>1, <3>1
      <3>3. Sum(recs, T) = recs[Pick(T)].est + Sum(recs, T \ {Pick(T)})
        BY <2>2, <3>1, SumPicks
      <3>4. QED
        BY <3>1, <3>2, <3>3
    <2>3. QED
      BY <2>1, <2>2
  <1>2. S \in Good
    <2> HIDE DEF Good
    <2>1. QED
      BY <1>1, SubsetInduction
  <1>3. QED
    BY <1>2

\* It does not matter which element is taken out first.
LEMMA SumOfElement ==
  ASSUME NEW recs, NEW S, IsFiniteSet(S), \A c \in S : recs[c].est \in Nat
  PROVE  \A x \in S : Sum(recs, S) = recs[x].est + Sum(recs, S \ {x})
  <1> DEFINE Splits(T, x) == Sum(recs, T) = recs[x].est + Sum(recs, T \ {x})
             Good == {T \in SUBSET S : \A x \in T : Splits(T, x)}
  <1>1. ASSUME NEW T \in SUBSET S, \A U \in SUBSET T : U # T => U \in Good
        PROVE  T \in Good
    <2> SUFFICES ASSUME NEW x \in T PROVE Splits(T, x)
      OBVIOUS
    <2> DEFINE y == Pick(T)
    <2>1. y \in T /\ IsFiniteSet(T)
      BY PickIn, FS_Subset
    <2>2. Splits(T, y)
      BY <2>1, SumPicks
    <2>3. CASE x # y
      <3>1. T \ {x} \in Good /\ T \ {y} \in Good
        BY <1>1, <2>1
      <3>2. Splits(T \ {x}, y) /\ Splits(T \ {y}, x)
        BY <2>1, <2>3, <3>1
      <3>3. (T \ {x}) \ {y} = (T \ {y}) \ {x}
        OBVIOUS
      <3>4. Sum(recs, (T \ {y}) \ {x}) \in Nat /\ recs[x].est \in Nat /\ recs[y].est \in Nat
        <4>1. IsFiniteSet((T \ {y}) \ {x})
          BY <2>1, FS_RemoveElement
        <4>2. QED
          BY <2>1, <4>1, SumIsNat
      <3> DEFINE Rest == (T \ {y}) \ {x}
      <3>5. /\ Sum(recs, T) = recs[y].est + Sum(recs, T \ {y})
            /\ Sum(recs, T \ {y}) = recs[x].est + Sum(recs, Rest)
            /\ Sum(recs, T \ {x}) = recs[y].est + Sum(recs, Rest)
            /\ Sum(recs, Rest) \in Nat
        BY <2>2, <3>2, <3>3, <3>4
      <3> HIDE DEF y, Rest
      <3>6. QED
        BY <3>4, <3>5
    <2>4. QED
      BY <2>2, <2>3
  <1>2. S \in Good
    <2> HIDE DEF Good
    <2>1. QED
      BY <1>1, SubsetInduction
  <1>3. QED
    BY <1>2

\* Fewer rows do not sum to more, and rows of the same estimate to the same.
LEMMA SumShrinks ==
  ASSUME NEW recs, NEW news, NEW S, IsFiniteSet(S), NEW T \in SUBSET S,
         \A c \in S : recs[c].est \in Nat,
         \A c \in T : news[c].est = recs[c].est
  PROVE  Sum(news, T) <= Sum(recs, S)
  <1> DEFINE Good == {U \in SUBSET S : Sum(news, U \cap T) <= Sum(recs, U)}
  <1>1. {} \in Good
    BY SumOfNothing
  <1>2. ASSUME NEW U \in SUBSET S, NEW x \in S \ U, U \in Good
        PROVE  U \cup {x} \in Good
    <2> DEFINE V == U \cup {x}
    <2>1. /\ IsFiniteSet(U) /\ IsFiniteSet(V)
          /\ IsFiniteSet(V \cap T) /\ IsFiniteSet(U \cap T)
          /\ V \in SUBSET S
      BY FS_Subset
    <2>2. Sum(recs, V) = recs[x].est + Sum(recs, U)
      <3>1. Sum(recs, V) = recs[x].est + Sum(recs, V \ {x})
        <4>1. (\A c \in V : recs[c].est \in Nat) /\ x \in V
          OBVIOUS
        <4> HIDE DEF V
        <4>2. QED
          BY <2>1, <4>1, SumOfElement
      <3>2. V \ {x} = U
        BY <1>2
      <3>3. QED
        BY <3>1, <3>2
    <2>3. Sum(recs, U) \in Nat /\ Sum(news, U \cap T) \in Nat /\ recs[x].est \in Nat
      BY <2>1, SumIsNat
    <2>4. CASE x \notin T
      <3>1. V \cap T = U \cap T
        BY <2>4
      <3>2. Sum(news, V \cap T) = Sum(news, U \cap T)
        BY <3>1
      <3>3. Sum(news, U \cap T) <= Sum(recs, U)
        BY <1>2
      <3> HIDE DEF V
      <3>4. Sum(news, V \cap T) <= Sum(recs, V)
        BY <2>2, <2>3, <3>2, <3>3
      <3>5. QED
        BY <2>1, <3>4 DEF V
    <2>5. CASE x \in T
      <3>1. Sum(news, V \cap T) = news[x].est + Sum(news, (V \cap T) \ {x})
        <4>1. (\A c \in V \cap T : news[c].est \in Nat) /\ x \in V \cap T
          BY <2>5
        <4> HIDE DEF V
        <4>2. QED
          BY <2>1, <4>1, SumOfElement
      <3>2. (V \cap T) \ {x} = U \cap T
        BY <1>2
      <3>3. Sum(news, V \cap T) = recs[x].est + Sum(news, U \cap T)
        BY <2>5, <3>1, <3>2
      <3>4. Sum(news, U \cap T) <= Sum(recs, U)
        BY <1>2
      <3>5. Sum(news, V \cap T) <= Sum(recs, V)
        BY <2>2, <2>3, <3>3, <3>4
      <3>6. QED
        BY <2>1, <3>5
    <2>6. QED
      BY <2>4, <2>5
  <1>3. S \in Good
    <2> HIDE DEF Good
    <2>1. QED
      BY <1>1, <1>2, FiniteInduction
  <1>4. S \cap T = T
    OBVIOUS
  <1>5. QED
    BY <1>3, <1>4
-----------------------------------------------------------------------------
(* The spending limit *)

\* The confirmations that have a row; at any time they are finitely many.
Booked == {c \in Confs : conf[c].state # "absent"}

\* A transaction began in the past.
Clock == \A r \in Requests : began[r] <= now

\* A proposal holds the policy's row lock from its count to the end of the
\* transaction that inserts.
LockHeld ==
  \A r \in Proposers :
    pc[r] \in {"readSpend", "decide", "auditProposal"} \/ wrow[r] = "inserted" =>
      policyLock = r

\* What is held against the limit.
Counted == Live(now) \ late

\* The limit bounds what counts, what a proposal has counted bounds it until
\* the proposal decides, and an insert not yet committed fits under the limit.
Budget ==
  /\ Spend(Counted) <= Limit
  /\ \A r \in Proposers : pc[r] = "decide" => seen[r] \in Nat /\ Spend(Counted) <= seen[r]
  /\ \A r \in Proposers : wrow[r] = "inserted" =>
       Spend(Counted) + conf[target[r]].est <= Limit

\* The inductive invariant of the spending limit.
SpendInv == IInv /\ IsFiniteSet(Booked) /\ Clock /\ LockHeld /\ Budget

\* The parts of it beyond IInv.
Accounts == IsFiniteSet(Booked) /\ Clock /\ LockHeld /\ Budget

\* What counts is finitely many rows with an estimate.
LEMMA CountedIsFinite ==
  ASSUME TypeOK, Ledger, IsFiniteSet(Booked), NEW t \in Nat
  PROVE  /\ IsFiniteSet(Live(t)) /\ IsFiniteSet(Counted)
         /\ \A c \in Confs : conf[c].est \in Nat
         /\ Live(t) \subseteq Booked /\ Counted \subseteq Booked
  <1>1. \A s \in Nat : Live(s) \subseteq Booked
    BY DEF Live, Booked, Ledger
  <1>2. Live(t) \in SUBSET Booked /\ Counted \in SUBSET Booked
    BY <1>1 DEF Counted, TypeOK
  <1>3. IsFiniteSet(Live(t)) /\ IsFiniteSet(Counted)
    BY <1>2, FS_Subset
  <1>4. QED
    BY <1>2, <1>3 DEF TypeOK

LEMMA SpendIsSum ==
  /\ \A S : Spend(S) = Sum(conf, S)
  /\ Spend(Counted)' = Sum(conf', Counted')
  BY DEF Spend, Sum, MapThenSumSet, MapThenFoldSet

\* What counts never exceeds what is live at an earlier time.
LEMMA CountIsABound ==
  ASSUME SpendInv, NEW t \in Nat, t <= now
  PROVE  Spend(Live(t)) \in Nat /\ Spend(Counted) \in Nat /\ Spend(Counted) <= Spend(Live(t))
  <1>1. /\ IsFiniteSet(Live(t)) /\ IsFiniteSet(Counted)
        /\ \A c \in Confs : conf[c].est \in Nat
    BY CountedIsFinite DEF SpendInv, IInv
  <1>2. Counted \in SUBSET Live(t) /\ Live(t) \subseteq Confs
    BY DEF Counted, Live, SpendInv, IInv, TypeOK
  <1>3. /\ \A c \in Live(t) : conf[c].est \in Nat
        /\ \A c \in Counted : conf[c].est \in Nat /\ conf[c].est = conf[c].est
    BY <1>1, <1>2
  <1>4. Sum(conf, Live(t)) \in Nat /\ Sum(conf, Counted) \in Nat
    BY <1>1, <1>3, SumIsNat
  <1>5. Sum(conf, Counted) <= Sum(conf, Live(t))
    BY <1>1, <1>2, <1>3, SumShrinks
  <1>6. QED
    BY <1>4, <1>5, SpendIsSum

\* When no row begins to count, the bounds are kept.
LEMMA CountShrinks ==
  ASSUME SpendInv, Counted' \subseteq Counted,
         \A c \in Counted : conf'[c].est = conf[c].est
  PROVE  Spend(Counted) \in Nat /\ Spend(Counted)' \in Nat /\ Spend(Counted)' <= Spend(Counted)
  <1>1. IsFiniteSet(Counted) /\ \A c \in Counted : conf[c].est \in Nat
    BY CountedIsFinite DEF SpendInv, IInv, Counted, Live, TypeOK
  <1>2. Sum(conf, Counted) \in Nat
    BY <1>1, SumIsNat
  <1>3. IsFiniteSet(Counted') /\ Counted' \in SUBSET Counted
    BY <1>1, FS_Subset
  <1>4. /\ \A c \in Counted' : conf'[c].est = conf[c].est
        /\ \A c \in Counted' : conf'[c].est \in Nat
    BY <1>1, <1>3
  <1>5. Sum(conf', Counted') \in Nat
    BY <1>3, <1>4, SumIsNat
  <1>6. Sum(conf', Counted') <= Sum(conf, Counted)
    BY <1>1, <1>3, <1>4, SumShrinks
  <1>7. QED
    BY <1>2, <1>5, <1>6, SpendIsSum

LEMMA BudgetKept ==
  ASSUME SpendInv, Counted' \subseteq Counted,
         \A c \in Counted : conf'[c].est = conf[c].est,
         \A q \in Proposers : pc'[q] = "decide" => pc[q] = "decide" /\ seen'[q] = seen[q],
         \A q \in Proposers : wrow'[q] = "inserted" =>
           wrow[q] = "inserted" /\ conf'[target'[q]].est = conf[target[q]].est
  PROVE  Budget'
  <1>1. /\ Spend(Counted) \in Nat /\ Spend(Counted)' \in Nat
        /\ Spend(Counted)' <= Spend(Counted)
    BY CountShrinks
  <1>2. ASSUME NEW q \in Proposers, wrow[q] = "inserted"
        PROVE  conf[target[q]].est \in Nat
    BY <1>2 DEF SpendInv, IInv, TypeOK, Writes, Requests
  <1>3. Limit \in Nat
    BY NumbersAssumption
  <1> HIDE DEF Counted
  <1>4. Spend(Counted)' <= Limit
    BY <1>1, <1>3 DEF SpendInv, Budget
  <1>5. ASSUME NEW q \in Proposers, pc'[q] = "decide"
        PROVE  seen'[q] \in Nat /\ Spend(Counted)' <= seen'[q]
    BY <1>1, <1>5 DEF SpendInv, Budget
  <1>6. ASSUME NEW q \in Proposers, wrow'[q] = "inserted"
        PROVE  Spend(Counted)' + conf'[target'[q]].est <= Limit
    BY <1>1, <1>2, <1>3, <1>6 DEF SpendInv, Budget
  <1>7. QED
    BY <1>4, <1>5, <1>6 DEF Budget

\* A step that leaves the rows, the clock, the counts and the policy's lock alone.
LEMMA SpendQuiet ==
  ASSUME SpendInv, UNCHANGED <<now, conf, resv, late, seen, policyLock>>,
         \A q \in Requests : began'[q] <= now,
         \A q \in Proposers :
           pc'[q] \in {"readSpend", "decide", "auditProposal"} => pc'[q] = pc[q],
         \A q \in Proposers :
           wrow'[q] = "inserted" => wrow[q] = "inserted" /\ target'[q] = target[q]
  PROVE  Accounts'
  <1>1. Counted' = Counted /\ Booked' = Booked
    BY DEF Counted, Live, Booked
  <1>2. Budget'
    BY <1>1, BudgetKept
  <1>3. Clock' /\ LockHeld'
    BY DEF SpendInv, Clock, LockHeld
  <1>4. QED
    BY <1>1, <1>2, <1>3 DEF SpendInv, Accounts

\* The proposals' steps that neither count nor write.
LEMMA SpendBegin == ASSUME SpendInv, NEW r \in Requests, Begin(r) PROVE Accounts'
  <1> USE DEF Goto, env, rows, locks, writes, history
  <1>1. ASSUME NEW q \in Requests PROVE began'[q] <= now
    BY DEF Begin, BeginProposal, BeginMcpApproval, BeginDashApproval, SpendInv, Clock,
           IInv, TypeOK
  <1>2. ASSUME NEW q \in Proposers
        PROVE  /\ pc'[q] \in {"readSpend", "decide", "auditProposal"} => pc'[q] = pc[q]
               /\ wrow'[q] = wrow[q] /\ target'[q] = target[q]
    BY KindsAssumption
    DEF Begin, BeginProposal, BeginMcpApproval, BeginDashApproval, SpendInv, IInv,
        TypeOK, Requests, Approvers
  <1>3. UNCHANGED <<now, conf, resv, late, seen, policyLock>>
    BY DEF Begin, BeginProposal, BeginMcpApproval, BeginDashApproval
  <1>4. QED
    BY <1>1, <1>2, <1>3, SpendQuiet

LEMMA SpendApproval == ASSUME SpendInv, NEW r \in Requests, ApprovalStep(r) PROVE Accounts'
  <1> USE DEF Goto, Finish, SettleReservation, env, rows, locks, writes, history
  <1>1. r \in Approvers /\ r \notin Proposers
    BY PathOf DEF SpendInv, ApprovalStep, AuditCall, Load, Reprice, RepriceFails, Release,
                  Claim, Execute, SettleCommitted, SettleReleased
  <1>2. /\ UNCHANGED <<now, conf, resv, late, seen, policyLock, began, target>>
        /\ \E label \in Pcs : pc' = [pc EXCEPT ![r] = label]
        /\ wrow' = wrow \/ \E w \in RowWrites : wrow' = [wrow EXCEPT ![r] = w]
    <2>1. CASE AuditCall(r) \/ RepriceFails(r) \/ Release(r)
      BY <2>1 DEF AuditCall, RepriceFails, Release, Pcs
    <2>2. CASE Load(r) \/ Reprice(r)
      BY <2>2 DEF Load, Reprice, Pcs
    <2>3. CASE Claim(r)
      BY <2>3 DEF Claim, Pcs, RowWrites
    <2>4. CASE Execute(r)
      BY <2>4 DEF Execute, Pcs
    <2>5. CASE SettleCommitted(r) \/ SettleReleased(r)
      BY <2>5 DEF SettleCommitted, SettleReleased, Pcs, RowWrites
    <2>6. QED
      BY <2>1, <2>2, <2>3, <2>4, <2>5 DEF ApprovalStep
  <1>3. ASSUME NEW q \in Proposers PROVE pc'[q] = pc[q] /\ wrow'[q] = wrow[q]
    BY <1>1, <1>2 DEF SpendInv, IInv, TypeOK, Requests
  <1>4. QED
    BY <1>2, <1>3, SpendQuiet DEF SpendInv, Clock

\* A proposal counts what is live when it began, holding the policy's lock.
LEMMA SpendRead == ASSUME SpendInv, NEW r \in Requests, ReadSpend(r) PROVE Accounts'
  <1> USE DEF Goto, env, rows, locks, writes, history
  <1>1. /\ pc[r] = "readSpend" /\ r \in Proposers
        /\ pc' = [pc EXCEPT ![r] = "decide"]
        /\ seen' = [seen EXCEPT ![r] = Spend(Live(began[r]))]
        /\ UNCHANGED <<now, conf, resv, late, policyLock, began, target, wrow>>
    BY PathOf DEF SpendInv, ReadSpend, LiveSpendCents
  <1>2. /\ Spend(Live(began[r])) \in Nat /\ Spend(Counted) \in Nat
        /\ Spend(Counted) <= Spend(Live(began[r]))
    BY CountIsABound DEF SpendInv, Clock, IInv, TypeOK
  <1>3. Counted' = Counted /\ Booked' = Booked /\ Spend(Counted)' = Spend(Counted)
    <2>1. Counted' = Counted /\ Booked' = Booked
      BY <1>1 DEF Counted, Live, Booked
    <2>2. QED
      BY <1>1, <2>1, SpendIsSum
  <1>4. Clock' /\ LockHeld'
    BY <1>1 DEF SpendInv, IInv, TypeOK, Clock, LockHeld
  <1>5. \A q \in Proposers : pc'[q] = "decide" => seen'[q] \in Nat /\ Spend(Counted)' <= seen'[q]
    <2> SUFFICES ASSUME NEW q \in Proposers, pc'[q] = "decide"
                 PROVE  seen'[q] \in Nat /\ Spend(Counted)' <= seen'[q]
      OBVIOUS
    <2>1. CASE q = r
      BY <1>1, <1>2, <1>3, <2>1 DEF SpendInv, IInv, TypeOK
    <2>2. CASE q # r
      <3>1. pc[q] = "decide" /\ seen'[q] = seen[q]
        BY <1>1, <2>2 DEF SpendInv, IInv, TypeOK, Requests
      <3>2. QED
        BY <1>3, <3>1 DEF SpendInv, Budget
    <2>3. QED
      BY <2>1, <2>2
  <1>6. Budget'
    BY <1>1, <1>3, <1>5 DEF SpendInv, Budget
  <1>7. QED
    BY <1>3, <1>4, <1>6 DEF SpendInv, Accounts

\* The insert fits under the limit: what it was weighed against still bounds
\* what counts.
LEMMA SpendInsert == ASSUME SpendInv, NEW r \in Requests, Propose(r) PROVE Accounts'
  <1> USE DEF Goto, env, locks, writes, history
  <1>1. /\ pc[r] = "decide" /\ r \in Proposers /\ wrow[r] = "none" /\ policyLock = r
        /\ pc' = [pc EXCEPT ![r] = "auditProposal"]
        /\ UNCHANGED <<now, resv, late, policyLock, began, seen>>
    BY PathOf, NothingWritten DEF SpendInv, LockHeld, Propose
  <1>2. PICK t \in Tools, estimate \in Amounts :
          IF estimate > 0 /\ seen[r] + estimate > Limit
            THEN UNCHANGED <<conf, target, writes>>
            ELSE \E c \in Confs :
                 /\ conf[c].state = "absent"
                 /\ conf' = [conf EXCEPT ![c] = Row("inserting", t, estimate, now + TTL)]
                 /\ target' = [target EXCEPT ![r] = c]
                 /\ wrow' = [wrow EXCEPT ![r] = "inserted"]
    BY DEF Propose
  <1>3. Clock' /\ LockHeld'
    <2>1. \A q \in Proposers \ {r} : pc'[q] = pc[q] /\ wrow'[q] = wrow[q]
      BY <1>1, <1>2 DEF SpendInv, IInv, TypeOK, Requests
    <2>2. QED
      BY <1>1, <2>1 DEF SpendInv, Clock, LockHeld
  <1>4. CASE estimate > 0 /\ seen[r] + estimate > Limit
    <2>1. UNCHANGED <<conf, target, writes>>
      BY <1>2, <1>4
    <2>2. Counted' = Counted /\ Booked' = Booked
      BY <1>1, <2>1 DEF Counted, Live, Booked
    <2>3. \A q \in Proposers : pc'[q] = "decide" => pc[q] = "decide"
      BY <1>1 DEF SpendInv, IInv, TypeOK, Requests
    <2>4. Budget'
      BY <1>1, <2>1, <2>2, <2>3, BudgetKept
    <2>5. QED
      BY <1>3, <2>2, <2>4 DEF SpendInv, Accounts
  <1>5. CASE ~ (estimate > 0 /\ seen[r] + estimate > Limit)
    <2>1. PICK c \in Confs :
            /\ conf[c].state = "absent"
            /\ conf' = [conf EXCEPT ![c] = Row("inserting", t, estimate, now + TTL)]
            /\ target' = [target EXCEPT ![r] = c]
            /\ wrow' = [wrow EXCEPT ![r] = "inserted"]
      BY <1>2, <1>5
    <2>2. Counted' = Counted /\ c \notin Counted
      BY <1>1, <2>1 DEF Counted, Live, SpendInv, IInv, TypeOK, Ledger
    <2>3. IsFiniteSet(Booked')
      <3>1. Booked' = Booked \cup {c}
        BY <2>1 DEF Booked, Row, SpendInv, IInv, TypeOK
      <3>2. QED
        BY <3>1, FS_AddElement DEF SpendInv
    <2>4. \A k \in Confs : k # c => conf'[k] = conf[k]
      BY <2>1 DEF SpendInv, IInv, TypeOK
    <2>5. \A k \in Counted : conf'[k].est = conf[k].est
      BY <2>2, <2>4 DEF Counted, Live
    <2>6. /\ Spend(Counted) \in Nat /\ Spend(Counted)' \in Nat
          /\ Spend(Counted)' <= Spend(Counted)
      BY <2>2, <2>5, CountShrinks
    <2>7. /\ Spend(Counted) <= Limit /\ seen[r] \in Nat /\ Spend(Counted) <= seen[r]
          /\ estimate \in Nat /\ Limit \in Nat
      BY <1>1, AmountsAreNat, NumbersAssumption DEF SpendInv, Budget
    <2>8. Spend(Counted)' <= Limit /\ Spend(Counted)' + estimate <= Limit
      BY <1>5, <2>6, <2>7
    <2>9. ASSUME NEW q \in Proposers, pc'[q] = "decide"
          PROVE  seen'[q] \in Nat /\ Spend(Counted)' <= seen'[q]
      <3>1. pc[q] = "decide" /\ seen'[q] = seen[q]
        BY <1>1, <2>9 DEF SpendInv, IInv, TypeOK, Requests
      <3>2. seen[q] \in Nat /\ Spend(Counted) <= seen[q]
        BY <3>1 DEF SpendInv, Budget
      <3>3. QED
        BY <2>6, <3>1, <3>2
    <2>10. ASSUME NEW q \in Proposers, wrow'[q] = "inserted"
           PROVE  Spend(Counted)' + conf'[target'[q]].est <= Limit
      <3>1. CASE q = r
        <4>1. conf'[target'[q]].est = estimate
          BY <2>1, <3>1 DEF SpendInv, IInv, TypeOK, Row
        <4>2. QED
          BY <2>8, <4>1
      <3>2. CASE q # r
        <4>1. wrow[q] = "inserted"
          BY <2>1, <2>10, <3>2 DEF SpendInv, IInv, TypeOK, Requests
        <4>2. policyLock = q
          BY <4>1 DEF SpendInv, LockHeld
        <4>3. QED
          BY <1>1, <3>2, <4>2
      <3>3. QED
        BY <3>1, <3>2
    <2>11. Budget'
      BY <2>8, <2>9, <2>10 DEF Budget
    <2>12. QED
      BY <1>3, <2>3, <2>11 DEF Accounts
  <1>6. QED
    BY <1>4, <1>5

LEMMA SpendProposal == ASSUME SpendInv, NEW r \in Requests, ProposalStep(r) PROVE Accounts'
  <1> USE DEF Goto, Finish, env, rows, locks, writes, history
  <1>1. CASE LockPolicy(r)
    <2>1. /\ policyLock = NoRequest /\ policyLock' = r /\ r \in Proposers
          /\ pc' = [pc EXCEPT ![r] = "readSpend"]
          /\ UNCHANGED <<now, conf, resv, late, seen, began, target, wrow>>
      BY <1>1, PathOf DEF LockPolicy, SpendInv
    <2>2. Counted' = Counted /\ Booked' = Booked
      BY <2>1 DEF Counted, Live, Booked
    <2>3. Clock' /\ LockHeld'
      BY <2>1, KindsAssumption DEF SpendInv, IInv, TypeOK, Clock, LockHeld, Requests
    <2>4. \A q \in Proposers : pc'[q] = "decide" => pc[q] = "decide"
      BY <2>1 DEF SpendInv, IInv, TypeOK, Requests
    <2>5. Budget'
      BY <2>1, <2>2, <2>4, BudgetKept
    <2>6. QED
      BY <2>2, <2>3, <2>5 DEF SpendInv, Accounts
  <1>2. CASE ReadSpend(r)
    BY <1>2, SpendRead
  <1>3. CASE Propose(r)
    BY <1>3, SpendInsert
  <1>4. CASE ProposalFails(r) \/ AuditProposal(r)
    <2>1. /\ pc' = [pc EXCEPT ![r] = "commit"]
          /\ UNCHANGED <<now, conf, resv, late, seen, policyLock, began, target, wrow>>
      BY <1>4 DEF ProposalFails, AuditProposal
    <2>2. \A q \in Proposers :
            pc'[q] \in {"readSpend", "decide", "auditProposal"} => pc'[q] = pc[q]
      BY <2>1 DEF SpendInv, IInv, TypeOK, Requests
    <2>3. QED
      BY <2>1, <2>2, SpendQuiet DEF SpendInv, Clock
  <1>5. QED
    BY <1>1, <1>2, <1>3, <1>4 DEF ProposalStep

\* Ending a transaction gives back its locks and takes nobody else's.
LEMMA SpendUnlock ==
  ASSUME SpendInv, NEW r \in Requests, Unlock(r), UNCHANGED <<env, began, target, seen>>
  PROVE  /\ Clock' /\ LockHeld'
         /\ \A q \in Requests : wrow'[q] # "none" => q # r /\ wrow'[q] = wrow[q]
         /\ \A q \in Requests : pc'[q] = "decide" => q # r /\ pc[q] = "decide"
  BY DEF SpendInv, IInv, TypeOK, Unlock, Goto, Clock, LockHeld, env, Requests

\* What a transaction that inserted nothing makes of a confirmation that counts.
LEMMA CommitShrinks ==
  ASSUME SpendInv, NEW r \in Requests, Commit(r), wrow[r] # "inserted"
  PROVE  Counted' \subseteq Counted
  <1> SUFFICES ASSUME NEW c \in Confs, c \in Counted' PROVE c \in Counted
    BY DEF Counted, Live
  <1>1. /\ now' = now /\ conf'[c].expires = conf[c].expires
        /\ resv'[c] = IF target[r] = c /\ wresv[r] # "none" THEN wresv[r] ELSE resv[c]
        /\ conf'[c].state = IF target[r] = c /\ wrow[r] # "none"
                              THEN StateWritten(r) ELSE conf[c].state
    BY DEF Commit, env, SpendInv, IInv, TypeOK
  <1>2. /\ c \notin late' /\ c \notin late
        /\ \/ resv'[c] = "committed"
           \/ resv'[c] = "pending" /\ conf'[c].state = "open" /\ conf'[c].expires > now'
    BY DEF Counted, Live, Commit
  <1>3. CASE target[r] = c /\ wresv[r] # "none"
    <2>1. wresv[r] = "committed" /\ resv[c] = "pending" /\ conf[c].state = "open"
      BY <1>1, <1>2, <1>3 DEF SpendInv, IInv, TypeOK, Writes, WrittenRows, Ledger, ResvStates
    <2>2. ~ (now >= conf[c].expires)
      BY <1>2, <1>3, <2>1 DEF Commit
    <2>3. conf[c].expires > now
      BY <2>2 DEF SpendInv, IInv, TypeOK
    <2>4. QED
      BY <1>2, <2>1, <2>3 DEF Counted, Live
  <1>4. CASE ~ (target[r] = c /\ wresv[r] # "none")
    <2>1. resv'[c] = resv[c]
      BY <1>1, <1>4
    <2>2. CASE resv[c] = "committed"
      BY <1>2, <2>2 DEF Counted, Live
    <2>3. CASE resv[c] = "pending"
      <3>1. conf[c].state = "open"
        BY <2>3 DEF SpendInv, IInv, Ledger
      <3>2. QED
        BY <1>1, <1>2, <2>1, <2>3, <3>1 DEF Counted, Live
    <2>4. QED
      BY <1>2, <2>1, <2>2, <2>3
  <1>5. QED
    BY <1>3, <1>4

\* A commit makes one more row count at most, the one it has inserted.
LEMMA CommitInserts ==
  ASSUME SpendInv, NEW r \in Requests, Commit(r), wrow[r] = "inserted"
  PROVE  Budget'
  <1> DEFINE c == target[r]
             More == Counted \cup {c}
  <1>1. /\ c \in Confs /\ r \in Proposers /\ policyLock = r
        /\ conf[c].state = "inserting" /\ resv[c] = "none"
    BY DEF SpendInv, IInv, LockHeld, Writes, WrittenRows, Ledger
  <1>2. Counted' \subseteq More
    <2> SUFFICES ASSUME NEW k \in Confs, k \in Counted', k # c PROVE k \in Counted
      BY DEF Counted, Live
    <2>1. /\ now' = now /\ conf'[k] = conf[k] /\ resv'[k] = resv[k] /\ late \subseteq late'
      BY DEF Commit, env
    <2>2. QED
      BY <2>1 DEF Counted, Live
  <1>3. \A k \in Confs : conf'[k].est = conf[k].est /\ conf[k].est \in Nat
    BY DEF Commit, SpendInv, IInv, TypeOK
  <1>4. IsFiniteSet(Counted) /\ Counted \subseteq Confs /\ c \notin Counted
    BY <1>1, CountedIsFinite DEF SpendInv, IInv, TypeOK, Counted, Live
  <1>5. IsFiniteSet(More) /\ More \subseteq Confs
    BY <1>1, <1>4, FS_AddElement
  <1>6. Sum(conf, More) = conf[c].est + Sum(conf, Counted)
    <2>1. More \ {c} = Counted /\ c \in More
      BY <1>4
    <2>2. \A k \in More : conf[k].est \in Nat
      BY <1>3, <1>5
    <2>3. Sum(conf, More) = conf[c].est + Sum(conf, More \ {c})
      <3> HIDE DEF More
      <3>1. QED
        BY <1>5, <2>1, <2>2, SumOfElement
    <2>4. QED
      BY <2>1, <2>3
  <1>7. Sum(conf', Counted') <= Sum(conf, More)
    <2>1. \A k \in More : conf[k].est \in Nat
      BY <1>3, <1>5
    <2>2. \A k \in Counted' : conf'[k].est = conf[k].est
      BY <1>2, <1>3, <1>5
    <2>3. Counted' \in SUBSET More
      BY <1>2
    <2> HIDE DEF More
    <2>4. QED
      BY <1>5, <2>1, <2>2, <2>3, SumShrinks
  <1>8. Sum(conf, Counted) \in Nat /\ Sum(conf', Counted') \in Nat
    <2>1. \A k \in Counted : conf[k].est \in Nat
      BY <1>3, <1>4
    <2>2. Sum(conf, Counted) \in Nat
      BY <1>4, <2>1, SumIsNat
    <2>3. IsFiniteSet(Counted') /\ \A k \in Counted' : conf'[k].est \in Nat
      BY <1>2, <1>3, <1>5, FS_Subset
    <2>4. Sum(conf', Counted') \in Nat
      BY <2>3, SumIsNat
    <2>5. QED
      BY <2>2, <2>4
  <1>9. Spend(Counted) + conf[c].est <= Limit
    BY <1>1 DEF SpendInv, Budget
  <1>10. Spend(Counted)' <= Limit
    <2>1. Spend(Counted) = Sum(conf, Counted) /\ Spend(Counted)' = Sum(conf', Counted')
      BY SpendIsSum
    <2>2. conf[c].est \in Nat /\ Limit \in Nat
      BY <1>1, <1>3, NumbersAssumption
    <2> HIDE DEF c, More
    <2>3. QED
      BY <1>6, <1>7, <1>8, <1>9, <2>1, <2>2
  <1>11. ASSUME NEW q \in Proposers, pc'[q] = "decide" \/ wrow'[q] = "inserted" PROVE FALSE
    <2>1. q # r /\ (pc[q] = "decide" \/ wrow[q] = "inserted")
      BY <1>11, SpendUnlock DEF Commit, Requests
    <2>2. policyLock = q
      BY <2>1 DEF SpendInv, LockHeld
    <2>3. QED
      BY <1>1, <2>1, <2>2
  <1>12. QED
    BY <1>10, <1>11 DEF Budget

LEMMA SpendCommit == ASSUME SpendInv, NEW r \in Requests, Commit(r) PROVE Accounts'
  <1>1. Clock' /\ LockHeld'
    BY SpendUnlock DEF Commit
  <1>2. IsFiniteSet(Booked')
    <2>1. Booked' \in SUBSET Booked
      <3> SUFFICES ASSUME NEW c \in Confs, conf[c].state = "absent"
                   PROVE  conf'[c].state = "absent"
        BY DEF Booked
      <3>1. ~ (target[r] = c /\ wrow[r] # "none")
        BY DEF SpendInv, IInv, TypeOK, WrittenRows, RowWrites
      <3>2. QED
        BY <3>1 DEF Commit
    <2>2. QED
      BY <2>1, FS_Subset DEF SpendInv
  <1>3. CASE wrow[r] = "inserted"
    BY <1>1, <1>2, <1>3, CommitInserts DEF Accounts
  <1>4. CASE wrow[r] # "inserted"
    <2>1. \A c \in Confs : conf'[c].est = conf[c].est
      BY DEF Commit, SpendInv, IInv, TypeOK
    <2>2. \A q \in Proposers : wrow'[q] = "inserted" =>
            wrow[q] = "inserted" /\ target'[q] = target[q] /\ target[q] \in Confs
      BY SpendUnlock DEF Commit, SpendInv, IInv, Writes, Requests
    <2>3. \A q \in Proposers : pc'[q] = "decide" => pc[q] = "decide" /\ seen'[q] = seen[q]
      BY SpendUnlock DEF Commit, Requests
    <2>4. Counted' \subseteq Counted /\ Counted \subseteq Confs
      BY <1>4, CommitShrinks DEF Counted, Live
    <2>5. Budget'
      <3>1. \A c \in Counted : conf'[c].est = conf[c].est
        BY <2>1, <2>4
      <3>2. \A q \in Proposers : wrow'[q] = "inserted" =>
              wrow[q] = "inserted" /\ conf'[target'[q]].est = conf[target[q]].est
        BY <2>1, <2>2
      <3>3. QED
        BY <2>3, <2>4, <3>1, <3>2, BudgetKept
    <2>6. QED
      BY <1>1, <1>2, <2>5 DEF Accounts
  <1>5. QED
    BY <1>3, <1>4

LEMMA SpendAbort == ASSUME SpendInv, NEW r \in Requests, Abort(r) PROVE Accounts'
  <1>1. /\ UNCHANGED <<env, began, target, seen, resv, late>> /\ Unlock(r)
        /\ \A c \in Confs : conf'[c] = IF target[r] = c /\ wrow[r] = "inserted"
                                         THEN NoRow ELSE conf[c]
    BY DEF Abort, history
  <1>2. Clock' /\ LockHeld'
    BY <1>1, SpendUnlock
  <1>3. IsFiniteSet(Booked')
    <2>1. Booked' \in SUBSET Booked
      <3>1. NoRow.state = "absent"
        BY DEF NoRow, Row
      <3>2. QED
        BY <1>1, <3>1 DEF Booked
    <2>2. QED
      BY <2>1, FS_Subset DEF SpendInv
  <1>4. ASSUME NEW c \in Confs, resv[c] # "none" PROVE conf'[c] = conf[c]
    BY <1>1, <1>4 DEF SpendInv, IInv, WrittenRows, Ledger
  <1>5. Counted' \subseteq Counted /\ \A c \in Counted : conf'[c].est = conf[c].est
    BY <1>1, <1>4 DEF Counted, Live, env
  <1>6. ASSUME NEW q \in Proposers, wrow'[q] = "inserted"
        PROVE  wrow[q] = "inserted" /\ conf'[target'[q]].est = conf[target[q]].est
    <2>1. q # r /\ wrow[q] = "inserted" /\ target'[q] = target[q] /\ target[q] \in Confs
      BY <1>1, <1>6, SpendUnlock DEF SpendInv, IInv, Writes, Requests
    <2>2. ~ (target[r] = target[q] /\ wrow[r] = "inserted")
      BY <2>1 DEF SpendInv, IInv, Exclusive, Requests
    <2>3. QED
      BY <1>1, <2>1, <2>2
  <1>7. \A q \in Proposers : pc'[q] = "decide" => pc[q] = "decide" /\ seen'[q] = seen[q]
    BY <1>1, SpendUnlock DEF Requests
  <1>8. Budget'
    BY <1>5, <1>6, <1>7, BudgetKept
  <1>9. QED
    BY <1>2, <1>3, <1>8 DEF Accounts

\* Time makes holds expire and brings none back.
LEMMA SpendTick == ASSUME SpendInv, Tick PROVE Accounts'
  <1>1. /\ now' = now + 1 /\ now \in Nat
        /\ UNCHANGED <<conf, resv, late, policyLock, pc, began, target, seen, wrow>>
    BY DEF Tick, rows, locks, writes, history, SpendInv, IInv, TypeOK
  <1>2. Counted' \subseteq Counted /\ Booked' = Booked
    BY <1>1 DEF Counted, Live, Booked, SpendInv, IInv, TypeOK
  <1>3. Budget'
    BY <1>1, <1>2, BudgetKept
  <1>4. Clock' /\ LockHeld'
    BY <1>1 DEF SpendInv, IInv, TypeOK, Clock, LockHeld
  <1>5. QED
    BY <1>1, <1>2, <1>3, <1>4 DEF SpendInv, Accounts

LEMMA InitSpendInv == Init => SpendInv
  <1> SUFFICES ASSUME Init PROVE SpendInv
    OBVIOUS
  <1>1. Booked = {} /\ Counted = {}
    BY DEF Init, Booked, Counted, Live, NoRow, Row
  <1>2. IsFiniteSet(Booked)
    BY <1>1, FS_EmptySet
  <1>3. Spend(Counted) = 0
    BY <1>1, SumOfNothing, SpendIsSum
  <1>4. Clock /\ LockHeld
    BY DEF Init, Clock, LockHeld, Requests
  <1>5. Budget
    BY <1>3, NumbersAssumption DEF Init, Budget, Requests
  <1>6. QED
    BY <1>2, <1>4, <1>5, InitIInv DEF SpendInv

LEMMA StepSpendInv == SpendInv /\ [Next]_vars => SpendInv'
  <1> SUFFICES ASSUME SpendInv, [Next]_vars PROVE SpendInv'
    OBVIOUS
  <1>1. IInv'
    BY StepIInv DEF SpendInv
  <1>2. Accounts'
    <2>1. ASSUME NEW r \in Requests, Begin(r) \/ Step(r) \/ Abort(r) PROVE Accounts'
      BY <2>1, SpendBegin, SpendProposal, SpendApproval, SpendCommit, SpendAbort DEF Step
    <2>2. CASE Tick
      BY <2>2, SpendTick
    <2>3. CASE Connect \/ UNCHANGED vars
      BY <2>3, SpendQuiet
      DEF Connect, vars, rows, locks, writes, history, SpendInv, Clock
    <2>4. QED
      BY <2>1, <2>2, <2>3 DEF Next
  <1>3. QED
    BY <1>1, <1>2 DEF SpendInv, Accounts

\* However proposals, approvals, failures and roll-backs interleave, what the
\* tenant has spent and holds, but for what was committed after it had expired,
\* stays within the limit (liveSpendCents under the policy's row lock).
THEOREM SpendingIsBounded == Spec => []SpendWithinLimitUnlessLate
  <1>1. SpendInv => SpendWithinLimitUnlessLate
    BY DEF SpendInv, Budget, SpendWithinLimitUnlessLate, Counted
  <1>2. QED
    BY <1>1, InitSpendInv, StepSpendInv, PTL DEF Spec

-----------------------------------------------------------------------------
(* The dashboard's answer *)

\* What a dashboard request is about to answer, and what it has answered.
Told ==
  \A r \in DashApprovers :
    result[r] = "ok" =>
      /\ pc[r] \in {"commit", "done"}
      /\ pc[r] = "commit" => wrow[r] = "claimed"
      /\ pc[r] = "done" => target[r] \in Confs /\ conf[target[r]].state = "consumed"

LEMMA StepTold == ASSUME IInv, Told, [Next]_vars PROVE Told'
  <1> USE DEF Goto, Finish, env, rows, locks, writes, history
  <1>1. \A c \in Confs : conf[c].state = "consumed" => conf'[c].state = "consumed"
    BY StepIsFinal DEF Final
  <1>2. DashApprovers \subseteq Approvers /\ Approvers \subseteq Requests
    BY DEF Approvers, Requests
  <1> DEFINE Same(q) == /\ result'[q] = result[q] /\ pc'[q] = pc[q]
                        /\ wrow'[q] = wrow[q] /\ target'[q] = target[q]
  <1>3. ASSUME NEW r \in Requests, \A q \in Requests \ {r} : Same(q),
               r \in DashApprovers => result'[r] # "ok"
        PROVE  Told'
    BY <1>1, <1>2, <1>3 DEF Told
  <1>4. ASSUME NEW r \in Requests, Begin(r) PROVE Told'
    <2>1. pc[r] = "new" /\ result' = result
      BY <1>4 DEF Begin, BeginProposal, BeginMcpApproval, BeginDashApproval
    <2>2. \A q \in Requests \ {r} : Same(q)
      BY <1>4 DEF Begin, BeginProposal, BeginMcpApproval, BeginDashApproval, IInv, TypeOK
    <2>3. QED
      BY <1>3, <2>1, <2>2 DEF Told
  <1>5. ASSUME NEW r \in Requests, ProposalStep(r) PROVE Told'
    <2>1. r \notin DashApprovers
      BY <1>2, <1>5, PathOf
      DEF ProposalStep, LockPolicy, ReadSpend, Propose, ProposalFails, AuditProposal
    <2>2. \A q \in Requests \ {r} : Same(q)
      <3>1. CASE Propose(r)
        BY <3>1 DEF Propose, IInv, TypeOK
      <3>2. CASE ~ Propose(r)
        BY <1>5, <3>2 DEF ProposalStep, LockPolicy, ReadSpend, ProposalFails, AuditProposal,
                          IInv, TypeOK
      <3>3. QED
        BY <3>1, <3>2
    <2>3. QED
      BY <1>3, <2>1, <2>2
  <1>6. ASSUME NEW r \in Requests, ApprovalStep(r) PROVE Told'
    <2>1. pc[r] \notin {"commit", "done"}
      BY <1>6 DEF ApprovalStep, AuditCall, Load, Reprice, RepriceFails, Release, Claim,
                  Execute, SettleCommitted, SettleReleased
    <2>2. r \in DashApprovers => result[r] # "ok"
      BY <2>1 DEF Told
    <2>3. \A q \in Requests \ {r} : Same(q)
      <3>1. CASE AuditCall(r) \/ RepriceFails(r) \/ Execute(r) \/ Claim(r)
        BY <3>1 DEF AuditCall, RepriceFails, Execute, Claim, IInv, TypeOK
      <3>2. CASE Load(r) \/ Reprice(r)
        BY <3>2 DEF Load, Reprice, IInv, TypeOK
      <3>3. CASE Release(r) \/ SettleCommitted(r) \/ SettleReleased(r)
        BY <3>3 DEF Release, SettleCommitted, SettleReleased, IInv, TypeOK
      <3>4. QED
        BY <1>6, <3>1, <3>2, <3>3 DEF ApprovalStep
    <2>4. CASE SettleCommitted(r)
      <3>1. /\ pc' = [pc EXCEPT ![r] = "commit"] /\ wrow' = wrow
            /\ wrow[r] = "claimed"
        BY <2>4 DEF SettleCommitted, IInv, Writes
      <3>2. pc'[r] = "commit" /\ wrow'[r] = "claimed"
        BY <3>1 DEF IInv, TypeOK
      <3>3. QED
        BY <1>1, <1>2, <2>3, <3>2 DEF Told
    <2>5. CASE ~ SettleCommitted(r)
      <3>1. result' = result \/ \E code \in Results \ {"ok"} :
                                  result' = [result EXCEPT ![r] = code]
        <4>1. CASE AuditCall(r) \/ RepriceFails(r) \/ Execute(r) \/ Claim(r)
          BY <4>1 DEF AuditCall, RepriceFails, Execute, Claim, Results
        <4>2. CASE Load(r)
          BY <4>2 DEF Load, Refusal, Results
        <4>3. CASE Reprice(r)
          BY <4>3 DEF Reprice, Results
        <4>4. CASE Release(r) \/ SettleReleased(r)
          BY <4>4 DEF Release, SettleReleased, Results
        <4>5. QED
          BY <1>6, <2>5, <4>1, <4>2, <4>3, <4>4 DEF ApprovalStep
      <3>2. r \in DashApprovers => result'[r] # "ok"
        BY <2>2, <3>1 DEF IInv, TypeOK
      <3>3. QED
        BY <1>3, <2>3, <3>2
    <2>6. QED
      BY <2>4, <2>5
  <1>7. ASSUME NEW r \in Requests, Commit(r) PROVE Told'
    <2>1. \A q \in Requests \ {r} : Same(q)
      BY <1>7 DEF Commit, Unlock, IInv, TypeOK
    <2>2. pc'[r] = "done" /\ result'[r] = result[r] /\ target'[r] = target[r]
      BY <1>7 DEF Commit, Unlock, IInv, TypeOK
    <2>3. ASSUME r \in DashApprovers, result[r] = "ok"
          PROVE  target[r] \in Confs /\ conf'[target[r]].state = "consumed"
      <3>1. wrow[r] = "claimed" /\ target[r] \in Confs
        BY <1>7, <2>3 DEF Commit, Told, IInv, Writes
      <3>2. QED
        BY <1>7, <3>1 DEF Commit, StateWritten, IInv, TypeOK, ConfRecords
    <2>4. QED
      BY <1>1, <1>2, <2>1, <2>2, <2>3 DEF Told
  <1>8. ASSUME NEW r \in Requests, Abort(r) PROVE Told'
    <2>1. \A q \in Requests \ {r} : Same(q)
      BY <1>8 DEF Abort, Unlock, IInv, TypeOK
    <2>2. r \in DashApprovers => result'[r] # "ok"
      BY <1>8 DEF Abort, AnswerAfterAbort, IInv, TypeOK
    <2>3. QED
      BY <1>3, <2>1, <2>2
  <1>9. CASE Tick \/ Connect \/ UNCHANGED vars
    BY <1>1, <1>9 DEF Told, Tick, Connect, vars
  <1>10. QED
    BY <1>4, <1>5, <1>6, <1>7, <1>8, <1>9 DEF Next, Step

\* The page that says "approved and executed" is rendered after the COMMIT: the
\* confirmation is consumed then, and whatever comes later it stays so.
THEOREM DashboardTellsTheTruth == Spec => []DashboardAnswerIsDurable
  <1>1. Init => Told
    BY DEF Init, Told, Approvers, Requests
  <1>2. IInv /\ Told /\ [Next]_vars => Told'
    BY StepTold
  <1>3. Told => DashboardAnswerIsDurable
    BY DEF Told, DashboardAnswerIsDurable
  <1>4. QED
    BY <1>1, <1>2, <1>3, InitIInv, StepIInv, PTL DEF Spec
=============================================================================
