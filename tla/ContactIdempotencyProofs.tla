----------------------- MODULE ContactIdempotencyProofs -----------------------
(***************************************************************************)
(* Proofs about create_contact, for any number of calls, arguments, ticks  *)
(* and crashes.                                                            *)
(***************************************************************************)
EXTENDS ContactIdempotency, TLAPS

-----------------------------------------------------------------------------
(* The invariant *)

\* Where a caller holds the audit lock, and where it has found no live record.
Locked == {"lookup", "token", "send", "store", "reply", "commit"}
Creating == {"token", "send", "store"}

\* The lock is held by the callers that are past their audit row, so by one.
LockIsHeld ==
  /\ \A r \in Callers : pc[r] \in Locked => lock = r
  /\ \A r \in Dashboard : pc[r] \notin {"call", "lookup", "store"}

\* Only a caller that has a contact of its own inserts a row.
OnlyCallersStore ==
  \A r \in Requests :
    /\ created[r] => r \in Callers /\ pc[r] \in {"reply", "commit", "done", "gone"}
    /\ created[r] \/ pc[r] = "store" => result[r] # NoRequest

\* Results and records name contacts of their key.
ResultsExist ==
  /\ \A r \in Requests : result[r] # NoRequest =>
       /\ result[r] \in contacts
       /\ idempotencyKeyFor(args[result[r]]) = idempotencyKeyFor(args[r])
  /\ \A k \in Keys : records[k].result # NoRequest =>
       /\ records[k].result \in contacts
       /\ idempotencyKeyFor(args[records[k].result]) = k

\* A committed creation has a record of its key, its own or an older one.
KeptIsRecorded ==
  \A r \in Callers : Kept(r) => records[idempotencyKeyFor(args[r])] # NoRecord

\* Who creates began when the record of its key, if any, had expired; nobody
\* else can change that record while the creator holds the lock.
CreatorsFoundNone ==
  \A r \in Callers :
    pc[r] \in Creating \/ (created[r] /\ pc[r] \in Locked) =>
    ~Live(idempotencyKeyFor(args[r]), start[r])

IInv ==
  /\ TypeOK /\ LockIsHeld /\ OnlyCallersStore /\ ResultsExist
  /\ KeptIsRecorded /\ CreatorsFoundNone /\ DuplicateHasACause

-----------------------------------------------------------------------------
(* Lemmas *)

LEMMA KeyIsAKey ==
  ASSUME NEW r \in Requests, args \in [Requests -> Args]
  PROVE  idempotencyKeyFor(args[r]) \in Keys
BY DEF Keys

LEMMA ScalarsOfKeys ==
  ASSUME NEW a, NEW b, idempotencyKeyFor(a) = idempotencyKeyFor(b)
  PROVE  a.scalars = b.scalars
BY DEF idempotencyKeyFor

\* A row that is inserted expires later than it was written.
LEMMA RowIsARecord ==
  ASSUME NEW t \in Nat, NEW x
  PROVE  [result |-> x, expires |-> t + Window] # NoRecord
BY BoundsAssumption DEF NoRecord

LEMMA InvInit == Init => IInv
<1> SUFFICES ASSUME Init PROVE IInv
  OBVIOUS
<1> USE DEF Init
<1>1. TypeOK
  BY BoundsAssumption DEF TypeOK, Requests, NoRecord
<1>2. LockIsHeld /\ OnlyCallersStore
  BY DEF LockIsHeld, OnlyCallersStore, Locked, Requests
<1>3. ResultsExist
  BY DEF ResultsExist, NoRecord
<1>4. KeptIsRecorded /\ CreatorsFoundNone /\ DuplicateHasACause
  BY DEF KeptIsRecorded, CreatorsFoundNone, DuplicateHasACause, Kept, Requests,
     Creating
<1>5. QED
  BY <1>1, <1>2, <1>3, <1>4 DEF IInv

LEMMA TypesStep == IInv /\ Next => TypeOK'
<1> SUFFICES ASSUME IInv, Next PROVE TypeOK'
  OBVIOUS
<1> USE RequestsAssumption, BoundsAssumption, KeyIsAKey
    DEF TypeOK, Goto, Requests
<1>0. TypeOK
  BY DEF IInv
<1>1. CASE Tick
  BY <1>0, <1>1 DEF Tick
<1>2. CASE Crash
  BY <1>0, <1>2 DEF Crash, InFlight
<1>3. ASSUME NEW r \in Requests, Step(r) PROVE TypeOK'
  <2>1. CASE Begin(r)
    BY <1>0, <2>1 DEF Begin
  <2>2. CASE AuditCall(r)
    BY <1>0, <2>2 DEF AuditCall, IInv, LockIsHeld
  <2>3. CASE LookUp(r)
    BY <1>0, <2>3 DEF LookUp
  <2>4. CASE GetToken(r)
    BY <1>0, <2>4 DEF GetToken
  <2>5. CASE Post(r)
    BY <1>0, <2>5 DEF Post, Ok, ServerError, RateLimited, Refused, TimedOut,
       Created, Carried, AgainUnder, Leave
  <2>6. CASE Store(r) \/ Reply(r)
    BY <1>0, <2>6 DEF Store, Reply
  <2>7. CASE Commit(r)
    BY <1>0, <2>7 DEF Commit
  <2>8. QED
    BY <1>3, <2>1, <2>2, <2>3, <2>4, <2>5, <2>6, <2>7 DEF Step
<1>4. QED
  BY <1>1, <1>2, <1>3 DEF Next

-----------------------------------------------------------------------------
(* Each part of the invariant, step by step *)

LEMMA LockStep == IInv /\ Next => LockIsHeld' /\ OnlyCallersStore'
<1> SUFFICES ASSUME IInv, Next PROVE LockIsHeld' /\ OnlyCallersStore'
  OBVIOUS
<1> USE RequestsAssumption
    DEF LockIsHeld, OnlyCallersStore, Locked, Goto, Requests
<1>0. TypeOK /\ LockIsHeld /\ OnlyCallersStore
  BY DEF IInv
<1>1. CASE Tick
  BY <1>0, <1>1 DEF Tick
<1>2. CASE Crash
  BY <1>0, <1>2 DEF Crash, InFlight, TypeOK
<1>3. ASSUME NEW r \in Requests, Step(r) PROVE LockIsHeld' /\ OnlyCallersStore'
  <2>1. CASE Begin(r)
    BY <1>0, <2>1 DEF Begin, TypeOK
  <2>2. CASE AuditCall(r)
    BY <1>0, <2>2 DEF AuditCall, TypeOK
  <2>3. CASE LookUp(r)
    BY <1>0, <2>3 DEF LookUp, TypeOK
  <2>4. CASE GetToken(r)
    BY <1>0, <2>4 DEF GetToken, TypeOK
  <2>5. CASE Post(r)
    BY <1>0, <2>5 DEF Post, Ok, ServerError, RateLimited, Refused, TimedOut,
       Created, Carried, AgainUnder, Leave, TypeOK
  <2>6. CASE Store(r) \/ Reply(r)
    BY <1>0, <2>6 DEF Store, Reply, TypeOK
  <2>7. CASE Commit(r)
    BY <1>0, <2>7 DEF Commit, TypeOK
  <2>8. QED
    BY <1>3, <2>1, <2>2, <2>3, <2>4, <2>5, <2>6, <2>7 DEF Step
<1>4. QED
  BY <1>1, <1>2, <1>3 DEF Next

LEMMA ResultsStep == IInv /\ Next => ResultsExist'
<1> SUFFICES ASSUME IInv, Next PROVE ResultsExist'
  OBVIOUS
<1> USE RequestsAssumption, KeyIsAKey DEF ResultsExist
<1>0. TypeOK /\ ResultsExist /\ OnlyCallersStore
  BY DEF IInv
<1>1. CASE UNCHANGED <<contacts, records, result, args>>
  BY <1>0, <1>1 DEF Keys
<1>2. ASSUME NEW r \in Requests, LookUp(r) PROVE ResultsExist'
  BY <1>0, <1>2 DEF LookUp, TypeOK, Keys
<1>3. ASSUME NEW r \in Requests, Post(r) PROVE ResultsExist'
  <2>1. /\ UNCHANGED <<records, args>> /\ contacts \subseteq contacts'
        /\ \/ UNCHANGED result
           \/ result' = [result EXCEPT ![r] = r] /\ r \in contacts'
    BY <1>3 DEF Post, Ok, ServerError, RateLimited, Refused, TimedOut,
       Created, Carried
  <2>2. QED
    BY <1>0, <2>1 DEF TypeOK, Keys
<1>4. ASSUME NEW r \in Requests, Commit(r) PROVE ResultsExist'
  <2>1. UNCHANGED <<contacts, result, args>>
    BY <1>4 DEF Commit
  <2>2. CASE UNCHANGED records
    BY <1>1, <2>1, <2>2
  <2>3. CASE records' = [records EXCEPT ![idempotencyKeyFor(args[r])] =
                           [result |-> result[r], expires |-> start[r] + Window]]
    BY <1>0, <2>1, <2>3 DEF TypeOK, Keys
  <2>4. QED
    BY <1>4, <2>2, <2>3 DEF Commit
<1>5. QED
  BY <1>1, <1>2, <1>3, <1>4
     DEF Next, Step, Tick, Crash, Begin, AuditCall, GetToken, Store, Reply

\* A commit is the only step that writes a record, and it writes none over
\* another.
LEMMA RecordsStep ==
  ASSUME IInv, Next
  PROVE  /\ UNCHANGED args
         /\ \/ UNCHANGED records
            \/ \E r \in Callers :
                 LET k == idempotencyKeyFor(args[r]) IN
                 /\ Commit(r) /\ created[r] /\ records[k] = NoRecord
                 /\ records' = [records EXCEPT ![k] =
                      [result |-> result[r], expires |-> start[r] + Window]]
<1>1. ASSUME NEW r \in Requests, Commit(r), ~ UNCHANGED records
      PROVE  r \in Callers /\ created[r]
               /\ records[idempotencyKeyFor(args[r])] = NoRecord
  BY <1>1 DEF Commit, IInv, OnlyCallersStore
<1>2. QED
  BY <1>1
     DEF Next, Step, Tick, Crash, Begin, AuditCall, LookUp, GetToken, Post, Ok,
         ServerError, RateLimited, Refused, TimedOut, Store, Reply, Commit

LEMMA CauseStep ==
  IInv /\ Next => KeptIsRecorded' /\ CreatorsFoundNone' /\ DuplicateHasACause'
<1> SUFFICES ASSUME IInv, Next
             PROVE  KeptIsRecorded' /\ CreatorsFoundNone' /\ DuplicateHasACause'
  OBVIOUS
<1>0. TypeOK /\ LockIsHeld /\ OnlyCallersStore /\ KeptIsRecorded
        /\ CreatorsFoundNone /\ DuplicateHasACause
  BY DEF IInv
<1>1. UNCHANGED args
  BY RecordsStep
<1>2. ASSUME NEW r \in Callers, Commit(r), created[r],
             records[idempotencyKeyFor(args[r])] = NoRecord
      PROVE  KeptIsRecorded' /\ CreatorsFoundNone' /\ DuplicateHasACause'
  <2> DEFINE k == idempotencyKeyFor(args[r])
  <2>1. /\ records' = [records EXCEPT ![k] =
             [result |-> result[r], expires |-> start[r] + Window]]
        /\ pc' = [pc EXCEPT ![r] = "done"]
        /\ UNCHANGED <<args, start, created>>
    BY <1>2 DEF Commit, Goto
  <2>2. k \in Keys /\ pc[r] = "commit" /\ start[r] \in Nat
    BY <1>0, <1>2, KeyIsAKey, BoundsAssumption DEF Commit, Requests, TypeOK
  <2>3. records'[k] # NoRecord /\ \A j \in Keys : j # k => records'[j] = records[j]
    BY <1>0, <2>1, <2>2, RowIsARecord DEF TypeOK
  <2>4. \A q \in Callers : Kept(q) => idempotencyKeyFor(args[q]) # k
    BY <1>0, <1>2 DEF KeptIsRecorded
  <2>5. \A q \in Callers : q # r /\ pc[q] \in Locked => FALSE
    BY <1>0, <2>2 DEF LockIsHeld, Locked
  <2>6. \A q \in Callers : Kept(q)' => q = r \/ Kept(q)
    BY <1>0, <2>1 DEF Kept, TypeOK, Requests
  <2>7. \A q \in Callers : idempotencyKeyFor(args[q]) \in Keys
    BY <1>0, KeyIsAKey DEF TypeOK, Requests
  <2>8. KeptIsRecorded'
    BY <1>0, <2>1, <2>3, <2>6, <2>7 DEF KeptIsRecorded
  <2>9. CreatorsFoundNone'
    BY <1>0, <2>1, <2>5 DEF CreatorsFoundNone, Locked, Creating, TypeOK, Requests
  <2>10. DuplicateHasACause'
    <3>1. SUFFICES ASSUME NEW p \in Callers, NEW q \in Callers, p # q,
                          Kept(p)', Kept(q)',
                          idempotencyKeyFor(args[p]) = idempotencyKeyFor(args[q])
                   PROVE  \E c \in {p, q} :
                            start[c] >= records'[idempotencyKeyFor(args[q])].expires
      BY <2>1 DEF DuplicateHasACause
    <3>2. Kept(p) /\ Kept(q) /\ idempotencyKeyFor(args[q]) # k
      BY <2>4, <2>6, <3>1
    <3>3. records'[idempotencyKeyFor(args[q])] = records[idempotencyKeyFor(args[q])]
      BY <2>3, <2>7, <3>2
    <3>4. QED
      BY <1>0, <3>1, <3>2, <3>3 DEF DuplicateHasACause
  <2>11. QED
    BY <2>8, <2>9, <2>10
<1>3. ASSUME UNCHANGED records
      PROVE  KeptIsRecorded' /\ CreatorsFoundNone' /\ DuplicateHasACause'
  <2>1. ASSUME NEW r \in Requests, Commit(r)
        PROVE  KeptIsRecorded' /\ CreatorsFoundNone' /\ DuplicateHasACause'
    <3>1. /\ pc[r] = "commit" /\ pc' = [pc EXCEPT ![r] = "done"]
          /\ UNCHANGED <<args, start, created>>
      BY <2>1 DEF Commit, Goto
    <3>2. r \in Callers /\ created[r] => 
             records[idempotencyKeyFor(args[r])] # NoRecord
      <4>1. SUFFICES ASSUME r \in Callers, created[r],
                            records[idempotencyKeyFor(args[r])] = NoRecord
                     PROVE  FALSE
        OBVIOUS
      <4>2. records' = [records EXCEPT ![idempotencyKeyFor(args[r])] =
                          [result |-> result[r], expires |-> start[r] + Window]]
        BY <2>1, <4>1 DEF Commit
      <4>3. start[r] \in Nat /\ idempotencyKeyFor(args[r]) \in Keys
        BY <1>0, KeyIsAKey, BoundsAssumption DEF TypeOK
      <4>4. QED
        BY <1>0, <1>3, <4>1, <4>2, <4>3, RowIsARecord DEF TypeOK
    <3>3. r \in Callers /\ created[r] =>
             start[r] >= records[idempotencyKeyFor(args[r])].expires
      BY <1>0, <3>1, KeyIsAKey, BoundsAssumption
         DEF CreatorsFoundNone, Locked, Live, TypeOK
    <3>4. /\ \A q \in Callers : Kept(q)' => Kept(q) \/ q = r
          /\ Kept(r)' => created[r]
      BY <1>0, <3>1 DEF Kept, TypeOK, Requests
    <3>5. KeptIsRecorded'
      BY <1>0, <1>3, <3>1, <3>2, <3>4 DEF KeptIsRecorded
    <3>6. CreatorsFoundNone'
      BY <1>0, <1>3, <3>1 DEF CreatorsFoundNone, Locked, Creating, Live, TypeOK,
         Requests
    <3>7. DuplicateHasACause'
      BY <1>0, <1>3, <3>1, <3>3, <3>4 DEF DuplicateHasACause
    <3>8. QED
      BY <3>5, <3>6, <3>7
  <2>2. ASSUME NEW r \in Requests, LookUp(r)
        PROVE  KeptIsRecorded' /\ CreatorsFoundNone' /\ DuplicateHasACause'
    BY <1>0, <2>2 DEF LookUp, Goto, KeptIsRecorded, CreatorsFoundNone,
       DuplicateHasACause, Kept, Creating, Locked, Live, TypeOK, OnlyCallersStore,
       Requests
  <2>3. ASSUME NEW r \in Requests, Begin(r)
        PROVE  KeptIsRecorded' /\ CreatorsFoundNone' /\ DuplicateHasACause'
    BY <1>0, <2>3, RequestsAssumption
       DEF Begin, Goto, KeptIsRecorded, CreatorsFoundNone, DuplicateHasACause,
       Kept, Creating, Locked, Live, TypeOK, OnlyCallersStore, Requests
  <2>4. ASSUME NEW r \in Requests, AuditCall(r) \/ GetToken(r) \/ Store(r) \/ Reply(r)
        PROVE  KeptIsRecorded' /\ CreatorsFoundNone' /\ DuplicateHasACause'
    BY <1>0, <1>3, <2>4
       DEF AuditCall, GetToken, Store, Reply, Goto, KeptIsRecorded,
       CreatorsFoundNone, DuplicateHasACause, Kept, Creating, Locked, Live,
       TypeOK, OnlyCallersStore, Requests
  <2>5. ASSUME NEW r \in Requests, Post(r)
        PROVE  KeptIsRecorded' /\ CreatorsFoundNone' /\ DuplicateHasACause'
    <3>1. /\ pc[r] = "send" /\ UNCHANGED <<args, start, created>>
          /\ pc' = pc \/ pc' = [pc EXCEPT ![r] = "store"]
               \/ pc' = [pc EXCEPT ![r] = "reply"]
      BY <2>5 DEF Post, Ok, ServerError, RateLimited, Refused, TimedOut,
         AgainUnder, Leave, Goto
    <3>2. QED
      BY <1>0, <1>3, <3>1 DEF KeptIsRecorded, CreatorsFoundNone,
         DuplicateHasACause, Kept, Creating, Locked, Live, TypeOK,
         OnlyCallersStore, Requests
  <2>6. CASE Tick \/ Crash
    BY <1>0, <1>3, <2>6
       DEF Tick, Crash, InFlight, KeptIsRecorded, CreatorsFoundNone,
       DuplicateHasACause, Kept, Creating, Locked, Live, TypeOK, Requests
  <2>7. QED
    BY <2>1, <2>2, <2>3, <2>4, <2>5, <2>6 DEF Next, Step
<1>4. QED
  BY <1>2, <1>3, RecordsStep

LEMMA Inductive == Spec => []IInv
<1>1. IInv /\ UNCHANGED vars => IInv'
  BY DEF IInv, TypeOK, LockIsHeld, OnlyCallersStore, ResultsExist, KeptIsRecorded,
     CreatorsFoundNone, DuplicateHasACause, Kept, Live, vars
<1>2. IInv /\ [Next]_vars => IInv'
  BY <1>1, TypesStep, LockStep, ResultsStep, CauseStep DEF IInv
<1>3. QED
  BY <1>2, InvInit, PTL DEF Spec

-----------------------------------------------------------------------------
(* The theorems *)

\* The types of the variables: attempt(n) never goes beyond its fourth.
THEOREM ContactTypes == Spec => []TypeOK
<1>1. IInv => TypeOK
  BY DEF IInv
<1>2. QED
  BY <1>1, Inductive, PTL

\* However many calls with one key cross each other, two of them create a contact
\* each and commit only if one began after the record of the key had expired.
THEOREM DuplicatesHaveACause == Spec => []DuplicateHasACause
<1>1. IInv => DuplicateHasACause
  BY DEF IInv
<1>2. QED
  BY <1>1, Inductive, PTL

\* A contact that is answered exists and was created with the scalar arguments of
\* the call, through any number of roll-backs, repeated POSTs and crashes.
THEOREM AnswersNameTheirContact == Spec => []AnswerNamesItsContact
<1>1. IInv => AnswerNamesItsContact
  BY ScalarsOfKeys DEF IInv, ResultsExist, AnswerNamesItsContact, Answered
<1>2. QED
  BY <1>1, Inductive, PTL
=============================================================================
