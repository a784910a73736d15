--------------------------- MODULE AuditChainProofs ---------------------------
(***************************************************************************)
(* Proofs about the audit log, for any number of requests, seals and rows. *)
(***************************************************************************)
EXTENDS AuditChain, WellFoundedInduction, TLAPS

(* A bounded set of naturals has a greatest element, so Max is that element. *)
LEMMA MaxIsGreatest ==
  ASSUME NEW S \in SUBSET Nat, S # {}, NEW b \in Nat, \A x \in S : x <= b
  PROVE  Max(S) \in S /\ \A x \in S : x <= Max(S)
<1> DEFINE T == {b - x : x \in S}
           Less == OpToRel(<, Nat)
<1>1. T \subseteq Nat /\ T # {}
  OBVIOUS
<1>2. PICK m \in T : \A y \in T : <<y, m>> \notin Less
  <2>1. IsWellFoundedOn(Less, Nat)
    BY NatLessThanWellFounded
  <2> HIDE DEF Less, T
  <2>2. QED
    BY <1>1, <2>1, WFMin
<1>3. PICK g \in S : m = b - g
  BY <1>2
<1>4. \A x \in S : x <= g
  <2>1. SUFFICES ASSUME NEW x \in S, ~(x <= g) PROVE FALSE
    OBVIOUS
  <2>2. b - x \in T /\ b - x < m
    BY <1>3, <2>1
  <2>3. <<b - x, m>> \in Less
    BY <1>1, <1>2, <2>2 DEF OpToRel
  <2>4. QED
    BY <1>2, <2>2, <2>3
<1>5. \E x \in S : \A y \in S : x >= y
  BY <1>4
<1>6. QED
  BY <1>5 DEF Max

-----------------------------------------------------------------------------
(* The invariant *)

\* Only the holder of the advisory lock has rows that are not committed, and
\* they follow everything that is.
Locked ==
  /\ \A w \in Writers : mine[w] # {} => lock = w
  /\ \A w \in Writers : \A r \in mine[w], q \in log : q.seq < r.seq

\* Ids are drawn once.
Drawn ==
  /\ \A r \in log : r.id < nextId
  /\ \A w \in Writers : \A r \in mine[w] : r.id < nextId
  /\ \A w \in Writers : wpc[w] = "insert" =>
       /\ drawn[w] < nextId
       /\ \A r \in log : r.id # drawn[w]
       /\ \A v \in Writers : \A r \in mine[v] : r.id # drawn[w]
       /\ \A v \in Writers : wpc[v] = "insert" /\ drawn[v] = drawn[w] => v = w

\* What a transaction sees is a chain.
Chained == Linear(log) /\ \A w \in Writers : Linear(log \cup mine[w])

\* What a seal has read is not empty and lies behind its watermark; what it has
\* uploaded is under its key.
Sealed ==
  /\ \A s \in Sealers : spc[s] \in {"put", "record"} => batch[s] # {}
  /\ \A s \in Sealers : \A r \in batch[s] :
       spc[s] \in {"put", "record"} => r.id > from[s]
  /\ \A s \in Sealers : spc[s] = "record" => objects[before[s]] = batch[s]
  /\ \A a \in archives : a.end \in 0 .. MaxNow /\ a.last \in Nat
  /\ \A a \in archives : \A r \in a.rows : r.id <= a.last

\* Seals that do not overlap start from the end of every archive.
Sequential ==
  ~SealsOverlap =>
    /\ \A s, t \in Sealers : Sealing(s) /\ Sealing(t) => s = t
    /\ \A s \in Sealers : Sealing(s) => \A a \in archives : a.last <= from[s]

WriterInv == Locked /\ Drawn /\ Chained
SealerInv == Sealed /\ Sequential /\ ArchiveMatchesObject /\ (~SealsOverlap => SealedOnce)
IInv == TypeOK /\ WriterInv /\ SealerInv

-----------------------------------------------------------------------------
(* Lemmas *)

\* The trigger's row extends the chain it sees at its end.
LEMMA TriggerExtendsChain ==
  ASSUME NEW rows \in SUBSET Rows, Linear(rows),
         NEW id \in Nat, NEW time \in Nat, \A r \in rows : r.id # id,
         NEW row \in ChainedRow(id, time, rows)
  PROVE  /\ row \in Rows /\ row.id = id
         /\ \A q \in rows : q.seq < row.seq
         /\ Linear(rows \cup {row})
<1>1. CASE rows = {}
  <2>1. row = [id |-> id, at |-> time, seq |-> 1, prev |-> Genesis]
    BY <1>1 DEF ChainedRow
  <2>2. QED
    BY <1>1, <2>1 DEF Linear, Rows, Genesis
<1>2. CASE rows # {}
  <2>1. PICK last \in rows :
          /\ \A q \in rows : q.seq <= last.seq
          /\ row = [id |-> id, at |-> time, seq |-> last.seq + 1,
                    prev |-> last.id]
    BY <1>2 DEF ChainedRow, IsLast
  <2>2. row \in Rows /\ row.id = id /\ row.seq = last.seq + 1 /\ row.prev = last.id
    BY <2>1 DEF Rows
  <2>3. \A q \in rows : q.seq < row.seq
    BY <2>1, <2>2 DEF Rows
  <2>4. \A q, r \in rows \cup {row} : q.id = r.id \/ q.seq = r.seq => q = r
    BY <2>2, <2>3 DEF Linear, Rows
  <2>5. \A r \in rows \cup {row} :
          \/ r.seq = 1 /\ r.prev = Genesis
          \/ \E q \in rows \cup {row} : r.seq = q.seq + 1 /\ r.prev = q.id
    BY <2>1, <2>2 DEF Linear
  <2>6. QED
    BY <2>2, <2>3, <2>4, <2>5 DEF Linear
<1>3. QED
  BY <1>1, <1>2

\* Rows are never removed and ids only grow.
LEMMA LogGrows ==
  ASSUME TypeOK, Next
  PROVE  log \subseteq log' /\ nextId <= nextId'
<1>1. ASSUME NEW w \in Writers, WriterStep(w) PROVE log \subseteq log' /\ nextId <= nextId'
  BY <1>1 DEF WriterStep, BeginRequest, DrawId, Chain, CommitRequest,
     AbortRequest, EndRequest, TypeOK
<1>2. ASSUME NEW s \in Sealers, SealStep(s) PROVE log' = log /\ nextId' = nextId
  BY <1>2 DEF SealStep, BeginSeal, ReadRows, PutObject, RecordArchive, AbortSeal,
     writers
<1>3. QED
  BY <1>1, <1>2 DEF Next, Tick, writers, TypeOK

\* The greatest id of a set of committed rows.
LEMMA LastId ==
  ASSUME TypeOK, Drawn, NEW rows \in SUBSET log, rows # {}
  PROVE  /\ Max(Ids(rows)) \in Ids(rows) /\ Max(Ids(rows)) \in Nat
         /\ \A r \in rows : r.id <= Max(Ids(rows))
<1>1. Ids(rows) \subseteq Nat /\ Ids(rows) # {}
  BY DEF Ids, TypeOK, Rows
<1>2. nextId \in Nat /\ \A i \in Ids(rows) : i <= nextId
  BY <1>1 DEF Ids, Drawn, TypeOK, Rows
<1>3. QED
  BY <1>1, <1>2, MaxIsGreatest DEF Ids

\* The watermark is not below any archive.
LEMMA WatermarkIsLast ==
  ASSUME TypeOK, Drawn, Sealed
  PROVE  Watermark \in Nat /\ \A a \in archives : a.last <= Watermark
<1> DEFINE S == {Genesis} \cup {a.last : a \in archives}
<1>1. S \subseteq Nat /\ S # {}
  BY DEF Sealed, Genesis
<1>2. nextId \in Nat /\ \A i \in S : i <= nextId
  <2>1. ASSUME NEW a \in archives PROVE a.last <= nextId
    <3>1. PICK r \in log : r.id = a.last
      BY DEF TypeOK, Ids
    <3>2. QED
      BY <3>1 DEF TypeOK, Drawn, Rows
  <2>2. QED
    BY <2>1 DEF TypeOK, Genesis
<1>3. Max(S) \in S /\ \A i \in S : i <= Max(S)
  BY <1>1, <1>2, MaxIsGreatest
<1>4. QED
  BY <1>1, <1>3 DEF Watermark

-----------------------------------------------------------------------------
(* Types *)

LEMMA TypesInit == Init => TypeOK
BY BoundsAssumption DEF Init, TypeOK, NoObject, Rows

LEMMA TypesStep ==
  ASSUME IInv, Next
  PROVE  TypeOK'
<1> USE DEF TypeOK
<1>1. ASSUME NEW w \in Writers, WriterStep(w) PROVE TypeOK'
  <2>1. /\ archives' = archives /\ objects' = objects /\ spc' = spc
        /\ before' = before /\ from' = from /\ batch' = batch /\ now' = now
    BY <1>1 DEF WriterStep, BeginRequest, DrawId, Chain, CommitRequest,
       AbortRequest, EndRequest, sealers
  <2>2. log \subseteq log'
    BY <1>1, LogGrows DEF Next, IInv
  <2>3. CASE BeginRequest(w)
    BY <2>1, <2>2, <2>3 DEF BeginRequest, IInv
  <2>4. CASE DrawId(w)
    BY <2>1, <2>2, <2>4 DEF DrawId, IInv
  <2>5. CASE Chain(w)
    <3>1. PICK row \in ChainedRow(drawn[w], at[w], log \cup mine[w]) :
            mine' = [mine EXCEPT ![w] = @ \cup {row}]
      BY <2>5 DEF Chain
    <3>2. row \in Rows
      BY <3>1, <2>5, TriggerExtendsChain
      DEF IInv, WriterInv, Drawn, Chained, Chain
    <3>3. QED
      BY <2>1, <2>2, <2>5, <3>1, <3>2 DEF Chain, IInv
  <2>6. CASE CommitRequest(w)
    BY <2>1, <2>2, <2>6 DEF CommitRequest, EndRequest, IInv
  <2>7. CASE AbortRequest(w)
    BY <2>1, <2>2, <2>7 DEF AbortRequest, EndRequest, IInv
  <2>8. QED
    BY <1>1, <2>3, <2>4, <2>5, <2>6, <2>7 DEF WriterStep
<1>2. ASSUME NEW s \in Sealers, SealStep(s) PROVE TypeOK'
  <2>1. CASE BeginSeal(s)
    <3>1. Watermark \in Nat
      BY WatermarkIsLast DEF IInv, WriterInv, SealerInv
    <3>2. QED
      BY <2>1, <3>1, BoundsAssumption DEF BeginSeal, IInv, writers
  <2>2. CASE ReadRows(s)
    BY <2>2 DEF ReadRows, IInv, writers, Unsealed
  <2>3. CASE PutObject(s)
    BY <2>3 DEF PutObject, IInv, writers
  <2>4. CASE RecordArchive(s)
    <3>1. batch[s] \in SUBSET log /\ batch[s] # {}
      BY <2>4 DEF RecordArchive, IInv, SealerInv, Sealed
    <3>2. Max(Ids(batch[s])) \in Ids(batch[s])
      BY <3>1, LastId DEF IInv, WriterInv
    <3>3. QED
      BY <2>4, <3>1, <3>2 DEF RecordArchive, IInv, writers
  <2>5. CASE AbortSeal(s)
    BY <2>5 DEF AbortSeal, IInv, writers
  <2>6. QED
    BY <1>2, <2>1, <2>2, <2>3, <2>4, <2>5 DEF SealStep
<1>3. CASE Tick
  BY <1>3, BoundsAssumption DEF Tick, IInv, writers, sealers
<1>4. QED
  BY <1>1, <1>2, <1>3 DEF Next

-----------------------------------------------------------------------------
(* The chain *)

\* Seals and the clock leave requests alone.
LEMMA WriterFrame ==
  ASSUME WriterInv, UNCHANGED writers
  PROVE  WriterInv'
BY DEF writers, WriterInv, Locked, Drawn, Chained, Linear

\* Nobody else has uncommitted rows while w may append or commit its own.
LEMMA OnlyHolder ==
  ASSUME Locked, NEW w \in Writers,
         lock \in {NoWriter, w} \/ mine[w] # {}
  PROVE  \A v \in Writers : v # w => mine[v] = {}
BY WritersAssumption DEF Locked

LEMMA DrawIdKeeps ==
  ASSUME TypeOK, WriterInv, NEW w \in Writers, DrawId(w)
  PROVE  WriterInv'
<1>1. Locked' /\ Chained'
  BY DEF DrawId, WriterInv, Locked, Chained, Linear
<1>2. /\ nextId \in Nat /\ nextId' = nextId + 1
      /\ log' = log /\ mine' = mine
      /\ drawn' = [drawn EXCEPT ![w] = nextId]
      /\ wpc' = [wpc EXCEPT ![w] = "insert"]
  BY DEF DrawId, TypeOK
<1>3. /\ \A r \in log : r.id \in Nat /\ r.id < nextId
      /\ \A v \in Writers : \A r \in mine[v] : r.id \in Nat /\ r.id < nextId
  BY DEF WriterInv, Drawn, TypeOK, Rows
<1>4. ASSUME NEW v \in Writers, wpc'[v] = "insert"
      PROVE  /\ drawn'[v] < nextId'
             /\ \A r \in log' : r.id # drawn'[v]
             /\ \A u \in Writers : \A r \in mine'[u] : r.id # drawn'[v]
             /\ \A u \in Writers :
                  wpc'[u] = "insert" /\ drawn'[u] = drawn'[v] => u = v
  <2>1. CASE v = w
    <3>1. drawn'[v] = nextId
      BY <2>1, <1>2 DEF TypeOK
    <3>2. \A u \in Writers : u # w /\ wpc'[u] = "insert" => drawn'[u] < nextId
      BY <1>2 DEF TypeOK, WriterInv, Drawn
    <3>3. QED
      BY <2>1, <1>2, <1>3, <3>1, <3>2
  <2>2. CASE v # w
    <3>1. wpc[v] = "insert" /\ drawn'[v] = drawn[v] /\ drawn'[w] = nextId
          /\ drawn[v] \in Nat
      BY <2>2, <1>2, <1>4 DEF TypeOK
    <3>2. drawn[v] < nextId
      BY <3>1 DEF WriterInv, Drawn
    <3>3. \A u \in Writers : u # w => wpc'[u] = wpc[u] /\ drawn'[u] = drawn[u]
      BY <1>2 DEF TypeOK
    <3>4. QED
      BY <1>2, <3>1, <3>2, <3>3 DEF WriterInv, Drawn
  <2>3. QED
    BY <2>1, <2>2
<1>5. Drawn'
  BY <1>2, <1>3, <1>4 DEF Drawn
<1>6. QED
  BY <1>1, <1>5 DEF WriterInv

LEMMA ChainKeeps ==
  ASSUME TypeOK, WriterInv, NEW w \in Writers, Chain(w)
  PROVE  WriterInv'
<1>1. PICK row \in ChainedRow(drawn[w], at[w], log \cup mine[w]) :
        mine' = [mine EXCEPT ![w] = @ \cup {row}]
  BY DEF Chain
<1>2. /\ row \in Rows /\ row.id = drawn[w]
      /\ \A q \in log \cup mine[w] : q.seq < row.seq
      /\ Linear((log \cup mine[w]) \cup {row})
  <2>1. drawn[w] \in Nat /\ at[w] \in Nat /\ log \cup mine[w] \in SUBSET Rows
    BY BoundsAssumption DEF TypeOK
  <2>2. Linear(log \cup mine[w])
    BY DEF WriterInv, Chained
  <2>3. \A r \in log \cup mine[w] : r.id # drawn[w]
    BY DEF WriterInv, Drawn, Chain
  <2>4. QED
    BY <1>1, <2>1, <2>2, <2>3, TriggerExtendsChain
<1>3. /\ lock' = w /\ log' = log /\ nextId' = nextId /\ drawn' = drawn
      /\ wpc[w] = "insert" /\ wpc' = [wpc EXCEPT ![w] = "running"]
      /\ mine'[w] = mine[w] \cup {row}
      /\ \A v \in Writers : v # w => mine[v] = {} /\ mine'[v] = {}
  BY <1>1, OnlyHolder DEF Chain, TypeOK, WriterInv
<1>4. Locked'
  BY <1>2, <1>3 DEF WriterInv, Locked
<1>5. Chained'
  <2>1. Linear(log \cup mine'[w])
    <3>1. log \cup mine'[w] = (log \cup mine[w]) \cup {row}
      BY <1>3
    <3>2. QED
      BY <1>2, <3>1
  <2>2. \A v \in Writers : v # w => Linear(log \cup mine'[v])
    <3>1. Linear(log) /\ log \cup {} = log
      BY DEF WriterInv, Chained
    <3>2. QED
      BY <1>3, <3>1
  <2>3. QED
    BY <1>3, <2>1, <2>2 DEF Chained, WriterInv, Linear
<1>6. Drawn'
  <2>1. \A v \in Writers : wpc'[v] = "insert" => v # w /\ wpc[v] = "insert"
    BY <1>3 DEF TypeOK
  <2>2. \A v \in Writers : wpc'[v] = "insert" => drawn[v] # row.id
    BY <1>2, <1>3, <2>1 DEF WriterInv, Drawn
  <2>3. row.id < nextId
    BY <1>2, <1>3 DEF WriterInv, Drawn
  <2>4. QED
    BY <1>3, <2>1, <2>2, <2>3 DEF WriterInv, Drawn
<1>7. QED
  BY <1>4, <1>5, <1>6 DEF WriterInv

LEMMA EndKeeps ==
  ASSUME TypeOK, WriterInv, NEW w \in Writers, CommitRequest(w) \/ AbortRequest(w)
  PROVE  WriterInv'
<1>1. /\ wpc' = [wpc EXCEPT ![w] = "done"] /\ mine' = [mine EXCEPT ![w] = {}]
      /\ lock' = IF lock = w THEN NoWriter ELSE lock
      /\ nextId' = nextId /\ drawn' = drawn
      /\ log' = log \/ log' = log \cup mine[w]
  BY DEF CommitRequest, AbortRequest, EndRequest
<1>2. /\ mine'[w] = {} /\ wpc'[w] = "done"
      /\ \A v \in Writers : v # w => mine'[v] = mine[v] /\ wpc'[v] = wpc[v]
  BY <1>1 DEF TypeOK
<1>3. mine[w] # {} => \A v \in Writers : mine'[v] = {}
  BY <1>2, OnlyHolder DEF WriterInv
<1>4. log' = log \/ \A v \in Writers : mine'[v] = {}
  BY <1>1, <1>3
<1>5. Locked'
  BY <1>1, <1>2, <1>4 DEF WriterInv, Locked
<1>6. Drawn'
  BY <1>1, <1>2 DEF WriterInv, Drawn
<1>7. Chained'
  <2>1. Linear(log')
    BY <1>1 DEF WriterInv, Chained
  <2>2. ASSUME NEW v \in Writers PROVE Linear(log' \cup mine'[v])
    <3>1. CASE mine'[v] = {}
      BY <2>1, <3>1, log' \cup {} = log'
    <3>2. CASE mine'[v] # {}
      BY <1>2, <1>4, <3>2 DEF WriterInv, Chained
    <3>3. QED
      BY <3>1, <3>2
  <2>3. QED
    BY <2>1, <2>2 DEF Chained, Linear
<1>8. QED
  BY <1>5, <1>6, <1>7 DEF WriterInv

LEMMA WriterInvStep ==
  ASSUME TypeOK, WriterInv, [Next]_vars
  PROVE  WriterInv'
<1>1. ASSUME NEW w \in Writers, BeginRequest(w) PROVE WriterInv'
  <2>1. /\ wpc' = [wpc EXCEPT ![w] = "running"] /\ lock' = lock
        /\ nextId' = nextId /\ log' = log /\ drawn' = drawn /\ mine' = mine
    BY <1>1 DEF BeginRequest
  <2>2. \A v \in Writers : wpc'[v] = "insert" => wpc[v] = "insert"
    BY <2>1 DEF TypeOK
  <2>3. QED
    BY <2>1, <2>2 DEF WriterInv, Locked, Drawn, Chained, Linear
<1>2. ASSUME NEW w \in Writers, WriterStep(w) PROVE WriterInv'
  BY <1>1, <1>2, DrawIdKeeps, ChainKeeps, EndKeeps DEF WriterStep
<1>3. ASSUME NEW s \in Sealers, SealStep(s) PROVE WriterInv'
  BY <1>3, WriterFrame DEF SealStep, BeginSeal, ReadRows, PutObject,
     RecordArchive, AbortSeal
<1>4. CASE Tick \/ UNCHANGED vars
  BY <1>4, WriterFrame DEF Tick, vars
<1>5. QED
  BY <1>2, <1>3, <1>4 DEF Next

-----------------------------------------------------------------------------
(* The archives *)

\* Requests and the clock leave seals alone.
LEMMA SealerFrame ==
  ASSUME SealerInv, UNCHANGED sealers
  PROVE  SealerInv'
BY DEF sealers, SealerInv, Sealed, Sequential, Sealing, ArchiveMatchesObject,
       SealedOnce

LEMMA BeginSealKeeps ==
  ASSUME TypeOK, Drawn, SealerInv, NEW s \in Sealers, BeginSeal(s)
  PROVE  SealerInv'
<1>1. /\ spc[s] = "new" /\ spc' = [spc EXCEPT ![s] = "read"]
      /\ from' = [from EXCEPT ![s] = Watermark]
      /\ archives' = archives /\ objects' = objects /\ batch' = batch
      /\ \A t \in Sealers : t # s => before'[t] = before[t]
  BY DEF BeginSeal, TypeOK
<1>2. \A t \in Sealers : t # s => spc'[t] = spc[t] /\ from'[t] = from[t]
  BY <1>1 DEF TypeOK
<1>3. spc'[s] = "read" /\ from'[s] = Watermark
  BY <1>1 DEF TypeOK
<1>4. Sealed'
  BY <1>1, <1>2, <1>3 DEF SealerInv, Sealed
<1>5. Sequential'
  <2>1. SUFFICES ASSUME ~SealsOverlap PROVE
          /\ \A t, u \in Sealers : Sealing(t)' /\ Sealing(u)' => t = u
          /\ \A t \in Sealers : Sealing(t)' =>
               \A a \in archives : a.last <= from'[t]
    BY <1>1 DEF Sequential
  <2>2. \A t \in Sealers : Sealing(t)' => t = s
    BY <1>2, <2>1 DEF BeginSeal, Sealing
  <2>3. QED
    BY <1>3, <2>2, WatermarkIsLast DEF SealerInv
<1>6. ArchiveMatchesObject' /\ (~SealsOverlap => SealedOnce')
  BY <1>1 DEF SealerInv, ArchiveMatchesObject, SealedOnce
<1>7. QED
  BY <1>4, <1>5, <1>6 DEF SealerInv

LEMMA ReadRowsKeeps ==
  ASSUME TypeOK, SealerInv, NEW s \in Sealers, ReadRows(s)
  PROVE  SealerInv'
<1>1. /\ spc[s] = "read" /\ batch' = [batch EXCEPT ![s] = Unsealed(s)]
      /\ spc' = [spc EXCEPT ![s] = IF Unsealed(s) = {} THEN "done" ELSE "put"]
      /\ archives' = archives /\ objects' = objects /\ before' = before
      /\ from' = from
  BY DEF ReadRows
<1>2. /\ spc'[s] = "put" => batch'[s] # {}
      /\ spc'[s] # "record"
      /\ \A r \in batch'[s] : r.id > from[s]
      /\ \A t \in Sealers : t # s => spc'[t] = spc[t] /\ batch'[t] = batch[t]
  BY <1>1 DEF TypeOK, Unsealed
<1>3. Sealed'
  BY <1>1, <1>2 DEF SealerInv, Sealed
<1>4. \A t \in Sealers : Sealing(t)' => Sealing(t)
  BY <1>1, <1>2 DEF Sealing
<1>5. Sequential'
  BY <1>1, <1>4 DEF SealerInv, Sequential
<1>6. ArchiveMatchesObject' /\ (~SealsOverlap => SealedOnce')
  BY <1>1 DEF SealerInv, ArchiveMatchesObject, SealedOnce
<1>7. QED
  BY <1>3, <1>5, <1>6 DEF SealerInv

\* An upload meets no object that a seal or an archive counts on.
LEMMA PutObjectKeeps ==
  ASSUME TypeOK, SealerInv, NEW s \in Sealers, PutObject(s)
  PROVE  SealerInv'
<1>1. /\ spc[s] = "put" /\ objects[before[s]] = {}
      /\ objects' = [objects EXCEPT ![before[s]] = batch[s]]
      /\ spc' = [spc EXCEPT ![s] = "record"]
      /\ archives' = archives /\ before' = before /\ from' = from
      /\ batch' = batch
  BY DEF PutObject, NoObject
<1>2. /\ objects'[before[s]] = batch[s] /\ spc'[s] = "record"
      /\ \A t \in Sealers : t # s => spc'[t] = spc[t]
      /\ \A k \in 0 .. MaxNow : k # before[s] => objects'[k] = objects[k]
  BY <1>1 DEF TypeOK
<1>3. \A t \in Sealers : t # s /\ spc[t] = "record" => before[t] # before[s]
  BY <1>1 DEF SealerInv, Sealed
<1>4. \A a \in archives : a.end # before[s] /\ a.end \in 0 .. MaxNow
  <2>1. ASSUME NEW a \in archives PROVE objects[a.end] # {}
    BY DEF SealerInv, ArchiveMatchesObject, TypeOK, Ids
  <2>2. QED
    BY <1>1, <2>1 DEF SealerInv, Sealed
<1>5. Sealed'
  <2>1. \A t \in Sealers : spc'[t] = "record" => objects'[before[t]] = batch[t]
    <3>1. ASSUME NEW t \in Sealers, spc'[t] = "record", t # s
          PROVE  objects'[before[t]] = batch[t]
      BY <1>2, <1>3, <3>1 DEF SealerInv, Sealed, TypeOK
    <3>2. QED
      BY <1>2, <3>1
  <2>2. QED
    BY <1>1, <1>2, <2>1 DEF SealerInv, Sealed
<1>6. \A t \in Sealers : Sealing(t)' => Sealing(t)
  BY <1>1, <1>2 DEF Sealing
<1>7. Sequential'
  BY <1>1, <1>6 DEF SealerInv, Sequential
<1>8. ArchiveMatchesObject' /\ (~SealsOverlap => SealedOnce')
  BY <1>1, <1>2, <1>4 DEF SealerInv, ArchiveMatchesObject, SealedOnce
<1>9. QED
  BY <1>5, <1>7, <1>8 DEF SealerInv

\* The rows of a new archive lie behind the watermark, and so behind the rows
\* of the archives before it.
LEMMA RecordArchiveKeeps ==
  ASSUME TypeOK, Drawn, SealerInv, NEW s \in Sealers, RecordArchive(s)
  PROVE  SealerInv'
<1> DEFINE new == [end |-> before[s], rows |-> batch[s],
                   last |-> Max(Ids(batch[s]))]
<1>1. /\ spc[s] = "record" /\ spc' = [spc EXCEPT ![s] = "done"]
      /\ archives' = archives \cup {new}
      /\ objects' = objects /\ before' = before /\ from' = from
      /\ batch' = batch
  BY DEF RecordArchive
<1>2. batch[s] \in SUBSET log /\ batch[s] # {}
  BY <1>1 DEF SealerInv, Sealed, TypeOK
<1>3. /\ new.last \in Nat /\ \A r \in new.rows : r.id <= new.last
      /\ new.end \in 0 .. MaxNow /\ objects[new.end] = new.rows
  BY <1>1, <1>2, LastId DEF SealerInv, Sealed, TypeOK
<1>4. \A t \in Sealers : spc'[t] # "done" => t # s /\ spc'[t] = spc[t]
  BY <1>1 DEF TypeOK
<1> HIDE DEF new
<1>5. Sealed'
  BY <1>1, <1>3, <1>4 DEF SealerInv, Sealed
<1>6. Sequential'
  <2>1. SUFFICES ASSUME ~SealsOverlap PROVE \A t \in Sealers : ~Sealing(t)'
    BY DEF Sequential
  <2>2. QED
    BY <1>1, <1>4, <2>1 DEF SealerInv, Sequential, Sealing
<1>7. ArchiveMatchesObject'
  BY <1>1, <1>3 DEF SealerInv, ArchiveMatchesObject
<1>8. ASSUME ~SealsOverlap PROVE SealedOnce'
  <2>1. ASSUME NEW a \in archives PROVE a.rows \cap new.rows = {}
    <3>1. a.last \in Nat /\ a.last <= from[s] /\ from[s] \in Nat
      BY <1>1, <1>8 DEF SealerInv, Sealed, Sequential, Sealing, TypeOK
    <3>2. \A r \in a.rows : r.id \in Nat /\ r.id <= from[s]
      BY <3>1 DEF SealerInv, Sealed, TypeOK, Rows
    <3>3. \A r \in new.rows : r.id > from[s]
      BY <1>1 DEF SealerInv, Sealed, new
    <3>4. QED
      BY <3>1, <3>2, <3>3
  <2>2. QED
    BY <1>1, <1>8, <2>1 DEF SealerInv, SealedOnce
<1>9. QED
  BY <1>5, <1>6, <1>7, <1>8 DEF SealerInv

LEMMA SealerInvStep ==
  ASSUME TypeOK, Drawn, SealerInv, [Next]_vars
  PROVE  SealerInv'
<1>1. ASSUME NEW s \in Sealers, AbortSeal(s) PROVE SealerInv'
  <2>1. /\ spc' = [spc EXCEPT ![s] = "done"] /\ archives' = archives
        /\ objects' = objects /\ before' = before /\ from' = from
        /\ batch' = batch
    BY <1>1 DEF AbortSeal
  <2>2. \A t \in Sealers : spc'[t] # "done" => spc'[t] = spc[t]
    BY <2>1 DEF TypeOK
  <2>3. Sealed' /\ Sequential'
    BY <2>1, <2>2 DEF SealerInv, Sealed, Sequential, Sealing
  <2>4. QED
    BY <2>1, <2>3 DEF SealerInv, ArchiveMatchesObject, SealedOnce
<1>2. ASSUME NEW s \in Sealers, SealStep(s) PROVE SealerInv'
  BY <1>1, <1>2, BeginSealKeeps, ReadRowsKeeps, PutObjectKeeps,
     RecordArchiveKeeps DEF SealStep
<1>3. ASSUME NEW w \in Writers, WriterStep(w) PROVE SealerInv'
  BY <1>3, SealerFrame DEF WriterStep, BeginRequest, DrawId, Chain,
     CommitRequest, AbortRequest, EndRequest
<1>4. CASE Tick \/ UNCHANGED vars
  BY <1>4, SealerFrame DEF Tick, vars
<1>5. QED
  BY <1>2, <1>3, <1>4 DEF Next

-----------------------------------------------------------------------------
(* Theorems *)

LEMMA Inductive == Spec => []IInv
<1>1. Init => IInv
  <2>1. ASSUME Init PROVE WriterInv
    BY <2>1 DEF Init, WriterInv, Locked, Drawn, Chained, Linear
  <2>2. ASSUME Init PROVE SealerInv
    BY <2>2 DEF Init, SealerInv, Sealed, Sequential, Sealing,
       ArchiveMatchesObject, SealedOnce
  <2>3. QED
    BY <2>1, <2>2, TypesInit DEF IInv
<1>2. IInv /\ [Next]_vars => IInv'
  <2>1. IInv /\ UNCHANGED vars => TypeOK'
    BY DEF IInv, TypeOK, vars, writers, sealers
  <2>2. QED
    BY <2>1, TypesStep, WriterInvStep, SealerInvStep DEF IInv, WriterInv
<1>3. QED
  BY <1>1, <1>2, PTL DEF Spec

\* Every variable of the audit log keeps its type.
THEOREM AuditTypes == Spec => []TypeOK
<1>1. IInv => TypeOK
  BY DEF IInv
<1>2. QED
  BY <1>1, Inductive, PTL

\* Whatever requests append, commit and abort at the same time, the committed
\* rows form one chain in the trigger's order.
THEOREM ChainLinear == Spec => []ChainIsLinear
<1>1. IInv => ChainIsLinear
  BY DEF IInv, WriterInv, Chained, ChainIsLinear
<1>2. QED
  BY <1>1, Inductive, PTL

\* A commit appends behind every row that was committed before it.
THEOREM ChainGrows == Spec => ChainGrowsAtTheEnd
<1>1. ASSUME IInv, [Next]_vars
      PROVE  [\A r \in log' \ log, q \in log : q.seq < r.seq]_vars
  <2>1. ASSUME NEW w \in Writers, WriterStep(w)
        PROVE  log' = log \/ log' = log \cup mine[w]
    BY <2>1 DEF WriterStep, BeginRequest, DrawId, Chain, CommitRequest,
       AbortRequest
  <2>2. ASSUME NEW s \in Sealers, SealStep(s) PROVE log' = log
    BY <2>2 DEF SealStep, BeginSeal, ReadRows, PutObject, RecordArchive,
       AbortSeal, writers
  <2>3. log' = log \/ \E w \in Writers : log' = log \cup mine[w]
    BY <1>1, <2>1, <2>2 DEF Next, Tick, writers, vars
  <2>4. QED
    BY <1>1, <2>3 DEF IInv, WriterInv, Locked
<1>2. QED
  BY <1>1, Inductive, PTL DEF Spec, ChainGrowsAtTheEnd

\* The object of an archive stays the one it was recorded with, however seals
\* overlap, fail and repeat each other's upload.
THEOREM ArchivesIntact == Spec => []ArchiveMatchesObject
<1>1. IInv => ArchiveMatchesObject
  BY DEF IInv, SealerInv
<1>2. QED
  BY <1>1, Inductive, PTL

\* Seals that never overlap put no row in two archives.
THEOREM SealsDisjoint == ~SealsOverlap => (Spec => []SealedOnce)
<1>1. SUFFICES ASSUME ~SealsOverlap PROVE Spec => []SealedOnce
  OBVIOUS
<1>2. IInv => SealedOnce
  BY <1>1 DEF IInv, SealerInv
<1>3. QED
  BY <1>2, Inductive, PTL
=============================================================================
