------------------------------ MODULE AuditChain ------------------------------
(***************************************************************************)
(* The audit log of one tenant: appended by requests, chained by the       *)
(* trigger audit_events_chain, read by audit:verify and sealed into a      *)
(* bucket by audit:seal.                                                   *)
(*                                                                         *)
(* A row's hash covers its prev_hash and its content; ids are unique and   *)
(* rows are never updated, so the id names the hash and Genesis the 32     *)
(* zero bytes.  A request is one transaction; log holds the committed rows *)
(* and mine[w] those the transaction of w has inserted and not committed.  *)
(* occurred_at is now() of the transaction, the time it began.             *)
(***************************************************************************)
EXTENDS Integers, FiniteSets, FiniteSetsExt

CONSTANTS
  Writers,       \* requests that write audit rows, each one transaction
  Sealers,       \* runs of audit:seal
  NoWriter,      \* holder of the free advisory lock
  MaxRows,       \* audit rows of one request: its call and its result
  MaxNow,        \* bound on the clock
  SealsOverlap   \* a run of audit:seal may begin while another is under way

ASSUME WritersAssumption == NoWriter \notin Writers
ASSUME BoundsAssumption ==
  MaxRows \in Nat /\ MaxNow \in Nat /\ SealsOverlap \in BOOLEAN

VARIABLES
  now,       \* the clock
  nextId,    \* audit_events_id_seq, never rolled back
  lock,      \* pg_advisory_xact_lock(hashtext(tenant_id))
  log,       \* committed rows of audit_events
  wpc,       \* what each request does next
  at,        \* when its transaction began
  drawn,     \* the id its INSERT has drawn
  mine,      \* its rows that are not committed
  archives,  \* committed rows of audit_archives
  objects,   \* the rows stored under each key of the bucket, the period's end
  spc,       \* what each seal does next
  before,    \* its cut-off
  from,      \* the watermark it has read
  batch      \* the rows it has read

writers == <<nextId, lock, log, wpc, at, drawn, mine>>
sealers == <<archives, objects, spc, before, from, batch>>
vars == <<now, writers, sealers>>

Genesis == 0
Ids(rows) == {r.id : r \in rows}
NoObject == {}

Init ==
  /\ now = 0 /\ nextId = 1 /\ lock = NoWriter /\ log = {}
  /\ wpc = [w \in Writers |-> "new"]
  /\ at = [w \in Writers |-> 0]
  /\ drawn = [w \in Writers |-> 0]
  /\ mine = [w \in Writers |-> {}]
  /\ archives = {}
  /\ objects = [day \in 0 .. MaxNow |-> NoObject]
  /\ spc = [s \in Sealers |-> "new"]
  /\ before = [s \in Sealers |-> 0]
  /\ from = [s \in Sealers |-> 0]
  /\ batch = [s \in Sealers |-> {}]

-----------------------------------------------------------------------------
(* Requests *)

BeginRequest(w) ==
  /\ wpc[w] = "new"
  /\ wpc' = [wpc EXCEPT ![w] = "running"]
  /\ at' = [at EXCEPT ![w] = now]
  /\ UNCHANGED <<now, nextId, lock, log, drawn, mine, sealers>>

\* The INSERT evaluates its defaults, nextval among them, before its trigger.
DrawId(w) ==
  /\ wpc[w] = "running"
  /\ Cardinality(mine[w]) < MaxRows
  /\ drawn' = [drawn EXCEPT ![w] = nextId]
  /\ nextId' = nextId + 1
  /\ wpc' = [wpc EXCEPT ![w] = "insert"]
  /\ UNCHANGED <<now, lock, log, at, mine, sealers>>

\* Mutant: the row last in id order is taken for the end of the chain, as
\* migration 0010 did.
IsLastById(r, rows) == r \in rows /\ \A q \in rows : q.id <= r.id

\* ORDER BY chain_seq DESC LIMIT 1
IsLast(r, rows) == r \in rows /\ \A q \in rows : q.seq <= r.seq

\* The row the trigger makes of an id and the rows it sees.
ChainedRow(id, time, rows) ==
  IF rows = {}
    THEN {[id |-> id, at |-> time, seq |-> 1, prev |-> Genesis]}
    ELSE {[id |-> id, at |-> time, seq |-> last.seq + 1, prev |-> last.id] :
            last \in {r \in rows : IsLast(r, rows)}}

\* Mutant: the trigger takes no lock.
ChainUnlocked(w) ==
  /\ wpc[w] = "insert"
  /\ \E row \in ChainedRow(drawn[w], at[w], log \cup mine[w]) :
       mine' = [mine EXCEPT ![w] = @ \cup {row}]
  /\ wpc' = [wpc EXCEPT ![w] = "running"]
  /\ UNCHANGED <<now, nextId, lock, log, at, drawn, sealers>>

\* The trigger: it waits for the lock, which is kept to the end of the
\* transaction, then reads what is committed and its own rows.
Chain(w) ==
  /\ wpc[w] = "insert"
  /\ lock \in {NoWriter, w}
  /\ lock' = w
  /\ \E row \in ChainedRow(drawn[w], at[w], log \cup mine[w]) :
       mine' = [mine EXCEPT ![w] = @ \cup {row}]
  /\ wpc' = [wpc EXCEPT ![w] = "running"]
  /\ UNCHANGED <<now, nextId, log, at, drawn, sealers>>

EndRequest(w) ==
  /\ wpc' = [wpc EXCEPT ![w] = "done"]
  /\ mine' = [mine EXCEPT ![w] = {}]
  /\ lock' = IF lock = w THEN NoWriter ELSE lock
  /\ UNCHANGED <<now, nextId, at, drawn, sealers>>

CommitRequest(w) ==
  /\ wpc[w] = "running"
  /\ log' = log \cup mine[w]
  /\ EndRequest(w)

\* A crash, a lost connection or a statement that fails.
AbortRequest(w) ==
  /\ wpc[w] \in {"running", "insert"}
  /\ UNCHANGED log
  /\ EndRequest(w)

-----------------------------------------------------------------------------
(* Seals *)

Sealing(s) == spc[s] \in {"read", "put", "record"}

\* SELECT COALESCE(MAX(last_id), 0)
Watermark == Max({Genesis} \cup {a.last : a \in archives})

BeginSeal(s) ==
  /\ spc[s] = "new"
  /\ SealsOverlap \/ \A other \in Sealers : ~Sealing(other)
  /\ \E day \in 1 .. now : before' = [before EXCEPT ![s] = day]
  /\ from' = [from EXCEPT ![s] = Watermark]
  /\ spc' = [spc EXCEPT ![s] = "read"]
  /\ UNCHANGED <<now, writers, archives, objects, batch>>

\* Mutant: the rows are not filtered by the watermark.
UnsealedAll(s) == {r \in log : r.at < before[s]}

\* WHERE occurred_at < before AND id > watermark
Unsealed(s) == {r \in log : r.at < before[s] /\ r.id > from[s]}

ReadRows(s) ==
  /\ spc[s] = "read"
  /\ batch' = [batch EXCEPT ![s] = Unsealed(s)]
  /\ spc' = [spc EXCEPT ![s] = IF Unsealed(s) = {} THEN "done" ELSE "put"]
  /\ UNCHANGED <<now, writers, archives, objects, before, from>>

\* Mutant: the bucket has no retention policy.
OverwriteObject(s) ==
  /\ spc[s] = "put"
  /\ objects' = [objects EXCEPT ![before[s]] = batch[s]]
  /\ spc' = [spc EXCEPT ![s] = "record"]
  /\ UNCHANGED <<now, writers, archives, before, from, batch>>

\* store.put: the bucket's locked retention policy refuses to overwrite.
PutObject(s) ==
  /\ spc[s] = "put"
  /\ objects[before[s]] = NoObject
  /\ objects' = [objects EXCEPT ![before[s]] = batch[s]]
  /\ spc' = [spc EXCEPT ![s] = "record"]
  /\ UNCHANGED <<now, writers, archives, before, from, batch>>

\* Mutant: the archive's last_id is the watermark the run started from.
RecordStaleWatermark(s) ==
  /\ spc[s] = "record"
  /\ archives' = archives \cup {[end |-> before[s], rows |-> batch[s],
                                 last |-> from[s]]}
  /\ spc' = [spc EXCEPT ![s] = "done"]
  /\ UNCHANGED <<now, writers, objects, before, from, batch>>

\* INSERT INTO audit_archives and COMMIT
RecordArchive(s) ==
  /\ spc[s] = "record"
  /\ archives' = archives \cup {[end |-> before[s], rows |-> batch[s],
                                 last |-> Max(Ids(batch[s]))]}
  /\ spc' = [spc EXCEPT ![s] = "done"]
  /\ UNCHANGED <<now, writers, objects, before, from, batch>>

\* A crash or an error, an upload the bucket refuses among them; what was
\* uploaded stays.
AbortSeal(s) ==
  /\ Sealing(s)
  /\ spc' = [spc EXCEPT ![s] = "done"]
  /\ UNCHANGED <<now, writers, archives, objects, before, from, batch>>

-----------------------------------------------------------------------------

Tick == now < MaxNow /\ now' = now + 1 /\ UNCHANGED <<writers, sealers>>

WriterStep(w) == \/ BeginRequest(w) \/ DrawId(w) \/ Chain(w)
                 \/ CommitRequest(w) \/ AbortRequest(w)

SealStep(s) == \/ BeginSeal(s) \/ ReadRows(s) \/ PutObject(s)
               \/ RecordArchive(s) \/ AbortSeal(s)

Next == \/ \E w \in Writers : WriterStep(w)
        \/ \E s \in Sealers : SealStep(s)
        \/ Tick

Spec == Init /\ [][Next]_vars

-----------------------------------------------------------------------------
(* Properties *)

Rows == [id : Nat, at : Nat, seq : Nat, prev : Nat]

\* Every variable keeps its type.
TypeOK ==
  /\ now \in 0 .. MaxNow /\ nextId \in Nat
  /\ lock \in Writers \cup {NoWriter}
  /\ log \subseteq Rows
  /\ wpc \in [Writers -> {"new", "running", "insert", "done"}]
  /\ at \in [Writers -> Nat]
  /\ drawn \in [Writers -> Nat]
  /\ mine \in [Writers -> SUBSET Rows]
  /\ \A a \in archives : a.rows \subseteq log /\ a.last \in Ids(a.rows)
  /\ objects \in [0 .. MaxNow -> SUBSET log]
  /\ spc \in [Sealers -> {"new", "read", "put", "record", "done"}]
  /\ before \in [Sealers -> 0 .. MaxNow]
  /\ from \in [Sealers -> Nat]
  /\ batch \in [Sealers -> SUBSET log]

\* Rows form one chain from the genesis: no two share an id or a position,
\* and each names the row before it.
Linear(rows) ==
  /\ \A q, r \in rows : q.id = r.id \/ q.seq = r.seq => q = r
  /\ \A r \in rows :
       \/ r.seq = 1 /\ r.prev = Genesis
       \/ \E q \in rows : r.seq = q.seq + 1 /\ r.prev = q.id

\* Whatever requests append at the same time, fail or crash, the committed rows
\* form one unbroken chain in chain_seq order (audit_events_chain; README,
\* "concurrent inserts produce a linear chain").
ChainIsLinear == Linear(log)

\* A commit extends the chain at its end: no row appears before one a reader
\* has already seen, which is what a reader in chain order can rely on.
ChainGrowsAtTheEnd ==
  [][\A r \in log' \ log, q \in log : q.seq < r.seq]_vars

\* audit:seal puts each row in at most one archive (the last_id watermark;
\* phase 7 design, "re-running seals nothing already sealed").
SealedOnce ==
  \A a, b \in archives : a # b => a.rows \cap b.rows = {}

\* What audit_archives says of an object, its sha256 among it, stays true:
\* the object under its key is the one it was recorded with.
ArchiveMatchesObject == \A a \in archives : objects[a.end] = a.rows

\* The walk of verifyTenantChain over the rows ORDER BY id: each names the
\* hash of the one before it.
RowBefore(r) == Max({Genesis} \cup {i \in Ids(log) : i < r.id})

\* Phase 7 design: after concurrent inserts "verify-chain passes".
VerifierAccepts == \A r \in log : r.prev = RowBefore(r)
=============================================================================
