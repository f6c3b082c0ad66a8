--------------------------- MODULE Storage_proofs ---------------------------
(***************************************************************************)
(* Proofs about DbTx, and so about KvStore under it, for any VMs, calls,   *)
(* keys, cells, statements and bounds, and for either backend.             *)
(***************************************************************************)
EXTENDS DbTx, TLAPS

-----------------------------------------------------------------------------
(* The invariant. *)

IsCall(x) ==
    x = [pc |-> x.pc, key |-> x.key, op |-> x.op, at |-> x.at, tries |-> x.tries,
         pool |-> x.pool, inside |-> x.inside, prev |-> x.prev, cur |-> x.cur, new |-> x.new]

IsTransaction(t) ==
    /\ t = [snap |-> t.snap, work |-> t.work, wrote |-> t.wrote, busy |-> t.busy,
            aborted |-> t.aborted]
    /\ t.busy \in BOOLEAN

Shapes ==
    /\ backend \in {"sqlite", "postgres"}
    /\ rows = [k \in Keys |-> rows[k]]
    /\ table = [x \in Cells |-> table[x]]
    /\ cell = [v \in Vms |-> cell[v]]
    /\ inUpdate = [v \in Vms |-> inUpdate[v]]
    /\ calls = [c \in Calls |-> calls[c]] /\ \A c \in Calls : IsCall(calls[c])
    /\ tx = [c \in Calls |-> tx[c]] /\ \A c \in Calls : IsTransaction(tx[c])

(* In a transaction: of update, of db.tx, or one that is not yet rolled    *)
(* back.                                                                   *)
InUpdate == {"transform", "write", "commit"}
InTx == {"body", "txcommit", "orphan"}
Holding == InUpdate \cup InTx \cup {"rollback"}
Holds(c) == calls[c].pc \in Holding

(* On SQLite who holds the lock is the only one in a transaction. *)
LockInv ==
    /\ backend = "postgres" => writer = None
    /\ writer # None => writer \in Calls /\ Holds(writer)
    /\ \A c \in Calls : (backend = "sqlite" /\ Holds(c)) => writer = c

(* The row an update read is still there, or will make it conflict. *)
RowInv(c) ==
    calls[c].pc \in InUpdate =>
        /\ calls[c].key \in Keys
        /\ backend = "sqlite" => rows[calls[c].key] = calls[c].cur
        /\ calls[c].pc = "commit" => \/ rows[calls[c].key] \in {calls[c].cur, NoRow}
                                     \/ calls[c].new = NoRow /\ calls[c].cur = NoRow

(* On SQLite the flag is up under a transform, and no call of lur.kv is    *)
(* nested.                                                                 *)
FlagInv(c) ==
    backend = "sqlite" =>
        /\ calls[c].pc = "transform" => inUpdate[VmOf[c]] = TRUE
        /\ calls[c].key # None => calls[c].inside = None

PoolInv(c) == calls[c].pool \in {None, cell[VmOf[c]]}
KeyInv(c) == calls[c].key \in Keys \cup {None}

(* What an open transaction wrote is still what it began on. *)
CellInv(c) ==
    /\ calls[c].pc \notin InTx \cup {"rollback"} => tx[c] = Closed
    /\ calls[c].pc = "orphan" => tx[c].busy = TRUE
    /\ backend = "sqlite" /\ calls[c].pc \in InTx => \A x \in Cells : table[x] = tx[c].snap[x]
    /\ \A x \in Cells : Wrote(c, x) => table[x] = tx[c].snap[x]

CallInv(c) == RowInv(c) /\ FlagInv(c) /\ PoolInv(c) /\ KeyInv(c) /\ CellInv(c)

(* No two transactions hold one row or one cell of Postgres. *)
OneWriter ==
    /\ \A c, d \in Calls :
          (calls[c].pc = "commit" /\ calls[d].pc = "commit" /\ calls[c].key = calls[d].key) => c = d
    /\ \A c, d \in Calls, x \in Cells : (Wrote(c, x) /\ Wrote(d, x)) => c = d

StorageInv ==
    /\ Shapes /\ LockInv /\ OneWriter
    /\ \A c \in Calls : CallInv(c)

-----------------------------------------------------------------------------
(* What one call does to the others. *)

(* On SQLite nobody else is in a transaction. *)
Alone(c) == backend = "sqlite" => \A d \in Calls \ {c} : ~Holds(d)

LEMMA FreeIsAlone ==
    ASSUME StorageInv, writer = None
    PROVE  \A c \in Calls : Alone(c)
  BY CallAssumption DEF StorageInv, LockInv, Alone

LEMMA HolderIsAlone ==
    ASSUME StorageInv, NEW c \in Calls, Holds(c)
    PROVE  Alone(c)
  BY DEF StorageInv, LockInv, Alone

(* A step of c: it leaves the records of the others alone, and what they   *)
(* hold.                                                                   *)
StepOf(c) ==
    /\ backend' = backend
    /\ calls' = [d \in Calls |-> calls'[d]] /\ tx' = [d \in Calls |-> tx'[d]]
    /\ \A d \in Calls \ {c} : calls'[d] = calls[d] /\ tx'[d] = tx[d]
    /\ IsCall(calls'[c]) /\ IsTransaction(tx'[c])
    /\ rows' = [k \in Keys |-> rows'[k]] /\ table' = [x \in Cells |-> table'[x]]
    /\ cell' = [v \in Vms |-> cell'[v]] /\ inUpdate' = [v \in Vms |-> inUpdate'[v]]
    /\ \A v \in Vms : cell'[v] = cell[v] \/ cell[v] = None
    /\ Alone(c) \/ UNCHANGED <<rows, table, inUpdate>>
    /\ \A d \in Calls \ {c} : calls[d].pc = "commit" =>
          rows'[calls[d].key] \in {rows[calls[d].key], NoRow}
    /\ \A d \in Calls \ {c}, x \in Cells : Wrote(d, x) => table'[x] = table[x]

LEMMA OthersKeep ==
    ASSUME StorageInv, NEW c \in Calls, StepOf(c)
    PROVE  Shapes' /\ \A d \in Calls \ {c} : CallInv(d)'
<1>1. Shapes'
  BY DEF StorageInv, Shapes, StepOf
<1> SUFFICES ASSUME NEW d \in Calls \ {c}
             PROVE  CallInv(d)'
  BY <1>1
<1>2. calls'[d] = calls[d] /\ tx'[d] = tx[d] /\ backend' = backend
  BY DEF StepOf
<1>3. CallInv(d)
  BY DEF StorageInv
<1>4. RowInv(d)'
  <2>1. CASE backend = "sqlite" /\ Holds(d)
    <3>1. rows' = rows
      BY <2>1 DEF StepOf, Alone
    <3>2. QED
      BY <1>2, <1>3, <3>1 DEF CallInv, RowInv
  <2>2. CASE backend = "sqlite" /\ ~Holds(d)
    BY <1>2, <2>2 DEF RowInv, Holds, Holding
  <2>3. CASE backend # "sqlite"
    BY <1>2, <1>3, <2>3 DEF CallInv, RowInv, StepOf
  <2>4. QED
    BY <2>1, <2>2, <2>3
<1>5. FlagInv(d)'
  <2>1. CASE backend = "sqlite" /\ calls[d].pc = "transform"
    <3>1. inUpdate' = inUpdate
      BY <2>1 DEF StepOf, Alone, Holds, Holding, InUpdate
    <3>2. QED
      BY <1>2, <1>3, <3>1 DEF CallInv, FlagInv
  <2>2. QED
    BY <1>2, <1>3, <2>1 DEF CallInv, FlagInv
<1>6. PoolInv(d)'
  <2>1. VmOf[d] \in Vms
    BY CallAssumption
  <2>2. QED
    BY <1>2, <1>3, <2>1 DEF CallInv, PoolInv, StepOf
<1>7. CellInv(d)'
  <2>1. CASE backend = "sqlite" /\ calls[d].pc \in InTx
    <3>1. table' = table
      BY <2>1 DEF StepOf, Alone, Holds, Holding
    <3>2. QED
      BY <1>2, <1>3, <3>1 DEF CallInv, CellInv, Wrote
  <2>2. CASE ~(backend = "sqlite" /\ calls[d].pc \in InTx)
    BY <1>2, <1>3, <2>2 DEF CallInv, CellInv, Wrote, StepOf
  <2>3. QED
    BY <2>1, <2>2
<1>8. KeyInv(d)'
  BY <1>2, <1>3 DEF CallInv, KeyInv
<1>9. QED
  BY <1>4, <1>5, <1>6, <1>7, <1>8 DEF CallInv

(* A step of a call that is in no transaction and begins none. *)
LEMMA LooseStep ==
    ASSUME StorageInv, NEW c \in Calls, StepOf(c),
           ~Holds(c), calls'[c].pc \notin Holding, tx' = tx,
           writer' = writer,
           backend = "sqlite" /\ calls'[c].key # None => calls'[c].inside = None,
           calls'[c].pool \in {None, cell'[VmOf[c]]}, calls'[c].key \in Keys \cup {None}
    PROVE  StorageInv'
<1>1. tx[c] = Closed
  BY DEF StorageInv, CallInv, CellInv, Holds, Holding
<1>2. \A x \in Cells : ~Wrote(c, x)
  BY <1>1 DEF Wrote, Closed
<1>3. CallInv(c)'
  <2>1. RowInv(c)'
    BY DEF RowInv, Holding
  <2>2. FlagInv(c)'
    BY DEF FlagInv, Holding, InUpdate, StepOf
  <2>3. PoolInv(c)' /\ KeyInv(c)'
    BY DEF PoolInv, KeyInv
  <2>4. CellInv(c)'
    BY <1>1, <1>2 DEF CellInv, Holding, InTx, Wrote, Closed
  <2>5. QED
    BY <2>1, <2>2, <2>3, <2>4 DEF CallInv
<1>4. LockInv'
  BY CallAssumption DEF StorageInv, LockInv, StepOf, Holds
<1>5. OneWriter'
  <2>1. calls'[c].pc # "commit"
    BY DEF Holding, InUpdate
  <2>2. QED
    BY <2>1 DEF StorageInv, OneWriter, StepOf, Wrote
<1>6. QED
  BY <1>3, <1>4, <1>5, OthersKeep DEF StorageInv

LEMMA InitInv == DbInit => StorageInv
<1> SUFFICES ASSUME DbInit
             PROVE  StorageInv
  OBVIOUS
<1>1. /\ calls = [c \in Calls |-> Idle] /\ tx = [c \in Calls |-> Closed] /\ writer = None
      /\ rows = [k \in Keys |-> NoRow] /\ table = [x \in Cells |-> NoVal]
      /\ cell = [v \in Vms |-> None] /\ inUpdate = [v \in Vms |-> FALSE]
      /\ backend \in {"sqlite", "postgres"}
  BY BackendAssumption DEF DbInit, KvInit
<1>2. IsCall(Idle) /\ Idle.pc = "idle" /\ Idle.key = None /\ Idle.pool = None
  BY DEF IsCall, Idle
<1>3. IsTransaction(Closed) /\ Closed.wrote = {}
  BY DEF IsTransaction, Closed
<1>4. Shapes
  BY <1>1, <1>2, <1>3 DEF Shapes
<1>5. "idle" \notin Holding /\ "idle" # "commit"
  BY DEF Holding, InUpdate, InTx
<1>6. LockInv
  BY <1>1, <1>2, <1>5 DEF LockInv, Holds
<1>7. OneWriter
  BY <1>1, <1>2, <1>3 DEF OneWriter, Wrote
<1>8. ASSUME NEW c \in Calls
      PROVE  CallInv(c)
  <2>1. calls[c] = Idle /\ tx[c] = Closed
    BY <1>1
  <2>2. QED
    BY <1>2, <1>3, <1>5, <2>1
       DEF CallInv, RowInv, FlagInv, PoolInv, KeyInv, CellInv, Holding, InTx, InUpdate,
           Wrote
<1>9. QED
  BY <1>4, <1>6, <1>7, <1>8 DEF StorageInv

-----------------------------------------------------------------------------
(* The steps outside transactions. *)

(* c's record becomes y, and nothing of the database changes. *)
LEMMA RecordStep ==
    ASSUME StorageInv, NEW c \in Calls, NEW y, calls' = [calls EXCEPT ![c] = y], IsCall(y),
           UNCHANGED <<dbVars, inUpdate, cell, table, tx>>
    PROVE  StepOf(c) /\ calls'[c] = y
  BY DEF StorageInv, Shapes, StepOf, dbVars

LEMMA IdleCall == IsCall(Idle) /\ Idle.pc = "idle" /\ Idle.key = None /\ Idle.pool = None
                  /\ Idle.inside = None
  BY DEF IsCall, Idle

LEMMA LooseRecord ==
    ASSUME StorageInv, NEW c \in Calls, NEW y, calls' = [calls EXCEPT ![c] = y], IsCall(y),
           UNCHANGED <<dbVars, inUpdate, cell, table, tx>>,
           calls[c].pc \notin Holding, y.pc \notin Holding,
           backend = "sqlite" /\ y.key # None => y.inside = None,
           y.pool \in {None, cell[VmOf[c]]}, y.key \in Keys \cup {None}
    PROVE  StorageInv'
<1>1. StepOf(c) /\ calls'[c] = y /\ tx' = tx /\ writer' = writer /\ cell' = cell
  BY RecordStep DEF dbVars
<1>2. QED
  BY <1>1, LooseStep DEF Holds

LEMMA SentCall ==
    ASSUME NEW c, NEW k, NEW op, NEW parent
    PROVE  /\ IsCall(Sent(c, k, op, parent))
           /\ Sent(c, k, op, parent).pc \in {"open", "begin", "exec"}
           /\ Sent(c, k, op, parent).key = k
           /\ Sent(c, k, op, parent).inside = parent
           /\ Sent(c, k, op, parent).pool = cell[VmOf[c]]
<1> DEFINE pc == IF cell[VmOf[c]] = None THEN "open" ELSE FirstAwait(op)
           y == Sent(c, k, op, parent)
<1>1. pc \in {"open", "begin", "exec"}
  BY DEF FirstAwait
<1>2. y = [Idle EXCEPT !.pc = pc, !.key = k, !.op = op, !.at = now,
                       !.pool = cell[VmOf[c]], !.inside = parent]
  BY DEF Sent
<1> HIDE DEF pc, y
<1>3. IsCall(y) /\ y.pc = pc /\ y.key = k /\ y.inside = parent /\ y.pool = cell[VmOf[c]]
  BY <1>2, IdleCall DEF IsCall
<1>4. QED
  BY <1>1, <1>3 DEF y

(* No call of lur.kv is accepted inside a transform on SQLite. *)
LEMMA CallStepInv ==
    ASSUME StorageInv, NEW c \in Calls, NEW k \in Keys, NEW op, NEW parent \in Calls \cup {None},
           Call(c, k, op, parent), UNCHANGED <<table, tx>>
    PROVE  StorageInv'
<1> DEFINE y == Sent(c, k, op, parent)
<1>1. calls' = [calls EXCEPT ![c] = y] /\ UNCHANGED <<dbVars, inUpdate, cell>>
      /\ calls[c].pc = "idle"
  BY DEF Call, At, vmVars
<1>2. backend = "sqlite" => parent = None
  <2> SUFFICES ASSUME backend = "sqlite", parent # None
               PROVE  FALSE
    OBVIOUS
  <2>1. calls[parent].pc = "transform" /\ VmOf[parent] = VmOf[c]
    BY DEF Call, At
  <2>2. inUpdate[VmOf[c]] = TRUE
    BY <2>1 DEF StorageInv, CallInv, FlagInv
  <2>3. QED
    BY <2>2 DEF Call, Accepted
<1>3. IsCall(y) /\ y.pc \in {"open", "begin", "exec"} /\ y.key = k /\ y.inside = parent
      /\ y.pool = cell[VmOf[c]]
  BY SentCall
<1> HIDE DEF y
<1>4. calls[c].pc \notin Holding /\ y.pc \notin Holding
  BY <1>1, <1>3 DEF Holding, InUpdate, InTx
<1>5. QED
  BY <1>1, <1>2, <1>3, <1>4, LooseRecord

LEMMA DbCallInv ==
    ASSUME StorageInv, NEW c \in Calls, NEW op, NEW parent, DbCall(c, op, parent)
    PROVE  StorageInv'
<1> DEFINE y == Sent(c, None, op, parent)
<1>1. calls' = [calls EXCEPT ![c] = y] /\ UNCHANGED <<dbVars, inUpdate, cell, table, tx>>
      /\ calls[c].pc = "idle"
  BY DEF DbCall, At, vmVars
<1>2. IsCall(y) /\ y.pc \in {"open", "begin", "exec"} /\ y.key = None
      /\ y.pool = cell[VmOf[c]]
  BY SentCall
<1> HIDE DEF y
<1>3. calls[c].pc \notin Holding /\ y.pc \notin Holding
  BY <1>1, <1>2 DEF Holding, InUpdate, InTx
<1>4. QED
  BY <1>1, <1>2, <1>3, LooseRecord

(* A call ends, whatever it did to the rows and cells. *)
LEMMA EndsIdle ==
    ASSUME StorageInv, NEW c \in Calls, End(c)
    PROVE  /\ calls' = [d \in Calls |-> calls'[d]]
           /\ \A d \in Calls \ {c} : calls'[d] = calls[d]
           /\ calls'[c] = Idle
           /\ calls'[c].pc \notin Holding
  BY IdleCall DEF StorageInv, Shapes, End, Holding, InUpdate, InTx

LEMMA EndInv ==
    ASSUME StorageInv, NEW c \in Calls, End(c), calls[c].pc \notin Holding,
           UNCHANGED <<dbVars, inUpdate, cell, table, tx>>
    PROVE  StorageInv'
  BY LooseRecord, IdleCall DEF End, Holding, InUpdate, InTx

(* A sweep takes rows away, from nobody on SQLite. *)
LEMMA PurgeTakes ==
    ASSUME StorageInv, NEW at, CanPurge(at), rows' = Purged(at)
    PROVE  /\ \A c \in Calls : Alone(c)
           /\ rows' = [k \in Keys |-> rows'[k]]
           /\ \A d \in Calls : calls[d].pc = "commit" =>
                 rows'[calls[d].key] \in {rows[calls[d].key], NoRow}
<1>1. \A c \in Calls : Alone(c)
  BY FreeIsAlone DEF CanPurge, Alone
<1>2. \A k \in Keys : rows'[k] \in {rows[k], NoRow}
  BY DEF Purged
<1>3. \A d \in Calls : calls[d].pc = "commit" => calls[d].key \in Keys
  BY DEF StorageInv, CallInv, RowInv, InUpdate
<1>4. QED
  BY <1>1, <1>2, <1>3 DEF Purged

LEMMA OpenInv ==
    ASSUME StorageInv, NEW c \in Calls, Open(c), UNCHANGED <<table, tx>>
    PROVE  StorageInv'
<1> DEFINE pool == FirstSet(c)
           pc == FirstAwait(Made(c))
<1>1. /\ calls[c].pc = "open" /\ CanPurge(now) /\ rows' = Purged(now)
      /\ cell' = [cell EXCEPT ![VmOf[c]] = IF @ = None THEN c ELSE @]
      /\ calls' = [calls EXCEPT ![c].pc = pc, ![c].at = now, ![c].pool = pool]
      /\ backend' = backend /\ writer' = writer /\ inUpdate' = inUpdate
      /\ table' = table /\ tx' = tx
  BY DEF Open, At
<1>2. pc \in {"begin", "exec"}
  BY DEF FirstAwait
<1>3. VmOf[c] \in Vms
  BY CallAssumption
<1>4. cell'[VmOf[c]] = pool
  BY <1>1, <1>3 DEF FirstSet, StorageInv, Shapes
<1>5. \A v \in Vms : cell'[v] = cell[v] \/ cell[v] = None
  BY <1>1 DEF StorageInv, Shapes
<1>6. cell' = [v \in Vms |-> cell'[v]]
  BY <1>1 DEF StorageInv, Shapes
<1> HIDE DEF pool, pc
<1>7. /\ IsCall(calls'[c]) /\ calls'[c].pc = pc /\ calls'[c].pool = pool
      /\ calls'[c].key = calls[c].key /\ calls'[c].inside = calls[c].inside
      /\ calls' = [d \in Calls |-> calls'[d]]
      /\ \A d \in Calls \ {c} : calls'[d] = calls[d]
  <2>1. /\ calls'[c] = [calls[c] EXCEPT !.pc = pc, !.at = now, !.pool = pool]
        /\ calls' = [d \in Calls |-> calls'[d]]
        /\ \A d \in Calls \ {c} : calls'[d] = calls[d]
    BY <1>1 DEF StorageInv, Shapes
  <2>2. IsCall(calls[c])
    BY DEF StorageInv, Shapes
  <2>3. QED
    BY <2>1, <2>2 DEF IsCall
<1>8. StepOf(c)
  BY <1>1, <1>5, <1>6, <1>7, PurgeTakes DEF StepOf, StorageInv, Shapes
<1>9. ~Holds(c) /\ calls'[c].pc \notin Holding
  BY <1>1, <1>2, <1>7 DEF Holds, Holding, InUpdate, InTx
<1>10. backend = "sqlite" /\ calls'[c].key # None => calls'[c].inside = None
  BY <1>7 DEF StorageInv, CallInv, FlagInv
<1>11. calls'[c].key \in Keys \cup {None}
  BY <1>7 DEF StorageInv, CallInv, KeyInv
<1>12. QED
  BY <1>1, <1>4, <1>7, <1>8, <1>9, <1>10, <1>11, LooseStep

LEMMA ReadsKeep ==
    ASSUME NEW row, NEW op, NEW at, Reads(op)
    PROVE  Statement(row, op, at).row = row
<1>1. \A out : Did(row, out).row = row
  BY DEF Did
<1>2. CASE op.call = "get"
  BY <1>1, <1>2 DEF Statement, LiteStatement, PgStatement
<1>3. CASE op.call = "ttl"
  BY <1>1, <1>3 DEF Statement, LiteStatement, PgStatement
<1>4. CASE op.call = "cas" /\ op.expected = Nil /\ op.val = Nil
  <2>1. LiteCas(row, op, at).row = row /\ PgCas(row, op, at).row = row
    BY <1>1, <1>4 DEF LiteCas, PgCas
  <2>2. QED
    BY <1>4, <2>1 DEF Statement, LiteStatement, PgStatement
<1>5. QED
  BY <1>2, <1>3, <1>4 DEF Reads

(* A statement changes its row when it can write, and leaves the rows that *)
(* the transactions of the others hold.                                    *)
LEMMA RowStep ==
    ASSUME StorageInv, NEW c \in Calls, NEW k, NEW row,
           rows' = [rows EXCEPT ![k] = row], row = rows[k] \/ CanWrite(k)
    PROVE  /\ rows' = [q \in Keys |-> rows'[q]]
           /\ Alone(c) \/ rows' = rows
           /\ \A d \in Calls : calls[d].pc = "commit" => rows'[calls[d].key] = rows[calls[d].key]
<1>1. rows' = [q \in Keys |-> rows'[q]]
  BY DEF StorageInv, Shapes
<1>2. CASE row = rows[k]
  <2>1. rows' = rows
    BY <1>2 DEF StorageInv, Shapes
  <2>2. QED
    BY <1>1, <2>1
<1>3. CASE CanWrite(k)
  <2>1. Alone(c)
    BY <1>3, FreeIsAlone DEF CanWrite, Alone
  <2>2. ASSUME NEW d \in Calls, calls[d].pc = "commit"
        PROVE  rows'[calls[d].key] = rows[calls[d].key]
    <3>1. Holds(d) /\ calls[d].key \in Keys
      BY <2>2 DEF Holds, Holding, InUpdate, StorageInv, CallInv, RowInv
    <3>2. backend # "sqlite"
      BY <1>3, <3>1, CallAssumption DEF CanWrite, StorageInv, LockInv
    <3>3. calls[d].key # k
      BY <1>3, <2>2, <3>2 DEF CanWrite, Locked
    <3>4. QED
      BY <3>1, <3>3 DEF StorageInv, Shapes
  <2>3. QED
    BY <1>1, <2>1, <2>2
<1>4. QED
  BY <1>2, <1>3

(* A call outside transactions does something to the rows, and ends or     *)
(* goes on.                                                                *)
LEMMA LooseRows ==
    ASSUME StorageInv, NEW c \in Calls, NEW y, calls' = [calls EXCEPT ![c] = y], IsCall(y),
           UNCHANGED <<backend, writer, inUpdate, cell, table, tx>>,
           calls[c].pc \notin Holding, y.pc \notin Holding,
           y.key # None => (y.key = calls[c].key /\ y.inside = calls[c].inside),
           y.pool \in {None, calls[c].pool},
           rows' = [k \in Keys |-> rows'[k]],
           Alone(c) \/ rows' = rows,
           \A d \in Calls : calls[d].pc = "commit" =>
              rows'[calls[d].key] \in {rows[calls[d].key], NoRow}
    PROVE  StorageInv'
<1>1. /\ calls' = [d \in Calls |-> calls'[d]] /\ calls'[c] = y
      /\ \A d \in Calls \ {c} : calls'[d] = calls[d]
  BY DEF StorageInv, Shapes
<1>2. StepOf(c)
  BY <1>1 DEF StepOf, StorageInv, Shapes
<1>3. backend = "sqlite" /\ y.key # None => y.inside = None
  BY DEF StorageInv, CallInv, FlagInv
<1>4. y.pool \in {None, cell[VmOf[c]]}
  BY DEF StorageInv, CallInv, PoolInv
<1>5. y.key \in Keys \cup {None}
  BY DEF StorageInv, CallInv, KeyInv
<1>6. QED
  BY <1>1, <1>2, <1>3, <1>4, <1>5, LooseStep DEF Holds

(* Any such step that only changes fields of the call, or ends it. *)
LEMMA Loose ==
    ASSUME StorageInv, NEW c \in Calls, NEW y, IsCall(y),
           calls' = [calls EXCEPT ![c] = y],
           UNCHANGED <<dbVars, inUpdate, cell, table, tx>>,
           calls[c].pc \notin Holding, y.pc \notin Holding,
           y.key # None => (y.key = calls[c].key /\ y.inside = calls[c].inside),
           y.pool \in {None, calls[c].pool}
    PROVE  StorageInv'
<1>1. rows' = [k \in Keys |-> rows'[k]] /\ rows' = rows
  BY DEF StorageInv, Shapes, dbVars
<1>2. UNCHANGED <<backend, writer, inUpdate, cell, table, tx>>
  BY DEF dbVars
<1>3. QED
  BY <1>1, <1>2, LooseRows

LEMMA ExecuteInv ==
    ASSUME StorageInv, NEW c \in Calls, Execute(c), UNCHANGED <<table, tx>>
    PROVE  StorageInv'
<1> DEFINE k == calls[c].key
           did == Statement(rows[k], Made(c), calls[c].at)
           y == [calls[c] EXCEPT !.pc = "purge"]
<1>1. /\ calls[c].pc = "exec" /\ (Reads(Made(c)) \/ CanWrite(k))
      /\ rows' = [rows EXCEPT ![k] = did.row]
      /\ calls' = [calls EXCEPT ![c].pc = "purge"] \/ End(c)
      /\ UNCHANGED <<backend, writer, inUpdate, cell, table, tx>>
  BY DEF Execute, At, vmVars
<1>2. did.row = rows[k] \/ CanWrite(k)
  BY <1>1, ReadsKeep
<1> HIDE DEF did
<1>3. /\ rows' = [q \in Keys |-> rows'[q]] /\ (Alone(c) \/ rows' = rows)
      /\ \A d \in Calls : calls[d].pc = "commit" => rows'[calls[d].key] = rows[calls[d].key]
  BY <1>1, <1>2, RowStep
<1>4. calls[c].pc \notin Holding /\ "idle" \notin Holding /\ "purge" \notin Holding
  BY <1>1 DEF Holding, InUpdate, InTx
<1>5. CASE End(c)
  BY <1>1, <1>3, <1>4, <1>5, IdleCall, LooseRows DEF End
<1>6. CASE calls' = [calls EXCEPT ![c].pc = "purge"]
  <2>1. IsCall(calls[c]) /\ calls' = [calls EXCEPT ![c] = y]
    BY <1>6 DEF StorageInv, Shapes
  <2> HIDE DEF y
  <2>2. IsCall(y) /\ y.pc = "purge" /\ y.key = calls[c].key /\ y.inside = calls[c].inside
        /\ y.pool = calls[c].pool
    BY <2>1 DEF y, IsCall
  <2>3. QED
    BY <1>1, <1>3, <1>4, <2>1, <2>2, LooseRows
<1>7. QED
  BY <1>1, <1>5, <1>6

LEMMA BusyInv ==
    ASSUME StorageInv, NEW c \in Calls, Busy(c), UNCHANGED <<table, tx>>
    PROVE  StorageInv'
<1> DEFINE y == [calls[c] EXCEPT !.tries = @ + 1]
<1>1. /\ calls[c].pc \in {"exec", "begin", "sweep"}
      /\ calls' = [calls EXCEPT ![c].tries = @ + 1] \/ End(c)
      /\ UNCHANGED <<dbVars, inUpdate, cell, table, tx>>
  BY DEF Busy, At, vmVars
<1>2. calls[c].pc \notin Holding /\ "idle" \notin Holding
  BY <1>1 DEF Holding, InUpdate, InTx
<1>3. CASE End(c)
  BY <1>1, <1>2, <1>3, IdleCall, Loose DEF End
<1>4. CASE calls' = [calls EXCEPT ![c].tries = @ + 1]
  <2>1. IsCall(calls[c]) /\ calls' = [calls EXCEPT ![c] = y]
    BY <1>4 DEF StorageInv, Shapes
  <2> HIDE DEF y
  <2>2. IsCall(y) /\ y.pc = calls[c].pc /\ y.key = calls[c].key /\ y.inside = calls[c].inside
        /\ y.pool = calls[c].pool
    BY <2>1 DEF y, IsCall
  <2>3. QED
    BY <1>1, <1>2, <2>1, <2>2, Loose
<1>5. QED
  BY <1>1, <1>3, <1>4

LEMMA MaybePurgeInv ==
    ASSUME StorageInv, NEW c \in Calls, MaybePurge(c), UNCHANGED <<table, tx>>
    PROVE  StorageInv'
<1> DEFINE y == [calls[c] EXCEPT !.pc = "sweep", !.at = now, !.tries = 0]
<1>1. /\ calls[c].pc = "purge"
      /\ calls' = [calls EXCEPT ![c].pc = "sweep", ![c].at = now, ![c].tries = 0] \/ End(c)
      /\ UNCHANGED <<dbVars, inUpdate, cell, table, tx>>
  BY DEF MaybePurge, At
<1>2. calls[c].pc \notin Holding /\ "idle" \notin Holding /\ "sweep" \notin Holding
  BY <1>1 DEF Holding, InUpdate, InTx
<1>3. CASE End(c)
  BY <1>1, <1>2, <1>3, IdleCall, Loose DEF End
<1>4. CASE calls' = [calls EXCEPT ![c].pc = "sweep", ![c].at = now, ![c].tries = 0]
  <2>1. IsCall(calls[c]) /\ calls' = [calls EXCEPT ![c] = y]
    BY <1>4 DEF StorageInv, Shapes
  <2>2. y = [calls[c] EXCEPT !.pc = "sweep", !.at = now, !.tries = 0]
    OBVIOUS
  <2> HIDE DEF y
  <2>3. IsCall(y) /\ y.pc = "sweep" /\ y.key = calls[c].key /\ y.inside = calls[c].inside
        /\ y.pool = calls[c].pool
    BY <2>1, <2>2 DEF IsCall
  <2>4. QED
    BY <1>1, <1>2, <2>1, <2>3, Loose
<1>5. QED
  BY <1>1, <1>3, <1>4

LEMMA SweepInv ==
    ASSUME StorageInv, NEW c \in Calls, Sweep(c), UNCHANGED <<table, tx>>
    PROVE  StorageInv'
<1>1. /\ calls[c].pc = "sweep" /\ CanPurge(calls[c].at) /\ rows' = Purged(calls[c].at)
      /\ End(c) /\ UNCHANGED <<backend, writer, inUpdate, cell, table, tx>>
  BY DEF Sweep, At, vmVars
<1>2. calls[c].pc \notin Holding /\ "idle" \notin Holding
  BY <1>1 DEF Holding, InUpdate, InTx
<1>3. QED
  BY <1>1, <1>2, IdleCall, PurgeTakes, LooseRows DEF End

LEMMA LateInv ==
    ASSUME StorageInv, NEW c \in Calls, Late(c), UNCHANGED <<table, tx>>
    PROVE  StorageInv'
<1> DEFINE k == calls[c].key
           row == Statement(rows[k], Made(c), calls[c].at).row
<1>1. /\ calls[c].pc = "late" /\ CanWrite(k) /\ rows' = [rows EXCEPT ![k] = row]
      /\ End(c) /\ UNCHANGED <<backend, writer, inUpdate, cell, table, tx>>
  BY DEF Late, At, vmVars
<1> HIDE DEF row
<1>2. /\ rows' = [q \in Keys |-> rows'[q]] /\ (Alone(c) \/ rows' = rows)
      /\ \A d \in Calls : calls[d].pc = "commit" => rows'[calls[d].key] = rows[calls[d].key]
  BY <1>1, RowStep
<1>3. calls[c].pc \notin Holding /\ "idle" \notin Holding
  BY <1>1 DEF Holding, InUpdate, InTx
<1>4. QED
  BY <1>1, <1>2, <1>3, IdleCall, LooseRows DEF End

LEMMA FailsInv ==
    ASSUME StorageInv, NEW c \in Calls, End(c), UNCHANGED <<dbVars, now, vmVars, table, tx>>,
           calls[c].pc \in {"open", "exec", "late", "sweep", "begin", "purge"}
    PROVE  StorageInv'
<1>1. calls[c].pc \notin Holding
  BY DEF Holding, InUpdate, InTx
<1>2. QED
  BY <1>1, EndInv DEF vmVars

LEMMA AbandonInv ==
    ASSUME StorageInv, NEW c \in Calls, calls[c].pc = "exec",
           calls' = [calls EXCEPT ![c].pc = "late", ![c].inside = None],
           UNCHANGED <<dbVars, now, vmVars, table, tx>>
    PROVE  StorageInv'
<1> DEFINE y == [calls[c] EXCEPT !.pc = "late", !.inside = None]
<1>1. IsCall(calls[c]) /\ calls' = [calls EXCEPT ![c] = y]
  BY DEF StorageInv, Shapes
<1>2. y = [calls[c] EXCEPT !.pc = "late", !.inside = None]
  OBVIOUS
<1> HIDE DEF y
<1>3. IsCall(y) /\ y.pc = "late" /\ y.key = calls[c].key /\ y.inside = None
      /\ y.pool = calls[c].pool
  BY <1>1, <1>2 DEF IsCall
<1>4. calls[c].pc \notin Holding /\ y.pc \notin Holding
  BY <1>3 DEF Holding, InUpdate, InTx
<1>5. y.key \in Keys \cup {None} /\ y.pool \in {None, cell[VmOf[c]]}
  BY <1>3 DEF StorageInv, CallInv, KeyInv, PoolInv
<1>6. QED
  BY <1>1, <1>3, <1>4, <1>5, LooseRecord DEF vmVars

LEMMA DbExecuteInv ==
    ASSUME StorageInv, NEW c \in Calls, NEW x \in Cells, NEW v, DbExecute(c, x, v)
    PROVE  StorageInv'
<1>1. /\ calls[c].pc \in {"exec", "late"} /\ table' = [table EXCEPT ![x] = v] /\ End(c)
      /\ IF backend = "sqlite" THEN writer = None ELSE ~CellLocked(x, c)
      /\ UNCHANGED <<backend, rows, writer, inUpdate, cell, tx>>
  BY DEF DbExecute, dbVars, vmVars
<1>2. calls[c].pc \notin Holding
  BY <1>1 DEF Holding, InUpdate, InTx
<1>3. Alone(c)
  BY <1>1, FreeIsAlone DEF Alone
<1>4. ASSUME NEW d \in Calls \ {c}, NEW z \in Cells, Wrote(d, z)
      PROVE  table'[z] = table[z]
  <2>1. z # x
    <3>1. CASE backend = "sqlite"
      <4>1. calls[d].pc \notin Holding
        BY <1>3, <3>1 DEF Alone, Holds
      <4>2. tx[d] = Closed
        BY <4>1 DEF StorageInv, CallInv, CellInv, Holding
      <4>3. QED
        BY <1>4, <4>2 DEF Wrote, Closed
    <3>2. CASE backend # "sqlite"
      BY <1>1, <1>4, <3>2 DEF CellLocked
    <3>3. QED
      BY <3>1, <3>2
  <2>2. QED
    BY <1>1, <2>1 DEF StorageInv, Shapes
<1>5. table' = [z \in Cells |-> table'[z]]
  BY <1>1 DEF StorageInv, Shapes
<1>6. /\ calls' = [d \in Calls |-> calls'[d]] /\ calls'[c] = Idle
      /\ \A d \in Calls \ {c} : calls'[d] = calls[d]
      /\ calls'[c].pc \notin Holding
  BY <1>1, EndsIdle
<1>7. StepOf(c)
  BY <1>1, <1>3, <1>4, <1>5, <1>6, IdleCall DEF StepOf, StorageInv, Shapes
<1>8. QED
  BY <1>1, <1>2, <1>6, <1>7, IdleCall, LooseStep DEF Holds

-----------------------------------------------------------------------------
(* The steps of transactions. *)

(* Begun, gone on with, or over. *)
LEMMA LockStep ==
    ASSUME StorageInv, NEW c \in Calls, StepOf(c),
           \/ calls'[c].pc \in Holding /\ (backend = "sqlite" => writer = None)
                                       /\ writer' = Takes(c)
           \/ Holds(c) /\ calls'[c].pc \in Holding /\ writer' = writer
           \/ calls'[c].pc \notin Holding /\ writer' = Released(c)
    PROVE  LockInv'
<1>1. /\ backend' = backend /\ backend \in {"sqlite", "postgres"}
      /\ \A d \in Calls \ {c} : calls'[d] = calls[d]
  BY DEF StepOf, StorageInv, Shapes
<1>2. CASE calls'[c].pc \in Holding /\ (backend = "sqlite" => writer = None)
                                    /\ writer' = Takes(c)
  BY <1>1, <1>2, CallAssumption DEF StorageInv, LockInv, Holds, Takes
<1>3. CASE Holds(c) /\ calls'[c].pc \in Holding /\ writer' = writer
  BY <1>1, <1>3, CallAssumption DEF StorageInv, LockInv, Holds
<1>4. CASE calls'[c].pc \notin Holding /\ writer' = Released(c)
  BY <1>1, <1>4, CallAssumption DEF StorageInv, LockInv, Holds, Released
<1>5. QED
  BY <1>2, <1>3, <1>4

(* No other call has written the cells and the row that c has. *)
LEMMA WriterStep ==
    ASSUME StorageInv, NEW c \in Calls, StepOf(c),
           calls'[c].pc = "commit" =>
              \A d \in Calls \ {c} : ~(calls[d].pc = "commit" /\ calls[d].key = calls'[c].key),
           \A d \in Calls \ {c}, x \in Cells : Wrote(d, x) => x \notin tx'[c].wrote
    PROVE  OneWriter'
<1>1. \A d \in Calls \ {c} : calls'[d] = calls[d] /\ tx'[d] = tx[d]
  BY DEF StepOf
<1>2. OneWriter
  BY DEF StorageInv
<1>3. ASSUME NEW d \in Calls, NEW e \in Calls,
             calls'[d].pc = "commit" /\ calls'[e].pc = "commit" /\ calls'[d].key = calls'[e].key
      PROVE  d = e
  BY <1>1, <1>2, <1>3 DEF OneWriter
<1>4. ASSUME NEW d \in Calls, NEW e \in Calls, NEW x \in Cells,
             x \in tx'[d].wrote /\ x \in tx'[e].wrote
      PROVE  d = e
  BY <1>1, <1>2, <1>4 DEF OneWriter, Wrote
<1>5. QED
  BY <1>3, <1>4 DEF OneWriter, Wrote

(* A step of c's record and lock alone, the rows and cells untouched. *)
LEMMA RecordStepOf ==
    ASSUME StorageInv, NEW c \in Calls, NEW y, calls' = [calls EXCEPT ![c] = y], IsCall(y),
           NEW t, tx' = [tx EXCEPT ![c] = t], IsTransaction(t),
           UNCHANGED <<backend, rows, cell, table>>,
           inUpdate' = [v \in Vms |-> inUpdate'[v]],
           Alone(c) \/ inUpdate' = inUpdate
    PROVE  StepOf(c) /\ calls'[c] = y /\ tx'[c] = t
  BY DEF StorageInv, Shapes, StepOf

(* tx is left alone. *)
LEMMA TxSame ==
    ASSUME StorageInv, NEW c \in Calls, tx' = tx
    PROVE  tx' = [tx EXCEPT ![c] = tx[c]] /\ IsTransaction(tx[c])
  BY DEF StorageInv, Shapes

(* Outside its transactions of db.tx a call has written no cell. *)
LEMMA ClosedWrotes ==
    ASSUME StorageInv, NEW c \in Calls, calls[c].pc \notin InTx \cup {"rollback"}
    PROVE  tx[c] = Closed /\ tx[c].wrote = {}
  BY DEF StorageInv, CallInv, CellInv, Closed

LEMMA WrotesApart ==
    ASSUME StorageInv, NEW c \in Calls
    PROVE  \A d \in Calls \ {c}, x \in Cells : Wrote(d, x) => x \notin tx[c].wrote
  BY DEF StorageInv, OneWriter, Wrote

LEMMA BeginInv ==
    ASSUME StorageInv, NEW c \in Calls, Begin(c), UNCHANGED <<table, tx>>
    PROVE  StorageInv'
<1> DEFINE v == VmOf[c]
           row == rows[calls[c].key]
           y == [calls[c] EXCEPT !.pc = "transform", !.at = now, !.cur = row,
                                 !.prev = inUpdate[v]]
<1>1. /\ calls[c].pc = "begin" /\ calls[c].key # None
      /\ backend = "sqlite" => writer = None
      /\ writer' = Takes(c)
      /\ inUpdate' = [inUpdate EXCEPT ![v] = TRUE]
      /\ calls' = [calls EXCEPT ![c].pc = "transform", ![c].at = now, ![c].cur = row,
                                ![c].prev = inUpdate[v]]
      /\ UNCHANGED <<backend, rows, cell, table, tx>>
  BY DEF Begin, At, OfKv
<1>2. IsCall(calls[c]) /\ calls' = [calls EXCEPT ![c] = y]
  BY <1>1 DEF StorageInv, Shapes
<1>3. y = [calls[c] EXCEPT !.pc = "transform", !.at = now, !.cur = row, !.prev = inUpdate[v]]
  OBVIOUS
<1> HIDE DEF y
<1>4. IsCall(y) /\ y.pc = "transform" /\ y.key = calls[c].key /\ y.inside = calls[c].inside
      /\ y.pool = calls[c].pool /\ y.cur = rows[calls[c].key]
  BY <1>2, <1>3 DEF IsCall
<1>5. Alone(c)
  BY <1>1, FreeIsAlone DEF Alone
<1>6. inUpdate' = [w \in Vms |-> inUpdate'[w]] /\ inUpdate'[v] = TRUE
  BY <1>1, CallAssumption DEF StorageInv, Shapes
<1>7. StepOf(c) /\ calls'[c] = y
  BY <1>1, <1>2, <1>4, <1>5, <1>6, TxSame, RecordStepOf
<1>8. tx[c] = Closed /\ tx[c].wrote = {}
  BY <1>1, ClosedWrotes DEF InTx
<1>9. calls[c].key \in Keys
  BY <1>1 DEF StorageInv, CallInv, KeyInv
<1>10. RowInv(c)'
  BY <1>1, <1>4, <1>7, <1>9 DEF RowInv
<1>11. FlagInv(c)' /\ PoolInv(c)' /\ KeyInv(c)'
  BY <1>1, <1>4, <1>6, <1>7 DEF StorageInv, CallInv, FlagInv, PoolInv, KeyInv
<1>12. CellInv(c)'
  BY <1>1, <1>4, <1>7, <1>8 DEF CellInv, Wrote, InTx
<1>13. LockInv'
  BY <1>1, <1>4, <1>7, LockStep DEF Holding, InUpdate
<1>14. OneWriter'
  BY <1>1, <1>4, <1>7, <1>8, WriterStep
<1>15. QED
  BY <1>7, <1>10, <1>11, <1>12, <1>13, <1>14, OthersKeep DEF StorageInv, CallInv

(* A transaction of update goes on, or is dropped. *)
LEMMA UpdateGoesOn ==
    ASSUME StorageInv, NEW c \in Calls, calls[c].pc \in InUpdate,
           NEW y, IsCall(y), calls' = [calls EXCEPT ![c] = y],
           UNCHANGED <<backend, rows, writer, cell, table, tx>>,
           inUpdate' = [v \in Vms |-> inUpdate'[v]],
           y.pc \in {"write", "commit", "rollback"},
           y.key = calls[c].key,
           y.inside \in {calls[c].inside, None}, y.pool \in {calls[c].pool, None},
           y.pc # "rollback" => y.cur = calls[c].cur,
           y.pc = "commit" =>
              /\ rows[y.key] \in {y.cur, NoRow} \/ (y.new = NoRow /\ y.cur = NoRow)
              /\ \A d \in Calls \ {c} : ~(calls[d].pc = "commit" /\ calls[d].key = y.key)
    PROVE  StorageInv'
<1>1. Holds(c) /\ y.pc \in Holding /\ Alone(c)
  BY HolderIsAlone DEF Holds, Holding, InUpdate
<1>2. StepOf(c) /\ calls'[c] = y
  BY <1>1, TxSame, RecordStepOf
<1>3. tx[c] = Closed /\ tx[c].wrote = {}
  BY ClosedWrotes DEF InTx, InUpdate
<1>4. RowInv(c)'
  BY <1>2 DEF StorageInv, CallInv, RowInv, InUpdate
<1>5. FlagInv(c)' /\ PoolInv(c)' /\ KeyInv(c)'
  BY <1>2 DEF StorageInv, CallInv, FlagInv, PoolInv, KeyInv
<1>6. CellInv(c)'
  BY <1>2, <1>3 DEF CellInv, Wrote, InTx
<1>7. LockInv'
  BY <1>1, <1>2, LockStep
<1>8. OneWriter'
  BY <1>2, <1>3, WriterStep
<1>9. QED
  BY <1>2, <1>4, <1>5, <1>6, <1>7, <1>8, OthersKeep DEF StorageInv, CallInv

LEMMA TransformReturnsInv ==
    ASSUME StorageInv, NEW c \in Calls, NEW new, TransformReturns(c, new), UNCHANGED <<table, tx>>
    PROVE  StorageInv'
<1> DEFINE row == Updated(new, KeptExpiry(c))
           y == [calls[c] EXCEPT !.pc = "write", !.new = row]
<1>1. /\ calls[c].pc = "transform"
      /\ inUpdate' = [inUpdate EXCEPT ![VmOf[c]] = calls[c].prev]
      /\ calls' = [calls EXCEPT ![c].pc = "write", ![c].new = row]
      /\ UNCHANGED <<backend, rows, writer, cell, table, tx>>
  BY DEF TransformReturns, At, dbVars
<1> HIDE DEF row
<1>2. IsCall(calls[c]) /\ calls' = [calls EXCEPT ![c] = y]
  BY <1>1 DEF StorageInv, Shapes
<1>3. y = [calls[c] EXCEPT !.pc = "write", !.new = row]
  OBVIOUS
<1> HIDE DEF y
<1>4. IsCall(y) /\ y.pc = "write" /\ y.key = calls[c].key /\ y.inside = calls[c].inside
      /\ y.pool = calls[c].pool /\ y.cur = calls[c].cur
  BY <1>2, <1>3 DEF IsCall
<1>5. inUpdate' = [w \in Vms |-> inUpdate'[w]]
  BY <1>1 DEF StorageInv, Shapes
<1>6. QED
  BY <1>1, <1>2, <1>4, <1>5, UpdateGoesOn DEF InUpdate

LEMMA WriteInv ==
    ASSUME StorageInv, NEW c \in Calls, Write(c), UNCHANGED <<table, tx>>
    PROVE  StorageInv'
<1> DEFINE y == [calls[c] EXCEPT !.pc = "commit"]
           k == calls[c].key
<1>1. /\ calls[c].pc = "write" /\ ~Conflicts(c) /\ (backend = "postgres" => ~Locked(k))
      /\ calls' = [calls EXCEPT ![c].pc = "commit"]
      /\ UNCHANGED <<backend, rows, writer, inUpdate, cell, table, tx>>
  BY DEF Write, At, dbVars, vmVars
<1>2. IsCall(calls[c]) /\ calls' = [calls EXCEPT ![c] = y]
  BY <1>1 DEF StorageInv, Shapes
<1>3. y = [calls[c] EXCEPT !.pc = "commit"]
  OBVIOUS
<1> HIDE DEF y
<1>4. IsCall(y) /\ y.pc = "commit" /\ y.key = k /\ y.inside = calls[c].inside
      /\ y.pool = calls[c].pool /\ y.cur = calls[c].cur /\ y.new = calls[c].new
  BY <1>2, <1>3 DEF IsCall
<1>5. backend \in {"sqlite", "postgres"} /\ inUpdate' = [w \in Vms |-> inUpdate'[w]]
  BY <1>1 DEF StorageInv, Shapes
<1>6. rows[k] \in {calls[c].cur, NoRow} \/ (calls[c].new = NoRow /\ calls[c].cur = NoRow)
  <2>1. CASE backend = "sqlite"
    BY <1>1, <2>1 DEF StorageInv, CallInv, RowInv, InUpdate
  <2>2. CASE backend = "postgres"
    BY <1>1, <2>2 DEF Conflicts
  <2>3. QED
    BY <1>5, <2>1, <2>2
<1>7. ASSUME NEW d \in Calls \ {c}
      PROVE  ~(calls[d].pc = "commit" /\ calls[d].key = k)
  <2>1. CASE backend = "sqlite"
    BY <1>1, <2>1, HolderIsAlone DEF Alone, Holds, Holding, InUpdate
  <2>2. CASE backend = "postgres"
    BY <1>1, <2>2 DEF Locked
  <2>3. QED
    BY <1>5, <2>1, <2>2
<1>8. /\ rows[y.key] \in {y.cur, NoRow} \/ (y.new = NoRow /\ y.cur = NoRow)
      /\ \A d \in Calls \ {c} : ~(calls[d].pc = "commit" /\ calls[d].key = y.key)
  BY <1>4, <1>6, <1>7
<1>9. calls[c].pc \in InUpdate
  BY <1>1 DEF InUpdate
<1>10. QED
  BY <1>1, <1>2, <1>4, <1>5, <1>8, <1>9, UpdateGoesOn

LEMMA DroppedCall ==
    ASSUME StorageInv, NEW c \in Calls, Dropped(c)
    PROVE  \E y : /\ calls' = [calls EXCEPT ![c] = y] /\ IsCall(y)
                  /\ y.pc = "rollback" /\ y.key = calls[c].key
                  /\ y.inside = None /\ y.pool = None
<1> DEFINE y == [Idle EXCEPT !.pc = "rollback", !.key = calls[c].key]
<1>1. calls' = [calls EXCEPT ![c] = y]
  BY DEF Dropped
<1>2. y = [Idle EXCEPT !.pc = "rollback", !.key = calls[c].key]
  OBVIOUS
<1> HIDE DEF y
<1>3. IsCall(y) /\ y.pc = "rollback" /\ y.key = calls[c].key /\ y.inside = None
      /\ y.pool = None
  BY <1>2, IdleCall DEF IsCall
<1>4. QED
  BY <1>1, <1>3

LEMMA UpdateFailsInv ==
    ASSUME StorageInv, NEW c \in Calls, UpdateFails(c), UNCHANGED <<table, tx>>
    PROVE  StorageInv'
<1>1. /\ calls[c].pc \in InUpdate /\ Dropped(c)
      /\ UNCHANGED <<backend, rows, writer, cell, table, tx>>
  BY DEF UpdateFails, InUpdate, dbVars
<1>2. inUpdate' = [w \in Vms |-> inUpdate'[w]]
  BY DEF UpdateFails, StorageInv, Shapes
<1>3. PICK y : /\ calls' = [calls EXCEPT ![c] = y] /\ IsCall(y)
               /\ y.pc = "rollback" /\ y.key = calls[c].key
               /\ y.inside = None /\ y.pool = None
  BY <1>1, DroppedCall
<1>4. QED
  BY <1>1, <1>2, <1>3, UpdateGoesOn

(* A transaction is over: what it made of the rows and cells is its own.   *)
LEMMA OverInv ==
    ASSUME StorageInv, NEW c \in Calls, Holds(c), End(c), writer' = Released(c),
           tx' = [tx EXCEPT ![c] = Closed],
           UNCHANGED <<backend, inUpdate, cell>>,
           rows' = [k \in Keys |-> rows'[k]], table' = [x \in Cells |-> table'[x]],
           \A d \in Calls \ {c} : calls[d].pc = "commit" =>
              rows'[calls[d].key] = rows[calls[d].key],
           \A d \in Calls \ {c}, x \in Cells : Wrote(d, x) => table'[x] = table[x]
    PROVE  StorageInv'
<1>1. /\ calls' = [d \in Calls |-> calls'[d]] /\ calls'[c] = Idle
      /\ \A d \in Calls \ {c} : calls'[d] = calls[d]
      /\ calls'[c].pc \notin Holding
  BY EndsIdle
<1>2. IsTransaction(Closed) /\ Closed.wrote = {}
  BY DEF IsTransaction, Closed
<1>3. /\ tx'[c] = Closed /\ tx' = [d \in Calls |-> tx'[d]]
      /\ \A d \in Calls \ {c} : tx'[d] = tx[d]
  BY DEF StorageInv, Shapes
<1>4. StepOf(c)
  BY <1>1, <1>2, <1>3, IdleCall, HolderIsAlone DEF StepOf, StorageInv, Shapes
<1>5. CallInv(c)'
  <2>1. RowInv(c)' /\ FlagInv(c)' /\ PoolInv(c)' /\ KeyInv(c)'
    BY <1>1, IdleCall DEF RowInv, FlagInv, PoolInv, KeyInv, InUpdate
  <2>2. CellInv(c)'
    BY <1>1, <1>2, <1>3, IdleCall DEF CellInv, InTx, Wrote
  <2>3. QED
    BY <2>1, <2>2 DEF CallInv
<1>6. LockInv'
  BY <1>1, <1>4, LockStep
<1>7. OneWriter'
  BY <1>1, <1>2, <1>3, <1>4, IdleCall, WriterStep
<1>8. QED
  BY <1>4, <1>5, <1>6, <1>7, OthersKeep DEF StorageInv

LEMMA CommitInv ==
    ASSUME StorageInv, NEW c \in Calls, Commit(c), UNCHANGED <<table, tx>>
    PROVE  StorageInv'
<1> DEFINE k == calls[c].key
           row == IF calls[c].new = NoRow /\ calls[c].cur = NoRow THEN rows[k] ELSE calls[c].new
<1>1. /\ calls[c].pc = "commit" /\ rows' = [rows EXCEPT ![k] = row]
      /\ writer' = Released(c) /\ End(c)
      /\ UNCHANGED <<backend, inUpdate, cell, table, tx>>
  BY DEF Commit, At, vmVars
<1> HIDE DEF row
<1>2. Holds(c)
  BY <1>1 DEF Holds, Holding, InUpdate
<1>3. tx[c] = Closed
  BY <1>1, ClosedWrotes DEF InTx
<1>4. tx' = [tx EXCEPT ![c] = Closed]
  BY <1>1, <1>3 DEF StorageInv, Shapes
<1>5. /\ rows' = [q \in Keys |-> rows'[q]] /\ table' = [x \in Cells |-> table'[x]]
      /\ \A q \in Keys : q # k => rows'[q] = rows[q]
  BY <1>1 DEF StorageInv, Shapes
<1>6. ASSUME NEW d \in Calls \ {c}, calls[d].pc = "commit"
      PROVE  rows'[calls[d].key] = rows[calls[d].key]
  <2>1. calls[d].key \in Keys
    BY <1>6 DEF StorageInv, CallInv, RowInv, InUpdate
  <2>2. calls[d].key # k
    BY <1>1, <1>6 DEF StorageInv, OneWriter
  <2>3. QED
    BY <1>5, <2>1, <2>2
<1>7. QED
  BY <1>1, <1>2, <1>4, <1>5, <1>6, OverInv

LEMMA RollbackInv ==
    ASSUME StorageInv, NEW c \in Calls, Rollback(c), UNCHANGED table, Close(c)
    PROVE  StorageInv'
<1>1. /\ calls[c].pc = "rollback" /\ writer' = Released(c) /\ End(c)
      /\ UNCHANGED <<backend, rows, inUpdate, cell, table>>
      /\ tx' = [tx EXCEPT ![c] = Closed]
  BY DEF Rollback, Close, At, vmVars
<1>2. Holds(c)
  BY <1>1 DEF Holds, Holding
<1>3. rows' = [q \in Keys |-> rows'[q]] /\ table' = [x \in Cells |-> table'[x]]
  BY <1>1 DEF StorageInv, Shapes
<1>4. QED
  BY <1>1, <1>2, <1>3, OverInv

LEMMA TxBeginInv ==
    ASSUME StorageInv, NEW c \in Calls, TxBegin(c)
    PROVE  StorageInv'
<1> DEFINE y == [calls[c] EXCEPT !.pc = "body"]
           t == [Closed EXCEPT !.snap = table, !.work = table]
<1>1. /\ calls[c].pc = "begin" /\ (backend = "sqlite" => writer = None) /\ writer' = Takes(c)
      /\ tx' = [tx EXCEPT ![c] = t]
      /\ calls' = [calls EXCEPT ![c].pc = "body"]
      /\ UNCHANGED <<backend, rows, inUpdate, cell, table>>
  BY DEF TxBegin, At, KvUnchanged, vmVars
<1>2. IsCall(calls[c]) /\ calls' = [calls EXCEPT ![c] = y]
  BY <1>1 DEF StorageInv, Shapes
<1>3. y = [calls[c] EXCEPT !.pc = "body"]
  OBVIOUS
<1>4. t = [Closed EXCEPT !.snap = table, !.work = table]
  OBVIOUS
<1> HIDE DEF y, t
<1>5. IsCall(y) /\ y.pc = "body" /\ y.key = calls[c].key /\ y.inside = calls[c].inside
      /\ y.pool = calls[c].pool
  BY <1>2, <1>3 DEF IsCall
<1>6. IsTransaction(t) /\ t.snap = table /\ t.wrote = {}
  <2>1. IsTransaction(Closed) /\ Closed.wrote = {}
    BY DEF IsTransaction, Closed
  <2>2. QED
    BY <1>4, <2>1 DEF IsTransaction
<1>7. inUpdate' = [w \in Vms |-> inUpdate'[w]] /\ inUpdate' = inUpdate
  BY <1>1 DEF StorageInv, Shapes
<1>8. StepOf(c) /\ calls'[c] = y /\ tx'[c] = t
  BY <1>1, <1>2, <1>5, <1>6, <1>7, RecordStepOf
<1>9. RowInv(c)' /\ FlagInv(c)' /\ PoolInv(c)' /\ KeyInv(c)'
  BY <1>1, <1>5, <1>8 DEF StorageInv, CallInv, RowInv, FlagInv, PoolInv, KeyInv, InUpdate
<1>10. CellInv(c)'
  BY <1>1, <1>5, <1>6, <1>8 DEF CellInv, Wrote, InTx
<1>11. LockInv'
  BY <1>1, <1>5, <1>8, LockStep DEF Holding, InTx
<1>12. OneWriter'
  BY <1>5, <1>6, <1>8, WriterStep
<1>13. QED
  BY <1>8, <1>9, <1>10, <1>11, <1>12, OthersKeep DEF StorageInv, CallInv

(* A transaction of db.tx goes on, or is dropped.  What it writes anew is  *)
(* as it was when it began, and written by nobody else.                    *)
LEMMA TxGoesOn ==
    ASSUME StorageInv, NEW c \in Calls, calls[c].pc \in InTx,
           NEW y, IsCall(y), calls' = [calls EXCEPT ![c] = y],
           NEW t, IsTransaction(t), tx' = [tx EXCEPT ![c] = t],
           UNCHANGED <<dbVars, now, vmVars, table>>,
           y.pc \in InTx \cup {"rollback"}, y.pc = "orphan" => t.busy = TRUE,
           y.key \in {calls[c].key, None}, y.inside \in {calls[c].inside, None},
           y.pool \in {calls[c].pool, None},
           t.snap = tx[c].snap,
           \A x \in Cells : x \in t.wrote /\ ~Wrote(c, x) =>
              table[x] = t.snap[x] /\ \A d \in Calls \ {c} : ~Wrote(d, x)
    PROVE  StorageInv'
<1>1. Holds(c) /\ y.pc \in Holding
  BY DEF Holds, Holding
<1>2. UNCHANGED <<backend, rows, writer, inUpdate, cell, table>>
  BY DEF dbVars, vmVars
<1>3. inUpdate' = [w \in Vms |-> inUpdate'[w]]
  BY <1>2 DEF StorageInv, Shapes
<1>4. StepOf(c) /\ calls'[c] = y /\ tx'[c] = t
  BY <1>2, <1>3, RecordStepOf
<1>5. y.pc \notin InUpdate /\ y.pc # "transform" /\ y.pc # "commit"
  BY DEF InTx, InUpdate
<1>6. RowInv(c)'
  BY <1>4, <1>5 DEF RowInv
<1>7. FlagInv(c)' /\ PoolInv(c)' /\ KeyInv(c)'
  BY <1>2, <1>4, <1>5 DEF StorageInv, CallInv, FlagInv, PoolInv, KeyInv
<1>8. CellInv(c)'
  BY <1>2, <1>4 DEF StorageInv, CallInv, CellInv, Wrote
<1>9. LockInv'
  BY <1>1, <1>2, <1>4, LockStep
<1>10. OneWriter'
  <2>1. ASSUME NEW d \in Calls \ {c}, NEW x \in Cells, Wrote(d, x)
        PROVE  x \notin t.wrote
    BY <2>1, WrotesApart DEF Wrote
  <2>2. QED
    BY <1>4, <1>5, <2>1, WriterStep
<1>11. QED
  BY <1>4, <1>6, <1>7, <1>8, <1>9, <1>10, OthersKeep DEF StorageInv, CallInv

LEMMA TxSendInv ==
    ASSUME StorageInv, NEW c \in Calls, TxSend(c)
    PROVE  StorageInv'
<1> DEFINE t == [tx[c] EXCEPT !.busy = TRUE]
<1>1. /\ calls[c].pc = "body" /\ UNCHANGED <<dbVars, now, vmVars, table>>
      /\ calls' = calls /\ tx' = [tx EXCEPT ![c].busy = TRUE]
  BY DEF TxSend, At, kvVars, dbVars, vmVars
<1>2. IsTransaction(tx[c]) /\ tx' = [tx EXCEPT ![c] = t]
  BY <1>1 DEF StorageInv, Shapes
<1>3. t = [tx[c] EXCEPT !.busy = TRUE]
  OBVIOUS
<1> HIDE DEF t
<1>4. IsTransaction(t) /\ t.busy = TRUE /\ t.snap = tx[c].snap /\ t.wrote = tx[c].wrote
  BY <1>2, <1>3 DEF IsTransaction
<1>5. IsCall(calls[c]) /\ calls' = [calls EXCEPT ![c] = calls[c]]
  BY <1>1 DEF StorageInv, Shapes
<1>6. calls[c].pc \in InTx
  BY <1>1 DEF InTx
<1>7. QED
  BY <1>1, <1>2, <1>4, <1>5, <1>6, TxGoesOn DEF Wrote

(* The end of a statement of the handle.                                   *)
LEMMA SettleInv ==
    ASSUME StorageInv, NEW c \in Calls, calls[c].pc \in InTx,
           NEW t, IsTransaction(t), Settle(c, t),
           UNCHANGED <<dbVars, now, vmVars, table>>,
           t.snap = tx[c].snap,
           \A x \in Cells : x \in t.wrote /\ ~Wrote(c, x) =>
              table[x] = t.snap[x] /\ \A d \in Calls \ {c} : ~Wrote(d, x)
    PROVE  StorageInv'
<1> DEFINE pc == IF At(c, "orphan") THEN "rollback" ELSE calls[c].pc
           y == [calls[c] EXCEPT !.pc = pc]
           u == [t EXCEPT !.busy = FALSE]
<1>1. tx' = [tx EXCEPT ![c] = u]
  BY DEF Settle
<1>2. IsCall(calls[c]) /\ calls' = [calls EXCEPT ![c] = y]
  BY DEF Settle, StorageInv, Shapes
<1>3. pc \in InTx \cup {"rollback"} /\ pc # "orphan"
  BY DEF At, InTx
<1>4. y = [calls[c] EXCEPT !.pc = pc] /\ u = [t EXCEPT !.busy = FALSE]
  OBVIOUS
<1> HIDE DEF pc, y, u
<1>5. IsCall(y) /\ y.pc = pc /\ y.key = calls[c].key /\ y.inside = calls[c].inside
      /\ y.pool = calls[c].pool
  BY <1>2, <1>4 DEF IsCall
<1>6. IsTransaction(u) /\ u.snap = t.snap /\ u.wrote = t.wrote
  BY <1>4 DEF IsTransaction
<1>7. QED
  BY <1>1, <1>2, <1>3, <1>5, <1>6, TxGoesOn

LEMMA TxAssignsInv ==
    ASSUME StorageInv, NEW c \in Calls, NEW x \in Cells, NEW v, TxAssigns(c, x, v)
    PROVE  StorageInv'
<1> DEFINE t == [tx[c] EXCEPT !.work[x] = v, !.wrote = @ \cup {x}]
<1>1. /\ calls[c].pc \in InTx /\ UNCHANGED <<dbVars, now, vmVars, table>>
      /\ backend = "postgres" => ~CellLocked(x, c) /\ table[x] = tx[c].snap[x]
      /\ Settle(c, t)
  BY DEF TxAssigns, InTx
<1>2. IsTransaction(tx[c]) /\ backend \in {"sqlite", "postgres"}
  BY DEF StorageInv, Shapes
<1>3. t = [tx[c] EXCEPT !.work = [tx[c].work EXCEPT ![x] = v], !.wrote = tx[c].wrote \cup {x}]
  BY <1>2 DEF IsTransaction
<1> HIDE DEF t
<1>4. IsTransaction(t) /\ t.snap = tx[c].snap /\ t.wrote = tx[c].wrote \cup {x}
  BY <1>2, <1>3 DEF IsTransaction
<1>5. table[x] = tx[c].snap[x]
  <2>1. CASE backend = "sqlite"
    BY <1>1, <2>1 DEF StorageInv, CallInv, CellInv
  <2>2. QED
    BY <1>1, <1>2, <2>1
<1>6. \A d \in Calls \ {c} : ~Wrote(d, x)
  <2>1. ASSUME backend = "sqlite", NEW d \in Calls \ {c}
        PROVE  ~Wrote(d, x)
    <3>1. calls[d].pc \notin Holding
      BY <1>1, <2>1, HolderIsAlone DEF Alone, Holds, Holding
    <3>2. tx[d].wrote = {}
      BY <3>1, ClosedWrotes DEF Holding
    <3>3. QED
      BY <3>2 DEF Wrote
  <2>2. QED
    BY <1>1, <1>2, <2>1 DEF CellLocked
<1>7. \A z \in Cells : z \in t.wrote /\ ~Wrote(c, z) => z = x
  BY <1>4 DEF Wrote
<1>8. QED
  BY <1>1, <1>4, <1>5, <1>6, <1>7, SettleInv

LEMMA TxFailsInv ==
    ASSUME StorageInv, NEW c \in Calls, TxFails(c)
    PROVE  StorageInv'
<1> DEFINE refused == (backend = "postgres")
           t == [tx[c] EXCEPT !.aborted = refused]
<1>1. /\ calls[c].pc \in InTx /\ UNCHANGED <<dbVars, now, vmVars, table>>
      /\ Settle(c, t)
  BY DEF TxFails, InTx
<1>2. IsTransaction(tx[c])
  BY DEF StorageInv, Shapes
<1>3. t = [tx[c] EXCEPT !.aborted = refused]
  OBVIOUS
<1> HIDE DEF t, refused
<1>4. IsTransaction(t) /\ t.snap = tx[c].snap /\ t.wrote = tx[c].wrote
  BY <1>2, <1>3 DEF IsTransaction
<1>5. QED
  BY <1>1, <1>4, SettleInv DEF Wrote

LEMMA TxReturnsInv ==
    ASSUME StorageInv, NEW c \in Calls, TxReturns(c)
    PROVE  StorageInv'
<1> DEFINE y == [calls[c] EXCEPT !.pc = "txcommit"]
<1>1. /\ calls[c].pc \in InTx /\ UNCHANGED <<dbVars, now, vmVars, table, tx>>
      /\ calls' = [calls EXCEPT ![c].pc = "txcommit"]
  BY DEF TxReturns, At, InTx
<1>2. IsCall(calls[c]) /\ calls' = [calls EXCEPT ![c] = y]
  BY <1>1 DEF StorageInv, Shapes
<1>3. y = [calls[c] EXCEPT !.pc = "txcommit"]
  OBVIOUS
<1> HIDE DEF y
<1>4. IsCall(y) /\ y.pc = "txcommit" /\ y.key = calls[c].key /\ y.inside = calls[c].inside
      /\ y.pool = calls[c].pool
  BY <1>2, <1>3 DEF IsCall
<1>5. IsTransaction(tx[c]) /\ tx' = [tx EXCEPT ![c] = tx[c]]
  BY <1>1, TxSame
<1>6. y.pc \in InTx \cup {"rollback"} /\ y.pc # "orphan"
  BY <1>4 DEF InTx
<1>7. \A x \in Cells : x \in tx[c].wrote => Wrote(c, x)
  BY DEF Wrote
<1>8. UNCHANGED <<dbVars, now, vmVars, table>>
  BY <1>1
<1>9. QED
  BY <1>1, <1>2, <1>4, <1>5, <1>6, <1>7, <1>8, TxGoesOn

(* Dropped: rolled back at once, or by the statement under way.            *)
LEMMA TxDroppedInv ==
    ASSUME StorageInv, NEW c \in Calls, calls[c].pc \in InTx,
           UNCHANGED <<dbVars, now, vmVars, table, tx>>,
           NEW y, calls' = [calls EXCEPT ![c] = y], IsCall(y),
           y.pc = "rollback" \/ (y.pc = "orphan" /\ tx[c].busy = TRUE),
           y.key \in {calls[c].key, None}, y.inside = None, y.pool = None
    PROVE  StorageInv'
<1>1. IsTransaction(tx[c]) /\ tx' = [tx EXCEPT ![c] = tx[c]]
  BY TxSame
<1>2. y.pc \in InTx \cup {"rollback"}
  BY DEF InTx
<1>3. QED
  BY <1>1, <1>2, TxGoesOn DEF Wrote

LEMMA TxRaisesInv ==
    ASSUME StorageInv, NEW c \in Calls, TxRaises(c)
    PROVE  StorageInv'
<1>1. /\ calls[c].pc \in InTx /\ Dropped(c)
      /\ UNCHANGED <<dbVars, now, vmVars, table, tx>>
  BY DEF TxRaises, InTx
<1>2. PICK y : /\ calls' = [calls EXCEPT ![c] = y] /\ IsCall(y)
               /\ y.pc = "rollback" /\ y.key = calls[c].key
               /\ y.inside = None /\ y.pool = None
  BY <1>1, DroppedCall
<1>3. QED
  BY <1>1, <1>2, TxDroppedInv

LEMMA TxCancelInv ==
    ASSUME StorageInv, NEW c \in Calls, TxCancel(c)
    PROVE  StorageInv'
<1> DEFINE pc == Leaves(c)
           y == [Idle EXCEPT !.pc = pc]
<1>1. /\ calls[c].pc \in InTx /\ calls' = [calls EXCEPT ![c] = y]
      /\ UNCHANGED <<dbVars, now, vmVars, table, tx>>
  BY DEF TxCancel, InTx
<1>2. pc = "rollback" \/ (pc = "orphan" /\ tx[c].busy = TRUE)
  BY DEF Leaves, StorageInv, Shapes, IsTransaction
<1>3. y = [Idle EXCEPT !.pc = pc]
  OBVIOUS
<1> HIDE DEF pc, y
<1>4. IsCall(y) /\ y.pc = pc /\ y.key = None /\ y.inside = None /\ y.pool = None
  BY <1>3, IdleCall DEF IsCall
<1>5. QED
  BY <1>1, <1>2, <1>4, TxDroppedInv

LEMMA TxCommitInv ==
    ASSUME StorageInv, NEW c \in Calls, TxCommit(c)
    PROVE  StorageInv'
<1>1. /\ calls[c].pc = "txcommit" /\ writer' = Released(c) /\ End(c)
      /\ UNCHANGED <<backend, rows, inUpdate, cell>>
      /\ tx' = [tx EXCEPT ![c] = Closed]
      /\ \/ table' = table
         \/ table' = [x \in Cells |-> IF Wrote(c, x) THEN tx[c].work[x] ELSE table[x]]
  BY DEF TxCommit, Close, At, KvUnchanged, vmVars
<1>2. Holds(c)
  BY <1>1 DEF Holds, Holding, InTx
<1>3. rows' = [q \in Keys |-> rows'[q]] /\ table' = [x \in Cells |-> table'[x]]
  BY <1>1 DEF StorageInv, Shapes
<1>4. ASSUME NEW d \in Calls \ {c}, NEW x \in Cells, Wrote(d, x)
      PROVE  table'[x] = table[x]
  <2>1. ~Wrote(c, x)
    BY <1>4, WrotesApart DEF Wrote
  <2>2. QED
    BY <1>1, <2>1
<1>5. QED
  BY <1>1, <1>2, <1>3, <1>4, OverInv

-----------------------------------------------------------------------------
(* Every step. *)

LEMMA KvStepInv ==
    ASSUME StorageInv, NEW c \in Calls, KvStep(c)
    PROVE  StorageInv'
<1>1. /\ Step(c) /\ UNCHANGED table
      /\ ~At(c, "rollback") => UNCHANGED <<table, tx>>
      /\ At(c, "rollback") => Close(c)
  BY DEF KvStep
<1>2. ASSUME NEW k \in Keys, NEW op \in Ops, NEW parent \in Calls \cup {None},
             Call(c, k, op, parent)
      PROVE  StorageInv'
  <2>1. UNCHANGED <<table, tx>>
    BY <1>1, <1>2 DEF Call, At
  <2>2. QED
    BY <1>2, <2>1, CallStepInv
<1>3. CASE Open(c)
  <2>1. UNCHANGED <<table, tx>>
    BY <1>1, <1>3 DEF Open, At
  <2>2. QED
    BY <1>3, <2>1, OpenInv
<1>4. CASE Execute(c)
  <2>1. UNCHANGED <<table, tx>>
    BY <1>1, <1>4 DEF Execute, At
  <2>2. QED
    BY <1>4, <2>1, ExecuteInv
<1>5. CASE Busy(c)
  <2>1. UNCHANGED <<table, tx>>
    BY <1>1, <1>5 DEF Busy, At
  <2>2. QED
    BY <1>5, <2>1, BusyInv
<1>6. CASE MaybePurge(c)
  <2>1. UNCHANGED <<table, tx>>
    BY <1>1, <1>6 DEF MaybePurge, At
  <2>2. QED
    BY <1>6, <2>1, MaybePurgeInv
<1>7. CASE Sweep(c)
  <2>1. UNCHANGED <<table, tx>>
    BY <1>1, <1>7 DEF Sweep, At
  <2>2. QED
    BY <1>7, <2>1, SweepInv
<1>8. CASE Late(c)
  <2>1. UNCHANGED <<table, tx>>
    BY <1>1, <1>8 DEF Late, At
  <2>2. QED
    BY <1>8, <2>1, LateInv
<1>9. CASE Begin(c)
  <2>1. UNCHANGED <<table, tx>>
    BY <1>1, <1>9 DEF Begin, At
  <2>2. QED
    BY <1>9, <2>1, BeginInv
<1>10. CASE Write(c)
  <2>1. UNCHANGED <<table, tx>>
    BY <1>1, <1>10 DEF Write, At
  <2>2. QED
    BY <1>10, <2>1, WriteInv
<1>11. CASE Commit(c)
  <2>1. UNCHANGED <<table, tx>>
    BY <1>1, <1>11 DEF Commit, At
  <2>2. QED
    BY <1>11, <2>1, CommitInv
<1>12. CASE Rollback(c)
  <2>1. UNCHANGED table /\ Close(c)
    BY <1>1, <1>12 DEF Rollback
  <2>2. QED
    BY <1>12, <2>1, RollbackInv
<1>13. ASSUME NEW new, TransformReturns(c, new)
       PROVE  StorageInv'
  <2>1. UNCHANGED <<table, tx>>
    BY <1>1, <1>13 DEF TransformReturns, At
  <2>2. QED
    BY <1>13, <2>1, TransformReturnsInv
<1>14. CASE Fails(c)
  <2>1. UNCHANGED <<table, tx>>
    BY <1>1, <1>14 DEF Fails, At
  <2>2. QED
    BY <1>14, <2>1, FailsInv DEF Fails
<1>15. CASE UpdateFails(c)
  <2>1. UNCHANGED <<table, tx>>
    BY <1>1, <1>15 DEF UpdateFails, At
  <2>2. QED
    BY <1>15, <2>1, UpdateFailsInv
<1>16. CASE calls[c].pc \in {"open", "begin", "purge", "sweep"} /\ End(c)
            /\ UNCHANGED <<dbVars, now, vmVars>>
  <2>1. UNCHANGED <<table, tx>>
    BY <1>1, <1>16 DEF At
  <2>2. QED
    BY <1>16, <2>1, FailsInv
<1>17. CASE /\ At(c, "exec")
            /\ calls' = [calls EXCEPT ![c].pc = "late", ![c].inside = None]
            /\ UNCHANGED <<dbVars, now, vmVars>>
  <2>1. UNCHANGED <<table, tx>> /\ calls[c].pc = "exec"
    BY <1>1, <1>17 DEF At
  <2>2. QED
    BY <1>17, <2>1, AbandonInv
<1>18. CASE Cancel(c)
  BY <1>15, <1>16, <1>17, <1>18 DEF Cancel
<1>19. QED
  BY <1>1, <1>2, <1>3, <1>4, <1>5, <1>6, <1>7, <1>8, <1>9, <1>10, <1>11, <1>12, <1>13,
     <1>14, <1>18 DEF Step

LEMMA TxStepInv ==
    ASSUME StorageInv, NEW c \in Calls, TxStep(c)
    PROVE  StorageInv'
  BY DbCallInv, DbExecuteInv, TxBeginInv, TxSendInv, TxFailsInv, TxAssignsInv, TxReturnsInv,
     TxCommitInv, TxRaisesInv, TxCancelInv DEF TxStep, TxSettles

LEMMA StillInv ==
    ASSUME StorageInv, UNCHANGED <<dbVars, inUpdate, cell, calls, table, tx>>
    PROVE  StorageInv'
<1>1. UNCHANGED <<backend, rows, writer, inUpdate, cell, calls, table, tx>>
  BY DEF dbVars
<1>2. \A c \in Calls : CallInv(c)'
  BY <1>1 DEF StorageInv, CallInv, RowInv, FlagInv, PoolInv, KeyInv, CellInv, Wrote
<1>3. Shapes' /\ LockInv' /\ OneWriter'
  BY <1>1 DEF StorageInv, Shapes, LockInv, OneWriter, Holds, Wrote
<1>4. QED
  BY <1>2, <1>3 DEF StorageInv

LEMMA NextInv == StorageInv /\ [DbNext]_dbTxVars => StorageInv'
<1> SUFFICES ASSUME StorageInv, [DbNext]_dbTxVars
             PROVE  StorageInv'
  OBVIOUS
<1>1. CASE Tick /\ UNCHANGED <<table, tx>>
  BY <1>1, StillInv DEF Tick, vmVars
<1>2. CASE UNCHANGED dbTxVars
  BY <1>2, StillInv DEF dbTxVars, kvVars, dbVars
<1>3. ASSUME NEW c \in Calls, KvStep(c) \/ TxStep(c)
      PROVE  StorageInv'
  BY <1>3, KvStepInv, TxStepInv
<1>4. QED
  BY <1>1, <1>2, <1>3 DEF DbNext

(* The invariant holds of the whole storage.                               *)
THEOREM StorageCorrect == DbSpec => []StorageInv
  BY InitInv, NextInv, PTL DEF DbSpec

-----------------------------------------------------------------------------
(* What follows. *)

(* However many calls of a VM open the database at once, they all go on    *)
(* with one pool and its one purge clock (storage/mod.rs:205-219).         *)
THEOREM PoolsCorrect == DbSpec => []OnePool
<1>1. StorageInv => OnePool
  BY DEF StorageInv, CallInv, PoolInv, OnePool
<1>2. QED
  BY <1>1, StorageCorrect, PTL

(* No call of lur.kv made inside a transform waits for the write lock of   *)
(* the update that runs it, with either backend (kv.rs:50-52).             *)
THEOREM NestedNeverWait == DbSpec => []NoSelfWait
<1>1. StorageInv => NoSelfWait
  <2> SUFFICES ASSUME StorageInv, NEW c \in Calls, OfKv(c), calls[c].inside # None
               PROVE  writer # calls[c].inside
    BY DEF NoSelfWait
  <2>1. backend \in {"sqlite", "postgres"}
    BY DEF StorageInv, Shapes
  <2>2. backend # "sqlite"
    BY DEF StorageInv, CallInv, FlagInv, OfKv
  <2>3. QED
    BY <2>1, <2>2 DEF StorageInv, LockInv
<1>2. QED
  BY <1>1, StorageCorrect, PTL

(* Who holds the write lock runs, rolls back, or is the statement under    *)
(* way of a transaction that was dropped (db.rs:69-70).                    *)
THEOREM LockIsOwned == DbSpec => []LockHasOwner
<1>1. StorageInv => LockHasOwner
  <2> SUFFICES ASSUME StorageInv, writer # None
               PROVE  \/ calls[writer].pc \in {"transform", "write", "commit", "body",
                                               "txcommit", "rollback"}
                      \/ At(writer, "orphan") /\ tx[writer].busy
    BY DEF LockHasOwner
  <2>1. writer \in Calls /\ calls[writer].pc \in Holding
    BY DEF StorageInv, LockInv, Holds
  <2>2. calls[writer].pc = "orphan" => tx[writer].busy = TRUE
    BY <2>1 DEF StorageInv, CallInv, CellInv
  <2>3. QED
    BY <2>1, <2>2 DEF Holding, InUpdate, InTx, At
<1>2. QED
  BY <1>1, StorageCorrect, PTL

(* A transaction of db.tx commits over what it began on: no cell it wrote  *)
(* was written by another meanwhile (db.rs:67, storage/postgres.rs:12-14). *)
THEOREM TransactionsSerial == DbSpec => TxSerial
<1> DEFINE Ends == \A c \in Calls :
               (At(c, "txcommit") /\ calls'[c].pc = "idle" /\ ~tx[c].aborted)
                   => \A x \in Cells : Wrote(c, x) => table[x] = tx[c].snap[x]
<1>1. StorageInv => Ends
  BY DEF StorageInv, CallInv, CellInv
<1> HIDE DEF Ends
<1>2. DbSpec => [][Ends]_dbTxVars
  BY <1>1, StorageCorrect, PTL
<1>3. QED
  BY <1>2 DEF TxSerial, Ends

LEMMA TxKeepsRows ==
    ASSUME NEW c \in Calls, TxStep(c)
    PROVE  now' = now /\ rows' = rows
<1>1. CASE \E op \in DbOps, parent \in Calls \cup {None} : DbCall(c, op, parent)
  BY <1>1 DEF DbCall, dbVars
<1>2. CASE \E x \in Cells, v \in Vals : DbExecute(c, x, v)
  BY <1>2 DEF DbExecute, dbVars
<1>3. CASE TxBegin(c) \/ TxCommit(c)
  <2>1. KvUnchanged
    BY <1>3 DEF TxBegin, TxCommit
  <2>2. QED
    BY <2>1 DEF KvUnchanged
<1>4. CASE TxSettles(c)
  <2>1. CASE TxFails(c)
    BY <2>1 DEF TxFails, dbVars
  <2>2. ASSUME NEW x \in Cells, NEW v \in Vals, TxAssigns(c, x, v)
        PROVE  now' = now /\ rows' = rows
    BY <2>2 DEF TxAssigns, dbVars
  <2>3. QED
    BY <1>4, <2>1, <2>2 DEF TxSettles
<1>5. CASE TxReturns(c) \/ TxRaises(c) \/ TxCancel(c)
  BY <1>5 DEF TxReturns, TxRaises, TxCancel, dbVars
<1>6. CASE TxSend(c)
  BY <1>6 DEF TxSend, kvVars
<1>7. QED
  BY <1>1, <1>2, <1>3, <1>4, <1>5, <1>6 DEF TxStep

(* Who moves when the rows do is the one that writes them.                 *)
LEMMA RowsMove ==
    ASSUME StorageInv, DbNext, NEW c \in Calls, calls'[c] # calls[c], rows' # rows
    PROVE  Open(c) \/ Execute(c) \/ Sweep(c) \/ Late(c) \/ Commit(c)
<1>1. ~(Tick /\ UNCHANGED <<table, tx>>)
  BY DEF Tick, dbVars
<1>2. PICK d \in Calls : KvStep(d) \/ TxStep(d)
  BY <1>1 DEF DbNext
<1>3. calls = [e \in Calls |-> calls[e]]
  BY DEF StorageInv, Shapes
<1>4. CASE KvStep(d)
  <2>1. rows' # rows /\ Step(d)
    BY <1>4 DEF KvStep
  <2>2. Open(d) \/ Execute(d) \/ Sweep(d) \/ Late(d) \/ Commit(d)
    BY <2>1 DEF Step, Call, Busy, MaybePurge, Begin, Write, Rollback, TransformReturns, Fails,
                Cancel, UpdateFails, dbVars
  <2>3. \A e \in Calls \ {d} : calls'[e] = calls[e]
    BY <1>3, <2>2 DEF Open, Execute, Sweep, Late, Commit, End
  <2>4. c = d
    BY <2>3
  <2>5. QED
    BY <2>2, <2>4
<1>5. CASE TxStep(d)
  BY <1>5, TxKeepsRows
<1>6. QED
  BY <1>2, <1>4, <1>5

LEMMA CommitMoves ==
    ASSUME StorageInv, DbNext, NEW c \in Calls,
           calls[c].pc = "commit", calls'[c] # calls[c], rows' # rows
    PROVE  Commit(c)
<1>1. Open(c) \/ Execute(c) \/ Sweep(c) \/ Late(c) \/ Commit(c)
  BY RowsMove
<1>2. ~(Open(c) \/ Execute(c) \/ Sweep(c) \/ Late(c))
  BY DEF Open, Execute, Sweep, Late, At
<1>3. QED
  BY <1>1, <1>2

(* update commits over the row its transform was given, or over none at    *)
(* all, with either backend (kv.rs:3-4).                                   *)
THEOREM UpdatesAtomic == DbSpec => UpdateAtomic
<1> DEFINE Over == \A c \in Calls :
               LET k == calls[c].key IN
               (At(c, "commit") /\ rows' # rows /\ calls'[c] # calls[c])
                   => rows[k] \in {calls[c].cur, NoRow}
<1>1. StorageInv /\ [DbNext]_dbTxVars => [Over]_kvVars
  <2> SUFFICES ASSUME StorageInv, [DbNext]_dbTxVars, kvVars' # kvVars, NEW c \in Calls,
                      calls[c].pc = "commit", rows' # rows, calls'[c] # calls[c]
               PROVE  rows[calls[c].key] \in {calls[c].cur, NoRow}
    BY DEF At
  <2>1. Commit(c)
    BY CommitMoves DEF dbTxVars
  <2>2. ~(calls[c].new = NoRow /\ calls[c].cur = NoRow)
    BY <2>1 DEF Commit, StorageInv, Shapes
  <2>3. QED
    BY <2>2 DEF StorageInv, CallInv, RowInv, InUpdate
<1> HIDE DEF Over
<1>2. DbSpec => [][Over]_kvVars
  BY <1>1, StorageCorrect, PTL DEF DbSpec
<1>3. QED
  BY <1>2 DEF UpdateAtomic, Over


-----------------------------------------------------------------------------
(* Clocks and rows.  A call judges rows by an instant it read, which is     *)
(* never ahead of the clock, so what it takes for expired is expired.       *)

IsRow(row) ==
    \/ row = NoRow
    \/ /\ row.expires \in Expiry
       /\ \/ row = [type |-> row.type, value |-> row.value, expires |-> row.expires]
          \/ row = [kind |-> row.kind, bytes |-> row.bytes, num |-> row.num,
                    expires |-> row.expires]

Statements == {"get", "set", "delete", "add", "cas", "incr", "expire", "ttl"}
Gone == {"idle", "rollback", "orphan"}
Updating == {"begin", "transform", "write", "commit"}

(* A call in progress at the instant t. *)
Timely(y, t) ==
    /\ y.at \in Nat /\ y.at <= t
    /\ IsRow(y.cur) /\ IsRow(y.new)
    /\ y.pc \notin Gone => y.op.ttl \in Nat
    /\ y.pc \notin Gone /\ y.key # None => y.op.call \in Statements \cup {"update"}
    /\ y.pc \in {"exec", "late"} => y.op.call # "update"
    /\ y.pc \in Updating => y.op.call \in {"update", "tx"}

TimeInv ==
    /\ now \in Nat
    /\ \A k \in Keys : IsRow(rows[k])
    /\ \A c \in Calls : Timely(calls[c], now)

LEMMA NeverApart == Never \notin Nat
  BY SentinelAssumption

LEMMA ExpiryTyped ==
    ASSUME NEW at \in Nat, NEW ttl \in Nat
    PROVE  ExpiryAt(at, ttl) \in Expiry
  BY BoundAssumption DEF ExpiryAt, Expiry

LEMMA IncrTyped ==
    ASSUME NEW row, IsRow(row), NEW op, op.ttl \in Nat, NEW at \in Nat
    PROVE  /\ IncrExpiry(row, op, at) \in Expiry
           /\ PgIncrExpiry(row, op, at) \in Expiry
<1>1. ExpiryAt(at, op.ttl) \in Expiry
  BY ExpiryTyped
<1>2. Live(row, at) => row.expires \in Expiry
  BY DEF Live, IsRow
<1>3. Live(row, at) => Coalesce(ExpiryAt(at, op.ttl), row.expires) \in Expiry
  BY <1>1, <1>2 DEF Coalesce
<1> DEFINE asked == ExpiryAt(at, op.ttl)
           kept == Coalesce(asked, row.expires)
<1> HIDE DEF asked, kept
<1>4. CASE ~Live(row, at)
  <2>1. IncrExpiry(row, op, at) = asked /\ PgIncrExpiry(row, op, at) = asked
    BY <1>4 DEF IncrExpiry, PgIncrExpiry, asked
  <2>2. QED
    BY <1>1, <2>1 DEF asked
<1>5. CASE Live(row, at)
  <2>1. CASE op.renew \/ row.expires = Never
    <3>1. IncrExpiry(row, op, at) = kept /\ PgIncrExpiry(row, op, at) = kept
      BY <1>5, <2>1 DEF IncrExpiry, PgIncrExpiry, kept, asked
    <3>2. QED
      BY <1>3, <1>5, <3>1 DEF kept, asked
  <2>2. CASE ~(op.renew \/ row.expires = Never)
    <3>1. IncrExpiry(row, op, at) = row.expires /\ PgIncrExpiry(row, op, at) = row.expires
      BY <1>5, <2>2 DEF IncrExpiry, PgIncrExpiry
    <3>2. QED
      BY <1>2, <1>5, <3>1
  <2>3. QED
    BY <2>1, <2>2
<1>6. QED
  BY <1>4, <1>5

LEMMA StoredRow ==
    ASSUME NEW v, NEW e \in Expiry
    PROVE  /\ IsRow(LiteStored(v, e)) /\ IsRow(PgStored(v, e)) /\ IsRow(PgCounter(v, e))
           /\ IsRow([type |-> "integer", value |-> v, expires |-> e])
           /\ IsRow([type |-> "real", value |-> v, expires |-> e])
  BY DEF LiteStored, PgStored, PgCounter, IsRow

LEMMA MovedExpiry ==
    ASSUME NEW row, IsRow(row), row # NoRow, NEW e \in Expiry
    PROVE  IsRow([row EXCEPT !.expires = e])
<1> DEFINE r == [row EXCEPT !.expires = e]
<1>1. CASE row = [type |-> row.type, value |-> row.value, expires |-> row.expires]
  <2>1. r = [type |-> row.type, value |-> row.value, expires |-> e]
    BY <1>1
  <2> HIDE DEF r
  <2>2. QED
    BY <2>1 DEF IsRow, r
<1>2. CASE row = [kind |-> row.kind, bytes |-> row.bytes, num |-> row.num,
                  expires |-> row.expires]
  <2>1. r = [kind |-> row.kind, bytes |-> row.bytes, num |-> row.num, expires |-> e]
    BY <1>2
  <2> HIDE DEF r
  <2>2. QED
    BY <2>1 DEF IsRow, r
<1>3. QED
  BY <1>1, <1>2 DEF IsRow

LEMMA LiteTyped ==
    ASSUME NEW row, IsRow(row), NEW op, op.ttl \in Nat, op.call \in Statements, NEW at \in Nat
    PROVE  IsRow(LiteStatement(row, op, at).row)
<1>1. ExpiryAt(at, op.ttl) \in Expiry /\ IncrExpiry(row, op, at) \in Expiry
  BY ExpiryTyped, IncrTyped
<1>2. Live(row, at) => /\ row # NoRow /\ row.expires \in Expiry
                       /\ IsRow([row EXCEPT !.expires = ExpiryAt(at, op.ttl)])
  BY <1>1, MovedExpiry DEF Live, IsRow
<1>3. Live(row, at) => Coalesce(ExpiryAt(at, op.ttl), row.expires) \in Expiry
  BY <1>1, <1>2 DEF Coalesce
<1>4. IsRow(NoRow)
  BY DEF IsRow
<1>5. IsRow(LiteSet(row, op, at).row) /\ IsRow(LiteInsertAbsent(row, op, at).row)
  BY <1>1, StoredRow DEF LiteSet, LiteInsertAbsent, Did
<1>6. IsRow(LiteCas(row, op, at).row)
  <2>1. IsRow(LiteCasReplace(row, op, at).row) /\ IsRow(LiteCasDelete(row, op, at).row)
    BY <1>3, <1>4, StoredRow DEF LiteCasReplace, LiteCasDelete, LiteHolds, Did
  <2>2. IsRow(Did(row, ~Live(row, at)).row)
    BY DEF Did
  <2>3. LiteCas(row, op, at) \in {Did(row, ~Live(row, at)), LiteInsertAbsent(row, op, at),
                                  LiteCasReplace(row, op, at), LiteCasDelete(row, op, at)}
    BY DEF LiteCas
  <2>4. QED
    BY <1>5, <2>1, <2>2, <2>3
<1>7. IsRow(LiteIncr(row, op, at).row)
  BY <1>1, StoredRow DEF LiteIncr, Did
<1>8. IsRow(LiteExpire(row, op, at).row)
  BY <1>2 DEF LiteExpire, Did
<1>9. IsRow(Did(row, LiteText(row, at)).row) /\ IsRow(Did(NoRow, TRUE).row)
      /\ IsRow(Did(row, LiteTtl(row, at)).row)
  BY <1>4 DEF Did
<1>10. LiteStatement(row, op, at) \in
          {Did(row, LiteText(row, at)), LiteSet(row, op, at), Did(NoRow, TRUE),
           LiteInsertAbsent(row, op, at), LiteCas(row, op, at), LiteIncr(row, op, at),
           LiteExpire(row, op, at), Did(row, LiteTtl(row, at))}
  BY DEF LiteStatement, Statements
<1>11. QED
  BY <1>5, <1>6, <1>7, <1>8, <1>9, <1>10

LEMMA PgTyped ==
    ASSUME NEW row, IsRow(row), NEW op, op.ttl \in Nat, op.call \in Statements, NEW at \in Nat
    PROVE  IsRow(PgStatement(row, op, at).row)
<1>1. ExpiryAt(at, op.ttl) \in Expiry /\ PgIncrExpiry(row, op, at) \in Expiry
  BY ExpiryTyped, IncrTyped
<1>2. Live(row, at) => /\ row # NoRow /\ row.expires \in Expiry
                       /\ IsRow([row EXCEPT !.expires = ExpiryAt(at, op.ttl)])
  BY <1>1, MovedExpiry DEF Live, IsRow
<1>3. Live(row, at) => Coalesce(ExpiryAt(at, op.ttl), row.expires) \in Expiry
  BY <1>1, <1>2 DEF Coalesce
<1>4. IsRow(NoRow)
  BY DEF IsRow
<1>5. IsRow(PgSet(row, op, at).row) /\ IsRow(PgInsertAbsent(row, op, at).row)
  BY <1>1, StoredRow DEF PgSet, PgInsertAbsent, Did
<1>6. IsRow(PgCas(row, op, at).row)
  <2>1. IsRow(PgCasReplace(row, op, at).row) /\ IsRow(PgCasDelete(row, op, at).row)
    BY <1>3, <1>4, StoredRow DEF PgCasReplace, PgCasDelete, PgHolds, Did
  <2>2. IsRow(Did(row, ~Live(row, at)).row)
    BY DEF Did
  <2>3. PgCas(row, op, at) \in {Did(row, ~Live(row, at)), PgInsertAbsent(row, op, at),
                                PgCasReplace(row, op, at), PgCasDelete(row, op, at)}
    BY DEF PgCas
  <2>4. QED
    BY <1>5, <2>1, <2>2, <2>3
<1>7. IsRow(PgIncr(row, op, at).row)
  BY <1>1, StoredRow DEF PgIncr, Did
<1>8. IsRow(PgExpire(row, op, at).row)
  BY <1>2 DEF PgExpire, Did
<1>9. IsRow(Did(row, PgText(row, at)).row) /\ IsRow(Did(NoRow, TRUE).row)
      /\ IsRow(Did(row, PgTtl(row, at)).row)
  BY <1>4 DEF Did
<1>10. PgStatement(row, op, at) \in
          {Did(row, PgText(row, at)), PgSet(row, op, at), Did(NoRow, TRUE),
           PgInsertAbsent(row, op, at), PgCas(row, op, at), PgIncr(row, op, at),
           PgExpire(row, op, at), Did(row, PgTtl(row, at))}
  BY DEF PgStatement, Statements
<1>11. QED
  BY <1>5, <1>6, <1>7, <1>8, <1>9, <1>10

LEMMA StatementTyped ==
    ASSUME NEW row, IsRow(row), NEW op, op.ttl \in Nat, op.call \in Statements, NEW at \in Nat
    PROVE  IsRow(Statement(row, op, at).row)
  BY LiteTyped, PgTyped DEF Statement


LEMMA TimelyMoves ==
    ASSUME NEW t \in Nat, NEW x, NEW y, Timely(x, t), x.pc \notin Gone,
           y.op = x.op, y.key = x.key, y.at \in {x.at, t}, IsRow(y.cur), IsRow(y.new),
           y.pc \in {"exec", "late"} => x.op.call # "update",
           y.pc \in Updating => x.op.call \in {"update", "tx"}
    PROVE  Timely(y, t)
  BY DEF Timely

LEMMA TimelyGone ==
    ASSUME NEW t \in Nat, NEW y, y.pc \in Gone, y.at = 0, y.cur = NoRow, y.new = NoRow
    PROVE  Timely(y, t)
  BY DEF Timely, Gone, Updating, IsRow

LEMMA TimelyLeft ==
    ASSUME NEW t, NEW x, NEW y, Timely(x, t), y.pc \in Gone,
           y.at = x.at, y.cur = x.cur, y.new = x.new
    PROVE  Timely(y, t)
  BY DEF Timely, Gone, Updating

LEMMA TimelyIdle ==
    ASSUME NEW t \in Nat
    PROVE  Timely(Idle, t)
<1>1. Idle.pc = "idle" /\ Idle.at = 0 /\ Idle.cur = NoRow /\ Idle.new = NoRow
  BY DEF Idle
<1>2. QED
  BY <1>1, TimelyGone DEF Gone

(* c's record becomes y, and the rows stay rows. *)
LEMMA TimedStep ==
    ASSUME StorageInv, TimeInv, NEW c \in Calls, NEW y, calls' = [calls EXCEPT ![c] = y],
           Timely(y, now), now' = now, \A k \in Keys : IsRow(rows'[k])
    PROVE  TimeInv'
<1>1. \A d \in Calls : calls'[d] = IF d = c THEN y ELSE calls[d]
  BY DEF StorageInv, Shapes
<1>2. \A d \in Calls : Timely(calls'[d], now)
  BY <1>1 DEF TimeInv
<1>3. now' \in Nat /\ \A d \in Calls : Timely(calls'[d], now')
  BY <1>2 DEF TimeInv
<1> QED
  BY <1>3 DEF TimeInv

LEMMA EndTimed ==
    ASSUME StorageInv, TimeInv, NEW c \in Calls, End(c), now' = now,
           \A k \in Keys : IsRow(rows'[k])
    PROVE  TimeInv'
<1>1. now \in Nat
  BY DEF TimeInv
<1>2. Timely(Idle, now)
  BY <1>1, TimelyIdle
<1>3. QED
  BY <1>2, TimedStep DEF End

LEMMA SentTimed ==
    ASSUME StorageInv, TimeInv, NEW c \in Calls, NEW k, NEW op, NEW parent,
           op \in Ops \/ (op \in DbOps /\ k = None),
           calls' = [calls EXCEPT ![c] = Sent(c, k, op, parent)], now' = now, rows' = rows
    PROVE  TimeInv'
<1> DEFINE pc == IF cell[VmOf[c]] = None THEN "open" ELSE FirstAwait(op)
           y == Sent(c, k, op, parent)
<1>1. y = [Idle EXCEPT !.pc = pc, !.key = k, !.op = op, !.at = now,
                       !.pool = cell[VmOf[c]], !.inside = parent]
  BY DEF Sent
<1>2. /\ op.ttl \in Nat
      /\ k # None => op.call \in Statements \cup {"update"}
  BY OpsAssumption DEF DbOps, Op, Statements
<1>3. /\ pc \in {"open", "begin", "exec"}
      /\ pc = "begin" => op.call \in {"update", "tx"}
      /\ pc = "exec" => op.call # "update"
  BY DEF FirstAwait
<1> HIDE DEF y, pc
<1>4. y.pc = pc /\ y.key = k /\ y.op = op /\ y.at = now /\ y.cur = NoRow /\ y.new = NoRow
  BY <1>1 DEF Idle
<1>5. now \in Nat /\ \A q \in Keys : IsRow(rows'[q])
  BY DEF TimeInv
<1>6. Timely(y, now)
  BY <1>2, <1>3, <1>4, <1>5 DEF Timely, IsRow, Updating
<1>7. QED
  BY <1>5, <1>6, TimedStep DEF y

LEMMA PurgedRows ==
    ASSUME TimeInv, NEW at
    PROVE  \A k \in Keys : IsRow(Purged(at)[k])
  BY DEF TimeInv, Purged, IsRow

(* The record of a call that has not ended, and its work. *)
LEMMA WorkTimed ==
    ASSUME StorageInv, TimeInv, NEW c \in Calls, calls[c].pc \notin Gone
    PROVE  /\ IsCall(calls[c]) /\ Timely(calls[c], now) /\ now \in Nat
           /\ Made(c) = calls[c].op /\ Made(c).ttl \in Nat
           /\ calls[c].at \in Nat /\ calls[c].at <= now
           /\ IsRow(calls[c].cur) /\ IsRow(calls[c].new)
           /\ OfKv(c) => calls[c].key \in Keys /\ Made(c).call \in Statements \cup {"update"}
  BY DEF StorageInv, Shapes, TimeInv, Timely, Made, OfKv, CallInv, KeyInv

LEMMA WrittenRows ==
    ASSUME StorageInv, TimeInv, NEW k \in Keys, NEW r, IsRow(r), rows' = [rows EXCEPT ![k] = r]
    PROVE  \A q \in Keys : IsRow(rows'[q])
  BY DEF StorageInv, Shapes, TimeInv

LEMMA OpenTimed ==
    ASSUME StorageInv, TimeInv, NEW c \in Calls, Open(c)
    PROVE  TimeInv'
<1> DEFINE y == [calls[c] EXCEPT !.pc = FirstAwait(Made(c)), !.at = now, !.pool = FirstSet(c)]
<1>1. calls' = [calls EXCEPT ![c] = y] /\ now' = now /\ rows' = Purged(now)
      /\ calls[c].pc = "open"
  BY DEF Open, At
<1>2. calls[c].pc \notin Gone
  BY <1>1 DEF Gone
<1>3. IsCall(calls[c]) /\ Timely(calls[c], now) /\ now \in Nat /\ Made(c) = calls[c].op
      /\ IsRow(calls[c].cur) /\ IsRow(calls[c].new)
  BY <1>2, WorkTimed
<1>4. /\ y.op = calls[c].op /\ y.key = calls[c].key /\ y.at = now /\ y.cur = calls[c].cur
      /\ y.new = calls[c].new /\ y.pc = FirstAwait(Made(c))
  BY <1>3 DEF IsCall
<1> HIDE DEF y
<1>5. Timely(y, now)
  BY <1>2, <1>3, <1>4, TimelyMoves DEF FirstAwait, Updating
<1>6. QED
  BY <1>1, <1>5, PurgedRows, TimedStep

LEMMA ExecuteTimed ==
    ASSUME StorageInv, TimeInv, NEW c \in Calls, Execute(c) \/ Late(c)
    PROVE  TimeInv'
<1> DEFINE k == calls[c].key
           did == Statement(rows[k], Made(c), calls[c].at)
           y == [calls[c] EXCEPT !.pc = "purge"]
<1>1. /\ calls[c].pc \in {"exec", "late"} /\ OfKv(c) /\ now' = now
      /\ rows' = [rows EXCEPT ![k] = did.row]
      /\ calls' = [calls EXCEPT ![c] = y] \/ End(c)
  BY DEF Execute, Late, At
<1>2. calls[c].pc \notin Gone
  BY <1>1 DEF Gone
<1>3. /\ IsCall(calls[c]) /\ Timely(calls[c], now) /\ now \in Nat /\ Made(c) = calls[c].op
      /\ IsRow(calls[c].cur) /\ IsRow(calls[c].new) /\ calls[c].at \in Nat
      /\ k \in Keys /\ Made(c).ttl \in Nat /\ Made(c).call \in Statements
  BY <1>1, <1>2, WorkTimed DEF Timely
<1>4. IsRow(did.row)
  BY <1>3, StatementTyped DEF TimeInv
<1> HIDE DEF did
<1>5. \A q \in Keys : IsRow(rows'[q])
  BY <1>1, <1>3, <1>4, WrittenRows
<1>6. /\ y.op = calls[c].op /\ y.key = calls[c].key /\ y.at = calls[c].at
      /\ y.cur = calls[c].cur /\ y.new = calls[c].new /\ y.pc = "purge"
  BY <1>3 DEF IsCall
<1> HIDE DEF y
<1>7. Timely(y, now)
  BY <1>2, <1>3, <1>6, TimelyMoves DEF Updating
<1>8. QED
  BY <1>1, <1>5, <1>7, TimedStep, EndTimed

LEMMA BeginTimed ==
    ASSUME StorageInv, TimeInv, NEW c \in Calls, Begin(c)
    PROVE  TimeInv'
<1> DEFINE y == [calls[c] EXCEPT !.pc = "transform", !.at = now, !.cur = rows[calls[c].key],
                                 !.prev = inUpdate[VmOf[c]]]
<1>1. calls' = [calls EXCEPT ![c] = y] /\ now' = now /\ rows' = rows
      /\ calls[c].pc = "begin" /\ OfKv(c)
  BY DEF Begin, At
<1>2. calls[c].pc \notin Gone
  BY <1>1 DEF Gone
<1>3. IsCall(calls[c]) /\ Timely(calls[c], now) /\ now \in Nat /\ calls[c].key \in Keys
      /\ IsRow(calls[c].new) /\ IsRow(rows[calls[c].key])
  BY <1>1, <1>2, WorkTimed DEF TimeInv
<1>4. /\ y.op = calls[c].op /\ y.key = calls[c].key /\ y.at = now
      /\ y.cur = rows[calls[c].key] /\ y.new = calls[c].new /\ y.pc = "transform"
  BY <1>3 DEF IsCall
<1> HIDE DEF y
<1>5. Timely(y, now)
  BY <1>1, <1>2, <1>3, <1>4, TimelyMoves DEF Timely, Updating
<1>6. QED
  BY <1>1, <1>5, TimedStep DEF TimeInv

LEMMA UpdatedRow ==
    ASSUME NEW new, NEW e \in Expiry
    PROVE  IsRow(Updated(new, e))
  BY StoredRow DEF Updated, LiteUpdated, PgUpdated, IsRow

LEMMA TransformTimed ==
    ASSUME StorageInv, TimeInv, NEW c \in Calls, NEW new, TransformReturns(c, new)
    PROVE  TimeInv'
<1> DEFINE y == [calls[c] EXCEPT !.pc = "write", !.new = Updated(new, KeptExpiry(c))]
<1>1. calls' = [calls EXCEPT ![c] = y] /\ now' = now /\ rows' = rows
      /\ calls[c].pc = "transform"
  BY DEF TransformReturns, At, dbVars
<1>2. calls[c].pc \notin Gone
  BY <1>1 DEF Gone
<1>3. IsCall(calls[c]) /\ Timely(calls[c], now) /\ now \in Nat
      /\ IsRow(calls[c].cur) /\ Made(c).ttl \in Nat
  BY <1>2, WorkTimed
<1>4. KeptExpiry(c) \in Expiry
  <2>1. ExpiryAt(now, Made(c).ttl) \in Expiry
    BY <1>3, ExpiryTyped
  <2>2. (IF Live(calls[c].cur, calls[c].at) THEN calls[c].cur.expires ELSE Never) \in Expiry
    BY <1>3 DEF Live, IsRow, Expiry
  <2>3. QED
    BY <2>1, <2>2 DEF KeptExpiry, Coalesce
<1>5. /\ y.op = calls[c].op /\ y.key = calls[c].key /\ y.at = calls[c].at
      /\ y.cur = calls[c].cur /\ y.new = Updated(new, KeptExpiry(c)) /\ y.pc = "write"
  BY <1>3 DEF IsCall
<1> HIDE DEF y
<1>6. Timely(y, now)
  BY <1>1, <1>2, <1>3, <1>4, <1>5, UpdatedRow, TimelyMoves DEF Timely, Updating
<1>7. QED
  BY <1>1, <1>6, TimedStep DEF TimeInv

LEMMA CommitTimed ==
    ASSUME StorageInv, TimeInv, NEW c \in Calls, Commit(c)
    PROVE  TimeInv'
<1>1. calls[c].pc = "commit" /\ End(c) /\ now' = now
  BY DEF Commit, At
<1>2. calls[c].pc \notin Gone /\ calls[c].key \in Keys
  BY <1>1 DEF Gone, StorageInv, CallInv, RowInv, InUpdate
<1>3. IsRow(calls[c].new) /\ IsRow(rows[calls[c].key])
  BY <1>2, WorkTimed DEF TimeInv
<1>4. PICK r : IsRow(r) /\ rows' = [rows EXCEPT ![calls[c].key] = r]
  BY <1>3 DEF Commit
<1>5. QED
  BY <1>1, <1>2, <1>4, WrittenRows, EndTimed


(* What leaves the rows, and the call's operation and row, as they are. *)
LEMMA GoesOnTimed ==
    ASSUME StorageInv, TimeInv, NEW c \in Calls, NEW y, calls' = [calls EXCEPT ![c] = y],
           now' = now, rows' = rows, calls[c].pc \notin Gone,
           y.op = calls[c].op, y.key = calls[c].key, y.at \in {calls[c].at, now},
           y.cur = calls[c].cur, y.new = calls[c].new,
           y.pc \in {"exec", "late"} => calls[c].op.call # "update",
           y.pc \in Updating => calls[c].op.call \in {"update", "tx"}
    PROVE  TimeInv'
<1>1. Timely(calls[c], now) /\ now \in Nat /\ IsRow(calls[c].cur) /\ IsRow(calls[c].new)
  BY WorkTimed
<1>2. Timely(y, now)
  BY <1>1, TimelyMoves
<1>3. QED
  BY <1>2, TimedStep DEF TimeInv

LEMMA BusyTimed ==
    ASSUME StorageInv, TimeInv, NEW c \in Calls, Busy(c)
    PROVE  TimeInv'
<1> DEFINE y == [calls[c] EXCEPT !.tries = calls[c].tries + 1]
<1>1. /\ calls[c].pc \in {"exec", "begin", "sweep"} /\ now' = now /\ rows' = rows
      /\ calls' = [calls EXCEPT ![c] = y] \/ End(c)
  BY DEF Busy, At, dbVars
<1>2. calls[c].pc \notin Gone
  BY <1>1 DEF Gone
<1>3. IsCall(calls[c]) /\ Timely(calls[c], now)
  BY <1>2, WorkTimed
<1>4. /\ y.op = calls[c].op /\ y.key = calls[c].key /\ y.at = calls[c].at
      /\ y.cur = calls[c].cur /\ y.new = calls[c].new /\ y.pc = calls[c].pc
  BY <1>3 DEF IsCall
<1> HIDE DEF y
<1>5. CASE calls' = [calls EXCEPT ![c] = y]
  <2>1. /\ y.pc \in {"exec", "late"} => calls[c].op.call # "update"
        /\ y.pc \in Updating => calls[c].op.call \in {"update", "tx"}
    BY <1>3, <1>4 DEF Timely
  <2>2. QED
    BY <1>1, <1>2, <1>4, <1>5, <2>1, GoesOnTimed
<1>6. CASE End(c)
  BY <1>1, <1>6, EndTimed DEF TimeInv
<1>7. QED
  BY <1>1, <1>5, <1>6

LEMMA MaybePurgeTimed ==
    ASSUME StorageInv, TimeInv, NEW c \in Calls, MaybePurge(c)
    PROVE  TimeInv'
<1> DEFINE y == [calls[c] EXCEPT !.pc = "sweep", !.at = now, !.tries = 0]
<1>1. /\ calls[c].pc = "purge" /\ now' = now /\ rows' = rows
      /\ calls' = [calls EXCEPT ![c] = y] \/ End(c)
  BY DEF MaybePurge, At, dbVars
<1>2. calls[c].pc \notin Gone
  BY <1>1 DEF Gone
<1>3. IsCall(calls[c])
  BY <1>2, WorkTimed
<1>4. /\ y.op = calls[c].op /\ y.key = calls[c].key /\ y.at = now
      /\ y.cur = calls[c].cur /\ y.new = calls[c].new /\ y.pc = "sweep"
  BY <1>3 DEF IsCall
<1> HIDE DEF y
<1>5. CASE calls' = [calls EXCEPT ![c] = y]
  <2>1. y.pc \notin {"exec", "late"} /\ y.pc \notin Updating
    BY <1>4 DEF Updating
  <2>2. QED
    BY <1>1, <1>2, <1>4, <1>5, <2>1, GoesOnTimed
<1>6. CASE End(c)
  BY <1>1, <1>6, EndTimed DEF TimeInv
<1>7. QED
  BY <1>1, <1>5, <1>6

LEMMA WriteTimed ==
    ASSUME StorageInv, TimeInv, NEW c \in Calls, Write(c)
    PROVE  TimeInv'
<1> DEFINE y == [calls[c] EXCEPT !.pc = "commit"]
<1>1. /\ calls[c].pc = "write" /\ now' = now /\ rows' = rows
      /\ calls' = [calls EXCEPT ![c] = y]
  BY DEF Write, At, dbVars
<1>2. calls[c].pc \notin Gone
  BY <1>1 DEF Gone
<1>3. IsCall(calls[c]) /\ Timely(calls[c], now)
  BY <1>2, WorkTimed
<1>4. /\ y.op = calls[c].op /\ y.key = calls[c].key /\ y.at = calls[c].at
      /\ y.cur = calls[c].cur /\ y.new = calls[c].new /\ y.pc = "commit"
  BY <1>3 DEF IsCall
<1> HIDE DEF y
<1>5. /\ y.pc \notin {"exec", "late"}
      /\ calls[c].op.call \in {"update", "tx"}
  BY <1>1, <1>3, <1>4 DEF Timely, Updating
<1>6. QED
  BY <1>1, <1>2, <1>4, <1>5, GoesOnTimed

(* What is dropped, or left to roll back. *)
LEMMA DroppedTimed ==
    ASSUME StorageInv, TimeInv, NEW c \in Calls, Dropped(c), now' = now, rows' = rows
    PROVE  TimeInv'
<1> DEFINE y == [Idle EXCEPT !.pc = "rollback", !.key = calls[c].key]
<1>1. "rollback" \in Gone /\ now \in Nat
  BY DEF Gone, TimeInv
<1>2. calls' = [calls EXCEPT ![c] = y]
  BY DEF Dropped
<1>3. y.pc = "rollback" /\ y.at = 0 /\ y.cur = NoRow /\ y.new = NoRow
  BY DEF Idle
<1> HIDE DEF y
<1>4. Timely(y, now)
  BY <1>1, <1>3, TimelyGone
<1>5. QED
  BY <1>2, <1>4, TimedStep DEF TimeInv

LEMMA CancelTimed ==
    ASSUME StorageInv, TimeInv, NEW c \in Calls, Cancel(c)
    PROVE  TimeInv'
<1>1. CASE UpdateFails(c)
  BY <1>1, DroppedTimed DEF UpdateFails, dbVars
<1>2. CASE End(c) /\ UNCHANGED <<dbVars, now, vmVars>>
  BY <1>2, EndTimed DEF TimeInv, dbVars
<1>3. CASE /\ At(c, "exec")
           /\ calls' = [calls EXCEPT ![c].pc = "late", ![c].inside = None]
           /\ UNCHANGED <<dbVars, now, vmVars>>
  <2> DEFINE y == [calls[c] EXCEPT !.pc = "late", !.inside = None]
  <2>1. /\ calls[c].pc = "exec" /\ now' = now /\ rows' = rows
        /\ calls' = [calls EXCEPT ![c] = y]
    BY <1>3 DEF At, dbVars
  <2>2. calls[c].pc \notin Gone
    BY <2>1 DEF Gone
  <2>3. IsCall(calls[c]) /\ Timely(calls[c], now)
    BY <2>2, WorkTimed
  <2>4. /\ y.op = calls[c].op /\ y.key = calls[c].key /\ y.at = calls[c].at
        /\ y.cur = calls[c].cur /\ y.new = calls[c].new /\ y.pc = "late"
    BY <2>3 DEF IsCall
  <2> HIDE DEF y
  <2>5. y.pc \notin Updating /\ calls[c].op.call # "update"
    BY <2>1, <2>3, <2>4 DEF Timely, Updating
  <2>6. QED
    BY <2>1, <2>2, <2>4, <2>5, GoesOnTimed
<1>4. QED
  BY <1>1, <1>2, <1>3 DEF Cancel

LEMMA KvStepTimed ==
    ASSUME StorageInv, TimeInv, NEW c \in Calls, KvStep(c)
    PROVE  TimeInv'
<1>1. Step(c)
  BY DEF KvStep
<1>2. ASSUME NEW k \in Keys, NEW op \in Ops, NEW parent \in Calls \cup {None},
             Call(c, k, op, parent)
      PROVE  TimeInv'
  <2>1. calls' = [calls EXCEPT ![c] = Sent(c, k, op, parent)] /\ now' = now /\ rows' = rows
    BY <1>2 DEF Call, dbVars
  <2>2. QED
    BY <2>1, SentTimed
<1>3. CASE Open(c)
  BY <1>3, OpenTimed
<1>4. CASE Execute(c) \/ Late(c)
  BY <1>4, ExecuteTimed
<1>5. CASE Busy(c)
  BY <1>5, BusyTimed
<1>6. CASE MaybePurge(c)
  BY <1>6, MaybePurgeTimed
<1>7. CASE Sweep(c)
  <2>1. End(c) /\ now' = now /\ rows' = Purged(calls[c].at)
    BY <1>7 DEF Sweep
  <2>2. QED
    BY <2>1, PurgedRows, EndTimed
<1>8. CASE Begin(c)
  BY <1>8, BeginTimed
<1>9. CASE Write(c)
  BY <1>9, WriteTimed
<1>10. CASE Commit(c)
  BY <1>10, CommitTimed
<1>11. CASE Rollback(c) \/ Fails(c)
  BY <1>11, EndTimed DEF Rollback, Fails, dbVars, TimeInv
<1>12. ASSUME NEW new, TransformReturns(c, new)
       PROVE  TimeInv'
  BY <1>12, TransformTimed
<1>13. CASE Cancel(c)
  BY <1>13, CancelTimed
<1>14. QED
  BY <1>1, <1>2, <1>3, <1>4, <1>5, <1>6, <1>7, <1>8, <1>9, <1>10, <1>11, <1>12, <1>13 DEF Step

LEMMA SettleTimed ==
    ASSUME StorageInv, TimeInv, NEW c \in Calls, NEW fields, Settle(c, fields),
           calls[c].pc \in {"body", "txcommit", "orphan"}, now' = now, rows' = rows
    PROVE  TimeInv'
<1> DEFINE pc == IF At(c, "orphan") THEN "rollback" ELSE calls[c].pc
           y == [calls[c] EXCEPT !.pc = pc]
<1>1. calls' = [calls EXCEPT ![c] = y]
  BY DEF Settle
<1>2. IsCall(calls[c]) /\ Timely(calls[c], now)
  BY DEF StorageInv, Shapes, TimeInv
<1>3. /\ y.op = calls[c].op /\ y.key = calls[c].key /\ y.at = calls[c].at
      /\ y.cur = calls[c].cur /\ y.new = calls[c].new /\ y.pc = pc
  BY <1>2 DEF IsCall
<1> HIDE DEF y
<1>4. CASE calls[c].pc = "orphan"
  <2>1. Timely(y, now)
    BY <1>2, <1>3, <1>4, TimelyLeft DEF At, Gone
  <2>2. QED
    BY <1>1, <2>1, TimedStep DEF TimeInv
<1>5. CASE calls[c].pc \in {"body", "txcommit"}
  <2>1. calls[c].pc \notin Gone /\ y.pc \notin {"exec", "late"} /\ y.pc \notin Updating
    BY <1>3, <1>5 DEF Gone, Updating, At
  <2>2. QED
    BY <1>1, <1>3, <2>1, GoesOnTimed
<1>6. QED
  BY <1>4, <1>5

LEMMA TxPcTimed ==
    ASSUME StorageInv, TimeInv, NEW c \in Calls, NEW pc \in {"body", "txcommit"},
           calls' = [calls EXCEPT ![c].pc = pc], calls[c].pc \notin Gone,
           now' = now, rows' = rows
    PROVE  TimeInv'
<1> DEFINE y == [calls[c] EXCEPT !.pc = pc]
<1>1. calls' = [calls EXCEPT ![c] = y]
  OBVIOUS
<1>2. IsCall(calls[c])
  BY DEF StorageInv, Shapes
<1>3. /\ y.op = calls[c].op /\ y.key = calls[c].key /\ y.at = calls[c].at
      /\ y.cur = calls[c].cur /\ y.new = calls[c].new /\ y.pc = pc
  BY <1>2 DEF IsCall
<1> HIDE DEF y
<1>4. y.pc \notin {"exec", "late"} /\ y.pc \notin Updating
  BY <1>3 DEF Updating
<1>5. QED
  BY <1>1, <1>3, <1>4, GoesOnTimed

LEMMA TxStepTimed ==
    ASSUME StorageInv, TimeInv, NEW c \in Calls, TxStep(c)
    PROVE  TimeInv'
<1>1. now' = now /\ rows' = rows
  BY TxKeepsRows
<1>2. ASSUME NEW op \in DbOps, NEW parent \in Calls \cup {None}, DbCall(c, op, parent)
      PROVE  TimeInv'
  <2>1. calls' = [calls EXCEPT ![c] = Sent(c, None, op, parent)]
    BY <1>2 DEF DbCall
  <2>2. QED
    BY <1>1, <2>1, SentTimed
<1>3. CASE (\E x \in Cells, v \in Vals : DbExecute(c, x, v)) \/ TxCommit(c)
  BY <1>1, <1>3, EndTimed DEF DbExecute, TxCommit, TimeInv
<1>4. CASE TxBegin(c)
  BY <1>1, <1>4, TxPcTimed DEF TxBegin, At, Gone
<1>5. CASE TxSend(c)
  BY <1>5 DEF TxSend, kvVars, TimeInv
<1>6. CASE TxSettles(c)
  <2>1. calls[c].pc \in {"body", "txcommit", "orphan"} /\ \E fields : Settle(c, fields)
    <3>1. CASE TxFails(c)
      BY <3>1 DEF TxFails
    <3>2. ASSUME NEW x \in Cells, NEW v \in Vals, TxAssigns(c, x, v)
          PROVE  calls[c].pc \in {"body", "txcommit", "orphan"} /\ \E fields : Settle(c, fields)
      BY <3>2 DEF TxAssigns
    <3>3. QED
      BY <1>6, <3>1, <3>2 DEF TxSettles
  <2>2. QED
    BY <1>1, <2>1, SettleTimed
<1>7. CASE TxReturns(c)
  BY <1>1, <1>7, TxPcTimed DEF TxReturns, At, Gone
<1>8. CASE TxRaises(c)
  BY <1>1, <1>8, DroppedTimed DEF TxRaises
<1>9. CASE TxCancel(c)
  <2> DEFINE y == [Idle EXCEPT !.pc = Leaves(c)]
  <2>1. Leaves(c) \in Gone /\ now \in Nat
    BY DEF Leaves, Gone, TimeInv
  <2>2. calls' = [calls EXCEPT ![c] = y]
    BY <1>9 DEF TxCancel
  <2>3. y.pc = Leaves(c) /\ y.at = 0 /\ y.cur = NoRow /\ y.new = NoRow
    BY DEF Idle
  <2> HIDE DEF y
  <2>4. Timely(y, now)
    BY <2>1, <2>3, TimelyGone
  <2>5. QED
    BY <1>1, <2>2, <2>4, TimedStep DEF TimeInv
<1>10. QED
  BY <1>2, <1>3, <1>4, <1>5, <1>6, <1>7, <1>8, <1>9 DEF TxStep

LEMMA TimeInit == DbInit => TimeInv
<1> SUFFICES ASSUME DbInit PROVE TimeInv
  OBVIOUS
<1>1. now = 0 /\ rows = [k \in Keys |-> NoRow] /\ calls = [c \in Calls |-> Idle]
  BY DEF DbInit, KvInit
<1>2. now \in Nat
  BY <1>1
<1>3. Timely(Idle, now)
  BY <1>2, TimelyIdle
<1>4. QED
  BY <1>1, <1>2, <1>3 DEF TimeInv, IsRow

LEMMA TimeNext == StorageInv /\ TimeInv /\ [DbNext]_dbTxVars => TimeInv'
<1> SUFFICES ASSUME StorageInv, TimeInv, [DbNext]_dbTxVars PROVE TimeInv'
  OBVIOUS
<1>1. CASE Tick
  <2>1. now \in Nat /\ now' = now + 1 /\ rows' = rows /\ calls' = calls
    BY <1>1 DEF Tick, dbVars, TimeInv
  <2>2. \A c \in Calls : Timely(calls[c], now + 1)
    BY <2>1 DEF TimeInv, Timely
  <2>3. QED
    BY <2>1, <2>2 DEF TimeInv
<1>2. CASE \E c \in Calls : KvStep(c) \/ TxStep(c)
  BY <1>2, KvStepTimed, TxStepTimed
<1>3. CASE UNCHANGED dbTxVars
  BY <1>3 DEF dbTxVars, kvVars, TimeInv
<1>4. QED
  BY <1>1, <1>2, <1>3 DEF DbNext

LEMMA TimeInvAlways == DbSpec => [](StorageInv /\ TimeInv)
<1>1. DbInit => TimeInv
  BY TimeInit
<1>2. DbSpec => []TimeInv
  BY <1>1, TimeNext, StorageCorrect, PTL DEF DbSpec
<1>3. QED
  BY <1>2, StorageCorrect, PTL


(* What an older instant takes for expired is expired now. *)
LEMMA ExpiredSince ==
    ASSUME NEW row, IsRow(row), NEW at \in Nat, NEW t \in Nat, at <= t, Expired(row, at)
    PROVE  Expired(row, t)
<1>1. row # NoRow /\ row.expires \in Nat /\ row.expires <= at
  BY DEF Expired, IsRow, Expiry
<1>2. row.expires <= t
  BY <1>1
<1>3. QED
  BY <1>1, <1>2, NeverApart DEF Expired

LEMMA PurgeSpares ==
    ASSUME TimeInv, NEW at \in Nat, at <= now, NEW k \in Keys, Purged(at)[k] # rows[k]
    PROVE  ~Live(rows[k], now)
<1>1. Expired(rows[k], at)
  BY DEF Purged
<1>2. Expired(rows[k], now)
  BY <1>1, ExpiredSince DEF TimeInv
<1>3. QED
  BY <1>2 DEF Live

LEMMA AddSpares ==
    ASSUME NEW row, NEW op, op.call = "add", NEW at, Live(row, at)
    PROVE  Statement(row, op, at).row = row
<1>1. LiteStatement(row, op, at) = LiteInsertAbsent(row, op, at)
  BY DEF LiteStatement
<1>2. PgStatement(row, op, at) = PgInsertAbsent(row, op, at)
  BY DEF PgStatement
<1>3. Statement(row, op, at) = Did(row, FALSE)
  BY <1>1, <1>2 DEF Statement, LiteInsertAbsent, PgInsertAbsent
<1>4. QED
  BY <1>3 DEF Did

(* A statement, run by its call or late, writes the row of its key, and    *)
(* not a visible one if it is an add.                                      *)
LEMMA StatementSpares ==
    ASSUME StorageInv, TimeInv, NEW c \in Calls, Execute(c) \/ Late(c),
           NEW k \in Keys, rows'[k] # rows[k], Live(rows[k], now)
    PROVE  calls[c].pc \in {"exec", "late"} /\ calls[c].key = k /\ Made(c).call # "add"
<1> DEFINE q == calls[c].key
           did == Statement(rows[q], Made(c), calls[c].at)
<1>1. /\ calls[c].pc \in {"exec", "late"} /\ OfKv(c)
      /\ rows' = [rows EXCEPT ![q] = did.row]
  BY DEF Execute, Late, At
<1>2. calls[c].pc \notin Gone
  BY <1>1 DEF Gone
<1>3. q \in Keys /\ calls[c].at \in Nat /\ calls[c].at <= now /\ now \in Nat
  BY <1>1, <1>2, WorkTimed
<1>4. rows = [e \in Keys |-> rows[e]]
  BY DEF StorageInv, Shapes
<1> HIDE DEF did
<1>5. q = k /\ did.row # rows[k]
  BY <1>1, <1>3, <1>4
<1>6. ASSUME Made(c).call = "add" PROVE FALSE
  <2>1. ~Expired(rows[k], calls[c].at)
    BY <1>3, ExpiredSince DEF TimeInv, Live
  <2>2. Live(rows[k], calls[c].at)
    BY <2>1 DEF Live
  <2>3. QED
    BY <1>5, <1>6, <2>2, AddSpares DEF did
<1>7. QED
  BY <1>1, <1>5, <1>6

(* A row that can be seen is changed by the calls that are entitled to:    *)
(* never by a sweep, an open, or an add, however old the instant they      *)
(* judge it by (storage/mod.rs, sqlite.rs, postgres.rs).                   *)
THEOREM VisibleRowsStayAlways == DbSpec => VisibleRowsStay
<1> DEFINE Entitled == \A c \in Calls, k \in Keys :
               (calls'[c] # calls[c] /\ rows'[k] # rows[k] /\ Live(rows[k], now))
                   => /\ calls[c].pc \in {"exec", "late", "commit"}
                      /\ calls[c].key = k
                      /\ Made(c).call # "add"
<1>1. StorageInv /\ TimeInv /\ [DbNext]_dbTxVars => [Entitled]_kvVars
  <2> SUFFICES ASSUME StorageInv, TimeInv, [DbNext]_dbTxVars, kvVars' # kvVars,
                      NEW c \in Calls, NEW k \in Keys,
                      calls'[c] # calls[c], rows'[k] # rows[k], Live(rows[k], now)
               PROVE  /\ calls[c].pc \in {"exec", "late", "commit"}
                      /\ calls[c].key = k
                      /\ Made(c).call # "add"
    OBVIOUS
  <2>1. Open(c) \/ Execute(c) \/ Sweep(c) \/ Late(c) \/ Commit(c)
    BY RowsMove DEF dbTxVars
  <2>2. now \in Nat
    BY DEF TimeInv
  <2>3. ~Open(c)
    BY <2>2, PurgeSpares DEF Open
  <2>4. ~Sweep(c)
    <3> SUFFICES ASSUME Sweep(c) PROVE FALSE
      OBVIOUS
    <3>1. calls[c].pc = "sweep" /\ rows' = Purged(calls[c].at)
      BY DEF Sweep, At
    <3>2. calls[c].at \in Nat /\ calls[c].at <= now
      BY <3>1, WorkTimed DEF Gone
    <3>3. QED
      BY <3>1, <3>2, PurgeSpares
  <2>5. CASE Execute(c) \/ Late(c)
    BY <2>5, StatementSpares
  <2>6. CASE Commit(c)
    <3>1. calls[c].pc = "commit" /\ calls[c].key = k
      BY <2>6 DEF Commit, At, StorageInv, Shapes
    <3>2. Made(c).call \in {"update", "tx"}
      BY <3>1 DEF TimeInv, Timely, Updating, Made
    <3>3. QED
      BY <3>1, <3>2
  <2>7. QED
    BY <2>1, <2>3, <2>4, <2>5, <2>6
<1> HIDE DEF Entitled
<1>2. DbSpec => [][Entitled]_kvVars
  BY <1>1, TimeInvAlways, PTL DEF DbSpec
<1>3. QED
  BY <1>2 DEF VisibleRowsStay, Entitled
=============================================================================
