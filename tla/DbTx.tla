-------------------------------- MODULE DbTx --------------------------------
(***************************************************************************)
(* lur.db beside lur.kv: single statements and the transactions of db.tx   *)
(* (db.rs), on the pool and under the write lock of KvStore.  The tables   *)
(* of the program are cells, and a statement assigns one of them.          *)
(*                                                                         *)
(* The handle given to the function of db.tx is weak: Lua can keep it, and *)
(* siblings can use it while the transaction lasts, one at a time.         *)
(***************************************************************************)
EXTENDS KvStore

CONSTANTS
    Cells, Vals,
    NoVal          \* a cell never assigned

VARIABLES
    table,    \* the tables, as committed
    tx        \* per call of db.tx: its connection

dbTxVars == <<kvVars, table, tx>>

(* snap is what the transaction began on, work what it made of it, wrote   *)
(* the cells it assigned, busy whether a statement is under way, aborted   *)
(* that Postgres refuses more.                                             *)
Closed == [snap |-> <<>>, work |-> <<>>, wrote |-> {}, busy |-> FALSE, aborted |-> FALSE]

DbOps == {Op("tx", Nil, Nil, 0, 0, FALSE), Op("exec", Nil, Nil, 0, 0, FALSE)}

DbInit ==
    /\ KvInit
    /\ table = [x \in Cells |-> NoVal]
    /\ tx = [c \in Calls |-> Closed]

IsTx(c) == calls[c].op # None /\ Made(c).call = "tx"
Wrote(c, x) == x \in tx[c].wrote

Close(c) == tx' = [tx EXCEPT ![c] = Closed]
KvUnchanged == UNCHANGED <<backend, rows, now, vmVars>>

(* Postgres: the rows an open transaction has written are locked. *)
CellLocked(x, c) ==
    \E d \in Calls \ {c} : Wrote(d, x)

(* lur.db does not look at the flag of update. *)
DbCall(c, op, parent) ==
    /\ At(c, "idle")
    /\ parent # None => At(parent, "transform") /\ VmOf[parent] = VmOf[c]
    /\ calls' = [calls EXCEPT ![c] = Sent(c, None, op, parent)]
    /\ UNCHANGED <<dbVars, now, vmVars, table, tx>>

(* A statement of its own, run by its call or late. *)
DbExecute(c, x, v) ==
    /\ calls[c].pc \in {"exec", "late"} /\ ~OfKv(c)
    /\ IF backend = "sqlite" THEN writer = None ELSE ~CellLocked(x, c)
    /\ table' = [table EXCEPT ![x] = v]
    /\ End(c)
    /\ UNCHANGED <<dbVars, now, vmVars, tx>>

-----------------------------------------------------------------------------
(* run_tx *)

TxBegin(c) ==
    /\ At(c, "begin") /\ IsTx(c)
    /\ backend = "sqlite" => writer = None
    /\ writer' = Takes(c)
    /\ tx' = [tx EXCEPT ![c] = [Closed EXCEPT !.snap = table, !.work = table]]
    /\ calls' = [calls EXCEPT ![c].pc = "body"]
    /\ KvUnchanged /\ UNCHANGED table

(* exec of the handle: it holds the transaction until it is done. *)
TxSend(c) ==
    /\ At(c, "body") /\ ~tx[c].busy
    /\ tx' = [tx EXCEPT ![c].busy = TRUE]
    /\ UNCHANGED <<kvVars, table>>

(* Mutant: the closures of the handle keep the transaction alive. *)
LeavesHandle(c) == "kept"

(* Who is left with the transaction once its call is gone. *)
Leaves(c) == IF tx[c].busy THEN "orphan" ELSE "rollback"

(* The statement is done; what was left to it alone is rolled back. *)
Settle(c, fields) ==
    /\ tx' = [tx EXCEPT ![c] = [fields EXCEPT !.busy = FALSE]]
    /\ calls' = [calls EXCEPT ![c].pc = IF At(c, "orphan") THEN "rollback" ELSE @]

TxAssigns(c, x, v) ==
    /\ calls[c].pc \in {"body", "txcommit", "orphan"} /\ tx[c].busy /\ ~tx[c].aborted
    /\ backend = "postgres" => ~CellLocked(x, c) /\ table[x] = tx[c].snap[x]
    /\ Settle(c, [tx[c] EXCEPT !.work[x] = v, !.wrote = @ \cup {x}])
    /\ UNCHANGED <<dbVars, now, vmVars, table>>

(* Postgres takes no more statements after one that failed. *)
TxFails(c) ==
    /\ calls[c].pc \in {"body", "txcommit", "orphan"} /\ tx[c].busy
    /\ Settle(c, [tx[c] EXCEPT !.aborted = (backend = "postgres")])
    /\ UNCHANGED <<dbVars, now, vmVars, table>>

(* The function returns: commit waits for the statement under way. *)
TxReturns(c) ==
    /\ At(c, "body") /\ NestedIn(c) = {}
    /\ calls' = [calls EXCEPT ![c].pc = "txcommit"]
    /\ UNCHANGED <<dbVars, now, vmVars, table, tx>>

(* COMMIT of a transaction that Postgres aborted is a rollback. *)
TxCommit(c) ==
    /\ At(c, "txcommit") /\ ~tx[c].busy
    /\ table' = IF tx[c].aborted
                THEN table
                ELSE [x \in Cells |-> IF Wrote(c, x) THEN tx[c].work[x] ELSE table[x]]
    /\ writer' = Released(c)
    /\ Close(c)
    /\ End(c)
    /\ KvUnchanged

(* The function raises, or COMMIT fails. *)
TxRaises(c) ==
    /\ calls[c].pc \in {"body", "txcommit"} /\ ~tx[c].busy
    /\ Dropped(c)
    /\ UNCHANGED <<dbVars, now, vmVars, table, tx>>

(* The call's future is dropped. *)
TxCancel(c) ==
    /\ calls[c].pc \in {"body", "txcommit"}
    /\ calls' = [calls EXCEPT ![c] = [Idle EXCEPT !.pc = Leaves(c)]]
    /\ UNCHANGED <<dbVars, now, vmVars, table, tx>>

TxSettles(c) == TxFails(c) \/ \E x \in Cells, v \in Vals : TxAssigns(c, x, v)

TxStep(c) ==
    \/ \E op \in DbOps, parent \in Calls \cup {None} : DbCall(c, op, parent)
    \/ \E x \in Cells, v \in Vals : DbExecute(c, x, v)
    \/ TxBegin(c) \/ TxSend(c) \/ TxSettles(c) \/ TxReturns(c) \/ TxCommit(c)
    \/ TxRaises(c) \/ TxCancel(c)

(* A rollback also closes the transaction of db.tx. *)
KvStep(c) == Step(c) /\ UNCHANGED table
             /\ IF At(c, "rollback") THEN Close(c) ELSE UNCHANGED tx

DbNext ==
    \/ Tick /\ UNCHANGED <<table, tx>>
    \/ \E c \in Calls : KvStep(c) \/ TxStep(c)

DbSpec == DbInit /\ [][DbNext]_dbTxVars

-----------------------------------------------------------------------------
(* A transaction commits over what it began on: no cell it wrote was       *)
(* written by another meanwhile (db.rs:67, storage/postgres.rs:12-14).     *)
TxSerial ==
    [][\A c \in Calls :
          (At(c, "txcommit") /\ calls'[c].pc = "idle" /\ ~tx[c].aborted)
              => \A x \in Cells : Wrote(c, x) => table[x] = tx[c].snap[x]]_dbTxVars

(* The write lock is never left with a handle that Lua keeps: its holder   *)
(* runs, or rolls back, or is a statement under way (db.rs:69-70).         *)
LockHasOwner ==
    writer # None =>
        \/ calls[writer].pc \in {"transform", "write", "commit", "body", "txcommit", "rollback"}
        \/ At(writer, "orphan") /\ tx[writer].busy
=============================================================================
