------------------------------ MODULE KvStore ------------------------------
(***************************************************************************)
(* lur.kv over its database: the functions of kv.rs, the backend opened on *)
(* first use and the purge clock (storage/mod.rs), single statements with  *)
(* busy retries and the transaction of update (storage/sqlite.rs and       *)
(* storage/postgres.rs).                                                   *)
(*                                                                         *)
(* A call is one Lua call of a lur.kv function.  The VMs share the         *)
(* database and nothing else; the calls of one VM are siblings under       *)
(* lur.async, or nested: made by the transform of an update.  Each step    *)
(* of a call ends at an await, where the call can be cancelled.            *)
(***************************************************************************)
EXTENDS KvRows, FiniteSets

CONSTANTS
    Keys, Vms, Calls,
    VmOf,          \* the VM of each call
    Ops,           \* what is called with what (Op), update among it
    Backends,      \* "sqlite", "postgres"
    None,          \* no call, no pool, no instant
    INTERVAL_MS,   \* PurgeClock
    MAX_BUSY_RETRIES,
    MaxNow         \* bound: the last instant

ASSUME BoundAssumption ==
    INTERVAL_MS \in Nat /\ MAX_BUSY_RETRIES \in Nat /\ MaxNow \in Nat /\ MaxTime \in Nat
ASSUME CallAssumption ==
    /\ None \notin Calls /\ None \notin Nat
    /\ VmOf \in [Calls -> Vms]
ASSUME OpsAssumption ==
    \A op \in Ops :
        /\ op.call \in {"get", "set", "delete", "add", "cas", "incr", "expire", "ttl", "update"}
        /\ op.ttl \in Nat
ASSUME BackendAssumption == Backends \subseteq {"sqlite", "postgres"}

VARIABLES
    backend,   \* the one of --db
    rows,      \* lur_kv
    now,       \* now_ms
    writer,    \* SQLite: who holds the write lock
    inUpdate,  \* per VM: InUpdate
    cell,      \* per VM: Shared::cell, as the call that opened the pool
    clock,     \* per pool: PurgeClock
    calls      \* per call: where it is

dbVars == <<backend, rows, writer>>
vmVars == <<inUpdate, cell, clock>>
kvVars == <<backend, rows, now, writer, inUpdate, cell, clock, calls>>

(* at is the instant the call read, pool the pool it has, inside the       *)
(* update in whose transform it was made, prev what its KvUpdateGuard      *)
(* saved, cur the row that update found, new the row it writes.            *)
Idle == [pc |-> "idle", key |-> None, op |-> None, at |-> 0, tries |-> 0, pool |-> None,
         inside |-> None, prev |-> FALSE, cur |-> NoRow, new |-> NoRow]

KvInit ==
    /\ backend \in Backends
    /\ rows = [k \in Keys |-> NoRow]
    /\ now = 0
    /\ writer = None
    /\ inUpdate = [v \in Vms |-> FALSE]
    /\ cell = [v \in Vms |-> None]
    /\ clock = [c \in Calls |-> None]
    /\ calls = [c \in Calls |-> Idle]

-----------------------------------------------------------------------------
(* What the backend does. *)

Statement(row, op, at) ==
    IF backend = "sqlite" THEN LiteStatement(row, op, at) ELSE PgStatement(row, op, at)

Updated(new, e) == IF backend = "sqlite" THEN LiteUpdated(new, e) ELSE PgUpdated(new, e)

(* SQLite readers do not wait in WAL mode; Postgres readers never do. *)
Reads(op) == op.call \in {"get", "ttl"} \/ (op.call = "cas" /\ op.expected = Nil /\ op.val = Nil)

(* The row an uncommitted write of a Postgres transaction locks. *)
Locked(k) == \E d \in Calls : calls[d].pc = "commit" /\ calls[d].key = k

CanWrite(k) == IF backend = "sqlite" THEN writer = None ELSE ~Locked(k)

(* retry_busy is around these; a transaction is begun under it as well. *)
Retried(op) == op.call \in {"add", "incr", "expire", "update", "tx", "exec"}
               \/ (op.call = "cas" /\ ~Reads(op))

At(c, pc) == calls[c].pc = pc
Made(c) == calls[c].op
OfKv(c) == calls[c].key # None
NestedIn(c) == {d \in Calls : calls[d].inside = c}
End(c) == calls' = [calls EXCEPT ![c] = Idle]

(* Mutant: rows about to expire are swept too. *)
PurgedEarly(at) == [k \in Keys |-> IF Expired(rows[k], at + 1) THEN NoRow ELSE rows[k]]

Purged(at) == [k \in Keys |-> IF Expired(rows[k], at) THEN NoRow ELSE rows[k]]

CanPurge(at) ==
    IF backend = "sqlite"
    THEN writer = None
    ELSE \A k \in Keys : Expired(rows[k], at) => ~Locked(k)

-----------------------------------------------------------------------------
(* kv_fn: the flag is looked at when the function is called, before        *)
(* anything else.  With the pool open there is no await until the first    *)
(* statement is sent.                                                      *)

(* Mutant: no function looks at the flag. *)
AcceptedAlways(v) == TRUE

Accepted(v) == ~inUpdate[v]

FirstAwait(op) == IF op.call \in {"update", "tx"} THEN "begin" ELSE "exec"
Sent(c, k, op, parent) ==
    [Idle EXCEPT !.pc = IF cell[VmOf[c]] = None THEN "open" ELSE FirstAwait(op),
                 !.key = k, !.op = op, !.at = now, !.pool = cell[VmOf[c]], !.inside = parent]

Call(c, k, op, parent) ==
    /\ At(c, "idle")
    /\ Accepted(VmOf[c])
    /\ parent # None => At(parent, "transform") /\ VmOf[parent] = VmOf[c]
    /\ calls' = [calls EXCEPT ![c] = Sent(c, k, op, parent)]
    /\ UNCHANGED <<dbVars, now, vmVars>>

(* Mutant: a call goes on with the pool it opened. *)
FirstSetOwn(c) == c

(* ensure: several calls may open a pool; the first to finish sets the     *)
(* cell, and all go on with what it holds.                                 *)
FirstSet(c) == IF cell[VmOf[c]] = None THEN c ELSE cell[VmOf[c]]

Open(c) ==
    LET pool == FirstSet(c) IN
    /\ At(c, "open")
    /\ CanPurge(now)
    /\ rows' = Purged(now)
    /\ clock' = [clock EXCEPT ![c] = now]
    /\ cell' = [cell EXCEPT ![VmOf[c]] = IF @ = None THEN c ELSE @]
    /\ calls' = [calls EXCEPT ![c].pc = FirstAwait(Made(c)), ![c].at = now, ![c].pool = pool]
    /\ UNCHANGED <<backend, now, writer, inUpdate>>

-----------------------------------------------------------------------------
(* One statement, judged by the instant read before it was sent. *)

Housekeeps(op, out) == op.call \in {"set", "add", "incr"} /\ out # Nil

Execute(c) ==
    LET k == calls[c].key
        did == Statement(rows[k], Made(c), calls[c].at)
    IN  /\ At(c, "exec") /\ OfKv(c)
        /\ Reads(Made(c)) \/ CanWrite(k)
        /\ rows' = [rows EXCEPT ![k] = did.row]
        /\ IF Housekeeps(Made(c), did.out)
           THEN calls' = [calls EXCEPT ![c].pc = "purge"]
           ELSE End(c)
        /\ UNCHANGED <<backend, now, writer, vmVars>>

(* The lock is not free: SQLITE_BUSY, retried or not. *)
Busy(c) ==
    /\ backend = "sqlite" /\ writer # None
    /\ \/ At(c, "exec") /\ ~Reads(Made(c))
       \/ At(c, "begin")
       \/ At(c, "sweep")
    /\ IF calls[c].tries < MAX_BUSY_RETRIES /\ (At(c, "sweep") \/ Retried(Made(c)))
       THEN calls' = [calls EXCEPT ![c].tries = @ + 1]
       ELSE End(c)
    /\ UNCHANGED <<dbVars, now, vmVars>>

(* PurgeClock::due *)
Due(c) == now - clock[calls[c].pool] >= INTERVAL_MS

MaybePurge(c) ==
    /\ At(c, "purge")
    /\ IF Due(c)
       THEN /\ calls' = [calls EXCEPT ![c].pc = "sweep", ![c].at = now, ![c].tries = 0]
            /\ clock' = [clock EXCEPT ![calls[c].pool] = now]
       ELSE End(c) /\ UNCHANGED clock
    /\ UNCHANGED <<dbVars, now, inUpdate, cell>>

Sweep(c) ==
    /\ At(c, "sweep")
    /\ CanPurge(calls[c].at)
    /\ rows' = Purged(calls[c].at)
    /\ End(c)
    /\ UNCHANGED <<backend, now, writer, vmVars>>

(* A statement that was sent and whose call was cancelled may still run. *)
Late(c) ==
    /\ At(c, "late") /\ OfKv(c)
    /\ CanWrite(calls[c].key)
    /\ rows' = [rows EXCEPT ![calls[c].key] =
                    Statement(@, Made(c), calls[c].at).row]
    /\ End(c)
    /\ UNCHANGED <<backend, now, writer, vmVars>>

-----------------------------------------------------------------------------
(* update *)

(* Mutant: BEGIN, which takes the lock at the first write only. *)
TakesLater(c) == writer

(* BEGIN IMMEDIATE takes the lock of SQLite.  The row is then read, and    *)
(* the guard is entered when the transform is first polled.                *)
Takes(c) == IF backend = "sqlite" THEN c ELSE writer

Begin(c) ==
    LET v == VmOf[c] IN
    /\ At(c, "begin") /\ OfKv(c)
    /\ backend = "sqlite" => writer = None
    /\ writer' = Takes(c)
    /\ inUpdate' = [inUpdate EXCEPT ![v] = TRUE]
    /\ calls' = [calls EXCEPT ![c].pc = "transform", ![c].at = now,
                              ![c].cur = rows[calls[c].key], ![c].prev = inUpdate[v]]
    /\ UNCHANGED <<backend, rows, now, cell, clock>>

(* The expiry of what update writes: its own, or what the live row had. *)
KeptExpiry(c) ==
    Coalesce(ExpiryAt(now, Made(c).ttl),
             IF Live(calls[c].cur, calls[c].at) THEN calls[c].cur.expires ELSE Never)

TransformReturns(c, new) ==
    /\ At(c, "transform")
    /\ NestedIn(c) = {}
    /\ inUpdate' = [inUpdate EXCEPT ![VmOf[c]] = calls[c].prev]
    /\ calls' = [calls EXCEPT ![c].pc = "write", ![c].new = Updated(new, KeptExpiry(c))]
    /\ UNCHANGED <<dbVars, now, cell, clock>>

(* Mutant: READ COMMITTED, which writes over any row. *)
ConflictsNever(c) == FALSE

(* Postgres refuses to write over a row that is not the one of the         *)
(* snapshot (40001); SERIALIZABLE refuses more, which is not relied on.    *)
(* So a row that was deleted meanwhile is simply inserted here, and one    *)
(* the snapshot did not have is not deleted.                               *)
Conflicts(c) ==
    LET row == rows[calls[c].key] IN
    /\ backend = "postgres"
    /\ row # NoRow /\ row # calls[c].cur
    /\ ~(calls[c].new = NoRow /\ calls[c].cur = NoRow)

Write(c) ==
    /\ At(c, "write")
    /\ ~Conflicts(c)
    /\ backend = "postgres" => ~Locked(calls[c].key)
    /\ calls' = [calls EXCEPT ![c].pc = "commit"]
    /\ UNCHANGED <<dbVars, now, vmVars>>

Released(c) == IF writer = c THEN None ELSE writer

Commit(c) ==
    /\ At(c, "commit")
    /\ rows' = [rows EXCEPT ![calls[c].key] =
                    IF calls[c].new = NoRow /\ calls[c].cur = NoRow THEN @ ELSE calls[c].new]
    /\ writer' = Released(c)
    /\ End(c)
    /\ UNCHANGED <<backend, now, vmVars>>

(* A transaction that is dropped: the rollback is queued, and done before  *)
(* its connection is used again.                                           *)
Dropped(c) ==
    calls' = [calls EXCEPT ![c] = [Idle EXCEPT !.pc = "rollback", !.key = calls[c].key]]

Rollback(c) ==
    /\ At(c, "rollback")
    /\ writer' = Released(c)
    /\ End(c)
    /\ UNCHANGED <<backend, rows, now, vmVars>>

-----------------------------------------------------------------------------
(* Errors and cancellation. *)

(* The transform raises, or returns what is neither a string nor nil; the  *)
(* statement or the COMMIT fails.                                          *)
UpdateFails(c) ==
    /\ calls[c].pc \in {"transform", "write", "commit"}
    /\ NestedIn(c) = {}
    /\ inUpdate' = [inUpdate EXCEPT ![VmOf[c]] =
                        IF At(c, "transform") THEN calls[c].prev ELSE @]
    /\ Dropped(c)
    /\ UNCHANGED <<dbVars, now, cell, clock>>

(* The database cannot be opened, or it fails the statement. *)
Fails(c) ==
    /\ calls[c].pc \in {"open", "exec", "late", "sweep", "begin"}
    /\ End(c)
    /\ UNCHANGED <<dbVars, now, vmVars>>

(* The call's future is dropped, after those nested in it. *)
Cancel(c) ==
    \/ UpdateFails(c)
    \/ /\ calls[c].pc \in {"open", "begin", "purge", "sweep"}
       /\ End(c)
       /\ UNCHANGED <<dbVars, now, vmVars>>
    \/ /\ At(c, "exec") /\ ~Reads(Made(c))
       /\ calls' = [calls EXCEPT ![c].pc = "late", ![c].inside = None]
       /\ UNCHANGED <<dbVars, now, vmVars>>

Tick ==
    /\ now < MaxNow
    /\ now' = now + 1
    /\ UNCHANGED <<dbVars, vmVars, calls>>

Step(c) ==
    \/ \E k \in Keys, op \in Ops, parent \in Calls \cup {None} : Call(c, k, op, parent)
    \/ Open(c) \/ Execute(c) \/ Busy(c) \/ MaybePurge(c) \/ Sweep(c) \/ Late(c)
    \/ Begin(c) \/ Write(c) \/ Commit(c) \/ Rollback(c)
    \/ \E new \in Blobs \cup {Nil} : TransformReturns(c, new)
    \/ Fails(c) \/ Cancel(c)

KvNext == Tick \/ \E c \in Calls : Step(c)

KvSpec == KvInit /\ [][KvNext]_kvVars

-----------------------------------------------------------------------------
(* update commits over the row its transform was given, or over none at    *)
(* all: what another call wrote meanwhile is never lost (kv.rs:3-4).       *)
UpdateAtomic ==
    [][\A c \in Calls :
          LET k == calls[c].key IN
          (At(c, "commit") /\ rows' # rows /\ calls'[c] # calls[c])
              => rows[k] \in {calls[c].cur, NoRow}]_kvVars

(* A row that can be seen is changed by the calls that are entitled to:    *)
(* never by a sweep, an open, or an add, however old the instant they      *)
(* judge it by.                                                            *)
VisibleRowsStay ==
    [][\A c \in Calls, k \in Keys :
          (calls'[c] # calls[c] /\ rows'[k] # rows[k] /\ Live(rows[k], now))
              => /\ calls[c].pc \in {"exec", "late", "commit"}
                 /\ calls[c].key = k
                 /\ Made(c).call # "add"]_kvVars

(* A call made inside a transform never waits for the lock that its own    *)
(* update holds (kv.rs:50-52).                                             *)
NoSelfWait ==
    \A c \in Calls : (OfKv(c) /\ calls[c].inside # None) => writer # calls[c].inside

(* Every call of a VM that has a pool has the same one, with its one purge *)
(* clock (mod.rs:205-219).                                                 *)
OnePool == \A c \in Calls : calls[c].pool \in {None, cell[VmOf[c]]}

(* The flag is set only while a transform runs: it cannot stay stuck on a  *)
(* pooled VM (kv.rs:64-65).                                                *)
FlagNotStuck ==
    \A v \in Vms : inUpdate[v] => \E c \in Calls : VmOf[c] = v /\ At(c, "transform")
=============================================================================
