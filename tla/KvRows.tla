------------------------------- MODULE KvRows -------------------------------
(***************************************************************************)
(* What each lur.kv statement does to the row of its key, on SQLite        *)
(* (storage/sqlite.rs) and on Postgres (storage/postgres.rs), and what the *)
(* caller gets.  SQLite keeps bytes and counters in one column and tells   *)
(* them by the type of the value; Postgres keeps them in two columns and   *)
(* tells them by kind.                                                     *)
(*                                                                         *)
(* A statement is a function of the row, of its arguments and of the       *)
(* instant its caller read before it was sent.  A number among bytes       *)
(* stands for its decimal text.                                            *)
(***************************************************************************)
EXTENDS Integers

CONSTANTS
    Blobs,            \* values that are not the text of a number
    Real,             \* any floating-point number
    Nil,              \* no value, in Lua
    Null,             \* no value, in a column
    NoRow,            \* no row
    Never,            \* no expiry
    MinNum, MaxNum,   \* the range of a counter (an i64)
    MaxTime           \* the last instant an i64 can name

ASSUME SentinelAssumption ==
    /\ {Real, Nil, Null, NoRow, Never} \cap (Blobs \cup Int) = {}
    /\ Blobs \cap Int = {}
    /\ Real # Nil /\ Real # Null /\ Nil # Null
ASSUME WidthAssumption == MinNum \in Int /\ MaxNum \in Int /\ MaxTime \in Nat
ASSUME ZeroAssumption == MinNum <= 0 /\ 0 <= MaxNum

Expiry == Nat \cup {Never}
Nums == MinNum .. MaxNum

LiteRow == [type : {"blob"}, value : Blobs \cup Nums, expires : Expiry]
           \cup [type : {"integer"}, value : Nums, expires : Expiry]
           \cup [type : {"real"}, value : {Real}, expires : Expiry]
PgRow == [kind : {0}, bytes : Blobs \cup Nums, num : {Null}, expires : Expiry]
         \cup [kind : {1}, bytes : {Null}, num : Nums, expires : Expiry]

ASSUME RowAssumption == NoRow \notin LiteRow \cup PgRow

(* A call: ttl = 0 is none given, and only one that is positive is taken.  *)
Op(call, val, expected, delta, ttl, renew) ==
    [call |-> call, val |-> val, expected |-> expected,
     delta |-> delta, ttl |-> ttl, renew |-> renew]

(* What a statement leaves, and what its caller gets. *)
Did(row, out) == [row |-> row, out |-> out]

(* expiry_at: saturating. *)
ExpiryAt(at, ttl) ==
    IF ttl = 0 THEN Never ELSE IF at + ttl > MaxTime THEN MaxTime ELSE at + ttl

Coalesce(e, f) == IF e # Never THEN e ELSE f

(* WHERE expires_at IS NOT NULL AND expires_at <= at, and its opposite. *)
Expired(row, at) == row # NoRow /\ row.expires # Never /\ row.expires <= at
Live(row, at) == row # NoRow /\ ~Expired(row, at)

(* The CASE of kv_incr: an expired row starts anew; the window a live one  *)
(* has is kept unless renew is given, or it has none.                      *)
IncrExpiry(row, op, at) ==
    LET asked == ExpiryAt(at, op.ttl) IN
    CASE ~Live(row, at) -> asked
      [] Live(row, at) /\ (op.renew \/ row.expires = Never) -> Coalesce(asked, row.expires)
      [] OTHER -> row.expires

-----------------------------------------------------------------------------
(* SQLite *)

LiteText(row, at) == IF Live(row, at) THEN row.value ELSE Nil

LiteStored(v, e) == [type |-> "blob", value |-> v, expires |-> e]

LiteSet(row, op, at) == Did(LiteStored(op.val, ExpiryAt(at, op.ttl)), TRUE)

LiteInsertAbsent(row, op, at) ==
    IF Live(row, at)
    THEN Did(row, FALSE)
    ELSE Did(LiteStored(op.val, ExpiryAt(at, op.ttl)), TRUE)

(* Mutant: a counter is equal to its decimal text. *)
LiteHoldsText(row, op, at) == Live(row, at) /\ row.value = op.expected

(* What is expected is bound as a BLOB, and no INTEGER or REAL is equal to one. *)
LiteHolds(row, op, at) ==
    Live(row, at) /\ row.type = "blob" /\ row.value = op.expected

LiteCasReplace(row, op, at) ==
    IF LiteHolds(row, op, at)
    THEN Did(LiteStored(op.val, Coalesce(ExpiryAt(at, op.ttl), row.expires)), TRUE)
    ELSE Did(row, FALSE)

LiteCasDelete(row, op, at) ==
    IF LiteHolds(row, op, at) THEN Did(NoRow, TRUE) ELSE Did(row, FALSE)

LiteCas(row, op, at) ==
    CASE op.expected = Nil /\ op.val = Nil -> Did(row, ~Live(row, at))
      [] op.expected = Nil /\ op.val # Nil -> LiteInsertAbsent(row, op, at)
      [] op.expected # Nil /\ op.val # Nil -> LiteCasReplace(row, op, at)
      [] op.expected # Nil /\ op.val = Nil -> LiteCasDelete(row, op, at)

(* A sum that no i64 holds is stored as a float, which is then not decoded. *)
LiteIncr(row, op, at) ==
    LET e == IncrExpiry(row, op, at)
        counter(n) == Did([type |-> "integer", value |-> n, expires |-> e], n)
    IN  CASE ~Live(row, at) -> counter(op.delta)
          [] Live(row, at) /\ row.type # "integer" -> Did(row, Nil)
          [] Live(row, at) /\ row.type = "integer" /\ row.value + op.delta \in Nums ->
                counter(row.value + op.delta)
          [] OTHER -> Did([type |-> "real", value |-> Real, expires |-> e], Nil)

LiteExpire(row, op, at) ==
    IF Live(row, at)
    THEN Did([row EXCEPT !.expires = ExpiryAt(at, op.ttl)], TRUE)
    ELSE Did(row, FALSE)

(* nil, false; nil, true; or ms, true. *)
LiteTtl(row, at) ==
    CASE ~Live(row, at) -> Nil
      [] Live(row, at) /\ row.expires = Never -> Never
      [] OTHER -> row.expires - at

LiteStatement(row, op, at) ==
    CASE op.call = "get" -> Did(row, LiteText(row, at))
      [] op.call = "set" -> LiteSet(row, op, at)
      [] op.call = "delete" -> Did(NoRow, TRUE)
      [] op.call = "add" -> LiteInsertAbsent(row, op, at)
      [] op.call = "cas" -> LiteCas(row, op, at)
      [] op.call = "incr" -> LiteIncr(row, op, at)
      [] op.call = "expire" -> LiteExpire(row, op, at)
      [] op.call = "ttl" -> Did(row, LiteTtl(row, at))

(* write_updated, with what the transform returned. *)
LiteUpdated(new, e) == IF new = Nil THEN NoRow ELSE LiteStored(new, e)

-----------------------------------------------------------------------------
(* Postgres *)

(* kv_row_to_bytes *)
PgText(row, at) ==
    CASE ~Live(row, at) -> Nil
      [] Live(row, at) /\ row.kind = 1 -> row.num
      [] OTHER -> row.bytes

PgStored(v, e) == [kind |-> 0, bytes |-> v, num |-> Null, expires |-> e]
PgCounter(n, e) == [kind |-> 1, bytes |-> Null, num |-> n, expires |-> e]

PgSet(row, op, at) == Did(PgStored(op.val, ExpiryAt(at, op.ttl)), TRUE)

PgInsertAbsent(row, op, at) ==
    IF Live(row, at)
    THEN Did(row, FALSE)
    ELSE Did(PgStored(op.val, ExpiryAt(at, op.ttl)), TRUE)

PgHolds(row, op, at) == Live(row, at) /\ row.kind = 0 /\ row.bytes = op.expected

PgCasReplace(row, op, at) ==
    IF PgHolds(row, op, at)
    THEN Did(PgStored(op.val, Coalesce(ExpiryAt(at, op.ttl), row.expires)), TRUE)
    ELSE Did(row, FALSE)

PgCasDelete(row, op, at) ==
    IF PgHolds(row, op, at) THEN Did(NoRow, TRUE) ELSE Did(row, FALSE)

PgCas(row, op, at) ==
    CASE op.expected = Nil /\ op.val = Nil -> Did(row, ~Live(row, at))
      [] op.expected = Nil /\ op.val # Nil -> PgInsertAbsent(row, op, at)
      [] op.expected # Nil /\ op.val # Nil -> PgCasReplace(row, op, at)
      [] op.expected # Nil /\ op.val = Nil -> PgCasDelete(row, op, at)

PgIncrExpiry(row, op, at) ==
    LET asked == ExpiryAt(at, op.ttl) IN
    CASE ~Live(row, at) -> asked
      [] Live(row, at) /\ (op.renew \/ row.expires = Never) -> Coalesce(asked, row.expires)
      [] OTHER -> row.expires

(* A sum that no BIGINT holds fails the statement. *)
PgIncr(row, op, at) ==
    LET e == PgIncrExpiry(row, op, at) IN
    CASE ~Live(row, at) -> Did(PgCounter(op.delta, e), op.delta)
      [] Live(row, at) /\ row.kind = 1 /\ row.num + op.delta \in Nums ->
            Did(PgCounter(row.num + op.delta, e), row.num + op.delta)
      [] OTHER -> Did(row, Nil)

PgExpire(row, op, at) ==
    IF Live(row, at)
    THEN Did([row EXCEPT !.expires = ExpiryAt(at, op.ttl)], TRUE)
    ELSE Did(row, FALSE)

PgTtl(row, at) ==
    CASE ~Live(row, at) -> Nil
      [] Live(row, at) /\ row.expires = Never -> Never
      [] OTHER -> row.expires - at

PgStatement(row, op, at) ==
    CASE op.call = "get" -> Did(row, PgText(row, at))
      [] op.call = "set" -> PgSet(row, op, at)
      [] op.call = "delete" -> Did(NoRow, TRUE)
      [] op.call = "add" -> PgInsertAbsent(row, op, at)
      [] op.call = "cas" -> PgCas(row, op, at)
      [] op.call = "incr" -> PgIncr(row, op, at)
      [] op.call = "expire" -> PgExpire(row, op, at)
      [] op.call = "ttl" -> Did(row, PgTtl(row, at))

PgUpdated(new, e) == IF new = Nil THEN NoRow ELSE PgStored(new, e)

-----------------------------------------------------------------------------
(* A SQLite row, as Postgres keeps it. *)
Moved(row) ==
    CASE row = NoRow -> NoRow
      [] row # NoRow /\ row.type = "integer" -> PgCounter(row.value, row.expires)
      [] OTHER -> PgStored(row.value, row.expires)

(* A row both backends can keep, and a call as kv.rs makes it. *)
SharedRow == {NoRow} \cup {r \in LiteRow : r.type # "real"}
CallArgs ==
    [call : {"get", "set", "delete", "add", "cas", "incr", "expire", "ttl"},
     val : Blobs \cup Nums \cup {Nil}, expected : Blobs \cup Nums \cup {Nil},
     delta : Nums, ttl : Nat, renew : BOOLEAN]
Given == {op \in CallArgs : op.call \in {"set", "add"} => op.val # Nil}

(* The sum a counter cannot hold: the one place where the backends differ. *)
Overflows(row, op, at) ==
    /\ op.call = "incr"
    /\ Live(row, at)
    /\ row.type = "integer"
    /\ row.value + op.delta \notin Nums

(* One program may run on either backend, and a store may be moved from    *)
(* one to the other by reading through the first and writing through the   *)
(* second (kv.rs:7-9, storage/mod.rs): on the same row, with the same      *)
(* clock, a call leaves the same row and returns the same on both.         *)
SameOnBoth(row, op, at) ==
    ~Overflows(row, op, at) =>
        LET lite == LiteStatement(row, op, at)
            pg == PgStatement(Moved(row), op, at)
        IN  Moved(lite.row) = pg.row /\ lite.out = pg.out
=============================================================================
