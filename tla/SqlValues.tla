----------------------------- MODULE SqlValues -----------------------------
(***************************************************************************)
(* lur.db: how a Lua value is bound to a statement and what a column gives *)
(* back, for SQLite and for Postgres (capabilities/storage/sqlite.rs and   *)
(* postgres.rs).  A number is counted in halves, so an odd one has a       *)
(* fraction; i64 holds the whole numbers from -IMax - 1 to IMax, and a     *)
(* float holds every number here.                                          *)
(***************************************************************************)
EXTENDS Integers, Sequences

CONSTANT IMax   \* the largest value of i64

ASSUME IMaxAssumption == IMax \in Nat

Lua(t, v) == [t |-> t, v |-> v]
NullValue == [t |-> "null", v |-> 0]
Undecoded == [t |-> "raises", v |-> 0]

(* Mutant: the upper bound itself is taken for an integer. *)
WholeUpTo(h) == h % 2 = 0 /\ h >= 2 * (-IMax - 1) /\ h <= 2 * (IMax + 1)

(* n.fract() == 0, and n in range; i64::MAX as a float is IMax + 1. *)
Whole(h) == h % 2 = 0 /\ h >= 2 * (-IMax - 1) /\ h < 2 * (IMax + 1)

(* `n as i64` saturates. *)
AsInt(h) ==
    LET n == h \div 2 IN
    IF n > IMax THEN IMax ELSE IF n < -IMax - 1 THEN -IMax - 1 ELSE n

Bound(t, v) == [type |-> t, v |-> v]

(* bind_one of SQLite.  A string is text if it is UTF-8, a blob if not. *)
LiteBound(x) ==
    CASE x.t \in {"nil", "null"} -> Bound("NULL", 0)
      [] x.t = "bool" -> Bound("INTEGER", IF x.v THEN 1 ELSE 0)
      [] x.t = "int" -> Bound("INTEGER", x.v)
      [] x.t = "num" -> IF Whole(x.v) THEN Bound("INTEGER", AsInt(x.v)) ELSE Bound("REAL", x.v)
      [] x.t = "text" -> Bound("TEXT", x.v)
      [] x.t = "bytes" -> Bound("BLOB", x.v)
      [] OTHER -> Bound("unbindable", 0)

(* bind_one of Postgres. *)
PgBound(x) ==
    CASE x.t \in {"nil", "null"} -> Bound("NULL", 0)
      [] x.t = "bool" -> Bound("BOOL", x.v)
      [] x.t = "int" -> Bound("INT8", x.v)
      [] x.t = "num" -> IF Whole(x.v) THEN Bound("INT8", AsInt(x.v)) ELSE Bound("FLOAT8", x.v)
      [] x.t = "text" -> Bound("TEXT", x.v)
      [] x.t = "bytes" -> Bound("BYTEA", x.v)
      [] OTHER -> Bound("unbindable", 0)

(* read_row of SQLite: what is not a number is its bytes. *)
LiteRead(c) ==
    CASE c.type = "NULL" -> NullValue
      [] c.type = "INTEGER" -> Lua("int", c.v)
      [] c.type = "REAL" -> Lua("num", c.v)
      [] c.type = "TEXT" -> Lua("text", c.v)
      [] c.type = "BLOB" -> Lua("bytes", c.v)
      [] OTHER -> Undecoded

(* read_row of Postgres: only the core types. *)
PgRead(c) ==
    CASE c.type = "NULL" -> NullValue
      [] c.type = "INT8" -> Lua("int", c.v)
      [] c.type = "FLOAT8" -> Lua("num", c.v)
      [] c.type = "TEXT" -> Lua("text", c.v)
      [] c.type = "BYTEA" -> Lua("bytes", c.v)
      [] OTHER -> Undecoded

-----------------------------------------------------------------------------
(* What a script may bind; a text, bytes or what cannot be bound is one of *)
(* as many as there are numbers.                                           *)
LuaValue ==
    [t : {"nil", "null"}, v : {0}]
    \cup [t : {"bool"}, v : BOOLEAN]
    \cup [t : {"int"}, v : -IMax - 1 .. IMax]
    \cup [t : {"num"}, v : Int]
    \cup [t : {"text", "bytes", "other"}, v : Nat]

(* The same value for a script, to which an integer and the float of the   *)
(* same value are one, and the flag a number in SQLite.                    *)
Same(x, y) ==
    CASE x.t \in {"nil", "null"} -> y = NullValue
      [] x.t = "bool" -> y = Lua("int", IF x.v THEN 1 ELSE 0)
      [] x.t \in {"int", "num"} ->
            LET halves(z) == IF z.t = "int" THEN 2 * z.v ELSE z.v IN
            y.t \in {"int", "num"} /\ halves(x) = halves(y)
      [] OTHER -> y = x

(* A parameter read back by `SELECT ?` or `SELECT $1` is the value that    *)
(* was bound, on both backends, up to the edge of the 64 bits; Postgres    *)
(* may refuse to read a type, but never changes it (sqlite.rs:164-199,     *)
(* postgres.rs:55-128).                                                    *)
ReadsBack(x) ==
    /\ x.t # "other" => Same(x, LiteRead(LiteBound(x)))
    /\ PgRead(PgBound(x)) = Undecoded \/ Same(x, PgRead(PgBound(x)))
=============================================================================
