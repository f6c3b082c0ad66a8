------------------------------ MODULE Validate ------------------------------
(***************************************************************************)
(* lur.validate (capabilities/validate.rs): what a schema makes of a       *)
(* value.  Schemas are built from the leaves up, so everything that walks  *)
(* down one is a function of its height and then of the node.  A value is  *)
(* what the checks tell apart: a string has a length, the number or        *)
(* boolean it spells and the patterns that find it; a number is its count  *)
(* of halves; a table has an array part and keys, NilV where it has none.  *)
(* An issue is the path it is at.  A validator function is what it does:   *)
(* fail, return its argument or return nil.                                *)
(***************************************************************************)
EXTENDS Integers, Sequences, Listing

CONSTANTS
    None,          \* an option that is not given
    MAX_DEPTH, MAX_ISSUES, MAX_SAFE_INT,
    MAX_INT,       \* the largest i64
    MAX_NEST,      \* how deep the tables of a value nest
    Patterns,
    KeyOrder       \* the keys of tables, in the order pairs walks them

ASSUME LimitsAssumption ==
    {MAX_DEPTH, MAX_ISSUES, MAX_SAFE_INT, MAX_INT, MAX_NEST} \subseteq Nat
ASSUME KeyOrderAssumption == KeyOrder \in Seq(STRING)

Names == {KeyOrder[i] : i \in 1 .. Len(KeyOrder)}

-----------------------------------------------------------------------------
(* Values of Lua. *)
NilV == [t |-> "nil"]
NullV == [t |-> "null"]
Unbounded == [t |-> "inf"]   \* an infinity, or not a number
Num(h) == [t |-> "num", h |-> h]
Digits(h) == [t |-> "digits", h |-> h]
Tab(seq, keys) == [t |-> "table", seq |-> seq, keys |-> keys]
NoKeys == [k \in Names |-> NilV]

Even(h) == h % 2 = 0
IsSafe(h) == h \in -2 * MAX_SAFE_INT .. 2 * MAX_SAFE_INT
SafeInts == {h \in Int : Even(h) /\ IsSafe(h)}

Numbers == [t : {"num"}, h : Int]
Booleans == [t : {"bool"}, b : BOOLEAN]
Spelled == {NilV} \cup Numbers \cup Booleans \cup {d \in [t : {"digits"}, h : Int] : Even(d.h)}
Strings == [t : {"str"}, len : Nat, spells : Spelled, finds : SUBSET Patterns]
Scalars == {NilV, NullV, Unbounded} \cup Numbers \cup Booleans \cup Strings

Tables(S) == [t : {"table"}, seq : Seq(S \ {NilV}), keys : [Names -> S]]

Values[d \in 0 .. MAX_NEST] == IF d = 0 THEN Scalars ELSE Scalars \cup Tables(Values[d - 1])

Value == Values[MAX_NEST]

IsEmptyStr(v) == v.t = "str" /\ v.len = 0

-----------------------------------------------------------------------------
(* The schemas of each height that the constructors accept.  A default is  *)
(* not held against the bounds.  An optional node holds, beside its inner  *)
(* one, the node under all its optionals.                                  *)
Opt(S) == S \cup {None}
Counts == Opt(Nat)

(* range_check of the two bounds of a constructor. *)
InOrder(lo, hi) == lo = None \/ hi = None \/ lo <= hi

StrNode ==
    {n \in [k : {"str"}, min_len : Counts, max_len : Counts, pattern : Opt(Patterns), default : Opt(Strings)] :
        InOrder(n.min_len, n.max_len)}
NumberNode ==
    {n \in [k : {"number"}, min : Opt(Int), max : Opt(Int), default : Opt(Numbers), clamp : BOOLEAN] :
        InOrder(n.min, n.max)}
IntNode ==
    {n \in [k : {"int"}, min : Opt(SafeInts), max : Opt(SafeInts), default : Opt([t : {"num"}, h : SafeInts]),
            clamp : BOOLEAN] :
        InOrder(n.min, n.max)}
BoolNode == [k : {"bool"}, default : Opt(Booleans)]
OneOfNode == [k : {"one_of"}, options : (SUBSET (Numbers \cup Booleans \cup Strings)) \ {{}}]
FuncNode == [k : {"func"}, does : {"fail", "keep", "drop"}]

Bare(n) == IF n.k = "optional" THEN n.bare ELSE n

OptionalNode(S) == {n \in [k : {"optional"}, inner : S, bare : S] : n.bare = Bare(n.inner)}
ListNode(S) ==
    {n \in [k : {"list"}, item : S, min_items : Counts, max_items : Counts] : InOrder(n.min_items, n.max_items)}
ObjectNode(S) ==
    {n \in [k : {"object"}, fields : Seq([name : Names, node : S]), strict : BOOLEAN] :
        \A i, j \in 1 .. Len(n.fields) : n.fields[i].name = n.fields[j].name => i = j}

Leaf == StrNode \cup NumberNode \cup IntNode \cup BoolNode \cup OneOfNode \cup FuncNode

Built[h \in 0 .. MAX_DEPTH] ==
    IF h = 0
    THEN {}
    ELSE Leaf \cup OptionalNode(Built[h - 1]) \cup ListNode(Built[h - 1]) \cup ObjectNode(Built[h - 1])

(* schema() lets a node through, and those it is built from. *)
Constructs(n) == n \in Built[MAX_DEPTH]

HasDefault(n) == Bare(n).k \in {"str", "int", "number", "bool"} /\ Bare(n).default # None

IsMissing(n, v) == v = NilV \/ (IsEmptyStr(v) /\ Bare(n).k \in {"int", "number", "bool"})

OptionalSkips(inner, v) ==
    (IsMissing(inner, v) /\ ~HasDefault(inner)) \/ (v = NilV /\ inner.k = "func")

AbsentIfNull(n, v) == IF v = NullV /\ Bare(n).k # "func" THEN NilV ELSE v

-----------------------------------------------------------------------------
(* The context.  A check answers with the context it leaves and what it    *)
(* makes of the value.                                                     *)
Bad == [t |-> "bad"]   \* issues were recorded

Path == Seq([key : Names] \cup [index : Nat])
Context == [issues : Seq(Path), truncated : BOOLEAN]
Start == [issues |-> <<>>, truncated |-> FALSE]

(* Mutant: the flag is not raised when the list of issues is full. *)
FailQuietly(cx, path) ==
    IF Len(cx.issues) >= MAX_ISSUES THEN cx ELSE [cx EXCEPT !.issues = Append(@, path)]

fail(cx, path) ==
    IF Len(cx.issues) >= MAX_ISSUES
    THEN [cx EXCEPT !.truncated = TRUE]
    ELSE [cx EXCEPT !.issues = Append(@, path)]

FailIf(wrong, cx, path) == IF wrong THEN fail(cx, path) ELSE cx

Passing(cx, v) == [cx |-> cx, out |-> v]
Failing(cx, path) == [cx |-> fail(cx, path), out |-> Bad]

(* Nothing was recorded since before. *)
Clean(cx, before) == Len(cx.issues) = Len(before.issues) /\ ~cx.truncated

-----------------------------------------------------------------------------
(* The scalar checks: x is the context, the node, the value, its path and  *)
(* its depth.                                                              *)
DefaultOrRequired(x) ==
    IF x.node.default # None THEN Passing(x.cx, x.node.default) ELSE Failing(x.cx, x.path)

TooShort(n, v) == n.min_len # None /\ v.len < n.min_len
TooLong(n, v) == n.max_len # None /\ v.len > n.max_len
Misformed(n, v) == n.pattern # None /\ n.pattern \notin v.finds

check_str(x) ==
    LET n == x.node
        v == x.value
        short == FailIf(TooShort(n, v), x.cx, x.path)
        long == FailIf(TooLong(n, v), short, x.path)
        misformed == FailIf(Misformed(n, v), long, x.path) IN
    IF v = NilV THEN DefaultOrRequired(x)
    ELSE IF v.t # "str" THEN Failing(x.cx, x.path)
    ELSE [cx |-> misformed, out |-> IF TooShort(n, v) \/ TooLong(n, v) \/ Misformed(n, v) THEN Bad ELSE v]

(* The least i64, which abs() leaves as it is in a release build. *)
LeastInt == 2 * (-MAX_INT - 1)

(* A number from digits fits an i64, and its abs() is safe. *)
DigitsFit(h) == h \in LeastInt .. 2 * MAX_INT /\ (h = LeastInt \/ IsSafe(h))

(* parse_int_value, and the parsing of check_number: the halves or None. *)
ReadInt(v) ==
    CASE v.t = "str" -> IF v.spells.t = "digits" /\ DigitsFit(v.spells.h) THEN v.spells.h ELSE None
      [] v.t = "num" -> IF Even(v.h) /\ IsSafe(v.h) THEN v.h ELSE None
      [] OTHER -> None

ReadNumber(v) ==
    CASE v.t = "str" -> IF v.spells.t \in {"digits", "num"} THEN v.spells.h ELSE None
      [] v.t = "num" -> v.h
      [] OTHER -> None

Read(n, v) == IF n.k = "int" THEN ReadInt(v) ELSE ReadNumber(v)

Under(n, h) == n.min # None /\ h < n.min
Over(n, h) == n.max # None /\ h > n.max

(* apply_bounds with clamp: min, then max. *)
Raised(n, h) == IF Under(n, h) THEN n.min ELSE h
Clamped(n, h) == IF Over(n, Raised(n, h)) THEN n.max ELSE Raised(n, h)

check_number(x) ==
    LET h == Read(x.node, x.value) IN
    IF x.value = NilV \/ IsEmptyStr(x.value) THEN DefaultOrRequired(x)
    ELSE IF h = None THEN Failing(x.cx, x.path)
    ELSE IF x.node.clamp THEN Passing(x.cx, Num(Clamped(x.node, h)))
    ELSE IF Under(x.node, h) \/ Over(x.node, h) THEN Failing(x.cx, x.path)
    ELSE Passing(x.cx, Num(h))

check_bool(x) ==
    LET v == x.value IN
    IF v = NilV \/ IsEmptyStr(v) THEN DefaultOrRequired(x)
    ELSE IF v.t = "bool" THEN Passing(x.cx, v)
    ELSE IF v.t = "str" /\ v.spells.t = "bool" THEN Passing(x.cx, v.spells)
    ELSE Failing(x.cx, x.path)

check_one_of(x) ==
    IF x.value \in x.node.options THEN Passing(x.cx, x.value) ELSE Failing(x.cx, x.path)

check_func(x) ==
    CASE x.node.does = "fail" -> Failing(x.cx, x.path)
      [] x.node.does = "keep" -> Passing(x.cx, x.value)
      [] x.node.does = "drop" -> Passing(x.cx, NilV)

-----------------------------------------------------------------------------
(* list_items: whether the elements are checked at all. *)
ListFits(n, v) ==
    /\ v.t = "table" /\ v.keys = NoKeys
    /\ n.min_items # None => Len(v.seq) >= n.min_items
    /\ n.max_items # None => Len(v.seq) <= n.max_items

(* The parts a list or an object has its children check. *)
Part(step, node, value) == [step |-> step, node |-> node, value |-> value]
Items(n, v) == [i \in 1 .. Len(v.seq) |-> Part([index |-> i], n.item, v.seq[i])]
Fields(n, v) ==
    [i \in 1 .. Len(n.fields) |->
        LET f == n.fields[i] IN Part([key |-> f.name], f.node, AbsentIfNull(f.node, v.keys[f.name]))]

(* One turn of their loops, s being what the turns before have left and    *)
(* sub the checks of the height below.                                     *)
Visit(sub, s, x, part) ==
    IF s.cx.truncated
    THEN s
    ELSE LET r == sub[[cx |-> s.cx, node |-> part.node, value |-> part.value,
                       path |-> Append(x.path, part.step), depth |-> x.depth + 1]] IN
         [cx |-> r.cx, outs |-> Append(s.outs, r.out)]

Each(sub, x, parts) ==
    LET turns[i \in 0 .. Len(parts)] ==
            IF i = 0 THEN [cx |-> x.cx, outs |-> <<>>] ELSE Visit(sub, turns[i - 1], x, parts[i])
    IN  turns[Len(parts)]

check_list(sub, x) ==
    LET end == Each(sub, x, Items(x.node, x.value)) IN
    IF ~ListFits(x.node, x.value) THEN Failing(x.cx, x.path)
    ELSE IF Clean(end.cx, x.cx) THEN Passing(end.cx, Tab(Unlisted(end.outs, {Bad, NilV}), NoKeys))
    ELSE [cx |-> end.cx, out |-> Bad]

(* The paths reject_unknown_keys fails: the array part, then the keys. *)
FieldNames(n) == {n.fields[i].name : i \in 1 .. Len(n.fields)}
UnknownKeys(n, v) ==
    LET known == {k \in Names : k \in FieldNames(n) \/ v.keys[k] = NilV}
        keys == Unlisted(KeyOrder, known) IN
    [i \in 1 .. Len(v.seq) |-> [index |-> i]] \o [i \in 1 .. Len(keys) |-> [key |-> keys[i]]]

FailNext(cx, path) == IF cx.truncated THEN cx ELSE fail(cx, path)

reject_unknown_keys(cx, path, keys) ==
    LET turns[i \in 0 .. Len(keys)] ==
            IF i = 0 THEN cx ELSE FailNext(turns[i - 1], Append(path, keys[i]))
    IN  turns[Len(keys)]

(* What the fields come to, under their names. *)
Named(fields, outs) ==
    [k \in Names |->
        IF \E i \in 1 .. Len(fields) : fields[i].name = k
        THEN outs[CHOOSE i \in 1 .. Len(fields) : fields[i].name = k]
        ELSE NilV]

check_object(sub, x) ==
    LET n == x.node
        end == Each(sub, x, Fields(n, x.value))
        last == IF n.strict THEN reject_unknown_keys(end.cx, x.path, UnknownKeys(n, x.value)) ELSE end.cx IN
    IF x.value.t # "table" THEN Failing(x.cx, x.path)
    ELSE IF Clean(last, x.cx) THEN Passing(last, Tab(<<>>, Named(n.fields, end.outs)))
    ELSE [cx |-> last, out |-> Bad]

check_optional(sub, x) ==
    IF OptionalSkips(x.node.inner, x.value)
    THEN Passing(x.cx, NilV)
    ELSE sub[[x EXCEPT !.node = x.node.inner]]

Checked(sub, x) ==
    LET k == x.node.k IN
    IF x.depth > MAX_DEPTH
    THEN Failing(x.cx, x.path)
    ELSE CASE k = "func" -> check_func(x)
           [] k = "optional" -> check_optional(sub, x)
           [] k = "str" -> check_str(x)
           [] k \in {"int", "number"} -> check_number(x)
           [] k = "bool" -> check_bool(x)
           [] k = "one_of" -> check_one_of(x)
           [] k = "list" -> check_list(sub, x)
           [] k = "object" -> check_object(sub, x)

Call(h) == [cx : Context, node : Built[h], value : Value, path : Path, depth : Nat]

(* The checks of the nodes of each height, by those of the height below. *)
check[h \in 0 .. MAX_DEPTH] ==
    IF h = 0 THEN <<>> ELSE [x \in Call(h) |-> Checked(check[h - 1], x)]

(* lur.validate.try: parse raises what try returns as an error. *)
try(n, v) ==
    LET r == check[MAX_DEPTH][[cx |-> Start, node |-> n, value |-> AbsentIfNull(n, v), path |-> <<>>, depth |-> 0]] IN
    [ok |-> r.out # Bad /\ r.cx.issues = <<>>, value |-> r.out,
     issues |-> r.cx.issues, truncated |-> r.cx.truncated]

-----------------------------------------------------------------------------
(* What is wrong with a value, part by part and with no context: as many   *)
(* paths as the code has issues to tell of.                                *)
Times(wrong, path) == IF wrong THEN <<path>> ELSE <<>>

Absent(n, v) == v = NilV \/ (n.k \in {"int", "number", "bool"} /\ IsEmptyStr(v))

NoNumber(n, v) ==
    LET h == Read(n, v) IN h = None \/ (~n.clamp /\ (Under(n, h) \/ Over(n, h)))

NoBoolean(v) == v.t # "bool" /\ (v.t = "str" => v.spells.t # "bool")

LeafFaults(n, v, path) ==
    CASE n.k = "func" -> Times(n.does = "fail", path)
      [] n.k = "one_of" -> Times(v \notin n.options, path)
      [] n.k \in {"str", "int", "number", "bool"} /\ Absent(n, v) -> Times(n.default = None, path)
      [] n.k = "str" /\ ~Absent(n, v) ->
            IF v.t # "str"
            THEN <<path>>
            ELSE Times(TooShort(n, v), path) \o Times(TooLong(n, v), path) \o Times(Misformed(n, v), path)
      [] n.k \in {"int", "number"} /\ ~Absent(n, v) -> Times(NoNumber(n, v), path)
      [] n.k = "bool" /\ ~Absent(n, v) -> Times(NoBoolean(v), path)

(* The faults of the parts, one part after the other. *)
FaultsOf(sub, parts, path) ==
    LET told[i \in 0 .. Len(parts)] ==
            IF i = 0
            THEN <<>>
            ELSE told[i - 1] \o sub[[node |-> parts[i].node, value |-> parts[i].value,
                                     path |-> Append(path, parts[i].step)]]
    IN  told[Len(parts)]

UnknownFaults(n, v, path) ==
    LET keys == UnknownKeys(n, v) IN
    IF n.strict THEN [i \in 1 .. Len(keys) |-> Append(path, keys[i])] ELSE <<>>

NodeFaults(sub, n, v, path) ==
    CASE n.k = "optional" ->
            IF v = NilV \/ (Absent(n.bare, v) /\ ~HasDefault(n))
            THEN <<>>
            ELSE sub[[node |-> n.inner, value |-> v, path |-> path]]
      [] n.k = "list" ->
            IF ~ListFits(n, v) THEN <<path>> ELSE FaultsOf(sub, Items(n, v), path)
      [] n.k = "object" ->
            IF v.t # "table"
            THEN <<path>>
            ELSE FaultsOf(sub, Fields(n, v), path) \o UnknownFaults(n, v, path)
      [] OTHER -> LeafFaults(n, v, path)

Faults[h \in 0 .. MAX_DEPTH] ==
    IF h = 0
    THEN <<>>
    ELSE [y \in [node : Built[h], value : Value, path : Path] |->
             NodeFaults(Faults[h - 1], y.node, y.value, y.path)]

(* try succeeds exactly on the values nothing is wrong with; otherwise it  *)
(* tells of every fault up to MAX_ISSUES and says when there were more,    *)
(* and a schema the constructors accept is never found too deep            *)
(* (validate.rs:9-17).                                                     *)
EveryFaultTold(n, v) ==
    LET faults == Faults[MAX_DEPTH][[node |-> n, value |-> AbsentIfNull(n, v), path |-> <<>>]]
        told == IF Len(faults) > MAX_ISSUES THEN MAX_ISSUES ELSE Len(faults)
        r == try(n, v) IN
    /\ r.ok = (faults = <<>>)
    /\ r.issues = SubSeq(faults, 1, told)
    /\ r.truncated = (Len(faults) > MAX_ISSUES)

(* What a node says of a value that passes it.  An int is within 2^53, but *)
(* for the one text that abs() leaves negative.                            *)
StrMeets(n, v) == v.t = "str" /\ ~TooShort(n, v) /\ ~TooLong(n, v) /\ ~Misformed(n, v)

NumberMeets(n, v) ==
    /\ v.t = "num" /\ ~Under(n, v.h) /\ ~Over(n, v.h)
    /\ n.k = "int" => v.h \in SafeInts \cup {LeastInt}

NodeMeets(sub, n, v) ==
    CASE n.k = "func" -> TRUE
      [] n.k = "optional" -> v = NilV \/ sub[[node |-> n.inner, value |-> v]]
      [] n.k = "str" -> v = n.default \/ StrMeets(n, v)
      [] n.k \in {"int", "number"} -> v = n.default \/ NumberMeets(n, v)
      [] n.k = "bool" -> v = n.default \/ v.t = "bool"
      [] n.k = "one_of" -> v \in n.options
      [] n.k = "list" ->
            /\ v.t = "table" /\ v.keys = NoKeys
            /\ n.max_items # None => Len(v.seq) <= n.max_items
            /\ \A i \in 1 .. Len(v.seq) : sub[[node |-> n.item, value |-> v.seq[i]]]
      [] n.k = "object" ->
            /\ v.t = "table" /\ v.seq = <<>>
            /\ \A k \in Names \ FieldNames(n) : v.keys[k] = NilV
            /\ \A i \in 1 .. Len(n.fields) :
                  sub[[node |-> n.fields[i].node, value |-> v.keys[n.fields[i].name]]]

Meets[h \in 0 .. MAX_DEPTH] ==
    IF h = 0
    THEN <<>>
    ELSE [y \in [node : Built[h], value : Value] |-> NodeMeets(Meets[h - 1], y.node, y.value)]

(* What a successful try returns meets the schema: each part is within its *)
(* bounds or is the default, a required field is there, and no field the   *)
(* schema does not name is left (validate.rs:9-13).                        *)
ResultMeetsSchema(n, v) == try(n, v).ok => Meets[MAX_DEPTH][[node |-> n, value |-> try(n, v).value]]
=============================================================================
