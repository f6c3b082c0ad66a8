------------------------------- MODULE MCPure -------------------------------
(* The sequential algorithms over every case of a bounded size.            *)
EXTENDS Algorithms

CONSTANTS b1

Words(n, S) == UNION {[1 .. k -> S] : k \in 0 .. n}

(* Three registrations; the requests are quantified over in the property. *)
Routes ==
    LET patterns == {p \in Words(2, {"a", "param", "optional"}) : Parses(p)} IN
    [1 .. 3 -> [method : {"ANY", "GET"}, pattern : patterns]]

Olds == [1 .. 2 -> Words(2, {1, 2})] \cup [1 .. 3 -> Words(1, {1, 2}) \cup {<<1, 2>>}]

Replacements ==
    {[olds |-> o, news |-> SubSeq(<<<<3>>, <<4>>, <<5>>>>, 1, Len(o)), mode |-> m, text |-> t] :
        o \in Olds, m \in {"first", "longest"}, t \in Words(3, {1, 2})}

(* A body with what a handler does to it, and fields with list fields. *)
Reads == {[call |-> "rest"], [call |-> "whole"]} \cup [call : {"some"}, n : 0 .. 3]
Bodies == [body : {SubSeq(<<1, 2, 3, 4>>, 1, n) : n \in 0 .. 4}, ops : Words(4, Reads)]
Queries == [pairs : Words(4, {"p", "q"} \X {"u", "w"}), lists : SUBSET {"p", "q", "r"}]

Octet == {0, 1, 10, 15, 16, 17, 18, 19, 20, 31, 32, 63, 64, 100, 127, 128, 168, 169, 172, 192,
          198, 223, 224, 240, 254, 255}

V4 == {<<a, b, c, 1>> : a \in Octet, b \in Octet, c \in {0, 1, 255}}

(* 100 is 0064, 65435 ff9b, 8194 2002; the others are at an edge of a range. *)
Heads == {0, 1, 100, 8194, 64511, 64512, 65023, 65024, 65151, 65152, 65215, 65216, 65279, 65280, 65535}
Embedded == {0, 1, 2560, 2561, 32513, 43518, 49320, 51218, 57344}

V6 ==
    {<<h, s, t, 0, 0, m, hi, lo>> :
        h \in Heads, s \in Embedded \cup {65435}, t \in {0, 1}, m \in {0, 65535}, hi \in Embedded, lo \in {0, 1}}

LuaValues ==
    {Lua("nil", 0), Lua("null", 0), Lua("other", 0),
     Lua("text", 1), Lua("bytes", 1), Lua("bool", TRUE), Lua("bool", FALSE)}
    \cup {Lua("int", n) : n \in -4 .. 3} \cup {Lua("num", h) : h \in -12 .. 12}

KvOps ==
    {Op(call, val, expected, delta, ttl, renew) :
        call \in {"get", "set", "delete", "add", "cas", "incr", "expire", "ttl"},
        val \in {b1, Nil}, expected \in {Nil, b1, 0, 1}, delta \in -1 .. 1, ttl \in 0 .. 2, renew \in BOOLEAN}

Expiries == 0 .. 3 \cup {Never}

Rows ==
    {NoRow} \cup [type : {"blob"}, value : {b1, 0, 1}, expires : Expiries]
    \cup [type : {"integer"}, value : -1 .. 1, expires : Expiries]

Statements ==
    [row : Rows, op : {o \in KvOps : o.call \in {"set", "add", "expire"} => o.val # Nil}, at : 0 .. 3]

-----------------------------------------------------------------------------
(* Schemas and the values given to them; numbers are in halves. *)
Text(len, spells, found) == [t |-> "str", len |-> len, spells |-> spells, finds |-> IF found THEN {"p"} ELSE {}]
Yes == [t |-> "bool", b |-> TRUE]

Limits == {<<None, None>>, <<1, None>>, <<None, 2>>, <<1, 2>>}
Halves == {<<None, None>>, <<2, None>>, <<None, 4>>, <<2, 4>>}

LeafNodes ==
    {[k |-> "str", min_len |-> b[1], max_len |-> b[2], pattern |-> p, default |-> d] :
        b \in Limits, p \in {None, "p"}, d \in {None, Text(3, NilV, FALSE)}}
    \cup {[k |-> t, min |-> b[1], max |-> b[2], default |-> d, clamp |-> c] :
        t \in {"int", "number"}, b \in Halves, d \in {None, Num(0)}, c \in BOOLEAN}
    \cup {[k |-> "bool", default |-> d] : d \in {None, Yes}}
    \cup FuncNode
    \cup {[k |-> "one_of", options |-> {Yes, Num(2)}]}

Few ==
    {[k |-> "str", min_len |-> 1, max_len |-> 2, pattern |-> "p", default |-> None],
     [k |-> "int", min |-> 2, max |-> None, default |-> None, clamp |-> FALSE],
     [k |-> "number", min |-> None, max |-> 4, default |-> Num(2), clamp |-> TRUE],
     [k |-> "func", does |-> "fail"], [k |-> "func", does |-> "drop"]}

Maybe(S) == S \cup {[k |-> "optional", inner |-> n, bare |-> Bare(n)] : n \in S}
Lists(S) == {[k |-> "list", item |-> n, min_items |-> b[1], max_items |-> b[2]] : n \in S, b \in Limits}
Objects(S, T) ==
    {[k |-> "object", fields |-> <<[name |-> "p", node |-> n], [name |-> "q", node |-> m]>>, strict |-> s] :
        n \in S, m \in T, s \in BOOLEAN}

Simple ==
    {NilV, NullV, Unbounded, Yes, Text(0, NilV, FALSE), Text(1, Digits(2), TRUE), Text(1, Digits(8), FALSE),
     Text(2, Digits(LeastInt), FALSE), Text(3, Num(3), FALSE), Text(2, Yes, TRUE), Text(3, NilV, FALSE)}
    \cup {Num(h) : h \in -1 .. 8}

Brief == {NullV, Yes, Text(0, NilV, FALSE), Num(2), Num(7)}
Arrays == {Tab(s, NoKeys) : s \in Words(3, Brief)}
PureTables == {Tab(s, f) : s \in {<<>>, <<NullV>>}, f \in [Names -> Brief \cup {NilV}]}
Keyed(x) == Tab(<<>>, [NoKeys EXCEPT !["p"] = x, !["q"] = NullV])

Flat == [node : Maybe(Maybe(LeafNodes)), value : Simple]
Listings == [node : Lists(Maybe(Few)), value : Arrays \cup {NullV}]
Fielded == [node : Objects(Maybe(Few), Few), value : PureTables \cup {Yes}]
Nested ==
    [node : Objects(Lists(Few), {[k |-> "func", does |-> "keep"]}) \cup Lists(Lists(Few)) \cup Lists(Lists(Lists(Few))),
     value : {Keyed(x) : x \in Arrays}
             \cup {Tab(<<Tab(s, NoKeys), Tab(<<>>, NoKeys)>>, NoKeys) : s \in Words(2, Brief)}]

-----------------------------------------------------------------------------
PureCases ==
    [routes |-> Routes, replace |-> Replacements, read |-> Bodies, feed |-> Queries,
     address |-> V4 \cup V6, bind |-> LuaValues, statement |-> Statements,
     check |-> Flat \cup Listings \cup Fielded \cup Nested]

PureMin == -1
PureOrder == <<"p", "q", "r">>
PureBytes == 1 .. 5
PureRequests == Words(2, {"a", "z"})
=============================================================================
