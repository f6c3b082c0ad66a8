----------------------------- MODULE Algorithms -----------------------------
(***************************************************************************)
(* The sequential algorithms, case by case: a behavior takes up one case   *)
(* after another, and each property says what its algorithm makes of the   *)
(* case at hand.  Cases are any inputs of the right kind.                  *)
(***************************************************************************)
EXTENDS Router, Replacer, Request, Validate, Addresses, SqlValues, KvRows

CONSTANTS
    Cases,      \* the cases of each algorithm, by its name
    Methods,    \* the methods of requests
    Requests    \* the paths of requests

ReadOp == [call : {"rest", "whole"}] \cup [call : {"some"}, n : Nat]

ASSUME CasesAssumption ==
    /\ Cases.routes \subseteq Seq([method : STRING, pattern : Seq(Seg)])
    /\ \A x \in Cases.replace :
          /\ x.olds \in Seq(Seq(Bytes)) /\ x.news \in Seq(Seq(Bytes)) /\ x.text \in Seq(Bytes)
          /\ Len(x.olds) = Len(x.news) /\ x.mode \in {"first", "longest"}
    /\ Cases.read \subseteq [body : Seq(Bytes), ops : Seq(ReadOp)]
    /\ \A x \in Cases.feed : x.pairs \in Seq(STRING \X STRING)
    /\ \A x \in Cases.check : x.value \in Value
    /\ Cases.address \subseteq V4Address \cup V6Address
    /\ Cases.bind \subseteq LuaValue
    /\ Cases.statement \subseteq [row : SharedRow, op : Given, at : Nat]
ASSUME RequestsAssumption == Requests \subseteq Seq(STRING)

VARIABLES of, case   \* the algorithm, and what it is given

algorithmVars == <<of, case>>

Init == of = "none" /\ case = Nil

Take(name) == of = "none" /\ of' = name /\ case' \in Cases[name]
Leave == of # "none" /\ of' = "none" /\ case' = Nil

Next == (\E name \in DOMAIN Cases : Take(name)) \/ Leave

Spec == Init /\ [][Next]_algorithmVars

-----------------------------------------------------------------------------
(* The route a request gets does not depend on the order of registration   *)
(* (serve.rs:839).                                                         *)
RouteUnique ==
    of = "routes" => \A method \in Methods, req \in Requests : MostSpecificWins(case, method, req)

(* The trie with its pruning and the loop of replace do what the README    *)
(* says of a replacer (text.rs:178-258).                                   *)
ReplacesInOnePass == of = "replace" => InOnePass(case.olds, case.news, case.mode, case.text)

(* The body of a request is handed out once, and every value of its fields *)
(* reaches the validator (serve.rs:1090-1110, 1301-1303).                  *)
RequestWhole ==
    /\ of = "read" => BodyReadOnce(case.body, case.ops)
    /\ of = "feed" => EveryValueFed(case.pairs, case.lists)

(* Every fault of a value is told, up to the limit, and only faults are;   *)
(* what passes meets its schema (validate.rs:9-17).                        *)
ChecksExact ==
    of = "check" /\ Constructs(case.node) =>
        EveryFaultTold(case.node, case.value) /\ ResultMeetsSchema(case.node, case.value)

(* The ranges refused without --allow-private are the listed ones, however *)
(* an address is written (policy.rs:242-266).                              *)
RefusedAsListed == of = "address" => AsListed(case)

(* A bound parameter reads back as itself on both backends                 *)
(* (sqlite.rs:164-199, postgres.rs:55-128).                                *)
ReadsBackSame == of = "bind" => ReadsBack(case)

(* The two backends leave the same row and answer the same (kv.rs:7-9).    *)
BackendsAgree == of = "statement" => SameOnBoth(case.row, case.op, case.at)
=============================================================================
