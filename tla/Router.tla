------------------------------- MODULE Router -------------------------------
(***************************************************************************)
(* The routes of an app (serve.rs: Router).  A segment of a pattern is     *)
(* static text, a parameter, or an optional parameter; parameter names are *)
(* left out.  A request is the sequence of its segments.                   *)
(***************************************************************************)
EXTENDS Integers, Sequences, FiniteSets

CONSTANT Texts   \* the texts of static segments

Param == "param"
Optional == "optional"
Seg == Texts \cup {Param, Optional}

ASSUME TextsAssumption == Texts \cap {Param, Optional} = {}

NoRoute == 0

(* parse_pattern: an optional parameter is followed by optional ones only. *)
Parses(p) == \A i \in 1 .. Len(p) - 1 : p[i] = Optional => p[i + 1] = Optional

(* The segments before the first optional one. *)
min_len(p) ==
    CHOOSE n \in 0 .. Len(p) :
        /\ \A i \in 1 .. n : p[i] # Optional
        /\ n < Len(p) => p[n + 1] = Optional

(* Mutant: only patterns of one length are compared. *)
OverlapsAtLength(a, b) ==
    Len(a) = Len(b) /\ \A i \in 1 .. Len(a) : a[i] = b[i] \/ (a[i] \notin Texts /\ b[i] \notin Texts)

(* Whether two patterns match a request of one length with static segments *)
(* at the same places.                                                     *)
overlaps(a, b) ==
    \E n \in 0 .. Len(a) :
        /\ n >= min_len(a) /\ n >= min_len(b) /\ n <= Len(b)
        /\ \A i \in 1 .. n : a[i] = b[i] \/ (a[i] \notin Texts /\ b[i] \notin Texts)

(* Router::build: whether the registrations, in this order, are accepted.  *)
Builds(routes) ==
    /\ \A i \in DOMAIN routes : Parses(routes[i].pattern)
    /\ \A i, j \in DOMAIN routes :
          i < j => ~(/\ routes[i].method = routes[j].method
                     /\ overlaps(routes[i].pattern, routes[j].pattern))

match_pattern(p, req) ==
    /\ Len(req) \in min_len(p) .. Len(p)
    /\ \A i \in DOMAIN req : p[i] \in Texts => p[i] = req[i]

(* At the first place where the kinds differ a static segment beats a      *)
(* parameter; a concrete method beats ANY as the tiebreak.                 *)
more_specific(a, b) ==
    LET both == {i \in DOMAIN a.pattern \cap DOMAIN b.pattern :
                    (a.pattern[i] \in Texts) # (b.pattern[i] \in Texts)} IN
    IF both = {}
    THEN a.method # "ANY" /\ b.method = "ANY"
    ELSE \E i \in both : a.pattern[i] \in Texts /\ \A j \in both : i <= j

candidate(route, method, req) ==
    route.method \in {"ANY", method} /\ match_pattern(route.pattern, req)

(* resolve: one pass that keeps the best route so far.  The answer is the  *)
(* place of the route, NoRoute if nothing matches.                         *)
Better(routes, method, req, i, best) ==
    IF /\ candidate(routes[i], method, req)
       /\ best = NoRoute \/ more_specific(routes[i], routes[best])
    THEN i
    ELSE best

resolve(routes, method, req) ==
    LET best[n \in 0 .. Len(routes)] ==
            IF n = 0 THEN NoRoute ELSE Better(routes, method, req, n, best[n - 1]) IN
    best[Len(routes)]

-----------------------------------------------------------------------------
(* The requests a route answers, by the README: each place a static text   *)
(* equal to the request's or a parameter, and optional parameters absent   *)
(* only from the end.                                                      *)
Answers(route, method, req) ==
    /\ route.method \in {"ANY", method}
    /\ \E n \in 0 .. Len(route.pattern) :
          /\ Len(req) = n
          /\ \A i \in 1 .. n : route.pattern[i] \in {req[i], Param, Optional}
          /\ \A i \in n + 1 .. Len(route.pattern) : route.pattern[i] = Optional

(* The route a request gets does not depend on the order of registration:  *)
(* whatever the app's routes are, once accepted, one of those that answer  *)
(* the request is more specific than every other (serve.rs:839).           *)
MostSpecificWins(routes, method, req) ==
    Builds(routes) =>
        LET able == {i \in DOMAIN routes : Answers(routes[i], method, req)}
            r == resolve(routes, method, req) IN
        IF able = {}
        THEN r = NoRoute
        ELSE r \in able /\ \A i \in able \ {r} : more_specific(routes[r], routes[i])
=============================================================================
