----------------------------- MODULE Pure_proofs -----------------------------
(***************************************************************************)
(* Proofs about the sequential algorithms, for inputs of any size: routes  *)
(* of any number and length, every address, every bound value and every    *)
(* row of both backends, bodies and fields of requests, replacements, and  *)
(* schemas and values of any shape.                                        *)
(***************************************************************************)
EXTENDS Algorithms, Listing_proofs, SequenceTheorems, FiniteSetTheorems, TLAPS

-----------------------------------------------------------------------------
(* Patterns *)

IsPattern(p) == p \in Seq(Seg) /\ Parses(p)

(* From its first optional parameter on, a pattern has only optional ones. *)
LEMMA OptionalTail ==
    ASSUME NEW p, IsPattern(p), NEW k \in 1 .. Len(p), p[k] = Optional
    PROVE  \A i \in k .. Len(p) : p[i] = Optional
<1> DEFINE Out == {i \in Nat : i \in k .. Len(p) /\ p[i] # Optional}
<1>1. SUFFICES ASSUME Out # {} PROVE FALSE
  BY DEF IsPattern
<1>2. Len(p) \in Nat
  BY DEF IsPattern
<1>3. PICK i \in Out : \A j \in Out : i <= j
  BY <1>1, LeastNumber
<1>4. i \in k .. Len(p) /\ p[i] # Optional /\ i # k
  BY <1>3
<1>5. i - 1 \in k .. Len(p) /\ i - 1 \in 1 .. Len(p) - 1 /\ (i - 1) + 1 = i
  BY <1>2, <1>4
<1>6. p[i - 1] # Optional
  BY <1>4, <1>5 DEF IsPattern, Parses
<1>7. i - 1 \in Out /\ ~(i <= i - 1)
  BY <1>4, <1>5, <1>6
<1>8. QED
  BY <1>3, <1>7

LEMMA MinLen ==
    ASSUME NEW p, IsPattern(p)
    PROVE  /\ min_len(p) \in 0 .. Len(p)
           /\ \A i \in 1 .. min_len(p) : p[i] # Optional
           /\ \A i \in min_len(p) + 1 .. Len(p) : p[i] = Optional
<1> DEFINE Good(n) == /\ \A i \in 1 .. n : p[i] # Optional
                      /\ n < Len(p) => p[n + 1] = Optional
<1>1. Len(p) \in Nat
  BY DEF IsPattern
<1>2. \E n \in 0 .. Len(p) : Good(n)
  <2> DEFINE Opts == {i \in Nat : i \in 1 .. Len(p) /\ p[i] = Optional}
  <2>1. CASE Opts = {}
    <3>1. \A i \in 1 .. Len(p) : p[i] # Optional
      BY <1>1, <2>1
    <3>2. Good(Len(p)) /\ Len(p) \in 0 .. Len(p)
      BY <1>1, <3>1
    <3>3. QED
      BY <3>2
  <2>2. CASE Opts # {}
    <3>1. PICK k \in Opts : \A j \in Opts : k <= j
      BY <2>2, LeastNumber
    <3>2. k \in 1 .. Len(p) /\ p[k] = Optional /\ k - 1 \in 0 .. Len(p) /\ (k - 1) + 1 = k
      BY <1>1, <3>1
    <3>3. \A i \in 1 .. k - 1 : p[i] # Optional
      <4> SUFFICES ASSUME NEW i \in 1 .. k - 1, p[i] = Optional PROVE FALSE
        OBVIOUS
      <4>1. i \in Opts /\ ~(k <= i)
        BY <1>1, <3>2
      <4>2. QED
        BY <3>1, <4>1
    <3>4. Good(k - 1)
      BY <3>2, <3>3
    <3>5. QED
      BY <3>2, <3>4
  <2>3. QED
    BY <2>1, <2>2
<1>3. min_len(p) \in 0 .. Len(p) /\ Good(min_len(p))
  <2>1. min_len(p) = CHOOSE n \in 0 .. Len(p) : Good(n)
    BY DEF min_len
  <2> HIDE DEF Good
  <2>2. QED
    BY <1>2, <2>1
<1>4. CASE min_len(p) = Len(p)
  BY <1>1, <1>3, <1>4
<1>5. CASE min_len(p) < Len(p)
  <2>1. min_len(p) + 1 \in 1 .. Len(p) /\ p[min_len(p) + 1] = Optional
    BY <1>1, <1>3, <1>5
  <2>2. QED
    BY <1>3, <2>1, OptionalTail
<1>6. QED
  BY <1>1, <1>3, <1>4, <1>5

-----------------------------------------------------------------------------
(* Routes that answer one request *)

IsRoute(r) == IsPattern(r.pattern)

(* A route matches the requests it answers. *)
LEMMA CandidateAnswers ==
    ASSUME NEW r, IsRoute(r), NEW method, NEW X, NEW req \in Seq(X)
    PROVE  candidate(r, method, req) = Answers(r, method, req)
<1> DEFINE p == r.pattern
           n == Len(req)
<1>1. /\ IsPattern(p) /\ Len(p) \in Nat /\ n \in Nat
      /\ \A i \in 1 .. Len(p) : p[i] \in Seg
  BY DEF IsRoute, IsPattern
<1>2. /\ min_len(p) \in 0 .. Len(p)
      /\ \A i \in 1 .. min_len(p) : p[i] # Optional
      /\ \A i \in min_len(p) + 1 .. Len(p) : p[i] = Optional
  BY <1>1, MinLen
<1> HIDE DEF p
<1>3. n \in min_len(p) .. Len(p)
          <=> n \in 0 .. Len(p) /\ \A i \in n + 1 .. Len(p) : p[i] = Optional
  <2>1. ASSUME n \in min_len(p) .. Len(p)
        PROVE  n \in 0 .. Len(p) /\ \A i \in n + 1 .. Len(p) : p[i] = Optional
    BY <1>1, <1>2, <2>1
  <2>2. ASSUME n \in 0 .. Len(p), \A i \in n + 1 .. Len(p) : p[i] = Optional
        PROVE  n >= min_len(p)
    <3> SUFFICES ASSUME n < min_len(p) PROVE FALSE
      BY <1>1, <1>2
    <3>1. n + 1 \in n + 1 .. Len(p) /\ n + 1 \in 1 .. min_len(p)
      BY <1>1, <1>2
    <3>2. QED
      BY <1>2, <2>2, <3>1
  <2>3. QED
    BY <1>1, <1>2, <2>1, <2>2
<1>4. ASSUME n \in 0 .. Len(p)
      PROVE  (\A i \in DOMAIN req : p[i] \in Texts => p[i] = req[i])
                 <=> \A i \in 1 .. n : p[i] \in {req[i], Param, Optional}
  <2>1. DOMAIN req = 1 .. n /\ \A i \in 1 .. n : p[i] \in Seg
    BY <1>1, <1>4
  <2>2. QED
    BY <2>1, TextsAssumption DEF Seg
<1>5. match_pattern(p, req) <=>
          /\ n \in 0 .. Len(p)
          /\ \A i \in n + 1 .. Len(p) : p[i] = Optional
          /\ \A i \in 1 .. n : p[i] \in {req[i], Param, Optional}
  BY <1>3, <1>4 DEF match_pattern
<1>6. QED
  BY <1>5 DEF candidate, Answers, p

(* The places where one of two patterns has a text and the other has not. *)
Apart(a, b) ==
    {i \in DOMAIN a.pattern \cap DOMAIN b.pattern :
        (a.pattern[i] \in Texts) # (b.pattern[i] \in Texts)}

(* Among routes that answer one request: n is its length. *)
Fits(r, req, n) ==
    /\ n \in 0 .. Len(r.pattern)
    /\ \A i \in 1 .. n : r.pattern[i] \in Texts => r.pattern[i] = req[i]
    /\ \A i \in n + 1 .. Len(r.pattern) : r.pattern[i] \notin Texts

LEMMA AnswersFit ==
    ASSUME NEW r, IsRoute(r), NEW method, NEW X, NEW req \in Seq(X),
           Answers(r, method, req)
    PROVE  /\ Fits(r, req, Len(req)) /\ r.method \in {"ANY", method}
           /\ min_len(r.pattern) <= Len(req)
<1>1. candidate(r, method, req)
  BY CandidateAnswers
<1>2. min_len(r.pattern) <= Len(req)
  <2>1. min_len(r.pattern) \in 0 .. Len(r.pattern)
    BY MinLen DEF IsRoute
  <2>2. Len(r.pattern) \in Nat
    BY DEF IsRoute, IsPattern
  <2>3. QED
    BY <1>1, <2>1, <2>2 DEF candidate, match_pattern
<1>3. QED
  BY <1>2, TextsAssumption DEF Answers, Fits

(* Places apart are places of the request, and among them is a first one.  *)
LEMMA ApartPlaces ==
    ASSUME NEW a, NEW b, IsRoute(a), IsRoute(b), NEW req, NEW n \in Nat,
           Fits(a, req, n), Fits(b, req, n)
    PROVE  /\ Apart(a, b) = {i \in 1 .. n : (a.pattern[i] \in Texts) # (b.pattern[i] \in Texts)}
           /\ Apart(a, b) # {} => \E i \in Apart(a, b) : \A j \in Apart(a, b) : i <= j
<1>1. /\ DOMAIN a.pattern = 1 .. Len(a.pattern) /\ Len(a.pattern) \in Nat
      /\ DOMAIN b.pattern = 1 .. Len(b.pattern) /\ Len(b.pattern) \in Nat
  BY DEF IsRoute, IsPattern
<1>2. n <= Len(a.pattern) /\ n <= Len(b.pattern)
  BY <1>1 DEF Fits
<1>3. Apart(a, b) = {i \in 1 .. n : (a.pattern[i] \in Texts) # (b.pattern[i] \in Texts)}
  <2>1. ASSUME NEW i \in Apart(a, b) PROVE i \in 1 .. n
    BY <1>1, <1>2 DEF Apart, Fits
  <2>2. QED
    BY <1>1, <1>2, <2>1 DEF Apart
<1>4. Apart(a, b) \subseteq Nat
  BY <1>3
<1>5. QED
  BY <1>3, <1>4, LeastNumber

(* Of two routes that answer one request and do not clash, one is more     *)
(* specific.                                                               *)
LEMMA OneIsMore ==
    ASSUME NEW a, NEW b, IsRoute(a), IsRoute(b), NEW method,
           NEW X, NEW req \in Seq(X),
           Answers(a, method, req), Answers(b, method, req),
           ~(a.method = b.method /\ overlaps(a.pattern, b.pattern))
    PROVE  more_specific(a, b) \/ more_specific(b, a)
<1> DEFINE n == Len(req)
<1>1. /\ n \in Nat /\ Fits(a, req, n) /\ Fits(b, req, n)
      /\ a.method \in {"ANY", method} /\ b.method \in {"ANY", method}
      /\ min_len(a.pattern) <= n /\ min_len(b.pattern) <= n
  BY AnswersFit
<1>2. Apart(a, b) = Apart(b, a)
  BY DEF Apart
<1> HIDE DEF n
<1>3. CASE Apart(a, b) # {}
  <2>1. PICK i \in Apart(a, b) : \A j \in Apart(a, b) : i <= j
    BY <1>1, <1>3, ApartPlaces
  <2>2. a.pattern[i] \in Texts \/ b.pattern[i] \in Texts
    BY <2>1 DEF Apart
  <2>3. QED
    BY <1>2, <1>3, <2>1, <2>2 DEF more_specific, Apart
<1>4. CASE Apart(a, b) = {}
  <2>1. \A i \in 1 .. n : (a.pattern[i] \in Texts) = (b.pattern[i] \in Texts)
    <3>1. {i \in 1 .. n : (a.pattern[i] \in Texts) # (b.pattern[i] \in Texts)} = {}
      BY <1>1, <1>4, ApartPlaces
    <3>2. QED
      BY <3>1
  <2>2. \A i \in 1 .. n : \/ a.pattern[i] = b.pattern[i]
                          \/ a.pattern[i] \notin Texts /\ b.pattern[i] \notin Texts
    BY <1>1, <2>1 DEF Fits
  <2>3. n \in 0 .. Len(a.pattern) /\ n <= Len(b.pattern)
    BY <1>1 DEF Fits, IsRoute, IsPattern
  <2>4. n >= min_len(a.pattern) /\ n >= min_len(b.pattern)
    <3>1. min_len(a.pattern) \in 0 .. Len(a.pattern) /\ min_len(b.pattern) \in 0 .. Len(b.pattern)
      BY MinLen DEF IsRoute
    <3>2. Len(a.pattern) \in Nat /\ Len(b.pattern) \in Nat
      BY DEF IsRoute, IsPattern
    <3>3. QED
      BY <1>1, <3>1, <3>2
  <2>5. overlaps(a.pattern, b.pattern)
    BY <2>2, <2>3, <2>4 DEF overlaps
  <2>6. a.method # b.method
    BY <2>5
  <2>7. QED
    BY <1>1, <1>2, <1>4, <2>6 DEF more_specific, Apart
<1>5. QED
  BY <1>3, <1>4

(* More specific, in terms of the places. *)
LEMMA MoreMeans ==
    ASSUME NEW a, NEW b
    PROVE  more_specific(a, b) <=>
               \/ Apart(a, b) = {} /\ a.method # "ANY" /\ b.method = "ANY"
               \/ \E i \in Apart(a, b) : /\ a.pattern[i] \in Texts
                                         /\ \A j \in Apart(a, b) : i <= j
  BY DEF more_specific, Apart

LEMMA MoreTransitive ==
    ASSUME NEW a, NEW b, NEW c, IsRoute(a), IsRoute(b), IsRoute(c),
           NEW req, NEW n \in Nat, Fits(a, req, n), Fits(b, req, n), Fits(c, req, n),
           more_specific(a, b), more_specific(b, c)
    PROVE  more_specific(a, c)
<1> DEFINE A(i) == a.pattern[i] \in Texts
           B(i) == b.pattern[i] \in Texts
           C(i) == c.pattern[i] \in Texts
<1>1. /\ Apart(a, b) = {i \in 1 .. n : A(i) # B(i)}
      /\ Apart(b, c) = {i \in 1 .. n : B(i) # C(i)}
      /\ Apart(a, c) = {i \in 1 .. n : A(i) # C(i)}
  BY ApartPlaces
<1>2. CASE Apart(a, b) = {} /\ Apart(b, c) = {}
  <2>1. Apart(a, c) = {}
    BY <1>1, <1>2
  <2>2. FALSE
    BY <1>2, MoreMeans
  <2>3. QED
    BY <2>2
<1>3. CASE Apart(a, b) = {} /\ Apart(b, c) # {}
  <2>1. PICK k \in Apart(b, c) : B(k) /\ \A j \in Apart(b, c) : k <= j
    BY <1>3, MoreMeans
  <2>2. \A i \in 1 .. n : A(i) = B(i)
    BY <1>1, <1>3
  <2>3. Apart(a, c) = Apart(b, c)
    BY <1>1, <2>2
  <2>4. k \in Apart(a, c) /\ A(k) /\ \A j \in Apart(a, c) : k <= j
    BY <1>1, <2>1, <2>2, <2>3
  <2>5. QED
    BY <2>4, MoreMeans
<1>4. CASE Apart(a, b) # {} /\ Apart(b, c) = {}
  <2>1. PICK k \in Apart(a, b) : A(k) /\ \A j \in Apart(a, b) : k <= j
    BY <1>4, MoreMeans
  <2>2. \A i \in 1 .. n : B(i) = C(i)
    BY <1>1, <1>4
  <2>3. Apart(a, c) = Apart(a, b)
    BY <1>1, <2>2
  <2>4. k \in Apart(a, c) /\ A(k) /\ \A j \in Apart(a, c) : k <= j
    BY <2>1, <2>3
  <2>5. QED
    BY <2>4, MoreMeans
<1>5. CASE Apart(a, b) # {} /\ Apart(b, c) # {}
  <2>1. PICK k \in Apart(a, b) : A(k) /\ \A j \in Apart(a, b) : k <= j
    BY <1>5, MoreMeans
  <2>2. PICK l \in Apart(b, c) : B(l) /\ \A j \in Apart(b, c) : l <= j
    BY <1>5, MoreMeans
  <2> HIDE DEF A, B, C
  <2>3. k \in 1 .. n /\ l \in 1 .. n /\ ~B(k) /\ ~C(l) /\ k # l
    BY <1>1, <2>1, <2>2 DEF A, B, C
  <2>4. CASE k < l
    <3>1. B(k) = C(k)
      BY <1>1, <2>2, <2>3, <2>4 DEF B, C
    <3>2. k \in Apart(a, c)
      BY <1>1, <2>1, <2>3, <3>1 DEF A, B, C
    <3>3. ASSUME NEW j \in Apart(a, c), j < k PROVE FALSE
      <4>1. j \in 1 .. n /\ A(j) # C(j)
        BY <1>1 DEF A, C
      <4>2. ~(k <= j) /\ ~(l <= j)
        BY <2>3, <2>4, <3>3, <4>1
      <4>3. j \notin Apart(a, b) /\ j \notin Apart(b, c)
        BY <2>1, <2>2, <4>2
      <4>4. A(j) = B(j) /\ B(j) = C(j)
        BY <1>1, <4>1, <4>3 DEF A, B, C
      <4>5. QED
        BY <4>1, <4>4
    <3>4. \A j \in Apart(a, c) : k <= j
      BY <1>1, <2>3, <3>3
    <3>5. QED
      BY <2>1, <3>2, <3>4, MoreMeans DEF A
  <2>5. CASE l < k
    <3>1. A(l) = B(l)
      BY <1>1, <2>1, <2>3, <2>5 DEF A, B
    <3>2. l \in Apart(a, c) /\ A(l)
      BY <1>1, <2>2, <2>3, <3>1 DEF A, B, C
    <3>3. ASSUME NEW j \in Apart(a, c), j < l PROVE FALSE
      <4>1. j \in 1 .. n /\ A(j) # C(j)
        BY <1>1 DEF A, C
      <4>2. ~(k <= j) /\ ~(l <= j)
        BY <2>3, <2>5, <3>3, <4>1
      <4>3. j \notin Apart(a, b) /\ j \notin Apart(b, c)
        BY <2>1, <2>2, <4>2
      <4>4. A(j) = B(j) /\ B(j) = C(j)
        BY <1>1, <4>1, <4>3 DEF A, B, C
      <4>5. QED
        BY <4>1, <4>4
    <3>4. \A j \in Apart(a, c) : l <= j
      BY <1>1, <2>3, <3>3
    <3>5. QED
      BY <3>2, <3>4, MoreMeans DEF A
  <2>6. QED
    BY <2>3, <2>4, <2>5
<1>6. QED
  BY <1>2, <1>3, <1>4, <1>5

-----------------------------------------------------------------------------
(* The pass over the routes *)

Routes(rs, M) == rs \in Seq([method : M, pattern : Seq(Seg)])

(* best[n] is what the pass has kept of the first n routes. *)
Passes(f, rs, method, req, n) ==
    f = [i \in 0 .. n |-> IF i = 0 THEN NoRoute ELSE Better(rs, method, req, i, f[i - 1])]

LEMMA PassExists ==
    ASSUME NEW rs, NEW method, NEW req, NEW n \in Nat
    PROVE  \E f : Passes(f, rs, method, req, n)
<1> DEFINE N == {m \in Nat : \E f : Passes(f, rs, method, req, m)}
           Kept(f, i) == IF i = 0 THEN NoRoute ELSE Better(rs, method, req, i, f[i - 1])
<1>1. 0 \in N
  <2> DEFINE f == [i \in 0 .. 0 |-> NoRoute]
  <2>1. Passes(f, rs, method, req, 0)
    BY DEF Passes
  <2>2. QED
    BY <2>1
<1>2. ASSUME NEW m \in Nat, m \in N
      PROVE  m + 1 \in N
  <2>1. PICK f : Passes(f, rs, method, req, m)
    BY <1>2
  <2> DEFINE g == [i \in 0 .. m + 1 |-> IF i <= m THEN f[i] ELSE Kept(f, i)]
  <2>2. \A i \in 0 .. m : g[i] = f[i]
    OBVIOUS
  <2>3. ASSUME NEW i \in 0 .. m + 1
        PROVE  g[i] = Kept(f, i)
    <3>1. CASE i <= m
      <4>1. i \in 0 .. m
        BY <3>1
      <4>2. f[i] = Kept(f, i)
        BY <2>1, <4>1 DEF Passes
      <4> HIDE DEF g, Kept
      <4>3. QED
        BY <2>2, <4>1, <4>2
    <3>2. CASE i = m + 1
      BY <3>2
    <3>3. QED
      BY <3>1, <3>2
  <2>4. g = [i \in 0 .. m + 1 |-> g[i]]
    OBVIOUS
  <2> HIDE DEF g
  <2>5. ASSUME NEW i \in 0 .. m + 1
        PROVE  Kept(f, i) = Kept(g, i)
    BY <2>2
  <2>6. Passes(g, rs, method, req, m + 1)
    BY <2>3, <2>4, <2>5 DEF Passes
  <2>7. QED
    BY <2>6
<1> HIDE DEF N
<1>3. n \in N
  BY <1>1, <1>2, Inductive
<1>4. QED
  BY <1>3 DEF N

LEMMA ResolvePasses ==
    ASSUME NEW rs, NEW method, NEW req, Len(rs) \in Nat
    PROVE  \E f : Passes(f, rs, method, req, Len(rs)) /\ resolve(rs, method, req) = f[Len(rs)]
<1> DEFINE f == CHOOSE g : Passes(g, rs, method, req, Len(rs))
<1>1. Passes(f, rs, method, req, Len(rs))
  BY PassExists
<1>2. resolve(rs, method, req) = f[Len(rs)]
  BY DEF resolve, Passes
<1>3. QED
  BY <1>1, <1>2

(* r is the one of the first n routes that a request gets. *)
Gets(rs, method, req, n, r) ==
    IF \A i \in 1 .. n : ~Answers(rs[i], method, req)
    THEN r = NoRoute
    ELSE /\ r \in 1 .. n /\ Answers(rs[r], method, req)
         /\ \A i \in 1 .. n :
               Answers(rs[i], method, req) /\ i # r => more_specific(rs[r], rs[i])

(* One more route: what is kept beats it, or it beats all that was kept.   *)
LEMMA GetsNext ==
    ASSUME NEW M, NEW rs, Routes(rs, M), Builds(rs), NEW method,
           NEW X, NEW req \in Seq(X), NEW n \in Nat, n + 1 \in 1 .. Len(rs),
           NEW r, Gets(rs, method, req, n, r)
    PROVE  Gets(rs, method, req, n + 1, Better(rs, method, req, n + 1, r))
<1> DEFINE a == rs[n + 1]
           Able(i) == Answers(rs[i], method, req)
<1>1. \A i \in 1 .. n + 1 : i \in DOMAIN rs
  BY DEF Routes
<1>2. \A i \in 1 .. n + 1 : IsRoute(rs[i])
  <2> SUFFICES ASSUME NEW i \in 1 .. n + 1 PROVE IsRoute(rs[i])
    OBVIOUS
  <2>1. i \in DOMAIN rs /\ i \in 1 .. Len(rs)
    BY <1>1 DEF Routes
  <2>2. rs[i] \in [method : M, pattern : Seq(Seg)]
    <3> DEFINE R == [method : M, pattern : Seq(Seg)]
    <3>1. rs \in Seq(R)
      BY DEF Routes
    <3> HIDE DEF R
    <3>2. rs[i] \in R
      BY <2>1, <3>1
    <3>3. QED
      BY <3>2 DEF R
  <2>3. rs[i].pattern \in Seq(Seg)
    BY <2>2
  <2>4. QED
    BY <2>1, <2>3 DEF Builds, IsRoute, IsPattern
<1>3. candidate(a, method, req) = Able(n + 1)
  BY <1>2, CandidateAnswers
<1>4. /\ Len(req) \in Nat
      /\ \A i \in 1 .. n + 1 : Able(i) => Fits(rs[i], req, Len(req))
  BY <1>2, AnswersFit
<1>5. n + 1 # NoRoute /\ n + 1 \in 1 .. n + 1 /\ \A i \in 1 .. n + 1 : i = n + 1 \/ i \in 1 .. n
  BY DEF NoRoute
<1>6. CASE ~Able(n + 1)
  <2>1. Better(rs, method, req, n + 1, r) = r
    BY <1>3, <1>6 DEF Better
  <2>2. Gets(rs, method, req, n + 1, r)
    BY <1>5, <1>6 DEF Gets
  <2>3. QED
    BY <2>1, <2>2
<1>7. CASE Able(n + 1) /\ \A i \in 1 .. n : ~Able(i)
  <2>1. r = NoRoute
    BY <1>7 DEF Gets
  <2>2. Better(rs, method, req, n + 1, r) = n + 1
    BY <1>3, <1>7, <2>1 DEF Better
  <2>3. Gets(rs, method, req, n + 1, n + 1)
    BY <1>5, <1>7 DEF Gets
  <2>4. QED
    BY <2>2, <2>3
<1>8. CASE Able(n + 1) /\ \E i \in 1 .. n : Able(i)
  <2>1. /\ r \in 1 .. n /\ Able(r)
        /\ \A i \in 1 .. n : Able(i) /\ i # r => more_specific(rs[r], rs[i])
    BY <1>8 DEF Gets
  <2>2. r # NoRoute /\ r < n + 1 /\ r \in 1 .. n + 1
    BY <2>1 DEF NoRoute
  <2>3. CASE more_specific(a, rs[r])
    <3>1. Better(rs, method, req, n + 1, r) = n + 1
      BY <1>3, <1>8, <2>3 DEF Better
    <3>2. ASSUME NEW i \in 1 .. n, Able(i) PROVE more_specific(a, rs[i])
      <4>1. CASE i = r
        BY <2>3, <4>1
      <4>2. CASE i # r
        <5>1. more_specific(rs[r], rs[i])
          BY <2>1, <3>2, <4>2
        <5>2. i \in 1 .. n + 1
          OBVIOUS
        <5>3. /\ IsRoute(a) /\ IsRoute(rs[r]) /\ IsRoute(rs[i])
              /\ Fits(a, req, Len(req)) /\ Fits(rs[r], req, Len(req))
              /\ Fits(rs[i], req, Len(req))
          BY <1>2, <1>4, <1>5, <1>8, <2>1, <2>2, <3>2, <5>2
        <5> HIDE DEF a
        <5>4. QED
          BY <1>4, <2>3, <5>1, <5>3, MoreTransitive
      <4>3. QED
        BY <4>1, <4>2
    <3>3. Gets(rs, method, req, n + 1, n + 1)
      BY <1>5, <1>8, <3>2 DEF Gets
    <3>4. QED
      BY <3>1, <3>3
  <2>4. CASE ~more_specific(a, rs[r])
    <3>1. Better(rs, method, req, n + 1, r) = r
      BY <2>2, <2>4 DEF Better
    <3>2. ~(rs[r].method = a.method /\ overlaps(rs[r].pattern, a.pattern))
      BY <1>1, <1>5, <2>2 DEF Builds
    <3>3. IsRoute(a) /\ IsRoute(rs[r]) /\ Answers(a, method, req) /\ Answers(rs[r], method, req)
      BY <1>2, <1>5, <1>8, <2>1, <2>2
    <3>4. more_specific(rs[r], a)
      <4> HIDE DEF a
      <4>1. QED
        BY <2>4, <3>2, <3>3, OneIsMore
    <3>5. Gets(rs, method, req, n + 1, r)
      BY <1>5, <1>8, <2>1, <2>2, <3>4 DEF Gets
    <3>6. QED
      BY <3>1, <3>5
  <2>5. QED
    BY <2>3, <2>4
<1>9. QED
  BY <1>6, <1>7, <1>8

(* Whatever routes an app registers, however many, and in whatever order:  *)
(* once Router::build accepts them, the one a request gets is more         *)
(* specific than every other that answers it (serve.rs:839).               *)
LEMMA MostSpecificAlways ==
    ASSUME NEW M, NEW routes, Routes(routes, M), NEW method,
           NEW X, NEW req \in Seq(X)
    PROVE  MostSpecificWins(routes, method, req)
<1> SUFFICES ASSUME Builds(routes)
             PROVE  Gets(routes, method, req, Len(routes), resolve(routes, method, req))
  <2>1. DOMAIN routes = 1 .. Len(routes)
    BY DEF Routes
  <2>2. QED
    BY <2>1 DEF MostSpecificWins, Gets
<1>1. Len(routes) \in Nat
  BY DEF Routes
<1>2. PICK f : Passes(f, routes, method, req, Len(routes))
               /\ resolve(routes, method, req) = f[Len(routes)]
  BY <1>1, ResolvePasses
<1> DEFINE N == {n \in Nat : n <= Len(routes) => Gets(routes, method, req, n, f[n])}
<1>3. 0 \in N
  <2>1. f[0] = NoRoute
    BY <1>1, <1>2 DEF Passes
  <2>2. QED
    BY <2>1 DEF Gets
<1>4. ASSUME NEW n \in Nat, n \in N
      PROVE  n + 1 \in N
  <2> SUFFICES ASSUME n + 1 <= Len(routes) PROVE Gets(routes, method, req, n + 1, f[n + 1])
    OBVIOUS
  <2>1. n + 1 \in 1 .. Len(routes) /\ n + 1 \in 0 .. Len(routes) /\ n + 1 # 0 /\ (n + 1) - 1 = n
    BY <1>1
  <2>2. Gets(routes, method, req, n, f[n])
    BY <1>1, <1>4
  <2>3. f[n + 1] = Better(routes, method, req, n + 1, f[n])
    BY <1>2, <2>1 DEF Passes
  <2>4. QED
    BY <2>1, <2>2, <2>3, GetsNext
<1> HIDE DEF N
<1>5. Len(routes) \in N
  BY <1>1, <1>3, <1>4, Inductive
<1>6. QED
  BY <1>1, <1>2, <1>5 DEF N

-----------------------------------------------------------------------------
(* Addresses *)


LEMMA OctetRanges ==
    ASSUME NEW x \in 0 .. 255
    PROVE  /\ Leading(x, 16, 16) <=> x \in 16 .. 31
           /\ Leading(x, 64, 64) <=> x \in 64 .. 127
           /\ Leading(x, 2, 18) <=> x \in 18 .. 19
  BY DEF Leading

LEMMA SegmentRanges ==
    ASSUME NEW x \in Segment
    PROVE  /\ Leading(x, 512, 64512) <=> x \in 64512 .. 65023
           /\ Leading(x, 64, 65152) <=> x \in 65152 .. 65215
           /\ Leading(x, 64, 65216) <=> x \in 65216 .. 65279
           /\ Leading(x, 256, 65280) <=> x \in 65280 .. 65535
<1>0. x \in Int /\ 0 <= x /\ x <= 65535
  BY SMT DEF Segment
<1>1. Leading(x, 512, 64512) <=> x \in 64512 .. 65023
  <2> DEFINE q == x \div 512
  <2>1. q \in Int /\ 512 * q <= x /\ x < (512 * q) + 512
    BY SMT, <1>0
  <2>2. Leading(x, 512, 64512) <=> q * 512 = 64512
    BY SMT DEF Leading
  <2> HIDE DEF q
  <2>3. q * 512 = 64512 <=> x \in 64512 .. 65023
    BY SMT, <1>0, <2>1
  <2>4. QED
    BY <2>2, <2>3
<1>2. Leading(x, 64, 65152) <=> x \in 65152 .. 65215
  <2> DEFINE q == x \div 64
  <2>1. q \in Int /\ 64 * q <= x /\ x < (64 * q) + 64
    BY SMT, <1>0
  <2>2. Leading(x, 64, 65152) <=> q * 64 = 65152
    BY SMT DEF Leading
  <2> HIDE DEF q
  <2>3. q * 64 = 65152 <=> x \in 65152 .. 65215
    BY SMT, <1>0, <2>1
  <2>4. QED
    BY <2>2, <2>3
<1>3. Leading(x, 64, 65216) <=> x \in 65216 .. 65279
  <2> DEFINE q == x \div 64
  <2>1. q \in Int /\ 64 * q <= x /\ x < (64 * q) + 64
    BY SMT, <1>0
  <2>2. Leading(x, 64, 65216) <=> q * 64 = 65216
    BY SMT DEF Leading
  <2> HIDE DEF q
  <2>3. q * 64 = 65216 <=> x \in 65216 .. 65279
    BY SMT, <1>0, <2>1
  <2>4. QED
    BY <2>2, <2>3
<1>4. Leading(x, 256, 65280) <=> x \in 65280 .. 65535
  <2> DEFINE q == x \div 256
  <2>1. q \in Int /\ 256 * q <= x /\ x < (256 * q) + 256
    BY SMT, <1>0
  <2>2. Leading(x, 256, 65280) <=> q * 256 = 65280
    BY SMT DEF Leading
  <2> HIDE DEF q
  <2>3. q * 256 = 65280 <=> x \in 65280 .. 65535
    BY SMT, <1>0, <2>1
  <2>4. QED
    BY <2>2, <2>3
<1>5. QED
  BY SMT, <1>1, <1>2, <1>3, <1>4

(* The listed ranges, octet by octet. *)
LEMMA ListedRanges ==
    ASSUME NEW ip, ip[1] \in 0 .. 255, ip[2] \in 0 .. 255, ip[3] \in 0 .. 255
    PROVE  Listed4(ip) <=>
               \/ ip[1] \in {0, 10, 127}
               \/ ip[1] = 172 /\ ip[2] \in 16 .. 31
               \/ ip[1] = 192 /\ ip[2] = 168
               \/ ip[1] = 169 /\ ip[2] = 254
               \/ ip[1] = 100 /\ ip[2] \in 64 .. 127
               \/ ip[1] = 192 /\ ip[2] = 0 /\ ip[3] = 0
               \/ ip[1] = 198 /\ ip[2] \in 18 .. 19
               \/ ip[1] \in 224 .. 255
<1> DEFINE In(first, last) == UpTo(first, ip) /\ UpTo(ip, last)
           a == ip[1]
           b == ip[2]
           c == ip[3]
<1>1. In(<<0, 0, 0>>, <<0, 255, 255>>) <=> a = 0
  BY SMT DEF UpTo
<1>2. In(<<10, 0, 0>>, <<10, 255, 255>>) <=> a = 10
  BY SMT DEF UpTo
<1>3. In(<<127, 0, 0>>, <<127, 255, 255>>) <=> a = 127
  BY SMT DEF UpTo
<1>4. In(<<172, 16, 0>>, <<172, 31, 255>>) <=> a = 172 /\ b \in 16 .. 31
  BY SMT DEF UpTo
<1>5. In(<<192, 168, 0>>, <<192, 168, 255>>) <=> a = 192 /\ b = 168
  BY SMT DEF UpTo
<1>6. In(<<169, 254, 0>>, <<169, 254, 255>>) <=> a = 169 /\ b = 254
  BY SMT DEF UpTo
<1>7. In(<<100, 64, 0>>, <<100, 127, 255>>) <=> a = 100 /\ b \in 64 .. 127
  BY SMT DEF UpTo
<1>8. In(<<192, 0, 0>>, <<192, 0, 0>>) <=> a = 192 /\ b = 0 /\ c = 0
  BY SMT DEF UpTo
<1>9. In(<<198, 18, 0>>, <<198, 19, 255>>) <=> a = 198 /\ b \in 18 .. 19
  BY SMT DEF UpTo
<1>10. In(<<224, 0, 0>>, <<239, 255, 255>>) <=> a \in 224 .. 239
  BY SMT DEF UpTo
<1>11. In(<<240, 0, 0>>, <<255, 255, 255>>) <=> a \in 240 .. 255
  BY SMT DEF UpTo
<1> HIDE DEF In
<1>12. Listed4(ip) <=>
          \/ In(<<0, 0, 0>>, <<0, 255, 255>>)
          \/ In(<<10, 0, 0>>, <<10, 255, 255>>)
          \/ In(<<127, 0, 0>>, <<127, 255, 255>>)
          \/ In(<<172, 16, 0>>, <<172, 31, 255>>)
          \/ In(<<192, 168, 0>>, <<192, 168, 255>>)
          \/ In(<<169, 254, 0>>, <<169, 254, 255>>)
          \/ In(<<100, 64, 0>>, <<100, 127, 255>>)
          \/ In(<<192, 0, 0>>, <<192, 0, 0>>)
          \/ In(<<198, 18, 0>>, <<198, 19, 255>>)
          \/ In(<<224, 0, 0>>, <<239, 255, 255>>)
          \/ In(<<240, 0, 0>>, <<255, 255, 255>>)
  BY DEF Listed4, In
<1>13. QED
  BY <1>1, <1>2, <1>3, <1>4, <1>5, <1>6, <1>7, <1>8, <1>9, <1>10, <1>11, <1>12

LEMMA V4AsListed ==
    ASSUME NEW ip, ip[1] \in 0 .. 255, ip[2] \in 0 .. 255, ip[3] \in 0 .. 255
    PROVE  is_private_v4(ip) = Listed4(ip)
<1>1. /\ Leading(ip[2], 16, 16) <=> ip[2] \in 16 .. 31
      /\ Leading(ip[2], 64, 64) <=> ip[2] \in 64 .. 127
      /\ Leading(ip[2], 2, 18) <=> ip[2] \in 18 .. 19
  BY OctetRanges
<1>2. ip[1] >= 224 <=> ip[1] \in 224 .. 255
  OBVIOUS
<1>3. is_private_v4(ip) <=>
          \/ ip[1] \in {0, 10, 127}
          \/ ip[1] = 172 /\ ip[2] \in 16 .. 31
          \/ ip[1] = 192 /\ ip[2] = 168
          \/ ip[1] = 169 /\ ip[2] = 254
          \/ ip[1] = 100 /\ ip[2] \in 64 .. 127
          \/ ip[1] = 192 /\ ip[2] = 0 /\ ip[3] = 0
          \/ ip[1] = 198 /\ ip[2] \in 18 .. 19
          \/ ip[1] \in 224 .. 255
  BY <1>1, <1>2 DEF is_private_v4
<1>4. is_private_v4(ip) <=> Listed4(ip)
  BY <1>3, ListedRanges
<1>5. is_private_v4(ip) \in BOOLEAN /\ Listed4(ip) \in BOOLEAN
  BY DEF is_private_v4, Listed4
<1>6. QED
  BY <1>4, <1>5

(* The two octets of a segment. *)
LEMMA HighAndLow ==
    ASSUME NEW x \in Segment
    PROVE  x \div 256 \in 0 .. 255 /\ x % 256 \in 0 .. 255
<1>1. x \in Int /\ 0 <= x /\ x < 65536
  BY SMT DEF Segment
<1>2. 0 <= x \div 256 /\ x \div 256 <= 255
  BY SMT, <1>1
<1>3. QED
  BY SMT, <1>1, <1>2

(* What is at a position of a sequence over a set is in the set. *)
LEMMA ElementsOf ==
    ASSUME NEW X, NEW q \in Seq(X)
    PROVE  \A i \in 1 .. Len(q) : q[i] \in X
  OBVIOUS

(* The octets of two segments. *)
LEMMA OctetsOf ==
    ASSUME NEW hi \in Segment, NEW lo \in Segment
    PROVE  /\ Octets(hi, lo) # NotEmbedded
           /\ Octets(hi, lo)[1] \in 0 .. 255 /\ Octets(hi, lo)[2] \in 0 .. 255
           /\ Octets(hi, lo)[3] \in 0 .. 255
<1>1. hi \div 256 \in 0 .. 255 /\ hi % 256 \in 0 .. 255 /\ lo \div 256 \in 0 .. 255
  BY HighAndLow
<1>2. /\ Octets(hi, lo)[1] = hi \div 256
      /\ Octets(hi, lo)[2] = hi % 256
      /\ Octets(hi, lo)[3] = lo \div 256
      /\ Len(Octets(hi, lo)) = 4
  BY DEF Octets
<1>3. Octets(hi, lo) # <<>>
  BY <1>2
<1>4. QED
  BY <1>1, <1>2, <1>3 DEF NotEmbedded

LEMMA V6AsListed ==
    ASSUME NEW s \in V6Address
    PROVE  is_private_v6(s) = (Listed6(s) \/ (/\ embedded_ipv4(s) # NotEmbedded
                                              /\ Listed4(embedded_ipv4(s))))
<1>1. Len(s) = 8 /\ s \in Seq(Segment)
  BY DEF V6Address
<1>2. \A i \in 1 .. Len(s) : s[i] \in Segment
  BY <1>1, ElementsOf
<1>3. /\ s[1] \in Segment /\ s[2] \in Segment /\ s[3] \in Segment
      /\ s[7] \in Segment /\ s[8] \in Segment
  BY <1>1, <1>2
<1> DEFINE e == embedded_ipv4(s)
           local == Zeros(s, 1, 7) /\ s[8] \in {0, 1}
           nat64 == s[1] = 100 /\ s[2] = 65435 /\ s[3] = 1
           ranged == \/ s[1] \in 64512 .. 65023 \/ s[1] \in 65152 .. 65215
                     \/ s[1] \in 65216 .. 65279 \/ s[1] \in 65280 .. 65535
<1>4. <<s[1], s[2], s[3]>> = <<100, 65435, 1>> <=> nat64
  BY SMT
<1>5. Listed6(s) <=> ranged \/ nat64 \/ local
  BY <1>4 DEF Listed6
<1>6. e # NotEmbedded => is_private_v4(e) = Listed4(e)
  <2>1. \/ e = Octets(s[7], s[8]) \/ e = Octets(s[2], s[3]) \/ e = NotEmbedded
    BY DEF embedded_ipv4
  <2>2. e # NotEmbedded => e[1] \in 0 .. 255 /\ e[2] \in 0 .. 255 /\ e[3] \in 0 .. 255
    BY <1>3, <2>1, OctetsOf
  <2> HIDE DEF e
  <2>3. QED
    BY <2>2, V4AsListed
(* A range of first segments and an embedded address exclude each other.   *)
<1>7. e # NotEmbedded => ~ranged /\ ~nat64
  <2>1. e # NotEmbedded => \/ Zeros(s, 1, 5)
                           \/ s[1] = 100 /\ s[2] = 65435 /\ Zeros(s, 3, 6)
                           \/ s[1] = 8194
    BY DEF embedded_ipv4
  <2>2. Zeros(s, 1, 5) => s[1] = 0
    BY DEF Zeros
  <2>3. Zeros(s, 3, 6) => s[3] = 0
    BY DEF Zeros
  <2>4. e # NotEmbedded => s[1] \in {0, 100, 8194} /\ ~nat64
    BY SMT, <2>1, <2>2, <2>3
  <2> HIDE DEF e, nat64
  <2>5. QED
    BY SMT, <2>4
<1>8. is_private_v6(s) <=> local \/ (IF e # NotEmbedded THEN is_private_v4(e) ELSE ranged \/ nat64)
  <2>1. /\ Leading(s[1], 512, 64512) <=> s[1] \in 64512 .. 65023
        /\ Leading(s[1], 64, 65152) <=> s[1] \in 65152 .. 65215
        /\ Leading(s[1], 64, 65216) <=> s[1] \in 65216 .. 65279
        /\ Leading(s[1], 256, 65280) <=> s[1] \in 65280 .. 65535
    BY <1>3, SegmentRanges
  <2>2. QED
    BY <2>1 DEF is_private_v6
<1>9. is_private_v6(s) \in BOOLEAN
  BY DEF is_private_v6, is_private_v4
<1> HIDE DEF e, local, nat64, ranged
<1>10. is_private_v6(s) <=> Listed6(s) \/ (e # NotEmbedded /\ Listed4(e))
  BY <1>5, <1>6, <1>7, <1>8
<1>11. QED
  BY <1>9, <1>10 DEF e

(* Every address there is, not only those the run tries, is refused        *)
(* exactly if it or the IPv4 address it embeds is in a listed range        *)
(* (policy.rs:242-266).                                                    *)
LEMMA EveryAddressListed ==
    ASSUME NEW ip \in V4Address \cup V6Address
    PROVE  AsListed(ip)
<1>1. CASE ip \in V4Address
  <2>1. Len(ip) = 4 /\ ip[1] \in 0 .. 255 /\ ip[2] \in 0 .. 255 /\ ip[3] \in 0 .. 255
    <3>1. Len(ip) = 4 /\ ip \in Seq(0 .. 255)
      BY <1>1 DEF V4Address
    <3>2. \A i \in 1 .. Len(ip) : ip[i] \in 0 .. 255
      BY <3>1, ElementsOf
    <3>3. QED
      BY <3>1, <3>2
  <2>2. is_private_v4(ip) = Listed4(ip)
    BY <2>1, V4AsListed
  <2>3. QED
    BY <2>1, <2>2 DEF AsListed, is_private_ip
<1>2. CASE ip \in V6Address
  <2>1. Len(ip) = 8
    BY <1>2 DEF V6Address
  <2>2. Len(ip) # 4
    BY <2>1
  <2>3. QED
    BY <1>2, <2>2, V6AsListed DEF AsListed, is_private_ip
<1>3. QED
  BY <1>1, <1>2

-----------------------------------------------------------------------------
(* Bound values *)

(* The parts of a value that a script may bind. *)
Bindable(t, v) ==
    /\ t \in {"nil", "null", "bool", "int", "num", "text", "bytes", "other"}
    /\ t = "bool" => v \in BOOLEAN
    /\ t = "int" => v \in -IMax - 1 .. IMax
    /\ t = "num" => v \in Int

(* A whole number in range is not cut off by the conversion. *)
LEMMA WholeAsInt ==
    ASSUME NEW h \in Int, Whole(h)
    PROVE  AsInt(h) \in Int /\ 2 * AsInt(h) = h
<1> DEFINE n == h \div 2
<1>1. n \in Int /\ h = 2 * n
  BY SMT DEF Whole
<1>2. n <= IMax /\ n >= -IMax - 1
  BY SMT, <1>1, IMaxAssumption DEF Whole
<1>3. AsInt(h) = n
  <2> HIDE DEF n
  <2>1. ~(n > IMax) /\ ~(n < -IMax - 1)
    BY SMT, <1>1, <1>2, IMaxAssumption
  <2>2. QED
    BY <2>1 DEF AsInt, n
<1>4. QED
  BY SMT, <1>1, <1>3

(* SQLite gives back what was bound. *)
LEMMA LiteReadsBack ==
    ASSUME NEW t, NEW v, Bindable(t, v), t # "other"
    PROVE  Same(Lua(t, v), LiteRead(LiteBound(Lua(t, v))))
<1>1. CASE t \in {"nil", "null"}
  BY <1>1 DEF Same, Lua, LiteRead, LiteBound, Bound, NullValue
<1>2. CASE t = "bool"
  BY <1>2 DEF Same, Lua, LiteRead, LiteBound, Bound, NullValue
<1>3. CASE t = "int"
  BY <1>3 DEF Same, Lua, LiteRead, LiteBound, Bound, NullValue
<1>4. CASE t = "num" /\ Whole(v)
  <2>1. AsInt(v) \in Int /\ 2 * AsInt(v) = v
    BY <1>4, WholeAsInt DEF Bindable
  <2>2. LiteRead(LiteBound(Lua(t, v))) = Lua("int", AsInt(v))
    BY <1>4 DEF Lua, LiteRead, LiteBound, Bound
  <2>3. QED
    BY <1>4, <2>1, <2>2 DEF Same, Lua
<1>5. CASE t = "num" /\ ~Whole(v)
  <2>1. LiteRead(LiteBound(Lua(t, v))) = Lua("num", v)
    BY <1>5 DEF Lua, LiteRead, LiteBound, Bound
  <2>2. QED
    BY <1>5, <2>1 DEF Same, Lua
<1>6. CASE t \in {"text", "bytes"}
  BY <1>6 DEF Same, Lua, LiteRead, LiteBound, Bound
<1>7. QED
  BY <1>1, <1>2, <1>3, <1>4, <1>5, <1>6 DEF Bindable

(* Postgres gives back what was bound, or refuses to read it. *)
LEMMA PgReadsBack ==
    ASSUME NEW t, NEW v, Bindable(t, v)
    PROVE  \/ PgRead(PgBound(Lua(t, v))) = Undecoded
           \/ Same(Lua(t, v), PgRead(PgBound(Lua(t, v))))
<1>1. CASE t \in {"nil", "null"}
  BY <1>1 DEF Same, Lua, PgRead, PgBound, Bound, NullValue
<1>2. CASE t \in {"bool", "other"}
  BY <1>2 DEF Lua, PgRead, PgBound, Bound
<1>3. CASE t = "int"
  BY <1>3 DEF Same, Lua, PgRead, PgBound, Bound
<1>4. CASE t = "num" /\ Whole(v)
  <2>1. AsInt(v) \in Int /\ 2 * AsInt(v) = v
    BY <1>4, WholeAsInt DEF Bindable
  <2>2. PgRead(PgBound(Lua(t, v))) = Lua("int", AsInt(v))
    BY <1>4 DEF Lua, PgRead, PgBound, Bound
  <2>3. QED
    BY <1>4, <2>1, <2>2 DEF Same, Lua
<1>5. CASE t = "num" /\ ~Whole(v)
  <2>1. PgRead(PgBound(Lua(t, v))) = Lua("num", v)
    BY <1>5 DEF Lua, PgRead, PgBound, Bound
  <2>2. QED
    BY <1>5, <2>1 DEF Same, Lua
<1>6. CASE t \in {"text", "bytes"}
  BY <1>6 DEF Same, Lua, PgRead, PgBound, Bound
<1>7. QED
  BY <1>1, <1>2, <1>3, <1>4, <1>5, <1>6 DEF Bindable

(* Whatever is bound to a statement reads back as the same value, on both  *)
(* backends and for any width of the integers: the edge of the range is    *)
(* neither cut off nor turned into its neighbour (sqlite.rs:164-199,       *)
(* postgres.rs:55-128).                                                    *)
LEMMA ValuesReadBack ==
    ASSUME NEW x \in LuaValue
    PROVE  ReadsBack(x)
<1>1. x = Lua(x.t, x.v) /\ Bindable(x.t, x.v)
  BY DEF LuaValue, Lua, Bindable
<1>2. x.t # "other" => Same(x, LiteRead(LiteBound(x)))
  BY <1>1, LiteReadsBack
<1>3. PgRead(PgBound(x)) = Undecoded \/ Same(x, PgRead(PgBound(x)))
  BY <1>1, PgReadsBack
<1>4. QED
  BY <1>2, <1>3 DEF ReadsBack

-----------------------------------------------------------------------------
(* The two backends, row by row. *)

Alike(lite, pg) == Moved(lite.row) = pg.row /\ lite.out = pg.out

LEMMA ExpiryTyped ==
    ASSUME NEW at \in Nat, NEW ttl \in Nat
    PROVE  ExpiryAt(at, ttl) \in Expiry
  BY WidthAssumption DEF ExpiryAt, Expiry

LEMMA StoredMoves ==
    ASSUME NEW v \in Blobs \cup Nums, NEW e \in Expiry
    PROVE  Moved(LiteStored(v, e)) = PgStored(v, e)
<1>1. LiteStored(v, e) \in LiteRow /\ LiteStored(v, e).type = "blob"
      /\ LiteStored(v, e).value = v /\ LiteStored(v, e).expires = e
  BY DEF LiteStored, LiteRow
<1>2. LiteStored(v, e) # NoRow
  BY <1>1, RowAssumption
<1>3. QED
  BY <1>1, <1>2 DEF Moved

LEMMA CounterMoves ==
    ASSUME NEW n \in Nums, NEW e \in Expiry
    PROVE  Moved([type |-> "integer", value |-> n, expires |-> e]) = PgCounter(n, e)
<1> DEFINE r == [type |-> "integer", value |-> n, expires |-> e]
<1>1. r \in LiteRow /\ r.type = "integer" /\ r.value = n /\ r.expires = e
  BY DEF LiteRow
<1> HIDE DEF r
<1>2. r # NoRow
  BY <1>1, RowAssumption
<1>3. Moved(r) = PgCounter(n, e)
  BY <1>1, <1>2 DEF Moved
<1>4. QED
  BY <1>3 DEF r

(* A row and the one Postgres keeps for it. *)
LEMMA MovedRow ==
    ASSUME NEW row \in SharedRow, row # NoRow
    PROVE  /\ row.expires \in Expiry
           /\ Moved(row) # NoRow /\ Moved(row).expires = row.expires
           /\ \/ /\ row.type = "blob" /\ row.value \in Blobs \cup Nums
                 /\ row = LiteStored(row.value, row.expires)
                 /\ Moved(row) = PgStored(row.value, row.expires)
                 /\ Moved(row).kind = 0 /\ Moved(row).bytes = row.value
              \/ /\ row.type = "integer" /\ row.value \in Nums
                 /\ row = [type |-> "integer", value |-> row.value, expires |-> row.expires]
                 /\ Moved(row) = PgCounter(row.value, row.expires)
                 /\ Moved(row).kind = 1 /\ Moved(row).num = row.value
<1>1. row \in LiteRow /\ row.type # "real"
  BY DEF SharedRow
<1>2. CASE row.type = "blob"
  <2>1. row.value \in Blobs \cup Nums /\ row.expires \in Expiry
        /\ row = LiteStored(row.value, row.expires)
    BY <1>1, <1>2 DEF LiteRow, LiteStored
  <2>2. Moved(row) = PgStored(row.value, row.expires)
    BY <2>1, StoredMoves
  <2>3. PgStored(row.value, row.expires) \in PgRow
    BY <2>1 DEF PgStored, PgRow
  <2>4. PgStored(row.value, row.expires).kind = 0
        /\ PgStored(row.value, row.expires).bytes = row.value
        /\ PgStored(row.value, row.expires).expires = row.expires
    BY DEF PgStored
  <2>5. QED
    BY <1>2, <2>1, <2>2, <2>3, <2>4, RowAssumption
<1>3. CASE row.type = "integer"
  <2>1. row.value \in Nums /\ row.expires \in Expiry
        /\ row = [type |-> "integer", value |-> row.value, expires |-> row.expires]
    BY <1>1, <1>3 DEF LiteRow
  <2>2. Moved(row) = PgCounter(row.value, row.expires)
    BY <2>1, CounterMoves
  <2>3. PgCounter(row.value, row.expires) \in PgRow
    BY <2>1 DEF PgCounter, PgRow
  <2>4. PgCounter(row.value, row.expires).kind = 1
        /\ PgCounter(row.value, row.expires).num = row.value
        /\ PgCounter(row.value, row.expires).expires = row.expires
    BY DEF PgCounter
  <2>5. QED
    BY <1>3, <2>1, <2>2, <2>3, <2>4, RowAssumption
<1>4. QED
  BY <1>1, <1>2, <1>3 DEF LiteRow

LEMMA MovedLive ==
    ASSUME NEW row \in SharedRow, NEW at
    PROVE  /\ Live(Moved(row), at) = Live(row, at)
           /\ row = NoRow => Moved(row) = NoRow
<1>1. CASE row = NoRow
  BY <1>1 DEF Moved, Live
<1>2. CASE row # NoRow
  BY <1>2, MovedRow DEF Live, Expired
<1>3. QED
  BY <1>1, <1>2


LEMMA KeptSame ==
    ASSUME NEW row \in SharedRow, NEW out
    PROVE  Alike(Did(row, out), Did(Moved(row), out))
  BY DEF Alike, Did

LEMMA StoredSame ==
    ASSUME NEW v \in Blobs \cup Nums, NEW e \in Expiry, NEW out
    PROVE  Alike(Did(LiteStored(v, e), out), Did(PgStored(v, e), out))
  BY StoredMoves DEF Alike, Did

LEMMA CounterSame ==
    ASSUME NEW n \in Nums, NEW e \in Expiry, NEW out
    PROVE  Alike(Did([type |-> "integer", value |-> n, expires |-> e], out),
                Did(PgCounter(n, e), out))
  BY CounterMoves DEF Alike, Did

LEMMA DeletedSame ==
    ASSUME NEW out
    PROVE  Alike(Did(NoRow, out), Did(NoRow, out))
<1>1. Moved(NoRow) = NoRow
  BY DEF Moved
<1>2. QED
  BY <1>1 DEF Alike, Did

LEMMA ReadSame ==
    ASSUME NEW row \in SharedRow, NEW at \in Nat
    PROVE  LiteText(row, at) = PgText(Moved(row), at) /\ LiteTtl(row, at) = PgTtl(Moved(row), at)
<1>1. CASE ~Live(row, at)
  BY <1>1, MovedLive DEF LiteText, PgText, LiteTtl, PgTtl
<1>2. CASE Live(row, at)
  <2>1. row # NoRow
    BY <1>2 DEF Live
  <2>2. Live(Moved(row), at) /\ Moved(row).expires = row.expires
    BY <1>2, <2>1, MovedLive, MovedRow
  <2>3. LiteText(row, at) = PgText(Moved(row), at)
    BY <1>2, <2>1, <2>2, MovedRow DEF LiteText, PgText
  <2>4. LiteTtl(row, at) = PgTtl(Moved(row), at)
    BY <1>2, <2>2 DEF LiteTtl, PgTtl
  <2>5. QED
    BY <2>3, <2>4
<1>3. QED
  BY <1>1, <1>2

LEMMA InsertSame ==
    ASSUME NEW row \in SharedRow, NEW op \in Given, op.val # Nil, NEW at \in Nat
    PROVE  Alike(LiteInsertAbsent(row, op, at), PgInsertAbsent(Moved(row), op, at))
<1>1. op.val \in Blobs \cup Nums /\ ExpiryAt(at, op.ttl) \in Expiry
  BY ExpiryTyped DEF Given, CallArgs
<1>2. CASE Live(row, at)
  BY <1>2, MovedLive, KeptSame DEF LiteInsertAbsent, PgInsertAbsent
<1>3. CASE ~Live(row, at)
  BY <1>1, <1>3, MovedLive, StoredSame DEF LiteInsertAbsent, PgInsertAbsent
<1>4. QED
  BY <1>2, <1>3

(* What is expected is found by both or by neither: a counter has no text. *)
LEMMA HoldsSame ==
    ASSUME NEW row \in SharedRow, NEW op, NEW at
    PROVE  /\ LiteHolds(row, op, at) = PgHolds(Moved(row), op, at)
           /\ LiteHolds(row, op, at) => /\ row.expires \in Expiry
                                        /\ Moved(row).expires = row.expires
<1>1. CASE ~Live(row, at)
  BY <1>1, MovedLive DEF LiteHolds, PgHolds
<1>2. CASE Live(row, at)
  <2>1. row # NoRow
    BY <1>2 DEF Live
  <2>2. QED
    BY <1>2, <2>1, MovedLive, MovedRow DEF LiteHolds, PgHolds
<1>3. QED
  BY <1>1, <1>2

LEMMA CasSame ==
    ASSUME NEW row \in SharedRow, NEW op \in Given, NEW at \in Nat
    PROVE  Alike(LiteCas(row, op, at), PgCas(Moved(row), op, at))
<1>1. ExpiryAt(at, op.ttl) \in Expiry
  BY ExpiryTyped DEF Given, CallArgs
<1>2. CASE op.expected = Nil /\ op.val = Nil
  <2>1. LiteCas(row, op, at) = Did(row, ~Live(row, at))
    BY <1>2 DEF LiteCas
  <2>2. PgCas(Moved(row), op, at) = Did(Moved(row), ~Live(row, at))
    BY <1>2, MovedLive DEF PgCas
  <2>3. QED
    BY <2>1, <2>2, KeptSame
<1>3. CASE op.expected = Nil /\ op.val # Nil
  <2>1. LiteCas(row, op, at) = LiteInsertAbsent(row, op, at)
    BY <1>3 DEF LiteCas
  <2>2. PgCas(Moved(row), op, at) = PgInsertAbsent(Moved(row), op, at)
    BY <1>3 DEF PgCas
  <2>3. QED
    BY <1>3, <2>1, <2>2, InsertSame
<1>4. CASE op.expected # Nil /\ op.val # Nil
  <2>1. LiteCas(row, op, at) = LiteCasReplace(row, op, at)
    BY <1>4 DEF LiteCas
  <2>2. PgCas(Moved(row), op, at) = PgCasReplace(Moved(row), op, at)
    BY <1>4 DEF PgCas
  <2>3. Alike(LiteCasReplace(row, op, at), PgCasReplace(Moved(row), op, at))
    <3> DEFINE e == Coalesce(ExpiryAt(at, op.ttl), row.expires)
    <3>1. CASE LiteHolds(row, op, at)
      <4>1. LiteCasReplace(row, op, at) = Did(LiteStored(op.val, e), TRUE)
        BY <3>1 DEF LiteCasReplace
      <4>2. PgCasReplace(Moved(row), op, at) = Did(PgStored(op.val, e), TRUE)
        BY <3>1, HoldsSame DEF PgCasReplace
      <4>3. op.val \in Blobs \cup Nums /\ e \in Expiry
        BY <1>1, <1>4, <3>1, HoldsSame DEF Given, CallArgs, Coalesce
      <4> HIDE DEF e
      <4>4. QED
        BY <4>1, <4>2, <4>3, StoredSame
    <3>2. CASE ~LiteHolds(row, op, at)
      BY <3>2, HoldsSame, KeptSame DEF LiteCasReplace, PgCasReplace
    <3>3. QED
      BY <3>1, <3>2
  <2>4. QED
    BY <2>1, <2>2, <2>3
<1>5. CASE op.expected # Nil /\ op.val = Nil
  <2>1. LiteCas(row, op, at) = LiteCasDelete(row, op, at)
    BY <1>5 DEF LiteCas
  <2>2. PgCas(Moved(row), op, at) = PgCasDelete(Moved(row), op, at)
    BY <1>5 DEF PgCas
  <2>3. Alike(LiteCasDelete(row, op, at), PgCasDelete(Moved(row), op, at))
    <3>1. CASE LiteHolds(row, op, at)
      BY <3>1, HoldsSame, DeletedSame DEF LiteCasDelete, PgCasDelete
    <3>2. CASE ~LiteHolds(row, op, at)
      BY <3>2, HoldsSame, KeptSame DEF LiteCasDelete, PgCasDelete
    <3>3. QED
      BY <3>1, <3>2
  <2>4. QED
    BY <2>1, <2>2, <2>3
<1>6. QED
  BY <1>2, <1>3, <1>4, <1>5

LEMMA IncrTyped ==
    ASSUME NEW row \in SharedRow, NEW op \in Given, NEW at \in Nat
    PROVE  IncrExpiry(row, op, at) \in Expiry
<1> DEFINE asked == ExpiryAt(at, op.ttl)
<1>1. asked \in Expiry
  BY ExpiryTyped DEF Given, CallArgs
<1>2. Live(row, at) => row.expires \in Expiry
  BY MovedRow DEF Live
<1>3. /\ IncrExpiry(row, op, at) \in {asked, Coalesce(asked, row.expires), row.expires}
      /\ ~Live(row, at) => IncrExpiry(row, op, at) = asked
  BY DEF IncrExpiry
<1>4. Coalesce(asked, row.expires) \in {asked, row.expires}
  BY DEF Coalesce
<1> HIDE DEF asked
<1>5. QED
  BY <1>1, <1>2, <1>3, <1>4

LEMMA IncrExpirySame ==
    ASSUME NEW row \in SharedRow, NEW op \in Given, NEW at \in Nat
    PROVE  /\ IncrExpiry(row, op, at) \in Expiry
           /\ PgIncrExpiry(Moved(row), op, at) = IncrExpiry(row, op, at)
<1>1. IncrExpiry(row, op, at) \in Expiry
  BY IncrTyped
<1>2. CASE ~Live(row, at)
  BY <1>1, <1>2, MovedLive DEF IncrExpiry, PgIncrExpiry
<1>3. CASE Live(row, at)
  <2>1. row # NoRow
    BY <1>3 DEF Live
  <2>2. Live(Moved(row), at) /\ Moved(row).expires = row.expires
    BY <1>3, <2>1, MovedLive, MovedRow
  <2>3. QED
    BY <1>1, <1>3, <2>2 DEF IncrExpiry, PgIncrExpiry
<1>4. QED
  BY <1>2, <1>3

LEMMA IncrSame ==
    ASSUME NEW row \in SharedRow, NEW op \in Given, op.call = "incr", NEW at \in Nat,
           ~Overflows(row, op, at)
    PROVE  Alike(LiteIncr(row, op, at), PgIncr(Moved(row), op, at))
<1> DEFINE e == IncrExpiry(row, op, at)
           pe == PgIncrExpiry(Moved(row), op, at)
           counter(n) == Did([type |-> "integer", value |-> n, expires |-> e], n)
<1>1. e \in Expiry /\ pe = e
  BY IncrExpirySame
<1>2. CASE ~Live(row, at)
  <2>1. LiteIncr(row, op, at) = counter(op.delta)
    BY <1>2 DEF LiteIncr
  <2>2. PgIncr(Moved(row), op, at) = Did(PgCounter(op.delta, pe), op.delta)
    BY <1>2, MovedLive DEF PgIncr
  <2> HIDE DEF e, pe
  <2>3. Alike(counter(op.delta), Did(PgCounter(op.delta, e), op.delta))
    BY <1>1, CounterSame DEF Given, CallArgs
  <2>4. QED
    BY <1>1, <2>1, <2>2, <2>3
<1>3. CASE Live(row, at)
  <2>1. row # NoRow
    BY <1>3 DEF Live
  <2>2. Live(Moved(row), at)
    BY <1>3, MovedLive
  <2>3. CASE row.type = "blob"
    <3>1. Moved(row).kind = 0
      BY <2>1, <2>3, MovedRow
    <3>2. LiteIncr(row, op, at) = Did(row, Nil)
      BY <1>3, <2>3 DEF LiteIncr
    <3>3. PgIncr(Moved(row), op, at) = Did(Moved(row), Nil)
      BY <2>2, <3>1 DEF PgIncr
    <3>4. QED
      BY <3>2, <3>3, KeptSame
  <2>4. CASE row.type = "integer"
    <3> DEFINE n == row.value + op.delta
    <3>1. n \in Nums
      BY <1>3, <2>4 DEF Overflows
    <3>2. Moved(row).kind = 1 /\ Moved(row).num = row.value
      BY <2>1, <2>4, MovedRow
    <3>3. LiteIncr(row, op, at) = counter(n)
      BY <1>3, <2>4, <3>1 DEF LiteIncr
    <3>4. PgIncr(Moved(row), op, at) = Did(PgCounter(n, pe), n)
      BY <2>2, <3>1, <3>2 DEF PgIncr
    <3> HIDE DEF e, pe, n
    <3>5. Alike(counter(n), Did(PgCounter(n, e), n))
      BY <1>1, <3>1, CounterSame
    <3>6. QED
      BY <1>1, <3>3, <3>4, <3>5
  <2>5. QED
    BY <2>1, <2>3, <2>4, MovedRow
<1>4. QED
  BY <1>2, <1>3

LEMMA ExpireSame ==
    ASSUME NEW row \in SharedRow, NEW op \in Given, NEW at \in Nat
    PROVE  Alike(LiteExpire(row, op, at), PgExpire(Moved(row), op, at))
<1> DEFINE e == ExpiryAt(at, op.ttl)
<1>1. e \in Expiry
  BY ExpiryTyped DEF Given, CallArgs
<1>2. CASE ~Live(row, at)
  BY <1>2, MovedLive, KeptSame DEF LiteExpire, PgExpire
<1>3. CASE Live(row, at)
  <2>1. row # NoRow
    BY <1>3 DEF Live
  <2>2. LiteExpire(row, op, at) = Did([row EXCEPT !.expires = e], TRUE)
    BY <1>3 DEF LiteExpire
  <2>3. PgExpire(Moved(row), op, at) = Did([Moved(row) EXCEPT !.expires = e], TRUE)
    BY <1>3, MovedLive DEF PgExpire
  <2> HIDE DEF e
  <2>4. CASE row = LiteStored(row.value, row.expires) /\ row.value \in Blobs \cup Nums
             /\ Moved(row) = PgStored(row.value, row.expires)
    <3>1. [row EXCEPT !.expires = e] = LiteStored(row.value, e)
      BY <2>4 DEF LiteStored
    <3>2. [Moved(row) EXCEPT !.expires = e] = PgStored(row.value, e)
      BY <2>4 DEF PgStored
    <3>3. Alike(Did(LiteStored(row.value, e), TRUE), Did(PgStored(row.value, e), TRUE))
      BY <1>1, <2>4, StoredSame
    <3>4. QED
      BY <2>2, <2>3, <3>1, <3>2, <3>3
  <2>5. CASE row = [type |-> "integer", value |-> row.value, expires |-> row.expires]
             /\ row.value \in Nums
             /\ Moved(row) = PgCounter(row.value, row.expires)
    <3>1. [row EXCEPT !.expires = e] = [type |-> "integer", value |-> row.value, expires |-> e]
      BY <2>5
    <3>2. [Moved(row) EXCEPT !.expires = e] = PgCounter(row.value, e)
      BY <2>5 DEF PgCounter
    <3>3. Alike(Did([type |-> "integer", value |-> row.value, expires |-> e], TRUE), Did(PgCounter(row.value, e), TRUE))
      BY <1>1, <2>5, CounterSame
    <3>4. QED
      BY <2>2, <2>3, <3>1, <3>2, <3>3
  <2>6. QED
    BY <2>1, <2>4, <2>5, MovedRow
<1>4. QED
  BY <1>2, <1>3

(* On a row that both backends can keep, a statement leaves the same row   *)
(* and answers the same on SQLite and on Postgres, whatever its arguments  *)
(* and its instant, short of a sum that overflows (kv.rs:7-9).             *)
LEMMA BackendsSame ==
    ASSUME NEW row \in SharedRow, NEW op \in Given, NEW at \in Nat
    PROVE  SameOnBoth(row, op, at)
<1> SUFFICES ASSUME ~Overflows(row, op, at)
             PROVE  Alike(LiteStatement(row, op, at), PgStatement(Moved(row), op, at))
  BY DEF SameOnBoth, Alike
<1>1. ExpiryAt(at, op.ttl) \in Expiry
  BY ExpiryTyped DEF Given, CallArgs
<1>2. CASE op.call = "get"
  <2>1. LiteStatement(row, op, at) = Did(row, LiteText(row, at))
        /\ PgStatement(Moved(row), op, at) = Did(Moved(row), PgText(Moved(row), at))
    BY <1>2 DEF LiteStatement, PgStatement
  <2>2. QED
    BY <2>1, ReadSame, KeptSame
<1>3. CASE op.call = "set"
  <2>1. LiteStatement(row, op, at) = Did(LiteStored(op.val, ExpiryAt(at, op.ttl)), TRUE)
        /\ PgStatement(Moved(row), op, at) = Did(PgStored(op.val, ExpiryAt(at, op.ttl)), TRUE)
    BY <1>3 DEF LiteStatement, PgStatement, LiteSet, PgSet
  <2>2. op.val \in Blobs \cup Nums
    BY <1>3 DEF Given, CallArgs
  <2>3. QED
    BY <1>1, <2>1, <2>2, StoredSame
<1>4. CASE op.call = "delete"
  <2>1. LiteStatement(row, op, at) = Did(NoRow, TRUE)
        /\ PgStatement(Moved(row), op, at) = Did(NoRow, TRUE)
    BY <1>4 DEF LiteStatement, PgStatement
  <2>2. QED
    BY <2>1, DeletedSame
<1>5. CASE op.call = "add"
  <2>1. LiteStatement(row, op, at) = LiteInsertAbsent(row, op, at)
        /\ PgStatement(Moved(row), op, at) = PgInsertAbsent(Moved(row), op, at)
    BY <1>5 DEF LiteStatement, PgStatement
  <2>2. QED
    BY <1>5, <2>1, InsertSame DEF Given, CallArgs
<1>6. CASE op.call = "cas"
  <2>1. LiteStatement(row, op, at) = LiteCas(row, op, at)
        /\ PgStatement(Moved(row), op, at) = PgCas(Moved(row), op, at)
    BY <1>6 DEF LiteStatement, PgStatement
  <2>2. QED
    BY <2>1, CasSame
<1>7. CASE op.call = "incr"
  <2>1. LiteStatement(row, op, at) = LiteIncr(row, op, at)
        /\ PgStatement(Moved(row), op, at) = PgIncr(Moved(row), op, at)
    BY <1>7 DEF LiteStatement, PgStatement
  <2>2. QED
    BY <1>7, <2>1, IncrSame
<1>8. CASE op.call = "expire"
  <2>1. LiteStatement(row, op, at) = LiteExpire(row, op, at)
        /\ PgStatement(Moved(row), op, at) = PgExpire(Moved(row), op, at)
    BY <1>8 DEF LiteStatement, PgStatement
  <2>2. QED
    BY <2>1, ExpireSame
<1>9. CASE op.call = "ttl"
  <2>1. LiteStatement(row, op, at) = Did(row, LiteTtl(row, at))
        /\ PgStatement(Moved(row), op, at) = Did(Moved(row), PgTtl(Moved(row), at))
    BY <1>9 DEF LiteStatement, PgStatement
  <2>2. QED
    BY <2>1, ReadSame, KeptSame
<1>10. QED
  BY <1>2, <1>3, <1>4, <1>5, <1>6, <1>7, <1>8, <1>9 DEF Given, CallArgs

-----------------------------------------------------------------------------
(* Bodies *)

BodyState(body) == [cursor : 0 .. Len(body), streamed : BOOLEAN]
Outs == Seq(Bytes) \cup {Nothing, Raises}
HandlerState(body) == [st : BodyState(body), outs : Seq(Outs)]

(* What an operation may do, whatever was done before it: st is what it     *)
(* found, d what it left and returned.                                      *)
GoesOn(body, st, op, d) ==
    /\ d.st \in BodyState(body) /\ d.out \in Outs
    /\ d.st.streamed <=> st.streamed \/ op.call = "some"
    /\ st.cursor <= d.st.cursor
    /\ IF op.call = "whole"
       THEN d.st.cursor = st.cursor /\ d.out = IF st.streamed THEN Raises ELSE body
       ELSE \/ d.out = Nothing /\ d.st.cursor = st.cursor
            \/ /\ d.out # Nothing /\ d.out \in Seq(Bytes)
               /\ d.out = SubSeq(body, st.cursor + 1, d.st.cursor)

LEMMA PartOf ==
    ASSUME NEW X, NEW q \in Seq(X), NEW a \in 0 .. Len(q), NEW b \in a .. Len(q)
    PROVE  /\ SubSeq(q, a + 1, b) \in Seq(X)
           /\ Len(SubSeq(q, a + 1, b)) = b - a
           /\ \A i \in 1 .. b - a : SubSeq(q, a + 1, b)[i] = q[a + i]
<1>1. \A i \in a + 1 .. b : q[i] \in X
  OBVIOUS
<1>2. a + 1 \in Int /\ b \in Int
  OBVIOUS
<1>3. /\ SubSeq(q, a + 1, b) \in Seq(X)
      /\ Len(SubSeq(q, a + 1, b)) = IF a + 1 <= b THEN b - (a + 1) + 1 ELSE 0
      /\ \A i \in 1 .. b - (a + 1) + 1 : SubSeq(q, a + 1, b)[i] = q[(a + 1) + i - 1]
  BY <1>1, <1>2, SubSeqProperties
<1>4. QED
  BY <1>3

LEMMA NothingApart == Nothing # Panic /\ Nothing \notin Seq(Bytes) /\ Panic \notin Outs
  BY OutcomeAssumption DEF Outs

LEMMA OpGoesOn ==
    ASSUME NEW body \in Seq(Bytes), NEW st \in BodyState(body), NEW op \in ReadOp
    PROVE  GoesOn(body, st, op, Does(body, st, op))
<1> DEFINE c == st.cursor
           n == Len(body)
           d == Does(body, st, op)
<1>1. c \in 0 .. n /\ n \in Nat /\ st.streamed \in BOOLEAN
  BY DEF BodyState
<1>2. \A to \in c .. n :
         /\ Slice(body, c, to) = SubSeq(body, c + 1, to)
         /\ SubSeq(body, c + 1, to) \in Seq(Bytes)
  <2> SUFFICES ASSUME NEW to \in c .. n
               PROVE  /\ Slice(body, c, to) = SubSeq(body, c + 1, to)
                      /\ SubSeq(body, c + 1, to) \in Seq(Bytes)
    OBVIOUS
  <2>1. SubSeq(body, c + 1, to) \in Seq(Bytes)
    <3> HIDE DEF c
    <3>1. QED
      BY <1>1, PartOf
  <2>2. 0 <= c /\ c <= to /\ to <= Len(body)
    BY <1>1
  <2>3. QED
    BY <2>1, <2>2 DEF Slice
<1>3. CASE op.call = "rest"
  <2>1. d.st = [cursor |-> n, streamed |-> st.streamed] /\ d.out = SubSeq(body, c + 1, n)
    <3>1. [st EXCEPT !.cursor = n] = [cursor |-> n, streamed |-> st.streamed]
      BY DEF BodyState
    <3>2. d = Leaves([st EXCEPT !.cursor = n], Slice(body, c, n))
      BY <1>3 DEF Does, ReadRest
    <3>3. QED
      BY <1>1, <1>2, <3>1, <3>2 DEF Leaves
  <2> HIDE DEF d
  <2>2. d.out \in Seq(Bytes)
    BY <1>1, <1>2, <2>1
  <2>3. d.st \in BodyState(body) /\ d.st.cursor = n
    BY <1>1, <2>1 DEF BodyState
  <2>4. d.st.streamed <=> st.streamed \/ op.call = "some"
    BY <1>3, <2>1
  <2>5. d.out # Nothing /\ d.out \in Outs
    BY <2>2, NothingApart DEF Outs
  <2>6. st.cursor <= d.st.cursor /\ d.out = SubSeq(body, st.cursor + 1, d.st.cursor)
    <3>1. st.cursor <= d.st.cursor
      BY <1>1, <2>3
    <3>2. d.out = SubSeq(body, st.cursor + 1, d.st.cursor)
      BY <2>1, <2>3, Zenon
    <3>3. QED
      BY <3>1, <3>2
  <2>7. op.call # "whole"
    BY <1>3
  <2>8. GoesOn(body, st, op, d)
    BY <2>2, <2>3, <2>4, <2>5, <2>6, <2>7, Zenon DEF GoesOn
  <2>9. QED
    BY <2>8 DEF d
<1>4. CASE op.call = "whole"
  <2>1. d.st = st /\ d.out = IF st.streamed THEN Raises ELSE body
    BY <1>4 DEF Does, WholeBody, Leaves
  <2> HIDE DEF d
  <2>2. QED
    BY <1>1, <1>4, <2>1 DEF GoesOn, Outs, d
<1>5. CASE op.call = "some"
  <2>1. op.n \in Nat
    BY <1>5 DEF ReadOp
  <2>2. CASE c >= n /\ op.n > 0
    <3>1. d.st = [cursor |-> c, streamed |-> TRUE] /\ d.out = Nothing
      <4>1. [st EXCEPT !.streamed = TRUE] = [cursor |-> c, streamed |-> TRUE]
        <5> DEFINE y == [st EXCEPT !.streamed = TRUE]
        <5>1. DOMAIN st = {"cursor", "streamed"}
          BY DEF BodyState
        <5>2. DOMAIN y = {"cursor", "streamed"} /\ y.cursor = c /\ y.streamed = TRUE
          BY <5>1
        <5>3. y = [x \in {"cursor", "streamed"} |-> y[x]]
          BY <5>2
        <5> HIDE DEF y
        <5>4. y = [cursor |-> c, streamed |-> TRUE]
          BY <5>2, <5>3, Zenon
        <5>5. QED
          BY <5>4 DEF y
      <4>2. d = Leaves([st EXCEPT !.streamed = TRUE], Nothing)
        BY <1>5, <2>2 DEF Does, ReadSome
      <4>3. QED
        BY <4>1, <4>2 DEF Leaves
    <3> HIDE DEF d
    <3>2. QED
      BY <1>1, <1>5, <3>1 DEF GoesOn, BodyState, Outs, d
  <2>3. CASE ~(c >= n /\ op.n > 0)
    <3> DEFINE end == AtMost(c + op.n, n)
    <3>1. end \in c .. n
      BY <1>1, <2>1 DEF AtMost
    <3>2. d = Leaves([cursor |-> end, streamed |-> TRUE], Slice(body, c, end))
      BY <1>5, <2>3 DEF Does, ReadSome
    <3> HIDE DEF end
    <3>3. d.st = [cursor |-> end, streamed |-> TRUE] /\ d.out = SubSeq(body, c + 1, end)
      BY <1>2, <3>1, <3>2 DEF Leaves
    <3> HIDE DEF d
    <3>4. d.out \in Seq(Bytes)
      BY <1>2, <3>1, <3>3
    <3>5. d.st \in BodyState(body) /\ d.st.cursor = end /\ d.st.streamed
      BY <1>1, <3>1, <3>3 DEF BodyState
    <3>6. d.out # Nothing /\ d.out \in Outs
      BY <3>4, NothingApart DEF Outs
    <3>7. st.cursor <= d.st.cursor /\ d.out = SubSeq(body, st.cursor + 1, d.st.cursor)
      BY <1>1, <3>1, <3>3, <3>5
    <3>8. op.call # "whole"
      BY <1>5
    <3>9. GoesOn(body, st, op, d)
      BY <1>5, <3>4, <3>5, <3>6, <3>7, <3>8, Zenon DEF GoesOn
    <3>10. QED
      BY <3>9 DEF d
  <2>4. QED
    BY <2>2, <2>3
<1>6. QED
  BY <1>3, <1>4, <1>5 DEF ReadOp

(* The states of a handler, one after each operation. *)
HandlerRun(f, body, ops) ==
    /\ f \in [0 .. Len(ops) -> HandlerState(body)]
    /\ f = [i \in 0 .. Len(ops) |->
                IF i = 0
                THEN [st |-> Unread, outs |-> <<>>]
                ELSE Handles(body, f[i - 1], ops[i])]

LEMMA HandlesTyped ==
    ASSUME NEW body \in Seq(Bytes), NEW s \in HandlerState(body), NEW op \in ReadOp
    PROVE  /\ Handles(body, s, op).st = Does(body, s.st, op).st
           /\ Handles(body, s, op).outs = Append(s.outs, Does(body, s.st, op).out)
           /\ Handles(body, s, op) \in HandlerState(body)
<1>1. s.st \in BodyState(body) /\ s.outs \in Seq(Outs)
  BY DEF HandlerState
<1>2. GoesOn(body, s.st, op, Does(body, s.st, op))
  BY <1>1, OpGoesOn
<1>3. /\ Does(body, s.st, op).st \in BodyState(body)
      /\ Append(s.outs, Does(body, s.st, op).out) \in Seq(Outs)
  BY <1>1, <1>2 DEF GoesOn
<1>4. QED
  BY <1>3 DEF Handles, HandlerState

LEMMA HandledRuns ==
    ASSUME NEW body \in Seq(Bytes), NEW ops \in Seq(ReadOp)
    PROVE  \E f : HandlerRun(f, body, ops) /\ Handled(body, ops) = f[Len(ops)]
<1> DEFINE n == Len(ops)
           T == HandlerState(body)
           a == [st |-> Unread, outs |-> <<>>]
           G == [i \in 1 .. n |-> [s \in T |-> Handles(body, s, ops[i])]]
           Run(f) == f = [i \in 0 .. n |-> IF i = 0 THEN a ELSE Handles(body, f[i - 1], ops[i])]
<1>1. n \in Nat /\ a \in T
  BY DEF HandlerState, BodyState, Unread
<1>2. \A i \in 1 .. n : ops[i] \in ReadOp
  OBVIOUS
<1>3. \A i \in 1 .. n : \A s \in T : Handles(body, s, ops[i]) \in T
  BY <1>2, HandlesTyped
<1>4. ASSUME NEW f
      PROVE  f \in [0 .. n -> T] /\ Iterates(f, a, G, n) => Run(f)
  <2> HIDE DEF T, a
  <2>1. ASSUME f \in [0 .. n -> T], Iterates(f, a, G, n)
        PROVE  \A i \in 0 .. n : f[i] = IF i = 0 THEN a ELSE Handles(body, f[i - 1], ops[i])
    <3>1. \A i \in 0 .. n : f[i] = IF i = 0 THEN a ELSE G[i][f[i - 1]]
      <4> HIDE DEF G
      <4>1. QED
        BY <2>1 DEF Iterates
    <3>2. \A i \in 1 .. n : f[i - 1] \in T
      BY <1>1, <2>1
    <3>3. \A i \in 1 .. n : \A s \in T : G[i][s] = Handles(body, s, ops[i])
      OBVIOUS
    <3> HIDE DEF G, n
    <3>4. QED
      BY <1>1, <3>1, <3>2, <3>3
  <2>2. QED
    BY <2>1
<1>5. \E f \in [0 .. n -> T] : Run(f)
  <2>1. G \in [1 .. n -> [T -> T]]
    BY <1>3
  <2> HIDE DEF G, T, a, n, Run
  <2>2. QED
    BY <1>1, <1>4, <2>1, IterationExists
<1> DEFINE h == CHOOSE f : Run(f)
<1>6. Run(h)
  BY <1>5
<1>7. Handled(body, ops) = h[n]
  BY DEF Handled
<1> HIDE DEF h
<1>8. h \in [0 .. n -> T]
  <2> DEFINE S == [i \in 0 .. n |-> T]
  <2>1. h[0] \in S[0]
    BY <1>1, <1>6
  <2>2. \A i \in 1 .. n : h[i - 1] \in S[i - 1] => h[i] \in S[i]
    <3> HIDE DEF T
    <3>1. QED
      BY <1>3, <1>6
  <2>3. \A i \in 0 .. n : h[i] \in S[i]
    <3> HIDE DEF S, n, T
    <3>1. QED
      BY <1>1, <2>1, <2>2, KeptAlong
  <2>4. DOMAIN h = 0 .. n
    BY <1>6
  <2> HIDE DEF T, n
  <2>5. h = [i \in 0 .. n |-> h[i]]
    BY <1>6
  <2>6. QED
    BY <2>3, <2>5
<1>9. QED
  BY <1>6, <1>7, <1>8 DEF HandlerRun

(* Each operation finds what the one before it left. *)
LEMMA HandlerGoesOn ==
    ASSUME NEW body \in Seq(Bytes), NEW ops \in Seq(ReadOp), NEW f, HandlerRun(f, body, ops)
    PROVE  /\ f[0] = [st |-> Unread, outs |-> <<>>]
           /\ \A i \in 0 .. Len(ops) : f[i] \in HandlerState(body)
           /\ \A i \in 1 .. Len(ops) :
                 LET d == Does(body, f[i - 1].st, ops[i]) IN
                 /\ f[i].st = d.st /\ f[i].outs = Append(f[i - 1].outs, d.out)
                 /\ GoesOn(body, f[i - 1].st, ops[i], d)
<1>1. \A i \in 0 .. Len(ops) : f[i] \in HandlerState(body)
  BY DEF HandlerRun
<1>2. Len(ops) \in Nat
  OBVIOUS
<1>3. f[0] = [st |-> Unread, outs |-> <<>>]
  BY <1>2 DEF HandlerRun
<1>4. ASSUME NEW i \in 1 .. Len(ops)
      PROVE  LET d == Does(body, f[i - 1].st, ops[i]) IN
             /\ f[i].st = d.st /\ f[i].outs = Append(f[i - 1].outs, d.out)
             /\ GoesOn(body, f[i - 1].st, ops[i], d)
  <2>1. i - 1 \in 0 .. Len(ops) /\ i \in 0 .. Len(ops) /\ i # 0 /\ ops[i] \in ReadOp
    BY <1>2
  <2>2. f[i - 1] \in HandlerState(body) /\ f[i] = Handles(body, f[i - 1], ops[i])
    BY <1>1, <2>1 DEF HandlerRun
  <2>3. f[i - 1].st \in BodyState(body)
    BY <2>2 DEF HandlerState
  <2>4. GoesOn(body, f[i - 1].st, ops[i], Does(body, f[i - 1].st, ops[i]))
    BY <2>1, <2>3, OpGoesOn
  <2>5. /\ Handles(body, f[i - 1], ops[i]).st = Does(body, f[i - 1].st, ops[i]).st
        /\ Handles(body, f[i - 1], ops[i]).outs =
               Append(f[i - 1].outs, Does(body, f[i - 1].st, ops[i]).out)
    BY <2>1, <2>2, HandlesTyped
  <2>6. QED
    BY <2>2, <2>4, <2>5
<1>5. QED
  BY <1>1, <1>3, <1>4

LEMMA HandlerTold ==
    ASSUME NEW body \in Seq(Bytes), NEW ops \in Seq(ReadOp), NEW f, HandlerRun(f, body, ops)
    PROVE  \A i \in 0 .. Len(ops) :
               /\ Len(f[i].outs) = i
               /\ \A j \in 1 .. i : f[i].outs[j] = Does(body, f[j - 1].st, ops[j]).out
               /\ f[i].st.streamed <=> \E j \in 1 .. i : ops[j].call = "some"
<1> DEFINE n == Len(ops)
           Told(s, i) == /\ Len(s.outs) = i
                         /\ \A j \in 1 .. i : s.outs[j] = Does(body, f[j - 1].st, ops[j]).out
                         /\ s.st.streamed <=> \E j \in 1 .. i : ops[j].call = "some"
           S == [i \in 0 .. n |-> {s \in HandlerState(body) : Told(s, i)}]
<1>1. n \in Nat
  OBVIOUS
<1>2. f[0] \in S[0]
  <2>1. f[0] \in HandlerState(body) /\ f[0] = [st |-> Unread, outs |-> <<>>]
    BY <1>1, HandlerGoesOn
  <2>2. Told(f[0], 0)
    BY <2>1 DEF Unread
  <2> HIDE DEF Told
  <2>3. QED
    BY <1>1, <2>1, <2>2
<1>3. ASSUME NEW i \in 1 .. n, f[i - 1] \in S[i - 1]
      PROVE  f[i] \in S[i]
  <2> DEFINE d == Does(body, f[i - 1].st, ops[i])
             s == f[i - 1]
  <2>1. i - 1 \in 0 .. n /\ i \in 0 .. n
    BY <1>1
  <2>2. Told(s, i - 1) /\ s \in HandlerState(body)
    <3> HIDE DEF Told
    <3>1. QED
      BY <1>3, <2>1
  <2>3. /\ f[i].st = d.st /\ f[i].outs = Append(s.outs, d.out)
        /\ GoesOn(body, s.st, ops[i], d) /\ f[i] \in HandlerState(body)
    BY <2>1, HandlerGoesOn
  <2>4. s.outs \in Seq(Outs) /\ d.out \in Outs
    BY <2>2, <2>3 DEF HandlerState, GoesOn
  <2>5. /\ Len(f[i].outs) = i
        /\ f[i].outs[i] = d.out
        /\ \A j \in 1 .. i - 1 : f[i].outs[j] = s.outs[j]
    <3> HIDE DEF d, s
    <3>1. Len(s.outs) = i - 1
      BY <2>2
    <3>2. QED
      BY <2>1, <2>3, <2>4, <3>1, AppendProperties
  <2>6. \A j \in 1 .. i : f[i].outs[j] = Does(body, f[j - 1].st, ops[j]).out
    <3>1. \A j \in 1 .. i - 1 : s.outs[j] = Does(body, f[j - 1].st, ops[j]).out
      BY <2>2
    <3>2. 1 .. i = (1 .. i - 1) \cup {i}
      BY <1>1
    <3> HIDE DEF s
    <3>3. QED
      BY <2>5, <3>1, <3>2, Zenon
  <2>7. f[i].st.streamed <=> \E j \in 1 .. i : ops[j].call = "some"
    <3>1. f[i].st.streamed <=> s.st.streamed \/ ops[i].call = "some"
      BY <2>3 DEF GoesOn
    <3>2. s.st.streamed <=> \E j \in 1 .. i - 1 : ops[j].call = "some"
      BY <2>2
    <3>3. 1 .. i = (1 .. i - 1) \cup {i}
      BY <1>1
    <3> HIDE DEF s
    <3>4. QED
      BY <3>1, <3>2, <3>3, Zenon
  <2>8. Told(f[i], i)
    BY <2>5, <2>6, <2>7
  <2> HIDE DEF Told
  <2>9. QED
    BY <2>1, <2>3, <2>8
<1> HIDE DEF S, n
<1>4. \A i \in 0 .. n : f[i] \in S[i]
  BY <1>1, <1>2, <1>3, KeptAlong
<1>5. QED
  <2> HIDE DEF Told
  <2>1. \A i \in 0 .. n : Told(f[i], i)
    BY <1>4 DEF S
  <2>2. QED
    BY <2>1 DEF n, Told

(* The chunks handed out one after another, given[i] those of the first i.  *)
LEMMA ChunksRun ==
    ASSUME NEW ops, Len(ops) \in Nat, NEW outs,
           \A i \in 1 .. Len(ops) :
               ops[i].call = "whole" \/ outs[i] = Nothing \/ outs[i] \in Seq(Bytes)
    PROVE  \E g : /\ g[0] = <<>>
                  /\ \A i \in 1 .. Len(ops) :
                        g[i] = IF ops[i].call = "whole" \/ outs[i] = Nothing
                               THEN g[i - 1]
                               ELSE g[i - 1] \o outs[i]
                  /\ Chunks(ops, outs) = g[Len(ops)]
<1> DEFINE n == Len(ops)
           T == Seq(Bytes)
           a == <<>>
           Onward(x, i) == IF ops[i].call = "whole" \/ outs[i] = Nothing THEN x ELSE x \o outs[i]
           G == [i \in 1 .. n |-> [x \in T |-> Onward(x, i)]]
           Run(f) == f = [i \in 0 .. n |-> IF i = 0
                                          THEN <<>>
                                          ELSE IF ops[i].call = "whole" \/ outs[i] = Nothing
                                          THEN f[i - 1]
                                          ELSE f[i - 1] \o outs[i]]
<1>1. n \in Nat /\ a \in T
  OBVIOUS
<1>2. \A i \in 1 .. n : \A x \in T : Onward(x, i) \in T
  BY ConcatProperties
<1>3. ASSUME NEW f \in [0 .. n -> T], Iterates(f, a, G, n)
      PROVE  Run(f)
  <2>1. \A i \in 0 .. n : f[i] = IF i = 0 THEN a ELSE G[i][f[i - 1]]
    <3> HIDE DEF G, a
    <3>1. QED
      BY <1>3 DEF Iterates
  <2>2. \A i \in 1 .. n : f[i - 1] \in T
    BY <1>1
  <2>3. \A i \in 1 .. n : \A x \in T : G[i][x] = Onward(x, i)
    OBVIOUS
  <2>4. f = [i \in 0 .. n |-> f[i]]
    OBVIOUS
  <2>5. \A i \in 0 .. n : f[i] = IF i = 0 THEN <<>> ELSE Onward(f[i - 1], i)
    <3> HIDE DEF G, n, Onward, T
    <3>1. QED
      BY <1>1, <2>1, <2>2, <2>3
  <2>6. QED
    BY <2>4, <2>5
<1>4. \E f : Run(f)
  <2>1. G \in [1 .. n -> [T -> T]]
    BY <1>2
  <2> HIDE DEF G, T, a, n, Run
  <2>2. QED
    BY <1>1, <1>3, <2>1, IterationExists
<1> DEFINE h == CHOOSE f : Run(f)
<1>5. Run(h)
  <2> HIDE DEF Run
  <2>1. QED
    BY <1>4
<1>6. Chunks(ops, outs) = h[n]
  BY DEF Chunks
<1> HIDE DEF h
<1>7. h[0] = <<>> /\ \A i \in 1 .. n : h[i] = Onward(h[i - 1], i)
  BY <1>1, <1>5
<1>8. QED
  BY <1>6, <1>7

(* However a handler mixes the ways to read a body, it gets it once.        *)
LEMMA BodyOnce ==
    ASSUME NEW body \in Seq(Bytes), NEW ops \in Seq(ReadOp)
    PROVE  BodyReadOnce(body, ops)
<1> DEFINE n == Len(ops)
<1>1. PICK f : HandlerRun(f, body, ops) /\ Handled(body, ops) = f[n]
  BY HandledRuns
<1> DEFINE h == f[n]
           c(i) == f[i].st.cursor
           d(i) == Does(body, f[i - 1].st, ops[i])
<1>2. n \in Nat /\ n \in 0 .. n
  OBVIOUS
<1>3. \A i \in 1 .. n : h.outs[i] = d(i).out
  BY <1>1, <1>2, HandlerTold
<1>4. ASSUME NEW i \in 1 .. n
      PROVE  /\ GoesOn(body, f[i - 1].st, ops[i], d(i)) /\ f[i].st = d(i).st
             /\ i - 1 \in 0 .. n /\ i \in 0 .. n
  <2>1. i - 1 \in 0 .. n /\ i \in 0 .. n
    BY <1>2
  <2>2. QED
    BY <1>1, <2>1, HandlerGoesOn
<1>5. \A i \in 0 .. n : c(i) \in 0 .. Len(body) /\ f[i].st.streamed \in BOOLEAN
  <2>1. \A i \in 0 .. n : f[i] \in HandlerState(body)
    BY <1>1, HandlerGoesOn
  <2>2. QED
    BY <2>1 DEF HandlerState, BodyState
<1>6. \A i \in 1 .. n : h.outs[i] # Panic
  BY <1>3, <1>4, NothingApart DEF GoesOn
<1>7. h.st.cursor <= Len(body)
  BY <1>2, <1>5
<1>8. Chunks(ops, h.outs) = SubSeq(body, 1, h.st.cursor)
  <2>1. \A i \in 1 .. n :
            ops[i].call = "whole" \/ h.outs[i] = Nothing \/ h.outs[i] \in Seq(Bytes)
    BY <1>3, <1>4 DEF GoesOn
  <2>2. PICK g : /\ g[0] = <<>>
                 /\ \A i \in 1 .. n :
                       g[i] = IF ops[i].call = "whole" \/ h.outs[i] = Nothing
                              THEN g[i - 1]
                              ELSE g[i - 1] \o h.outs[i]
                 /\ Chunks(ops, h.outs) = g[n]
    <3> HIDE DEF h
    <3>1. QED
      BY <1>2, <2>1, ChunksRun
  <2> DEFINE S == [i \in 0 .. n |-> {SubSeq(body, 1, c(i))}]
  <2>3. g[0] \in S[0]
    <3>1. c(0) = 0
      BY <1>1, HandlerGoesOn DEF Unread
    <3>2. SubSeq(body, 1, 0) = <<>>
      BY SubSeqEmpty
    <3>3. QED
      BY <1>2, <2>2, <3>1, <3>2
  <2>4. ASSUME NEW i \in 1 .. n, g[i - 1] \in S[i - 1]
        PROVE  g[i] \in S[i]
    <3>1. g[i - 1] = SubSeq(body, 1, c(i - 1))
      BY <1>4, <2>4
    <3>2. GoesOn(body, f[i - 1].st, ops[i], d(i)) /\ c(i) = d(i).st.cursor /\ h.outs[i] = d(i).out
      BY <1>3, <1>4
    <3> HIDE DEF h, d
    <3>3. CASE ops[i].call = "whole" \/ h.outs[i] = Nothing
      <4>1. g[i] = g[i - 1]
        BY <2>2, <3>3
      <4>2. c(i) = c(i - 1)
        BY <3>2, <3>3 DEF GoesOn
      <4> HIDE DEF c
      <4>3. QED
        BY <1>4, <3>1, <4>1, <4>2
    <3>4. CASE ~(ops[i].call = "whole" \/ h.outs[i] = Nothing)
      <4>1. g[i] = g[i - 1] \o h.outs[i]
        BY <2>2, <3>4
      <4>2. h.outs[i] = SubSeq(body, c(i - 1) + 1, c(i)) /\ c(i - 1) <= c(i)
        BY <3>2, <3>4 DEF GoesOn
      <4>3. c(i - 1) \in 0 .. Len(body) /\ c(i) \in 0 .. Len(body)
        BY <1>4, <1>5
      <4> HIDE DEF c
      <4>4. SubSeq(body, 1, c(i - 1)) \o SubSeq(body, c(i - 1) + 1, c(i)) = SubSeq(body, 1, c(i))
        <5>1. /\ 1 \in 1 .. Len(body) + 1 /\ c(i - 1) \in 1 - 1 .. Len(body)
              /\ c(i) \in c(i - 1) .. Len(body)
          BY <4>2, <4>3
        <5>2. QED
          BY <5>1, ConcatAdjacentSubSeq
      <4>5. QED
        BY <1>4, <3>1, <4>1, <4>2, <4>4
    <3>5. QED
      BY <3>3, <3>4
  <2> HIDE DEF S
  <2>5. \A i \in 0 .. n : g[i] \in S[i]
    BY <1>2, <2>3, <2>4, KeptAlong
  <2>6. g[n] = SubSeq(body, 1, c(n))
    BY <1>2, <2>5 DEF S
  <2>7. QED
    BY <2>2, <2>6
<1>9. ASSUME NEW i \in 1 .. n, ops[i].call = "whole"
      PROVE  h.outs[i] = IF \E j \in 1 .. i - 1 : ops[j].call = "some" THEN Raises ELSE body
  <2>1. h.outs[i] = IF f[i - 1].st.streamed THEN Raises ELSE body
    BY <1>3, <1>4, <1>9 DEF GoesOn
  <2>2. f[i - 1].st.streamed <=> \E j \in 1 .. i - 1 : ops[j].call = "some"
    BY <1>1, <1>4, HandlerTold
  <2> HIDE DEF h
  <2>3. QED
    BY <2>1, <2>2
<1>10. QED
  BY <1>1, <1>6, <1>7, <1>8, <1>9 DEF BodyReadOnce

-----------------------------------------------------------------------------
(* Fields *)

Pairs == STRING \X STRING
TableOf(V) == UNION {[D -> V] : D \in SUBSET STRING}
Seconds(q) == [j \in DOMAIN q |-> q[j][2]]

LEMMA PutTyped ==
    ASSUME NEW V, NEW t \in TableOf(V), NEW k \in STRING, NEW v \in V
    PROVE  Put(t, k, v) \in TableOf(V)
<1>1. PICK D \in SUBSET STRING : t \in [D -> V]
  BY DEF TableOf
<1>2. Put(t, k, v) \in [D \cup {k} -> V]
  BY <1>1 DEF Put
<1>3. D \cup {k} \in SUBSET STRING
  OBVIOUS
<1>4. QED
  BY <1>2, <1>3 DEF TableOf

LEMMA NoFieldsTable ==
    ASSUME NEW V
    PROVE  NoFields \in TableOf(V) /\ DOMAIN NoFields = {}
<1>1. NoFields \in [{} -> V] /\ {} \in SUBSET STRING
  BY DEF NoFields
<1>2. QED
  BY <1>1 DEF TableOf, NoFields

LEMMA SecondsOf ==
    ASSUME NEW q \in Seq(Pairs)
    PROVE  /\ Seconds(q) \in Seq(STRING)
           /\ q = <<>> => Seconds(q) = <<>>
           /\ \A p \in Pairs : Seconds(Append(q, p)) = Append(Seconds(q), p[2])
<1>1. Len(q) \in Nat /\ DOMAIN q = 1 .. Len(q) /\ \A i \in 1 .. Len(q) : q[i] \in Pairs
  OBVIOUS
<1>2. /\ Seconds(q) \in Seq(STRING) /\ Len(Seconds(q)) = Len(q)
      /\ \A i \in 1 .. Len(q) : Seconds(q)[i] = q[i][2]
  <2>1. \A i \in 1 .. Len(q) : q[i][2] \in STRING
    BY <1>1 DEF Pairs
  <2>2. Seconds(q) = [i \in 1 .. Len(q) |-> q[i][2]]
    BY <1>1 DEF Seconds
  <2>3. Seconds(q) \in [1 .. Len(q) -> STRING]
    BY <2>1, <2>2
  <2>4. QED
    BY <1>1, <2>2, <2>3
<1>3. q = <<>> => Seconds(q) = <<>>
  BY <1>2, EmptySeq
<1>4. ASSUME NEW p \in Pairs
      PROVE  Seconds(Append(q, p)) = Append(Seconds(q), p[2])
  <2> DEFINE r == Append(q, p)
  <2>1. /\ r \in Seq(Pairs) /\ Len(r) = Len(q) + 1 /\ r[Len(q) + 1] = p
        /\ \A i \in 1 .. Len(q) : r[i] = q[i]
    BY AppendProperties
  <2>2. p[2] \in STRING
    BY DEF Pairs
  <2> HIDE DEF r
  <2>3. DOMAIN r = 1 .. Len(q) + 1
    BY <1>1, <2>1
  <2>4. \A i \in 1 .. Len(q) + 1 : r[i][2] \in STRING
    BY <2>1, <2>3 DEF Pairs
  <2>5. Seconds(r) = [i \in 1 .. Len(q) + 1 |-> r[i][2]]
    BY <2>3 DEF Seconds
  <2>6. Seconds(r) \in Seq(STRING) /\ Len(Seconds(r)) = Len(q) + 1
    BY <1>1, <2>4, <2>5
  <2>7. /\ Append(Seconds(q), p[2]) \in Seq(STRING)
        /\ Len(Append(Seconds(q), p[2])) = Len(q) + 1
        /\ Append(Seconds(q), p[2])[Len(q) + 1] = p[2]
        /\ \A i \in 1 .. Len(q) : Append(Seconds(q), p[2])[i] = q[i][2]
    BY <1>2, <2>2, AppendProperties
  <2>8. \A i \in 1 .. Len(q) + 1 : Seconds(r)[i] = Append(Seconds(q), p[2])[i]
    <3>1. \A i \in 1 .. Len(q) + 1 : i \in 1 .. Len(q) \/ i = Len(q) + 1
      BY <1>1
    <3>2. QED
      BY <2>1, <2>5, <2>7, <3>1
  <2>9. Seconds(r) = Append(Seconds(q), p[2])
    BY <2>6, <2>7, <2>8, SeqEqual
  <2>10. QED
    BY <2>9 DEF r
<1>5. QED
  BY <1>2, <1>3, <1>4

(* The tables of the first i pairs. *)
LastSteps(t, pairs) ==
    /\ t[0] = NoFields
    /\ \A i \in 1 .. Len(pairs) : t[i] = Put(t[i - 1], pairs[i][1], pairs[i][2])
AllSteps(u, pairs) ==
    /\ u[0] = NoFields
    /\ \A i \in 1 .. Len(pairs) :
          u[i] = Put(u[i - 1], pairs[i][1], Append(ListAt(u[i - 1], pairs[i][1]), pairs[i][2]))

LEMMA LastRun ==
    ASSUME NEW pairs \in Seq(Pairs)
    PROVE  \E t : LastSteps(t, pairs) /\ LastTable(pairs) = t[Len(pairs)]
<1> DEFINE n == Len(pairs)
           T == TableOf(STRING)
           Onward(x, i) == Put(x, pairs[i][1], pairs[i][2])
           G == [i \in 1 .. n |-> [x \in T |-> Onward(x, i)]]
           Run(f) == f = [i \in 0 .. n |-> IF i = 0 THEN NoFields ELSE Onward(f[i - 1], i)]
<1>1. n \in Nat /\ NoFields \in T
  BY NoFieldsTable
<1>2. \A i \in 1 .. n : \A x \in T : Onward(x, i) \in T
  <2>1. \A i \in 1 .. n : pairs[i] \in Pairs
    OBVIOUS
  <2>2. \A i \in 1 .. n : pairs[i][1] \in STRING /\ pairs[i][2] \in STRING
    BY <2>1 DEF Pairs
  <2>3. QED
    BY <2>2, PutTyped
<1>3. ASSUME NEW f \in [0 .. n -> T], Iterates(f, NoFields, G, n)
      PROVE  Run(f)
  <2>1. \A i \in 0 .. n : f[i] = IF i = 0 THEN NoFields ELSE G[i][f[i - 1]]
    <3> HIDE DEF G
    <3>1. QED
      BY <1>3 DEF Iterates
  <2>2. \A i \in 1 .. n : f[i - 1] \in T
    BY <1>1
  <2>3. \A i \in 1 .. n : \A x \in T : G[i][x] = Onward(x, i)
    OBVIOUS
  <2>4. f = [i \in 0 .. n |-> f[i]]
    OBVIOUS
  <2>5. \A i \in 0 .. n : f[i] = IF i = 0 THEN NoFields ELSE Onward(f[i - 1], i)
    <3> HIDE DEF G, n, Onward, T
    <3>1. QED
      BY <1>1, <2>1, <2>2, <2>3
  <2>6. QED
    BY <2>4, <2>5
<1>4. \E f : Run(f)
  <2>1. G \in [1 .. n -> [T -> T]]
    BY <1>2
  <2> HIDE DEF G, T, n, Run
  <2>2. QED
    BY <1>1, <1>3, <2>1, IterationExists
<1> DEFINE h == CHOOSE f : Run(f)
<1>5. Run(h)
  <2> HIDE DEF Run
  <2>1. QED
    BY <1>4
<1>6. LastTable(pairs) = h[n]
  BY DEF LastTable
<1> HIDE DEF h
<1>7. h[0] = NoFields /\ \A i \in 1 .. n : h[i] = Onward(h[i - 1], i)
  BY <1>1, <1>5
<1>8. QED
  BY <1>6, <1>7 DEF LastSteps

LEMMA AllRun ==
    ASSUME NEW pairs \in Seq(Pairs)
    PROVE  \E u : AllSteps(u, pairs) /\ AllTable(pairs) = u[Len(pairs)]
<1> DEFINE n == Len(pairs)
           T == TableOf(Seq(STRING))
           Onward(x, i) == Put(x, pairs[i][1], Append(ListAt(x, pairs[i][1]), pairs[i][2]))
           G == [i \in 1 .. n |-> [x \in T |-> Onward(x, i)]]
           Run(f) == f = [i \in 0 .. n |-> IF i = 0 THEN NoFields ELSE Onward(f[i - 1], i)]
<1>1. n \in Nat /\ NoFields \in T
  BY NoFieldsTable
<1>2. \A i \in 1 .. n : \A x \in T : Onward(x, i) \in T
  <2> SUFFICES ASSUME NEW i \in 1 .. n, NEW x \in T PROVE Onward(x, i) \in T
    OBVIOUS
  <2>1. pairs[i][1] \in STRING /\ pairs[i][2] \in STRING
    <3>1. pairs[i] \in Pairs
      OBVIOUS
    <3>2. QED
      BY <3>1 DEF Pairs
  <2>2. ListAt(x, pairs[i][1]) \in Seq(STRING)
    <3>1. PICK D \in SUBSET STRING : x \in [D -> Seq(STRING)]
      BY DEF TableOf
    <3>2. pairs[i][1] \in DOMAIN x => x[pairs[i][1]] \in Seq(STRING)
      BY <3>1
    <3>3. <<>> \in Seq(STRING)
      OBVIOUS
    <3>4. QED
      BY <3>2, <3>3 DEF ListAt
  <2>3. Append(ListAt(x, pairs[i][1]), pairs[i][2]) \in Seq(STRING)
    BY <2>1, <2>2
  <2>4. QED
    BY <2>1, <2>3, PutTyped
<1>3. ASSUME NEW f \in [0 .. n -> T], Iterates(f, NoFields, G, n)
      PROVE  Run(f)
  <2>1. \A i \in 0 .. n : f[i] = IF i = 0 THEN NoFields ELSE G[i][f[i - 1]]
    <3> HIDE DEF G
    <3>1. QED
      BY <1>3 DEF Iterates
  <2>2. \A i \in 1 .. n : f[i - 1] \in T
    BY <1>1
  <2>3. \A i \in 1 .. n : \A x \in T : G[i][x] = Onward(x, i)
    OBVIOUS
  <2>4. f = [i \in 0 .. n |-> f[i]]
    OBVIOUS
  <2>5. \A i \in 0 .. n : f[i] = IF i = 0 THEN NoFields ELSE Onward(f[i - 1], i)
    <3> HIDE DEF G, n, Onward, T
    <3>1. QED
      BY <1>1, <2>1, <2>2, <2>3
  <2>6. QED
    BY <2>4, <2>5
<1>4. \E f : Run(f)
  <2>1. G \in [1 .. n -> [T -> T]]
    BY <1>2
  <2> HIDE DEF G, T, n, Run
  <2>2. QED
    BY <1>1, <1>3, <2>1, IterationExists
<1> DEFINE h == CHOOSE f : Run(f)
<1>5. Run(h)
  <2> HIDE DEF Run
  <2>1. QED
    BY <1>4
<1>6. AllTable(pairs) = h[n]
  BY DEF AllTable
<1> HIDE DEF h
<1>7. h[0] = NoFields /\ \A i \in 1 .. n : h[i] = Onward(h[i - 1], i)
  BY <1>1, <1>5
<1>8. QED
  BY <1>6, <1>7 DEF AllSteps

(* What the tables hold of a key after the first i pairs is what Unlisted   *)
(* has kept of its pairs by then.                                           *)
LEMMA KeyFed ==
    ASSUME NEW pairs \in Seq(Pairs), NEW k,
           NEW t, LastSteps(t, pairs), NEW u, AllSteps(u, pairs)
    PROVE  /\ k \in DOMAIN t[Len(pairs)] <=> Sent(pairs, k) # <<>>
           /\ k \in DOMAIN u[Len(pairs)] <=> Sent(pairs, k) # <<>>
           /\ Sent(pairs, k) # <<>> =>
                 /\ t[Len(pairs)][k] = Sent(pairs, k)[Len(Sent(pairs, k))][2]
                 /\ u[Len(pairs)][k] = Seconds(Sent(pairs, k))
<1> DEFINE n == Len(pairs)
           S == {p \in Range(pairs) : p[1] # k}
           Fed(q, i) == /\ q \in Seq(Pairs)
                        /\ k \in DOMAIN t[i] <=> q # <<>>
                        /\ k \in DOMAIN u[i] <=> q # <<>>
                        /\ q # <<>> => t[i][k] = q[Len(q)][2] /\ u[i][k] = Seconds(q)
<1>1. n \in Nat /\ \A i \in 1 .. n : pairs[i] \in Pairs
  OBVIOUS
<1>2. PICK K : Keeps(K, pairs, S, n) /\ Unlisted(pairs, S) = K[n]
  <2> HIDE DEF S
  <2>1. QED
    BY <1>1, UnlistedKeeps
<1> DEFINE N == {i \in Nat : i <= n => Fed(K[i], i)}
<1>3. 0 \in N
  <2>1. K[0] = <<>>
    BY <1>1, <1>2 DEF Keeps, KeptOf
  <2>2. DOMAIN t[0] = {} /\ DOMAIN u[0] = {}
    BY NoFieldsTable DEF LastSteps, AllSteps
  <2>3. Fed(K[0], 0)
    BY <2>1, <2>2
  <2> HIDE DEF Fed
  <2>4. QED
    BY <2>3
<1>4. ASSUME NEW j \in Nat, j \in N
      PROVE  j + 1 \in N
  <2> SUFFICES ASSUME j + 1 <= n PROVE Fed(K[j + 1], j + 1)
    OBVIOUS
  <2> DEFINE i == j + 1
             p == pairs[i]
             q == K[j]
  <2>1. i \in 1 .. n /\ i \in 0 .. n /\ j \in 0 .. n /\ i - 1 = j
    BY <1>1
  <2>2. Fed(q, j)
    <3> HIDE DEF Fed
    <3>1. QED
      BY <1>4, <2>1
  <2>3. p \in Pairs /\ p[1] \in STRING /\ p[2] \in STRING /\ p \in Range(pairs)
    <3>1. p \in Pairs
      BY <1>1, <2>1
    <3>2. p \in Range(pairs)
      BY <2>1 DEF Range
    <3>3. QED
      BY <3>1, <3>2 DEF Pairs
  <2>5. t[i] = Put(t[j], p[1], p[2]) /\ u[i] = Put(u[j], p[1], Append(ListAt(u[j], p[1]), p[2]))
    BY <2>1 DEF LastSteps, AllSteps
  <2> HIDE DEF p, q
  <2>7. /\ DOMAIN t[i] = DOMAIN t[j] \cup {p[1]} /\ t[i][p[1]] = p[2]
        /\ \A x \in DOMAIN t[j] : x # p[1] => t[i][x] = t[j][x]
    <3> DEFINE y == Put(t[j], p[1], p[2])
    <3>1. /\ DOMAIN y = DOMAIN t[j] \cup {p[1]}
          /\ y[p[1]] = p[2]
          /\ \A x \in DOMAIN t[j] : x # p[1] => y[x] = t[j][x]
      BY DEF Put
    <3> HIDE DEF y, i
    <3>2. QED
      BY <2>5, <3>1, Zenon DEF y
  <2>8. /\ DOMAIN u[i] = DOMAIN u[j] \cup {p[1]}
        /\ u[i][p[1]] = Append(ListAt(u[j], p[1]), p[2])
        /\ \A x \in DOMAIN u[j] : x # p[1] => u[i][x] = u[j][x]
    <3> DEFINE v == Append(ListAt(u[j], p[1]), p[2])
               y == Put(u[j], p[1], v)
    <3> HIDE DEF v, i
    <3>1. /\ DOMAIN y = DOMAIN u[j] \cup {p[1]}
          /\ y[p[1]] = v
          /\ \A x \in DOMAIN u[j] : x # p[1] => y[x] = u[j][x]
      BY DEF Put
    <3>2. u[i] = y
      BY <2>5 DEF v
    <3> HIDE DEF y
    <3>3. QED
      BY <3>1, <3>2, Zenon DEF v
  <2>9. K[i] = IF p \in S THEN q ELSE Append(q, p)
    <3> HIDE DEF S
    <3> USE DEF p, q
    <3>1. K[i] = KeptOf(K, pairs, S, i)
      BY <1>2, <2>1 DEF Keeps
    <3>2. i # 0
      BY <2>1
    <3>3. QED
      BY <2>1, <3>1, <3>2 DEF KeptOf
  <2> HIDE DEF i
  <2>10. CASE p[1] # k
    <3>1. K[i] = q
      BY <2>3, <2>9, <2>10
    <3>2. Fed(K[i], i)
      BY <2>2, <2>7, <2>8, <2>10, <3>1
    <3>3. QED
      BY <3>2 DEF i
  <2>11. CASE p[1] = k
    <3>1. K[i] = Append(q, p)
      BY <2>9, <2>11
    <3>2. /\ Append(q, p) \in Seq(Pairs) /\ Append(q, p) # <<>>
          /\ Append(q, p)[Len(Append(q, p))] = p
      <4>1. q \in Seq(Pairs)
        BY <2>2
      <4>2. /\ Append(q, p) \in Seq(Pairs) /\ Append(q, p) # <<>>
            /\ Len(Append(q, p)) = Len(q) + 1 /\ Append(q, p)[Len(q) + 1] = p
        BY <2>3, <4>1, AppendProperties
      <4>3. QED
        BY <4>2
    <3>3. t[i][k] = p[2] /\ k \in DOMAIN t[i] /\ k \in DOMAIN u[i]
      BY <2>7, <2>8, <2>11
    <3>4. ListAt(u[j], k) = Seconds(q)
      BY <2>2, SecondsOf DEF ListAt
    <3>5. Seconds(Append(q, p)) = Append(Seconds(q), p[2])
      BY <2>2, <2>3, SecondsOf
    <3>6. u[i][k] = Seconds(Append(q, p))
      BY <2>8, <2>11, <3>4, <3>5
    <3>7. Fed(K[i], i)
      BY <3>1, <3>2, <3>3, <3>6
    <3>8. QED
      BY <3>7 DEF i
  <2>12. QED
    BY <2>10, <2>11
<1> HIDE DEF N, Fed, S
<1>5. n \in N
  BY <1>1, <1>3, <1>4, Inductive
<1>6. Fed(K[n], n)
  BY <1>1, <1>5 DEF N
<1>7. Sent(pairs, k) = K[n]
  BY <1>2 DEF Sent, S
<1>8. QED
  BY <1>6, <1>7 DEF Fed

(* The keys of a table are those of the pairs put into it. *)
LEMMA KeysFed ==
    ASSUME NEW pairs, Len(pairs) \in Nat, NEW t, DOMAIN t[0] = {},
           \A i \in 1 .. Len(pairs) : DOMAIN t[i] = DOMAIN t[i - 1] \cup {pairs[i][1]}
    PROVE  DOMAIN t[Len(pairs)] = {pairs[i][1] : i \in 1 .. Len(pairs)}
<1> DEFINE n == Len(pairs)
           N == {m \in Nat : m <= n => DOMAIN t[m] = {pairs[i][1] : i \in 1 .. m}}
<1>1. 0 \in N
  OBVIOUS
<1>2. ASSUME NEW m \in Nat, m \in N
      PROVE  m + 1 \in N
  <2> SUFFICES ASSUME m + 1 <= n
               PROVE  DOMAIN t[m + 1] = {pairs[i][1] : i \in 1 .. m + 1}
    OBVIOUS
  <2>1. m + 1 \in 1 .. n /\ (m + 1) - 1 = m /\ m <= n
    OBVIOUS
  <2>2. DOMAIN t[m + 1] = {pairs[i][1] : i \in 1 .. m} \cup {pairs[m + 1][1]}
    BY <1>2, <2>1
  <2>3. 1 .. m + 1 = (1 .. m) \cup {m + 1}
    OBVIOUS
  <2>4. {pairs[i][1] : i \in 1 .. m + 1} = {pairs[i][1] : i \in 1 .. m} \cup {pairs[m + 1][1]}
    BY <2>3
  <2>5. QED
    BY <2>2, <2>4
<1> HIDE DEF N
<1>3. n \in N
  BY <1>1, <1>2, Inductive
<1>4. QED
  BY <1>3 DEF N

(* A form and a query feed every value of their fields. *)
LEMMA FieldsFed ==
    ASSUME NEW pairs \in Seq(Pairs), NEW lists
    PROVE  EveryValueFed(pairs, lists)
<1> DEFINE n == Len(pairs)
           last == LastTable(pairs)
           all == AllTable(pairs)
           input == FeedLists(last, lists, all)
           sent(k) == Sent(pairs, k)
           Ks == {pairs[i][1] : i \in 1 .. n}
           form == [type |-> "form", pairs |-> pairs]
<1>1. n \in Nat /\ DOMAIN pairs = 1 .. n
  OBVIOUS
<1>2. PICK t : LastSteps(t, pairs) /\ last = t[n]
  BY LastRun
<1>3. PICK u : AllSteps(u, pairs) /\ all = u[n]
  BY AllRun
<1>4. DOMAIN last = Ks /\ DOMAIN all = Ks
  <2>1. DOMAIN t[0] = {} /\ DOMAIN u[0] = {}
    BY <1>2, <1>3 DEF NoFields, LastSteps, AllSteps
  <2>2. /\ \A i \in 1 .. n : DOMAIN t[i] = DOMAIN t[i - 1] \cup {pairs[i][1]}
        /\ \A i \in 1 .. n : DOMAIN u[i] = DOMAIN u[i - 1] \cup {pairs[i][1]}
    <3>1. \A i \in 1 .. n : t[i] = Put(t[i - 1], pairs[i][1], pairs[i][2])
      BY <1>2 DEF LastSteps
    <3>2. \A i \in 1 .. n :
              u[i] = Put(u[i - 1], pairs[i][1],
                         Append(ListAt(u[i - 1], pairs[i][1]), pairs[i][2]))
      BY <1>3 DEF AllSteps
    <3> HIDE DEF n
    <3>3. ASSUME NEW i \in 1 .. n
          PROVE  DOMAIN t[i] = DOMAIN t[i - 1] \cup {pairs[i][1]}
      <4>1. t[i] = Put(t[i - 1], pairs[i][1], pairs[i][2])
        BY <3>1
      <4>2. QED
        BY <4>1 DEF Put
    <3>4. ASSUME NEW i \in 1 .. n
          PROVE  DOMAIN u[i] = DOMAIN u[i - 1] \cup {pairs[i][1]}
      <4> DEFINE v == Append(ListAt(u[i - 1], pairs[i][1]), pairs[i][2])
      <4>1. u[i] = Put(u[i - 1], pairs[i][1], v)
        BY <3>2
      <4> HIDE DEF v
      <4>2. QED
        BY <4>1 DEF Put
    <3>5. QED
      BY <3>3, <3>4
  <2>3. DOMAIN t[n] = Ks /\ DOMAIN u[n] = Ks
    BY <1>1, <2>1, <2>2, KeysFed
  <2>4. QED
    BY <1>2, <1>3, <2>3
<1>5. ASSUME NEW k \in Ks
      PROVE  last[k] = sent(k)[Len(sent(k))][2] /\ all[k] = Seconds(sent(k))
  <2>1. /\ k \in DOMAIN t[n] <=> sent(k) # <<>>
        /\ k \in DOMAIN u[n] <=> sent(k) # <<>>
        /\ sent(k) # <<>> =>
              t[n][k] = sent(k)[Len(sent(k))][2] /\ u[n][k] = Seconds(sent(k))
    BY <1>2, <1>3, KeyFed
  <2> HIDE DEF sent, Ks, n, last, all
  <2>2. QED
    BY <1>2, <1>3, <1>4, <2>1
<1> HIDE DEF last, all, sent, Ks, n
<1>6. DOMAIN input = Ks
  BY <1>4 DEF FeedLists
<1>7. ASSUME NEW k \in Ks
      PROVE  input[k] = IF k \in lists THEN all[k] ELSE last[k]
  BY <1>4 DEF FeedLists
<1>8. \A k \in Ks :
          IF k \in lists
          THEN input[k] = [i \in DOMAIN sent(k) |-> sent(k)[i][2]]
          ELSE input[k] = sent(k)[Len(sent(k))][2]
  <2> HIDE DEF input
  <2>1. QED
    BY <1>5, <1>7 DEF Seconds
<1>9. ValidBody(form, Unread, lists, [x \in {input} |-> TRUE], 422) = [value |-> input]
  <2>1. BodyInput(form, lists) = Ready(input, FALSE)
    <3>1. form.type = "form" /\ form.pairs = pairs
      OBVIOUS
    <3> HIDE DEF form
    <3>2. QED
      BY <3>1 DEF BodyInput, last, all
  <2>2. Ready(input, FALSE).ready /\ Ready(input, FALSE).input = input
    BY DEF Ready
  <2> HIDE DEF input, form
  <2>3. QED
    BY <2>1, <2>2 DEF ValidBody, Unread
<1>10. ValidQuery(pairs, lists) = input
  BY DEF ValidQuery, last, all
<1>11. DOMAIN input = {pairs[i][1] : i \in DOMAIN pairs}
  BY <1>1, <1>6 DEF Ks, n
<1> HIDE DEF input, form
<1>12. QED
  BY <1>6, <1>8, <1>9, <1>10, <1>11 DEF EveryValueFed, sent, form

-----------------------------------------------------------------------------
(* Replacements *)

LEMMA LeastOf ==
    ASSUME NEW S, S \subseteq Nat, S # {}
    PROVE  Least(S) \in S /\ \A y \in S : Least(S) <= y
<1>1. \E x \in S : \A y \in S : x <= y
  BY LeastNumber
<1>2. QED
  BY <1>1 DEF Least

LEMMA LeastIs ==
    ASSUME NEW S, S \subseteq Nat, NEW x \in S, \A y \in S : x <= y
    PROVE  Least(S) = x
<1>1. Least(S) \in S /\ Least(S) <= x /\ x <= Least(S)
  BY LeastOf
<1>2. Least(S) \in Nat /\ x \in Nat
  BY <1>1
<1>3. QED
  BY <1>1, <1>2

(* The pairs that match text and are no longer than n, and the one that is *)
(* to be taken of a set of pairs.                                          *)
Able(olds, text, skip, n) ==
    {i \in DOMAIN olds :
        /\ Len(olds[i]) <= n /\ StartsWith(text, olds[i])
        /\ ~(skip /\ olds[i] = <<>>)}
Longest(olds, S) == {i \in S : \A j \in S : Len(olds[j]) <= Len(olds[i])}
Choice(olds, mode, S) ==
    IF S = {} THEN NoPair ELSE Least(IF mode = "longest" THEN Longest(olds, S) ELSE S)

Olds(olds) == olds \in Seq(Seq(Bytes))

LEMMA OldsTyped ==
    ASSUME NEW olds, Olds(olds)
    PROVE  /\ Len(olds) \in Nat /\ DOMAIN olds = 1 .. Len(olds)
           /\ \A i \in DOMAIN olds : olds[i] \in Seq(Bytes) /\ Len(olds[i]) \in Nat
<1>1. Len(olds) \in Nat /\ DOMAIN olds = 1 .. Len(olds)
  BY DEF Olds
<1>2. \A i \in 1 .. Len(olds) : olds[i] \in Seq(Bytes)
  BY ElementsOf DEF Olds
<1>3. \A q \in Seq(Bytes) : Len(q) \in Nat
  OBVIOUS
<1>4. QED
  BY <1>1, <1>2, <1>3

LEMMA ChosenIsChoice ==
    ASSUME NEW olds, Olds(olds), NEW mode, NEW text, NEW skip
    PROVE  Chosen(olds, mode, text, skip) = Choice(olds, mode, Able(olds, text, skip, Len(text)))
<1>1. {i \in DOMAIN olds : StartsWith(text, olds[i]) /\ ~(skip /\ olds[i] = <<>>)}
          = Able(olds, text, skip, Len(text))
  BY DEF Able, StartsWith
<1>2. QED
  BY <1>1 DEF Chosen, Choice, Longest

(* What is chosen is one of the pairs to choose from. *)
LEMMA ChoiceIn ==
    ASSUME NEW olds, Olds(olds), NEW mode, NEW S, S \subseteq DOMAIN olds, S # {}
    PROVE  /\ Choice(olds, mode, S) \in S /\ Choice(olds, mode, S) # NoPair
           /\ mode # "longest" => \A i \in S : Choice(olds, mode, S) <= i
<1>1. S \subseteq Nat /\ \A i \in S : i # NoPair
  BY OldsTyped DEF NoPair
<1>2. Longest(olds, S) # {} /\ Longest(olds, S) \subseteq S
  <2>1. \A i \in S : Len(olds[i]) \in Nat
    BY OldsTyped
  <2>2. \E i \in S : \A j \in S : Len(olds[j]) <= Len(olds[i])
    <3> DEFINE T == {s \in SUBSET S : s # {} => \E i \in s : \A j \in s : Len(olds[j]) <= Len(olds[i])}
    <3>1. IsFiniteSet(S)
      <4>1. IsFiniteSet(1 .. Len(olds))
        BY OldsTyped, FS_Interval
      <4>2. S \subseteq 1 .. Len(olds)
        BY OldsTyped
      <4>3. QED
        BY <4>1, <4>2, FS_Subset
    <3>2. {} \in T
      OBVIOUS
    <3>3. ASSUME NEW s \in SUBSET S, NEW x \in S \ s, s \in T
          PROVE  s \cup {x} \in T
      <4>1. CASE s = {}
        BY <2>1, <4>1
      <4>2. CASE s # {}
        <5>1. PICK i \in s : \A j \in s : Len(olds[j]) <= Len(olds[i])
          BY <3>3, <4>2
        <5>2. CASE Len(olds[x]) <= Len(olds[i])
          BY <5>1, <5>2
        <5>3. CASE ~(Len(olds[x]) <= Len(olds[i]))
          <6>1. \A j \in s \cup {x} : Len(olds[j]) <= Len(olds[x])
            BY <2>1, <5>1, <5>3
          <6>2. QED
            BY <6>1
        <5>4. QED
          BY <5>2, <5>3
      <4>3. QED
        BY <4>1, <4>2
    <3> HIDE DEF T
    <3>4. S \in T
      BY <3>1, <3>2, <3>3, FiniteInductive
    <3>5. QED
      BY <3>4 DEF T
  <2>3. QED
    BY <2>2 DEF Longest
<1> DEFINE U == IF mode = "longest" THEN Longest(olds, S) ELSE S
<1>3. U # {} /\ U \subseteq Nat /\ U \subseteq S
  BY <1>1, <1>2
<1>4. Choice(olds, mode, S) = Least(U)
  BY DEF Choice
<1>5. Least(U) \in U /\ \A y \in U : Least(U) <= y
  <2> HIDE DEF U
  <2>1. QED
    BY <1>3, LeastOf
<1>6. QED
  BY <1>1, <1>3, <1>4, <1>5

-----------------------------------------------------------------------------
(* The descent *)

(* The node that the first n characters of text lead to. *)
LEMMA NodeOf ==
    ASSUME NEW text \in Seq(Bytes), NEW n \in 0 .. Len(text)
    PROVE  /\ SubSeq(text, 1, n) \in Seq(Bytes) /\ Len(SubSeq(text, 1, n)) = n
           /\ \A q \in Seq(Bytes) : StartsWith(text, q) /\ Len(q) = n <=> q = SubSeq(text, 1, n)
           /\ \A q \in Seq(Bytes) : StartsWith(text, q) /\ n <= Len(q)
                                        => StartsWith(q, SubSeq(text, 1, n))
<1> DEFINE node == SubSeq(text, 1, n)
<1>1. node \in Seq(Bytes) /\ Len(node) = n /\ \A i \in 1 .. n : node[i] = text[i]
  <2>1. /\ SubSeq(text, 0 + 1, n) \in Seq(Bytes) /\ Len(SubSeq(text, 0 + 1, n)) = n - 0
        /\ \A i \in 1 .. n - 0 : SubSeq(text, 0 + 1, n)[i] = text[0 + i]
    <3>1. 0 \in 0 .. Len(text) /\ n \in 0 .. Len(text)
      OBVIOUS
    <3>2. QED
      BY <3>1, PartOf
  <2>2. QED
    BY <2>1
<1>2. ASSUME NEW q \in Seq(Bytes)
      PROVE  StartsWith(text, q) /\ Len(q) = n <=> q = node
  BY <1>1 DEF StartsWith
<1>3. ASSUME NEW q \in Seq(Bytes), StartsWith(text, q), n <= Len(q)
      PROVE  StartsWith(q, node)
  <2> DEFINE m == Len(q)
  <2>1. m \in Nat /\ m <= Len(text) /\ q = SubSeq(text, 1, m)
    BY <1>3 DEF StartsWith
  <2>2. n \in 0 .. m /\ m \in 0 .. Len(text)
    BY <1>3, <2>1
  <2>3. SubSeq(q, 1, n) \in Seq(Bytes) /\ Len(SubSeq(q, 1, n)) = n
        /\ \A i \in 1 .. n : SubSeq(q, 1, n)[i] = q[i]
    <3>1. /\ SubSeq(q, 0 + 1, n) \in Seq(Bytes) /\ Len(SubSeq(q, 0 + 1, n)) = n - 0
          /\ \A i \in 1 .. n - 0 : SubSeq(q, 0 + 1, n)[i] = q[0 + i]
      BY <2>2, PartOf
    <3>2. QED
      BY <3>1
  <2>4. \A i \in 1 .. m : q[i] = text[i]
    <3>1. \A i \in 1 .. m - 0 : SubSeq(text, 0 + 1, m)[i] = text[0 + i]
      <4>1. 0 \in 0 .. Len(text) /\ m \in 0 .. Len(text)
        BY <2>2
      <4> HIDE DEF m
      <4>2. QED
        BY <4>1, PartOf
    <3>2. SubSeq(text, 0 + 1, m) = q
      BY <2>1
    <3> HIDE DEF m
    <3>3. QED
      BY <2>1, <3>1, <3>2
  <2>5. \A i \in 1 .. n : SubSeq(q, 1, n)[i] = node[i]
    BY <1>1, <2>2, <2>3, <2>4
  <2>6. SubSeq(q, 1, n) = node
    <3> HIDE DEF node
    <3>1. QED
      BY <1>1, <2>3, <2>5, SeqEqual
  <2>7. QED
    BY <1>1, <1>3, <2>6 DEF StartsWith
<1>4. QED
  BY <1>1, <1>2, <1>3

(* The pairs that end at a node, and those that end there or deeper. *)
EndsAt(olds, node) == {i \in DOMAIN olds : olds[i] = node}
EndsBelow(olds, node) == {i \in DOMAIN olds : StartsWith(olds[i], node)}

LEMMA TrieAt ==
    ASSUME NEW olds, Olds(olds), NEW node
    PROVE  /\ DOMAIN Trie(olds) = Nodes(olds)
           /\ node \in Nodes(olds) =>
                 /\ Trie(olds)[node].pair =
                       IF EndsAt(olds, node) = {} THEN NoPair ELSE Least(EndsAt(olds, node))
                 /\ EndsBelow(olds, node) # {} =>
                       Trie(olds)[node].min_pair = Least(EndsBelow(olds, node))
  BY DEF Trie, EndsAt, EndsBelow

(* One character on, the pairs that end there are able too; below a node   *)
(* that is not there, none is.                                             *)
AbleAt(olds, skip, node) == IF skip /\ node = <<>> THEN {} ELSE EndsAt(olds, node)
AbleGrows(olds, text, skip, n, node) ==
    Able(olds, text, skip, n) = Able(olds, text, skip, n - 1) \cup AbleAt(olds, skip, node)

LEMMA AbleNow ==
    ASSUME NEW olds, Olds(olds), NEW text \in Seq(Bytes), NEW skip \in BOOLEAN,
           NEW n \in 0 .. Len(text), NEW node, node = SubSeq(text, 1, n)
    PROVE  AbleGrows(olds, text, skip, n, node)
<1>1. \A i \in DOMAIN olds : olds[i] \in Seq(Bytes) /\ Len(olds[i]) \in Nat
  BY OldsTyped
<1>2. /\ node \in Seq(Bytes) /\ Len(node) = n
      /\ \A q \in Seq(Bytes) : StartsWith(text, q) /\ Len(q) = n <=> q = node
      /\ \A q \in Seq(Bytes) : StartsWith(text, q) /\ n <= Len(q) => StartsWith(q, node)
  BY NodeOf
<1>3. \A i \in DOMAIN olds : i \in Able(olds, text, skip, n) <=>
          \/ i \in Able(olds, text, skip, n - 1)
          \/ i \in EndsAt(olds, node) /\ ~(skip /\ node = <<>>)
  <2> SUFFICES ASSUME NEW i \in DOMAIN olds
               PROVE  i \in Able(olds, text, skip, n) <=>
                          \/ i \in Able(olds, text, skip, n - 1)
                          \/ i \in EndsAt(olds, node) /\ ~(skip /\ node = <<>>)
    OBVIOUS
  <2>1. Len(olds[i]) <= n <=> Len(olds[i]) <= n - 1 \/ Len(olds[i]) = n
    BY <1>1
  <2>2. StartsWith(text, olds[i]) /\ Len(olds[i]) = n <=> olds[i] = node
    BY <1>1, <1>2
  <2>3. QED
    BY <2>1, <2>2 DEF Able, EndsAt
<1>4. Able(olds, text, skip, n) \subseteq DOMAIN olds /\ EndsAt(olds, node) \subseteq DOMAIN olds
      /\ Able(olds, text, skip, n - 1) \subseteq DOMAIN olds
  BY DEF Able, EndsAt
<1>5. Able(olds, text, skip, n) =
          Able(olds, text, skip, n - 1) \cup AbleAt(olds, skip, node)
  <2>1. CASE skip /\ node = <<>>
    BY <1>3, <1>4, <2>1, Zenon DEF AbleAt
  <2>2. CASE ~(skip /\ node = <<>>)
    BY <1>3, <1>4, <2>2, Zenon DEF AbleAt
  <2>3. QED
    BY <2>1, <2>2
<1>6. QED
  BY <1>5 DEF AbleGrows

LEMMA AbleBelow ==
    ASSUME NEW olds, Olds(olds), NEW text \in Seq(Bytes), NEW skip \in BOOLEAN,
           NEW n \in 0 .. Len(text), NEW node, node = SubSeq(text, 1, n),
           NEW i \in Able(olds, text, skip, Len(text))
    PROVE  i \in Able(olds, text, skip, n) \/ i \in EndsBelow(olds, node)
<1>1. \A j \in DOMAIN olds : olds[j] \in Seq(Bytes) /\ Len(olds[j]) \in Nat
  BY OldsTyped
<1>2. /\ node \in Seq(Bytes) /\ Len(node) = n
      /\ \A q \in Seq(Bytes) : StartsWith(text, q) /\ Len(q) = n <=> q = node
      /\ \A q \in Seq(Bytes) : StartsWith(text, q) /\ n <= Len(q) => StartsWith(q, node)
  BY NodeOf
<1>3. i \in DOMAIN olds /\ StartsWith(text, olds[i]) /\ ~(skip /\ olds[i] = <<>>)
  BY DEF Able
<1>4. CASE Len(olds[i]) <= n
  BY <1>3, <1>4 DEF Able
<1>5. CASE ~(Len(olds[i]) <= n)
  <2>1. n <= Len(olds[i])
    BY <1>1, <1>3, <1>5
  <2>2. StartsWith(olds[i], node)
    BY <1>1, <1>2, <1>3, <2>1
  <2>3. QED
    BY <1>3, <2>2 DEF EndsBelow
<1>6. QED
  BY <1>4, <1>5

LEMMA AbleGone ==
    ASSUME NEW olds, Olds(olds), NEW text \in Seq(Bytes), NEW skip \in BOOLEAN,
           NEW n \in 0 .. Len(text), NEW node, node = SubSeq(text, 1, n),
           node \notin Nodes(olds)
    PROVE  Able(olds, text, skip, Len(text)) = Able(olds, text, skip, n - 1)
<1>1. \A i \in DOMAIN olds : olds[i] \in Seq(Bytes) /\ Len(olds[i]) \in Nat
  BY OldsTyped
<1>2. /\ node \in Seq(Bytes) /\ Len(node) = n
      /\ \A q \in Seq(Bytes) : StartsWith(text, q) /\ Len(q) = n <=> q = node
      /\ \A q \in Seq(Bytes) : StartsWith(text, q) /\ n <= Len(q) => StartsWith(q, node)
  BY NodeOf
<1>3. ASSUME NEW i \in DOMAIN olds, StartsWith(text, olds[i])
      PROVE  Len(olds[i]) <= n - 1 /\ Len(olds[i]) <= Len(text)
  <2>1. Len(olds[i]) <= Len(text)
    BY <1>3 DEF StartsWith
  <2>2. ASSUME n <= Len(olds[i]) PROVE FALSE
    <3>1. StartsWith(olds[i], node)
      BY <1>1, <1>2, <1>3, <2>2
    <3>2. node = SubSeq(olds[i], 1, n)
      BY <1>2, <3>1 DEF StartsWith
    <3>3. n \in 1 .. Len(olds[i]) \/ node = <<>>
      BY <1>1, <1>2, <2>2
    <3>4. node \in Nodes(olds)
      BY <3>2, <3>3 DEF Nodes
    <3>5. QED
      BY <3>4
  <2>3. QED
    BY <1>1, <2>1, <2>2
<1>4. QED
  BY <1>3 DEF Able

(* A place of the descent: the best pair so far, and whether it goes on.   *)
Places == [best : Nat, goes : BOOLEAN]

RightAt(olds, mode, text, skip, x, n) ==
    x.best = Choice(olds, mode, Able(olds, text, skip, IF x.goes THEN n ELSE Len(text)))

(* The pairs of a longer match come after, or instead of, the others. *)
LEMMA BestRight ==
    ASSUME NEW olds, Olds(olds), NEW mode \in {"first", "longest"}, NEW text \in Seq(Bytes),
           NEW skip \in BOOLEAN, NEW n \in 0 .. Len(text), NEW node, node = SubSeq(text, 1, n),
           node \in Nodes(olds)
    PROVE  Best(Trie(olds), mode, node, skip, Choice(olds, mode, Able(olds, text, skip, n - 1)))
               = Choice(olds, mode, Able(olds, text, skip, n))
<1> DEFINE before == Able(olds, text, skip, n - 1)
           now == Able(olds, text, skip, n)
           here == EndsAt(olds, node)
           p == Trie(olds)[node].pair
           b == Choice(olds, mode, before)
<1>1. now = before \cup (IF skip /\ node = <<>> THEN {} ELSE here)
  <2> HIDE DEF before, now, here
  <2>1. AbleGrows(olds, text, skip, n, node)
    BY AbleNow
  <2>2. QED
    BY <2>1 DEF before, now, here, AbleAt, AbleGrows
<1>2. p = IF here = {} THEN NoPair ELSE Least(here)
  BY TrieAt
<1>3. here \subseteq DOMAIN olds /\ before \subseteq DOMAIN olds /\ DOMAIN olds \subseteq Nat \ {0}
  BY OldsTyped DEF Able, EndsAt
<1>4. \A i \in before : Len(olds[i]) < n
  BY OldsTyped DEF Able
<1>5. \A i \in here : Len(olds[i]) = n
  BY NodeOf DEF EndsAt
<1> HIDE DEF before, now, here, p, b
<1>6. CASE p = NoPair \/ (node = <<>> /\ skip)
  <2>1. now = before
    <3>1. CASE skip /\ node = <<>>
      BY <1>1, <3>1
    <3>2. CASE ~(skip /\ node = <<>>)
      <4>1. ASSUME here # {} PROVE FALSE
        <5>1. Least(here) \in here
          BY <1>3, <4>1, LeastOf
        <5>2. QED
          BY <1>2, <1>3, <1>6, <3>2, <4>1, <5>1 DEF NoPair
      <4>2. QED
        BY <1>1, <3>2, <4>1
    <3>3. QED
      BY <3>1, <3>2
  <2>2. Best(Trie(olds), mode, node, skip, b) = b
    BY <1>6 DEF Best, p
  <2>3. QED
    BY <2>1, <2>2 DEF b, now, before
<1>7. CASE ~(p = NoPair \/ (node = <<>> /\ skip))
  <2>1. now = before \cup here /\ here # {} /\ p = Least(here)
    BY <1>1, <1>2, <1>7
  <2>2. p \in here /\ \A y \in here : p <= y
    BY <1>3, <2>1, LeastOf
  <2>3. Best(Trie(olds), mode, node, skip, b)
            = IF mode = "longest" \/ b = NoPair \/ p < b THEN p ELSE b
    BY <1>7 DEF Best, p
  <2>4. CASE mode = "longest"
    <3>1. Longest(olds, now) = here
      <4>1. \A i \in here : i \in now /\ \A j \in now : Len(olds[j]) <= Len(olds[i])
        BY <1>3, <1>4, <1>5, <2>1, OldsTyped
      <4>2. \A i \in before : ~(Len(olds[p]) <= Len(olds[i]))
        BY <1>3, <1>4, <1>5, <2>2, OldsTyped
      <4>3. \A i \in now : i \notin here => i \notin Longest(olds, now)
        BY <2>1, <2>2, <4>2 DEF Longest
      <4>4. QED
        BY <4>1, <4>3 DEF Longest
    <3>2. Choice(olds, mode, now) = Least(here)
      BY <2>1, <2>4, <3>1 DEF Choice
    <3>3. QED
      BY <2>1, <2>3, <2>4, <3>2 DEF b, before, now
  <2>5. CASE mode # "longest"
    <3> DEFINE x == IF b = NoPair \/ p < b THEN p ELSE b
    <3>1. x \in now /\ \A y \in now : x <= y
      <4>1. CASE before = {}
        <5>1. b = NoPair
          BY <4>1 DEF b, Choice
        <5>2. QED
          BY <2>1, <2>2, <4>1, <5>1
      <4>2. CASE before # {}
        <5>1. b \in before /\ b # NoPair /\ \A i \in before : b <= i
          BY <1>3, <2>5, <4>2, ChoiceIn DEF b
        <5>2. b \in Nat /\ p \in Nat /\ now \subseteq Nat
          BY <1>3, <2>1, <2>2, <5>1
        <5>3. QED
          BY <1>3, <2>1, <2>2, <5>1, <5>2
      <4>3. QED
        BY <4>1, <4>2
    <3>2. Least(now) = x
      <4>1. now \subseteq Nat
        BY <1>3, <2>1
      <4> HIDE DEF x
      <4>2. QED
        BY <3>1, <4>1, LeastIs
    <3>3. Choice(olds, mode, now) = Least(now)
      BY <2>5, <3>1 DEF Choice
    <3>4. QED
      BY <2>3, <2>5, <3>2, <3>3 DEF b, before, now
  <2>6. QED
    BY <2>4, <2>5
<1>8. QED
  BY <1>6, <1>7

(* What is pruned below a node would not be chosen. *)
LEMMA PrunedRight ==
    ASSUME NEW olds, Olds(olds), NEW mode \in {"first", "longest"}, NEW text \in Seq(Bytes),
           NEW skip \in BOOLEAN, NEW n \in 0 .. Len(text), NEW node, node = SubSeq(text, 1, n),
           node \in Nodes(olds),
           NEW b, b = Choice(olds, mode, Able(olds, text, skip, n)), Pruned(Trie(olds), mode, node, b)
    PROVE  b = Choice(olds, mode, Able(olds, text, skip, Len(text)))
<1> DEFINE now == Able(olds, text, skip, n)
           all == Able(olds, text, skip, Len(text))
           below == EndsBelow(olds, node)
<1>1. mode = "first" /\ mode # "longest" /\ b # NoPair /\ Trie(olds)[node].min_pair >= b
  BY DEF Pruned
<1>2. now \subseteq DOMAIN olds /\ all \subseteq DOMAIN olds /\ below \subseteq DOMAIN olds
      /\ DOMAIN olds \subseteq Nat
  BY OldsTyped DEF Able, EndsBelow
<1>3. now # {}
  BY <1>1 DEF Choice
<1>4. b \in now /\ \A i \in now : b <= i
  <2> HIDE DEF now
  <2>1. b = Choice(olds, mode, now)
    BY DEF now
  <2>2. QED
    BY <1>1, <1>2, <1>3, <2>1, ChoiceIn
<1>5. b \in all
  BY <1>4, OldsTyped DEF Able
<1>6. ASSUME NEW i \in all PROVE b <= i
  <2>1. i \in now \/ i \in below
    BY AbleBelow
  <2>2. CASE i \in now
    BY <1>4, <2>2
  <2>3. CASE i \in below
    <3>1. Trie(olds)[node].min_pair = Least(below)
      BY <2>3, TrieAt
    <3>2. Least(below) \in below /\ Least(below) <= i
      <4> HIDE DEF below
      <4>1. below \subseteq Nat /\ below # {}
        BY <1>2, <2>3
      <4>2. QED
        BY <2>3, <4>1, LeastOf
    <3>3. b \in Nat /\ Least(below) \in Nat /\ i \in Nat
      BY <1>2, <1>4, <3>2
    <3>4. QED
      BY <1>1, <3>1, <3>2, <3>3
  <2>4. QED
    BY <2>1, <2>2, <2>3
<1>7. Least(all) = b
  <2>1. all \subseteq Nat
    BY <1>2
  <2> HIDE DEF all
  <2>2. QED
    BY <1>5, <1>6, <2>1, LeastIs
<1>8. QED
  BY <1>1, <1>5, <1>7 DEF Choice

LEMMA DeeperRight ==
    ASSUME NEW olds, Olds(olds), NEW mode \in {"first", "longest"}, NEW text \in Seq(Bytes),
           NEW skip \in BOOLEAN, NEW n \in 0 .. Len(text), NEW x \in Places,
           RightAt(olds, mode, text, skip, x, n - 1)
    PROVE  RightAt(olds, mode, text, skip,
                   Deeper(Trie(olds), mode, SubSeq(text, 1, n), skip, x), n)
<1> DEFINE node == SubSeq(text, 1, n)
           y == Deeper(Trie(olds), mode, node, skip, x)
           b == Best(Trie(olds), mode, node, skip, x.best)
<1>1. DOMAIN Trie(olds) = Nodes(olds) /\ x.goes \in BOOLEAN
  BY TrieAt DEF Places
<1>2. CASE ~x.goes
  <2>1. y.best = x.best /\ y.goes = FALSE
    BY <1>2 DEF Deeper
  <2> HIDE DEF y
  <2>2. QED
    BY <1>2, <2>1 DEF RightAt, y
<1>3. CASE x.goes /\ node \notin Nodes(olds)
  <2>1. y.best = x.best /\ y.goes = FALSE
    BY <1>1, <1>3 DEF Deeper
  <2>2. Able(olds, text, skip, Len(text)) = Able(olds, text, skip, n - 1)
    <3>1. node = SubSeq(text, 1, n)
      OBVIOUS
    <3> HIDE DEF node, y, b
    <3>2. QED
      BY <1>3, <3>1, AbleGone
  <2>3. x.best = Choice(olds, mode, Able(olds, text, skip, n - 1))
    BY <1>3 DEF RightAt
  <2> HIDE DEF y
  <2>4. QED
    BY <2>1, <2>2, <2>3 DEF RightAt, y
<1>4. CASE x.goes /\ node \in Nodes(olds)
  <2>1. y.best = b /\ y.goes = ~Pruned(Trie(olds), mode, node, b)
    BY <1>1, <1>4 DEF Deeper
  <2>2. b = Choice(olds, mode, Able(olds, text, skip, n))
    <3>1. x.best = Choice(olds, mode, Able(olds, text, skip, n - 1))
      BY <1>4 DEF RightAt
    <3>2. node = SubSeq(text, 1, n)
      OBVIOUS
    <3> HIDE DEF node, y
    <3>3. Best(Trie(olds), mode, node, skip, Choice(olds, mode, Able(olds, text, skip, n - 1)))
              = Choice(olds, mode, Able(olds, text, skip, n))
      BY <1>4, <3>2, BestRight, Zenon
    <3>4. QED
      BY <3>1, <3>3
  <2>3. Pruned(Trie(olds), mode, node, b)
            => b = Choice(olds, mode, Able(olds, text, skip, Len(text)))
    <3> HIDE DEF b
    <3>1. QED
      BY <1>4, <2>2, PrunedRight
  <2> HIDE DEF y, b
  <2>4. QED
    BY <2>1, <2>2, <2>3 DEF RightAt, y
<1>5. QED
  BY <1>1, <1>2, <1>3, <1>4

LEMMA DeeperTyped ==
    ASSUME NEW olds, Olds(olds), NEW mode, NEW node, NEW skip, NEW x \in Places
    PROVE  Deeper(Trie(olds), mode, node, skip, x) \in Places
<1> DEFINE b == Best(Trie(olds), mode, node, skip, x.best)
<1>1. x.best \in Nat /\ x.goes \in BOOLEAN
  BY DEF Places
<1>2. ASSUME node \in Nodes(olds) PROVE b \in Nat
  <2> DEFINE p == Trie(olds)[node].pair
  <2>1. p \in Nat
    <3>1. EndsAt(olds, node) \subseteq Nat
      BY OldsTyped DEF EndsAt
    <3>2. p = IF EndsAt(olds, node) = {} THEN NoPair ELSE Least(EndsAt(olds, node))
      BY <1>2, TrieAt
    <3>3. EndsAt(olds, node) # {} => Least(EndsAt(olds, node)) \in Nat
      BY <3>1, LeastOf
    <3>4. QED
      BY <3>2, <3>3 DEF NoPair
  <2>2. b = p \/ b = x.best
    BY DEF Best
  <2> HIDE DEF b, p
  <2>3. QED
    BY <1>1, <2>1, <2>2
<1>3. DOMAIN Trie(olds) = Nodes(olds)
  BY TrieAt
<1>4. CASE ~x.goes \/ node \notin Nodes(olds)
  BY <1>1, <1>3, <1>4 DEF Deeper, Places
<1>5. CASE x.goes /\ node \in Nodes(olds)
  <2>1. Pruned(Trie(olds), mode, node, b) \in BOOLEAN
    BY DEF Pruned
  <2>2. Deeper(Trie(olds), mode, node, skip, x)
            = [best |-> b, goes |-> ~Pruned(Trie(olds), mode, node, b)]
    BY <1>3, <1>5 DEF Deeper
  <2>3. b \in Nat
    BY <1>2, <1>5
  <2> HIDE DEF b
  <2>4. QED
    BY <2>1, <2>2, <2>3 DEF Places
<1>6. QED
  BY <1>1, <1>4, <1>5

DescentStart == [best |-> NoPair, goes |-> TRUE]
DescentSteps(f, olds, mode, text, skip) ==
    /\ f[0] = Deeper(Trie(olds), mode, SubSeq(text, 1, 0), skip, DescentStart)
    /\ \A n \in 1 .. Len(text) :
          f[n] = Deeper(Trie(olds), mode, SubSeq(text, 1, n), skip, f[n - 1])

LEMMA DescentRun ==
    ASSUME NEW olds, Olds(olds), NEW mode, NEW text \in Seq(Bytes), NEW skip
    PROVE  \E f \in [0 .. Len(text) -> Places] :
              /\ DescentSteps(f, olds, mode, text, skip)
              /\ Descend(Trie(olds), mode, text, skip) = f[Len(text)].best
<1> DEFINE L == Len(text)
           D(n, x) == Deeper(Trie(olds), mode, SubSeq(text, 1, n), skip, x)
           a == D(0, DescentStart)
           G == [n \in 1 .. L |-> [x \in Places |-> D(n, x)]]
           Run(f) == f = [n \in 0 .. L |-> D(n, IF n = 0 THEN DescentStart ELSE f[n - 1])]
<1>1. L \in Nat /\ DescentStart \in Places
  BY DEF DescentStart, Places, NoPair
<1>2. a \in Places /\ \A n \in 1 .. L : \A x \in Places : D(n, x) \in Places
  BY <1>1, DeeperTyped
<1>3. ASSUME NEW f \in [0 .. L -> Places], Iterates(f, a, G, L)
      PROVE  Run(f)
  <2>1. \A n \in 0 .. L : f[n] = IF n = 0 THEN a ELSE G[n][f[n - 1]]
    <3> HIDE DEF G, a
    <3>1. QED
      BY <1>3 DEF Iterates
  <2>2. \A n \in 1 .. L : f[n - 1] \in Places
    BY <1>1
  <2>3. \A n \in 1 .. L : \A x \in Places : G[n][x] = D(n, x)
    OBVIOUS
  <2>4. f = [n \in 0 .. L |-> f[n]]
    OBVIOUS
  <2>5. \A n \in 0 .. L : f[n] = D(n, IF n = 0 THEN DescentStart ELSE f[n - 1])
    <3> SUFFICES ASSUME NEW n \in 0 .. L
                 PROVE  f[n] = D(n, IF n = 0 THEN DescentStart ELSE f[n - 1])
      OBVIOUS
    <3>1. CASE n = 0
      <4>1. f[0] = a
        BY <1>1, <2>1
      <4>2. QED
        BY <3>1, <4>1
    <3>2. CASE n # 0
      <4>1. n \in 1 .. L /\ f[n - 1] \in Places
        BY <1>1, <2>2, <3>2
      <4>2. f[n] = G[n][f[n - 1]] /\ G[n][f[n - 1]] = D(n, f[n - 1])
        <5> HIDE DEF G, D
        <5>1. QED
          BY <2>1, <2>3, <3>2, <4>1
      <4>3. QED
        BY <3>2, <4>2
    <3>3. QED
      BY <3>1, <3>2
  <2> HIDE DEF D, L
  <2>6. QED
    BY <2>4, <2>5
<1>4. \E f \in [0 .. L -> Places] : Run(f)
  <2>1. G \in [1 .. L -> [Places -> Places]]
    BY <1>2
  <2> HIDE DEF G, a, L, Run
  <2>2. QED
    BY <1>1, <1>2, <1>3, <2>1, IterationExists
<1> DEFINE h == CHOOSE f : Run(f)
<1>5. Run(h)
  <2> HIDE DEF Run
  <2>1. QED
    BY <1>4
<1>6. Descend(Trie(olds), mode, text, skip) = h[L].best
  BY DEF Descend, DescentStart
<1> HIDE DEF h
<1>7. \A n \in 0 .. L : h[n] = D(n, IF n = 0 THEN DescentStart ELSE h[n - 1])
  <2>1. h = [n \in 0 .. L |-> D(n, IF n = 0 THEN DescentStart ELSE h[n - 1])]
    BY <1>5
  <2> HIDE DEF D, L
  <2>2. QED
    BY <2>1
<1>8. h[0] = a
  <2> HIDE DEF D, L
  <2>1. QED
    BY <1>1, <1>7 DEF a
<1>9. \A n \in 1 .. L : h[n] = D(n, h[n - 1])
  <2> SUFFICES ASSUME NEW n \in 1 .. L PROVE h[n] = D(n, h[n - 1])
    OBVIOUS
  <2>1. n \in 0 .. L /\ n # 0
    BY <1>1
  <2>2. h[n] = D(n, IF n = 0 THEN DescentStart ELSE h[n - 1])
    <3> HIDE DEF D, L
    <3>1. QED
      BY <1>7, <2>1
  <2>3. QED
    BY <2>1, <2>2
<1>10. h \in [0 .. L -> Places]
  <2>1. PICK f \in [0 .. L -> Places] : Run(f)
    BY <1>4
  <2>2. \A n \in 0 .. L : h[n] \in Places
    <3> DEFINE S == [n \in 0 .. L |-> Places]
    <3>1. h[0] \in S[0] /\ \A n \in 1 .. L : h[n - 1] \in S[n - 1] => h[n] \in S[n]
      <4>1. \A n \in 1 .. L : n - 1 \in 0 .. L /\ n \in 0 .. L
        BY <1>1
      <4> HIDE DEF D, L
      <4>2. QED
        BY <1>1, <1>2, <1>8, <1>9, <4>1
    <3> HIDE DEF S, D, L, a
    <3>2. \A n \in 0 .. L : h[n] \in S[n]
      BY <1>1, <3>1, KeptAlong
    <3>3. QED
      BY <3>2 DEF S
  <2>3. h = [n \in 0 .. L |-> h[n]]
    <3>1. h = [n \in 0 .. L |-> D(n, IF n = 0 THEN DescentStart ELSE h[n - 1])]
      BY <1>5
    <3> HIDE DEF D, L
    <3>2. QED
      BY <3>1
  <2> HIDE DEF L
  <2>4. QED
    BY <2>2, <2>3
<1>11. DescentSteps(h, olds, mode, text, skip)
  BY <1>8, <1>9 DEF DescentSteps
<1>12. QED
  BY <1>6, <1>10, <1>11

(* The descent finds what the README chooses. *)
LEMMA DescendChooses ==
    ASSUME NEW olds, Olds(olds), NEW mode \in {"first", "longest"}, NEW text \in Seq(Bytes),
           NEW skip \in BOOLEAN
    PROVE  Descend(Trie(olds), mode, text, skip) = Chosen(olds, mode, text, skip)
<1> DEFINE L == Len(text)
           S == [n \in 0 .. L |-> {x \in Places : RightAt(olds, mode, text, skip, x, n)}]
<1>1. PICK f \in [0 .. L -> Places] :
              /\ DescentSteps(f, olds, mode, text, skip)
              /\ Descend(Trie(olds), mode, text, skip) = f[L].best
  BY DescentRun
<1>2. L \in Nat /\ DescentStart \in Places
  BY DEF DescentStart, Places, NoPair
<1>3. RightAt(olds, mode, text, skip, DescentStart, 0 - 1)
  <2>1. Able(olds, text, skip, 0 - 1) = {}
    BY OldsTyped DEF Able
  <2>2. QED
    BY <2>1 DEF RightAt, DescentStart, Choice
<1>4. f[0] \in S[0]
  <2>1. f[0] = Deeper(Trie(olds), mode, SubSeq(text, 1, 0), skip, DescentStart)
    BY <1>1 DEF DescentSteps
  <2>2. f[0] \in Places /\ 0 \in 0 .. L
    BY <1>2
  <2>3. RightAt(olds, mode, text, skip, f[0], 0)
    BY <1>2, <1>3, <2>1, <2>2, DeeperRight
  <2>4. QED
    BY <2>2, <2>3
<1>5. ASSUME NEW n \in 1 .. L, f[n - 1] \in S[n - 1] PROVE f[n] \in S[n]
  <2>1. n \in 0 .. L /\ n - 1 \in 0 .. L
    BY <1>2
  <2>2. f[n] = Deeper(Trie(olds), mode, SubSeq(text, 1, n), skip, f[n - 1])
    BY <1>1 DEF DescentSteps
  <2>3. f[n - 1] \in Places /\ RightAt(olds, mode, text, skip, f[n - 1], n - 1)
    BY <1>5, <2>1
  <2>4. RightAt(olds, mode, text, skip, f[n], n)
    BY <2>1, <2>2, <2>3, DeeperRight
  <2>5. QED
    BY <2>1, <2>4
<1>6. f[L] \in S[L]
  <2> HIDE DEF S, L
  <2>1. \A n \in 0 .. L : f[n] \in S[n]
    BY <1>2, <1>4, <1>5, KeptAlong
  <2>2. QED
    BY <1>2, <2>1
<1>7. f[L].best = Choice(olds, mode, Able(olds, text, skip, L))
  BY <1>2, <1>6 DEF RightAt
<1>8. QED
  BY <1>1, <1>7, ChosenIsChoice

-----------------------------------------------------------------------------
(* The pass: what is taken n characters before the end, and what comes of  *)
(* the rest, given what comes of every shorter rest.                       *)

Replacing(c) ==
    /\ Olds(c.olds) /\ c.news \in Seq(Seq(Bytes)) /\ Len(c.news) = Len(c.olds)
    /\ c.mode \in {"first", "longest"} /\ c.text \in Seq(Bytes)

ChosenAt(c, n, skip) == Chosen(c.olds, c.mode, Rest(c.text, Len(c.text) - n), skip)
EmptyAt(c, n) == IsEmptyMatch(c.olds, ChosenAt(c, n, FALSE))
TakenAt(c, n) == IF EmptyAt(c, n) THEN ChosenAt(c, n, TRUE) ELSE ChosenAt(c, n, FALSE)
PutBefore(c, n) == IF EmptyAt(c, n) THEN c.news[ChosenAt(c, n, FALSE)] ELSE <<>>
Onward(c, f, n) ==
    IF TakenAt(c, n) # NoPair
    THEN c.news[TakenAt(c, n)] \o f[n - Len(c.olds[TakenAt(c, n)])]
    ELSE IF n = 0 THEN <<>> ELSE <<Rest(c.text, Len(c.text) - n)[1]>> \o f[n - 1]
PassAt(c, f, n) == PutBefore(c, n) \o Onward(c, f, n)

LEMMA RestTyped ==
    ASSUME NEW c, Replacing(c), NEW n \in 0 .. Len(c.text)
    PROVE  /\ Rest(c.text, Len(c.text) - n) \in Seq(Bytes)
           /\ Len(Rest(c.text, Len(c.text) - n)) = n
           /\ n # 0 => /\ Rest(c.text, Len(c.text) - n)[1] = c.text[Len(c.text) - n + 1]
                       /\ Rest(c.text, Len(c.text) - n)[1] \in Bytes
<1> DEFINE t == c.text
           L == Len(t)
           a == L - n
<1>1. t \in Seq(Bytes) /\ L \in Nat /\ a \in 0 .. L /\ L \in a .. L /\ L - a = n
  BY DEF Replacing
<1>2. /\ SubSeq(t, a + 1, L) \in Seq(Bytes) /\ Len(SubSeq(t, a + 1, L)) = L - a
      /\ \A i \in 1 .. L - a : SubSeq(t, a + 1, L)[i] = t[a + i]
  <2> HIDE DEF t, a
  <2>1. QED
    BY <1>1, PartOf
<1>3. n # 0 => 1 \in 1 .. L - a /\ a + 1 \in 1 .. L
  BY <1>1
<1>4. n # 0 => t[a + 1] \in Bytes
  <2> HIDE DEF a
  <2>1. QED
    BY <1>1, <1>3, ElementsOf
<1>5. QED
  BY <1>1, <1>2, <1>3, <1>4 DEF Rest

(* A pair that is chosen matches, and is not empty if empty ones are       *)
(* skipped.                                                                *)
LEMMA ChosenFits ==
    ASSUME NEW c, Replacing(c), NEW n \in 0 .. Len(c.text), NEW skip \in BOOLEAN,
           ChosenAt(c, n, skip) # NoPair
    PROVE  /\ ChosenAt(c, n, skip) \in DOMAIN c.olds
           /\ Len(c.olds[ChosenAt(c, n, skip)]) \in 0 .. n
           /\ c.olds[ChosenAt(c, n, skip)] = <<>> <=> Len(c.olds[ChosenAt(c, n, skip)]) = 0
           /\ skip => c.olds[ChosenAt(c, n, skip)] # <<>>
           /\ c.news[ChosenAt(c, n, skip)] \in Seq(Bytes)
<1> DEFINE r == Rest(c.text, Len(c.text) - n)
           S == Able(c.olds, r, skip, Len(r))
           p == ChosenAt(c, n, skip)
<1>1. r \in Seq(Bytes) /\ Len(r) = n
  BY RestTyped
<1>2. Olds(c.olds)
  BY DEF Replacing
<1>3. p = Choice(c.olds, c.mode, S)
  BY <1>2, ChosenIsChoice DEF ChosenAt
<1>4. S # {} /\ S \subseteq DOMAIN c.olds
  BY <1>3 DEF Choice, Able
<1>5. p \in S
  <2> HIDE DEF S, p
  <2>1. QED
    BY <1>2, <1>3, <1>4, ChoiceIn
<1>6. /\ p \in DOMAIN c.olds /\ Len(c.olds[p]) <= n
      /\ skip => c.olds[p] # <<>>
  BY <1>1, <1>5 DEF Able
<1>7. c.olds[p] \in Seq(Bytes) /\ Len(c.olds[p]) \in Nat
  BY <1>2, <1>6, OldsTyped
<1>8. c.olds[p] = <<>> <=> Len(c.olds[p]) = 0
  <2> HIDE DEF p
  <2>1. QED
    BY <1>7
<1>9. c.news[p] \in Seq(Bytes)
  <2>1. p \in 1 .. Len(c.news) /\ c.news \in Seq(Seq(Bytes))
    BY <1>2, <1>6, OldsTyped DEF Replacing
  <2> HIDE DEF p
  <2>2. QED
    BY <2>1, ElementsOf
<1>10. QED
  BY <1>6, <1>7, <1>8, <1>9

LEMMA TakenFits ==
    ASSUME NEW c, Replacing(c), NEW n \in 0 .. Len(c.text)
    PROVE  /\ PutBefore(c, n) \in Seq(Bytes)
           /\ TakenAt(c, n) # NoPair =>
                 /\ Len(c.olds[TakenAt(c, n)]) \in 1 .. n
                 /\ c.news[TakenAt(c, n)] \in Seq(Bytes)
<1>1. PutBefore(c, n) \in Seq(Bytes)
  <2>1. CASE EmptyAt(c, n)
    <3>1. ChosenAt(c, n, FALSE) # NoPair
      BY <2>1 DEF EmptyAt, IsEmptyMatch
    <3>2. QED
      BY <2>1, <3>1, ChosenFits DEF PutBefore
  <2>2. CASE ~EmptyAt(c, n)
    BY <2>2 DEF PutBefore
  <2>3. QED
    BY <2>1, <2>2
<1>2. ASSUME TakenAt(c, n) # NoPair
      PROVE  /\ Len(c.olds[TakenAt(c, n)]) \in 1 .. n
             /\ c.news[TakenAt(c, n)] \in Seq(Bytes)
  <2>1. CASE EmptyAt(c, n)
    <3>1. TakenAt(c, n) = ChosenAt(c, n, TRUE)
      BY <2>1 DEF TakenAt
    <3>2. ChosenAt(c, n, TRUE) # NoPair
      BY <1>2, <3>1
    <3>3. /\ Len(c.olds[ChosenAt(c, n, TRUE)]) \in 0 .. n
          /\ c.olds[ChosenAt(c, n, TRUE)] = <<>> <=> Len(c.olds[ChosenAt(c, n, TRUE)]) = 0
          /\ c.olds[ChosenAt(c, n, TRUE)] # <<>>
          /\ c.news[ChosenAt(c, n, TRUE)] \in Seq(Bytes)
      BY <3>2, ChosenFits, Zenon
    <3>4. Len(c.olds[ChosenAt(c, n, TRUE)]) # 0
      BY <3>3, Zenon
    <3>5. Len(c.olds[ChosenAt(c, n, TRUE)]) \in 1 .. n
      <4> DEFINE l == Len(c.olds[ChosenAt(c, n, TRUE)])
      <4>1. l \in 0 .. n /\ l # 0
        BY <3>3, <3>4
      <4> HIDE DEF l
      <4>2. l \in 1 .. n
        BY <4>1
      <4>3. QED
        BY <4>2 DEF l
    <3>6. QED
      BY <3>1, <3>3, <3>5, Zenon
  <2>2. CASE ~EmptyAt(c, n)
    <3>1. TakenAt(c, n) = ChosenAt(c, n, FALSE)
      BY <2>2 DEF TakenAt
    <3>2. c.olds[ChosenAt(c, n, FALSE)] # <<>>
      BY <1>2, <2>2, <3>1 DEF EmptyAt, IsEmptyMatch
    <3>3. ChosenAt(c, n, FALSE) # NoPair
      BY <1>2, <3>1
    <3>4. /\ Len(c.olds[ChosenAt(c, n, FALSE)]) \in 0 .. n
          /\ c.olds[ChosenAt(c, n, FALSE)] = <<>> <=> Len(c.olds[ChosenAt(c, n, FALSE)]) = 0
          /\ c.news[ChosenAt(c, n, FALSE)] \in Seq(Bytes)
      BY <3>3, ChosenFits, Zenon
    <3>5. Len(c.olds[ChosenAt(c, n, FALSE)]) # 0
      BY <3>2, <3>4, Zenon
    <3>6. Len(c.olds[ChosenAt(c, n, FALSE)]) \in 1 .. n
      <4> DEFINE l == Len(c.olds[ChosenAt(c, n, FALSE)])
      <4>1. l \in 0 .. n /\ l # 0
        BY <3>4, <3>5
      <4> HIDE DEF l
      <4>2. l \in 1 .. n
        BY <4>1
      <4>3. QED
        BY <4>2 DEF l
    <3>7. QED
      BY <3>1, <3>4, <3>6, Zenon
  <2>3. QED
    BY <2>1, <2>2
<1>3. QED
  BY <1>1, <1>2

(* What comes of the rest depends on what comes of shorter rests only. *)
LEMMA OnwardTyped ==
    ASSUME NEW c, Replacing(c), NEW n \in 0 .. Len(c.text), NEW f,
           \A j \in 0 .. n - 1 : f[j] \in Seq(Bytes)
    PROVE  Onward(c, f, n) \in Seq(Bytes) /\ PassAt(c, f, n) \in Seq(Bytes)
<1>1. Onward(c, f, n) \in Seq(Bytes)
  <2>1. CASE TakenAt(c, n) # NoPair
    <3> DEFINE m == n - Len(c.olds[TakenAt(c, n)])
    <3>1. m \in 0 .. n - 1 /\ c.news[TakenAt(c, n)] \in Seq(Bytes)
      BY <2>1, TakenFits
    <3>2. f[m] \in Seq(Bytes)
      BY <3>1
    <3> HIDE DEF m
    <3>3. c.news[TakenAt(c, n)] \o f[m] \in Seq(Bytes)
      BY <3>1, <3>2, ConcatProperties
    <3>4. QED
      BY <2>1, <3>3 DEF Onward, m
  <2>2. CASE TakenAt(c, n) = NoPair /\ n = 0
    BY <2>2 DEF Onward
  <2>3. CASE TakenAt(c, n) = NoPair /\ n # 0
    <3> DEFINE x == Rest(c.text, Len(c.text) - n)[1]
    <3>1. x \in Bytes /\ n - 1 \in 0 .. n - 1
      BY <2>3, RestTyped
    <3>2. <<x>> \in Seq(Bytes) /\ f[n - 1] \in Seq(Bytes)
      BY <3>1
    <3> HIDE DEF x
    <3>3. <<x>> \o f[n - 1] \in Seq(Bytes)
      BY <3>2, ConcatProperties
    <3>4. QED
      BY <2>3, <3>3 DEF Onward, x
  <2>4. QED
    BY <2>1, <2>2, <2>3
<1>2. PassAt(c, f, n) \in Seq(Bytes)
  BY <1>1, TakenFits, ConcatProperties DEF PassAt
<1>3. QED
  BY <1>1, <1>2

LEMMA PassLocal ==
    ASSUME NEW c, Replacing(c), NEW n \in 0 .. Len(c.text), NEW f, NEW g,
           \A j \in 0 .. n - 1 : f[j] = g[j]
    PROVE  PassAt(c, f, n) = PassAt(c, g, n)
<1>1. TakenAt(c, n) # NoPair => n - Len(c.olds[TakenAt(c, n)]) \in 0 .. n - 1
  BY TakenFits
<1>2. n # 0 => n - 1 \in 0 .. n - 1
  OBVIOUS
<1>3. Onward(c, f, n) = Onward(c, g, n)
  BY <1>1, <1>2 DEF Onward
<1>4. QED
  BY <1>3 DEF PassAt

PassSteps(c, f) ==
    /\ f \in [0 .. Len(c.text) -> Seq(Bytes)]
    /\ f = [n \in 0 .. Len(c.text) |-> PassAt(c, f, n)]

LEMMA PassRun ==
    ASSUME NEW c, Replacing(c)
    PROVE  \E f : PassSteps(c, f) /\ Pass(c.olds, c.news, c.mode, c.text) = f[Len(c.text)]
<1> DEFINE L == Len(c.text)
           B == Seq(Bytes)
           Sofar(f, m) == \A n \in 0 .. m : f[n] = PassAt(c, f, n)
           N == {m \in Nat : m <= L => \E f \in [0 .. m -> B] : Sofar(f, m)}
           Run(f) == f = [n \in 0 .. L |-> PassAt(c, f, n)]
<1>1. L \in Nat
  BY DEF Replacing
<1>2. 0 \in N
  <2> DEFINE e == [n \in 0 .. 0 |-> <<>>]
             g == [n \in 0 .. 0 |-> PassAt(c, e, n)]
  <2>1. 0 \in 0 .. L /\ \A j \in 0 .. 0 - 1 : e[j] \in B /\ e[j] = g[j]
    BY <1>1
  <2>2. g[0] = PassAt(c, e, 0)
    OBVIOUS
  <2>3. PassAt(c, e, 0) \in B /\ PassAt(c, e, 0) = PassAt(c, g, 0)
    <3> HIDE DEF e, g, L
    <3>1. QED
      BY <2>1, OnwardTyped, PassLocal DEF L
  <2>4. g \in [0 .. 0 -> B] /\ Sofar(g, 0)
    BY <2>2, <2>3
  <2>5. QED
    BY <2>4
<1>3. ASSUME NEW m \in Nat, m \in N PROVE m + 1 \in N
  <2> SUFFICES ASSUME m + 1 <= L PROVE \E f \in [0 .. m + 1 -> B] : Sofar(f, m + 1)
    OBVIOUS
  <2>1. PICK f \in [0 .. m -> B] : Sofar(f, m)
    BY <1>1, <1>3
  <2> DEFINE x == PassAt(c, f, m + 1)
             g == [n \in 0 .. m + 1 |-> IF n <= m THEN f[n] ELSE x]
  <2>2. x \in B
    <3>1. m + 1 \in 0 .. L /\ (m + 1) - 1 = m /\ \A j \in 0 .. m : f[j] \in B
      BY <1>1
    <3>2. QED
      BY <3>1, OnwardTyped
  <2>3. /\ g \in [0 .. m + 1 -> B] /\ g[m + 1] = x
        /\ \A n \in 0 .. m : g[n] = f[n]
    BY <2>2
  <2> HIDE DEF g
  <2>4. ASSUME NEW n \in 0 .. m + 1 PROVE g[n] = PassAt(c, g, n)
    <3>1. n \in 0 .. L /\ \A j \in 0 .. n - 1 : f[j] = g[j]
      BY <1>1, <2>3
    <3>2. PassAt(c, f, n) = PassAt(c, g, n)
      BY <3>1, PassLocal
    <3>3. CASE n <= m
      <4>1. n \in 0 .. m
        BY <3>3
      <4>2. f[n] = PassAt(c, f, n)
        BY <2>1, <4>1
      <4>3. QED
        BY <2>3, <3>2, <4>1, <4>2
    <3>4. CASE n = m + 1
      BY <2>3, <3>2, <3>4
    <3>5. QED
      BY <3>3, <3>4
  <2>5. QED
    BY <2>3, <2>4
<1>4. PICK f \in [0 .. L -> B] : Sofar(f, L)
  <2>1. L \in N
    <3> HIDE DEF N, L
    <3>1. QED
      BY <1>1, <1>2, <1>3, Inductive
  <2>2. QED
    BY <1>1, <2>1
<1>5. Run(f)
  <2>1. f = [n \in 0 .. L |-> f[n]]
    OBVIOUS
  <2> HIDE DEF L
  <2>2. QED
    BY <1>4, <2>1
<1> DEFINE h == CHOOSE g : Run(g)
<1>6. Run(h)
  <2> HIDE DEF Run
  <2>1. QED
    BY <1>5
<1>7. Pass(c.olds, c.news, c.mode, c.text) = h[L]
  BY DEF Pass, PassAt, PutBefore, Onward, TakenAt, EmptyAt, ChosenAt
<1> HIDE DEF h
<1>8. \A n \in 0 .. L : h[n] = PassAt(c, h, n)
  <2>1. h = [n \in 0 .. L |-> PassAt(c, h, n)]
    BY <1>6
  <2> HIDE DEF L
  <2>2. QED
    BY <2>1
<1>9. \A n \in Nat : n <= L => \A j \in 0 .. n : h[j] \in B
  <2> DEFINE M == {n \in Nat : n <= L => \A j \in 0 .. n : h[j] \in B}
  <2>1. 0 \in M
    <3>1. 0 \in 0 .. L /\ \A j \in 0 .. 0 - 1 : h[j] \in B
      BY <1>1
    <3>2. h[0] = PassAt(c, h, 0)
      BY <1>8, <3>1
    <3>3. PassAt(c, h, 0) \in B
      BY <3>1, OnwardTyped
    <3>4. QED
      BY <3>2, <3>3
  <2>2. ASSUME NEW n \in Nat, n \in M PROVE n + 1 \in M
    <3> SUFFICES ASSUME n + 1 <= L PROVE \A j \in 0 .. n + 1 : h[j] \in B
      OBVIOUS
    <3>1. n + 1 \in 0 .. L /\ (n + 1) - 1 = n /\ \A j \in 0 .. n : h[j] \in B
      BY <1>1, <2>2
    <3>2. h[n + 1] = PassAt(c, h, n + 1)
      BY <1>8, <3>1
    <3>3. PassAt(c, h, n + 1) \in B
      BY <3>1, OnwardTyped
    <3>4. QED
      BY <3>1, <3>2, <3>3
  <2> HIDE DEF M
  <2>3. \A n \in Nat : n \in M
    BY <2>1, <2>2, Inductive
  <2>4. QED
    BY <2>3 DEF M
<1>10. h \in [0 .. L -> B]
  <2>1. h = [n \in 0 .. L |-> h[n]]
    <3>1. h = [n \in 0 .. L |-> PassAt(c, h, n)]
      BY <1>6
    <3> HIDE DEF L
    <3>2. QED
      BY <3>1
  <2>2. \A n \in 0 .. L : h[n] \in B
    BY <1>1, <1>9
  <2> HIDE DEF L
  <2>3. QED
    BY <2>1, <2>2
<1>11. PassSteps(c, h)
  BY <1>6, <1>10 DEF PassSteps
<1>12. QED
  BY <1>7, <1>11

-----------------------------------------------------------------------------
(* The loop: what it has put out, with what it will copy and what comes of *)
(* the rest, is what comes of the text.                                    *)

Looped(c) ==
    {s \in [i : 0 .. Len(c.text) + 1, last : 0 .. Len(c.text), empty : BOOLEAN, out : Seq(Bytes)] :
        s.last <= s.i}

LeftAt(c, f, s) ==
    IF s.empty THEN Onward(c, f, Len(c.text) - s.i) ELSE f[Len(c.text) - s.i]

SoundAt(c, f, s) ==
    /\ s.empty => s.i <= Len(c.text) /\ s.last = s.i /\ EmptyAt(c, Len(c.text) - s.i)
    /\ s.i <= Len(c.text) =>
          f[Len(c.text)] = s.out \o (Copied(c.text, s.last, s.i) \o LeftAt(c, f, s))
    /\ s.i = Len(c.text) + 1 =>
          f[Len(c.text)] = s.out \o Copied(c.text, s.last, Len(c.text))

(* The turns that are left, at most: an empty match stays where it is, but *)
(* the next turn does not.                                                 *)
TurnsLeft(c, s) == 2 * (Len(c.text) + 1 - s.i) - (IF s.empty THEN 1 ELSE 0)

TurnOf(c, s) == Turn(Trie(c.olds), c.olds, c.news, c.mode, c.text, s)

TurnsWell(c, f, s) ==
    /\ TurnOf(c, s) \in Looped(c) /\ SoundAt(c, f, TurnOf(c, s))
    /\ s.i <= Len(c.text) => TurnsLeft(c, TurnOf(c, s)) < TurnsLeft(c, s)

LEMMA CopiedTyped ==
    ASSUME NEW c, Replacing(c), NEW a \in 0 .. Len(c.text), NEW b \in a .. Len(c.text)
    PROVE  Copied(c.text, a, b) \in Seq(Bytes) /\ (a = b => Copied(c.text, a, b) = <<>>)
<1>1. c.text \in Seq(Bytes)
  BY DEF Replacing
<1>2. SubSeq(c.text, a + 1, b) \in Seq(Bytes) /\ Len(SubSeq(c.text, a + 1, b)) = b - a
  BY <1>1, PartOf
<1>3. a = b => b - a = 0
  BY <1>1
<1> DEFINE q == SubSeq(c.text, a + 1, b)
<1>4. a = b => q = <<>>
  <2>1. q \in Seq(Bytes) /\ (a = b => Len(q) = 0)
    BY <1>2, <1>3
  <2> HIDE DEF q
  <2>2. QED
    BY <2>1
<1>5. QED
  BY <1>2, <1>4 DEF Copied

LEMMA CopiedOn ==
    ASSUME NEW c, Replacing(c), NEW a \in 0 .. Len(c.text), NEW b \in a .. Len(c.text) - 1
    PROVE  Copied(c.text, a, b + 1) = Copied(c.text, a, b) \o <<c.text[b + 1]>>
<1> DEFINE t == c.text
           one == SubSeq(t, b + 1, b + 1)
           x == t[b + 1]
<1>1. t \in Seq(Bytes) /\ Len(t) \in Nat /\ b \in 0 .. Len(t) /\ b + 1 \in b .. Len(t)
      /\ b + 1 \in 1 .. Len(t)
  BY DEF Replacing
<1>2. x \in Bytes
  <2> HIDE DEF t
  <2>1. QED
    BY <1>1, ElementsOf
<1>3. one \in Seq(Bytes) /\ Len(one) = (b + 1) - b /\ \A i \in 1 .. (b + 1) - b : one[i] = t[b + i]
  <2> HIDE DEF t
  <2>1. QED
    BY <1>1, PartOf
<1>4. Len(one) = 1 /\ one[1] = x
  BY <1>1, <1>3
<1>5. one = <<x>>
  <2>1. <<x>> \in Seq(Bytes) /\ Len(<<x>>) = 1 /\ <<x>>[1] = x
    BY <1>2
  <2>2. one \in Seq(Bytes)
    BY <1>3
  <2> HIDE DEF one, x
  <2>3. QED
    BY <1>4, <2>1, <2>2, SeqEqual
<1>6. SubSeq(t, a + 1, b) \o SubSeq(t, b + 1, b + 1) = SubSeq(t, a + 1, b + 1)
  <2>1. a + 1 \in 1 .. Len(t) + 1 /\ b \in (a + 1) - 1 .. Len(t) /\ b + 1 \in b .. Len(t)
    BY <1>1
  <2> HIDE DEF t
  <2>2. QED
    BY <1>1, <2>1, ConcatAdjacentSubSeq
<1>7. QED
  BY <1>5, <1>6 DEF Copied

(* What the loop chooses at a place, and what is left there. *)
LeftHere(c, f, s, n, p) ==
    /\ Onward(c, f, n) \in Seq(Bytes)
    /\ p = NoPair => TakenAt(c, n) = NoPair /\ LeftAt(c, f, s) = Onward(c, f, n)
    /\ p # NoPair /\ c.olds[p] # <<>> =>
          TakenAt(c, n) = p /\ LeftAt(c, f, s) = Onward(c, f, n)
    /\ p # NoPair /\ c.olds[p] = <<>> =>
          ~s.empty /\ EmptyAt(c, n) /\ LeftAt(c, f, s) = c.news[p] \o Onward(c, f, n)

LEMMA LeftIs ==
    ASSUME NEW c, Replacing(c), NEW f, PassSteps(c, f), NEW s \in Looped(c),
           SoundAt(c, f, s), s.i <= Len(c.text),
           NEW n, n = Len(c.text) - s.i, NEW p, p = ChosenAt(c, n, s.empty)
    PROVE  LeftHere(c, f, s, n, p)
<1> DEFINE L == Len(c.text)
           on == Onward(c, f, n)
<1>1. L \in Nat /\ s.i \in 0 .. L /\ s.empty \in BOOLEAN /\ n \in 0 .. L
  BY DEF Replacing, Looped
<1>2. \A j \in 0 .. n - 1 : f[j] \in Seq(Bytes)
  <2>1. \A j \in 0 .. n - 1 : j \in 0 .. L
    BY <1>1
  <2> HIDE DEF L
  <2>2. QED
    BY <2>1 DEF PassSteps, L
<1>3. on \in Seq(Bytes)
  BY <1>1, <1>2, OnwardTyped
<1>4. f[n] = PutBefore(c, n) \o on
  <2>1. f[n] = PassAt(c, f, n)
    <3>1. f = [m \in 0 .. L |-> PassAt(c, f, m)]
      BY DEF PassSteps
    <3> HIDE DEF L
    <3>2. QED
      BY <1>1, <3>1
  <2>2. QED
    BY <2>1 DEF PassAt
<1>5. <<>> \o on = on
  <2> HIDE DEF on
  <2>1. QED
    BY <1>3, ConcatEmptySeq
<1>6. CASE s.empty
  <2>1. EmptyAt(c, n) /\ LeftAt(c, f, s) = on
    BY <1>6 DEF SoundAt, LeftAt
  <2>2. p = ChosenAt(c, n, TRUE) /\ TakenAt(c, n) = p
    BY <1>1, <1>6, <2>1 DEF TakenAt
  <2>3. p # NoPair => c.olds[p] # <<>>
    BY <1>1, <2>2, ChosenFits
  <2>4. QED
    BY <1>3, <2>1, <2>2, <2>3 DEF LeftHere
<1>7. CASE ~s.empty
  <2>1. p = ChosenAt(c, n, FALSE) /\ LeftAt(c, f, s) = PutBefore(c, n) \o on
    BY <1>1, <1>4, <1>7 DEF LeftAt
  <2>2. EmptyAt(c, n) <=> p # NoPair /\ c.olds[p] = <<>>
    BY <2>1 DEF EmptyAt, IsEmptyMatch
  <2>3. CASE EmptyAt(c, n)
    <3>1. PutBefore(c, n) = c.news[p]
      BY <2>1, <2>3 DEF PutBefore
    <3>2. QED
      BY <1>3, <1>7, <2>1, <2>2, <2>3, <3>1 DEF LeftHere
  <2>4. CASE ~EmptyAt(c, n)
    <3>1. PutBefore(c, n) = <<>> /\ TakenAt(c, n) = p
      BY <2>1, <2>4 DEF PutBefore, TakenAt
    <3>2. QED
      BY <1>3, <1>5, <1>7, <2>1, <2>2, <2>4, <3>1 DEF LeftHere
  <2>5. QED
    BY <2>3, <2>4
<1>8. QED
  BY <1>1, <1>6, <1>7

(* What the loop looks up is what is chosen there. *)
LEMMA LookedUp ==
    ASSUME NEW c, Replacing(c), NEW i \in 0 .. Len(c.text), NEW skip \in BOOLEAN
    PROVE  Descend(Trie(c.olds), c.mode, Rest(c.text, i), skip)
               = ChosenAt(c, Len(c.text) - i, skip)
<1> DEFINE n == Len(c.text) - i
           r == Rest(c.text, i)
<1>1. n \in 0 .. Len(c.text) /\ Len(c.text) - n = i
  BY DEF Replacing
<1>2. r \in Seq(Bytes)
  <2>1. Rest(c.text, Len(c.text) - n) \in Seq(Bytes)
    <3> HIDE DEF n
    <3>1. QED
      BY <1>1, RestTyped
  <2>2. QED
    BY <1>1, <2>1
<1>3. Descend(Trie(c.olds), c.mode, r, skip) = Chosen(c.olds, c.mode, r, skip)
  <2> HIDE DEF r
  <2>1. QED
    BY <1>2, DescendChooses DEF Replacing
<1>4. QED
  BY <1>1, <1>3 DEF ChosenAt

(* The order in which sequences are joined does not matter. *)
Joins(o, k, x) == o \o (k \o x) = (o \o k) \o x
JoinsIn(o, k, x, w) == o \o (k \o (x \o w)) = o \o ((k \o x) \o w)
PutOut(o, k, x) == o \o k \o x
JoinsOut(o, k, x, w) == o \o (k \o (x \o w)) = PutOut(o, k, x) \o (<<>> \o w)

LEMMA Joined ==
    ASSUME NEW o \in Seq(Bytes), NEW k \in Seq(Bytes), NEW x \in Seq(Bytes)
    PROVE  Joins(o, k, x)
<1>1. (o \o k) \o x = o \o (k \o x)
  BY ConcatAssociative
<1>2. QED
  BY <1>1, Zenon DEF Joins

LEMMA JoinedIn ==
    ASSUME NEW o \in Seq(Bytes), NEW k \in Seq(Bytes), NEW x \in Seq(Bytes), NEW w \in Seq(Bytes)
    PROVE  JoinsIn(o, k, x, w)
<1>1. Joins(k, x, w)
  BY Joined
<1>2. QED
  BY <1>1 DEF Joins, JoinsIn

LEMMA JoinedOut ==
    ASSUME NEW o \in Seq(Bytes), NEW k \in Seq(Bytes), NEW x \in Seq(Bytes), NEW w \in Seq(Bytes)
    PROVE  JoinsOut(o, k, x, w) /\ PutOut(o, k, x) \in Seq(Bytes)
<1> DEFINE u == o \o k
           v == x \o w
<1>1. u \in Seq(Bytes) /\ v \in Seq(Bytes)
  BY ConcatProperties
<1>2. o \o (k \o v) = u \o v
  <2>1. Joins(o, k, v)
    <3> HIDE DEF v
    <3>1. QED
      BY <1>1, Joined
  <2>2. QED
    BY <2>1, Zenon DEF Joins
<1>3. u \o v = (u \o x) \o w
  <2>1. Joins(u, x, w)
    <3> HIDE DEF u
    <3>1. QED
      BY <1>1, Joined
  <2>2. QED
    BY <2>1, Zenon DEF Joins
<1>4. u \o x \in Seq(Bytes)
  <2> HIDE DEF u
  <2>1. QED
    BY <1>1, ConcatProperties
<1>5. <<>> \o w = w
  BY ConcatEmptySeq
<1>6. JoinsOut(o, k, x, w)
  BY <1>2, <1>3, <1>5, Zenon DEF JoinsOut, PutOut
<1>7. QED
  BY <1>4, <1>6 DEF PutOut

LEMMA TurnIs ==
    ASSUME NEW c, Replacing(c), NEW s \in Looped(c), s.i <= Len(c.text),
           NEW p, p = ChosenAt(c, Len(c.text) - s.i, s.empty)
    PROVE  TurnOf(c, s) =
               IF p = NoPair
               THEN [i |-> s.i + 1, last |-> s.last, empty |-> FALSE, out |-> s.out]
               ELSE [i |-> s.i + Len(c.olds[p]), last |-> s.i + Len(c.olds[p]),
                     empty |-> Len(c.olds[p]) = 0,
                     out |-> PutOut(s.out, Copied(c.text, s.last, s.i), c.news[p])]
<1>1. s.i \in 0 .. Len(c.text) /\ s.empty \in BOOLEAN /\ ~(s.i > Len(c.text))
  BY DEF Looped, Replacing
<1>2. Descend(Trie(c.olds), c.mode, Rest(c.text, s.i), s.empty) = p
  BY <1>1, LookedUp
<1>3. QED
  BY <1>1, <1>2 DEF TurnOf, Turn, PutOut

LEMMA LeftAtLeast ==
    ASSUME NEW c, Replacing(c), NEW s \in Looped(c)
    PROVE  TurnsLeft(c, s) >= 2 * (Len(c.text) + 1 - s.i) - 1
           /\ TurnsLeft(c, s) <= 2 * (Len(c.text) + 1 - s.i)
           /\ TurnsLeft(c, s) \in Int
<1>1. s.i \in Int /\ Len(c.text) \in Int /\ s.empty \in BOOLEAN
  BY DEF Looped, Replacing
<1> DEFINE m == 2 * (Len(c.text) + 1 - s.i)
<1>2. m \in Int
  BY <1>1
<1>3. TurnsLeft(c, s) = m - 1 \/ TurnsLeft(c, s) = m - 0
  BY Zenon DEF TurnsLeft
<1>4. TurnsLeft(c, s) >= m - 1 /\ TurnsLeft(c, s) <= m /\ TurnsLeft(c, s) \in Int
  <2> HIDE DEF m
  <2>1. QED
    BY <1>2, <1>3
<1>5. QED
  BY <1>4

(* A place where nothing is taken: its character will be copied. *)
LEMMA PassesBy ==
    ASSUME NEW c, Replacing(c), NEW f, PassSteps(c, f), NEW s \in Looped(c),
           SoundAt(c, f, s), s.i <= Len(c.text),
           ChosenAt(c, Len(c.text) - s.i, s.empty) = NoPair
    PROVE  TurnsWell(c, f, s)
<1> DEFINE L == Len(c.text)
           i == s.i
           n == L - i
           y == TurnOf(c, s)
           k == Copied(c.text, s.last, i)
<1>1. /\ L \in Nat /\ i \in 0 .. L /\ n \in 0 .. L /\ s.last \in 0 .. i /\ s.last \in 0 .. L
      /\ s.out \in Seq(Bytes) /\ s.empty \in BOOLEAN
  BY DEF Looped, Replacing
<1>2. y = [i |-> i + 1, last |-> s.last, empty |-> FALSE, out |-> s.out]
  BY TurnIs
<1>3. y.i = i + 1 /\ y.last = s.last /\ y.empty = FALSE /\ y.out = s.out
  BY <1>2
<1>4. y \in Looped(c)
  <2>1. i + 1 \in 0 .. L + 1 /\ s.last <= i + 1
    BY <1>1
  <2>2. QED
    BY <1>1, <1>2, <2>1 DEF Looped
<1>5. TakenAt(c, n) = NoPair /\ LeftAt(c, f, s) = Onward(c, f, n)
  <2>1. LeftHere(c, f, s, n, NoPair)
    BY LeftIs
  <2>2. QED
    BY <2>1, Zenon DEF LeftHere
<1>6. f[L] = s.out \o (k \o Onward(c, f, n))
  BY <1>5 DEF SoundAt
<1>7. i \in s.last .. L
  BY <1>1
<1>8. k \in Seq(Bytes)
  BY <1>1, <1>7, CopiedTyped
<1> HIDE DEF y
<1>9. CASE n = 0
  <2>1. Onward(c, f, n) = <<>> /\ i = L
    BY <1>1, <1>5, <1>9 DEF Onward
  <2>2. k \o <<>> = k
    <3> HIDE DEF k
    <3>1. QED
      BY <1>8, ConcatEmptySeq
  <2>3. f[L] = y.out \o Copied(c.text, y.last, L)
    BY <1>3, <1>6, <2>1, <2>2
  <2>4. y.i = L + 1 /\ ~(y.i <= L)
    BY <1>1, <1>3, <2>1
  <2>5. SoundAt(c, f, y)
    BY <1>3, <2>3, <2>4 DEF SoundAt
  <2>6. TurnsLeft(c, y) < TurnsLeft(c, s)
    <3>1. TurnsLeft(c, y) = 2 * (L + 1 - (i + 1)) - 0
      BY <1>3, Zenon DEF TurnsLeft
    <3>2. TurnsLeft(c, s) >= 2 * (L + 1 - i) - 1 /\ TurnsLeft(c, s) \in Int
      BY LeftAtLeast
    <3>3. QED
      BY <1>1, <3>1, <3>2
  <2>7. QED
    BY <1>4, <2>5, <2>6 DEF TurnsWell, y
<1>10. CASE n # 0
  <2> DEFINE x == <<c.text[i + 1]>>
             w == f[n - 1]
  <2>1. Onward(c, f, n) = x \o w
    <3>1. Rest(c.text, L - n)[1] = c.text[L - n + 1]
      <4> HIDE DEF n
      <4>1. QED
        BY <1>1, <1>10, RestTyped
    <3>2. L - n + 1 = i + 1
      BY <1>1
    <3>3. QED
      BY <1>5, <1>10, <3>1, <3>2 DEF Onward
  <2>2. w \in Seq(Bytes)
    <3>1. n - 1 \in 0 .. L
      BY <1>1, <1>10
    <3>2. QED
      BY <3>1 DEF PassSteps
  <2>3. x \in Seq(Bytes)
    <3>1. c.text \in Seq(Bytes) /\ i + 1 \in 1 .. L
      BY <1>1, <1>10 DEF Replacing
    <3>2. c.text[i + 1] \in Bytes
      <4> HIDE DEF i
      <4>1. QED
        BY <3>1, ElementsOf
    <3>3. QED
      BY <3>2
  <2>4. Copied(c.text, s.last, i + 1) = k \o x
    <3>1. s.last \in 0 .. L /\ i \in s.last .. L - 1
      BY <1>1, <1>10
    <3>2. QED
      BY <3>1, CopiedOn
  <2>5. f[L] = s.out \o ((k \o x) \o w)
    <3> HIDE DEF k, x, w
    <3>1. JoinsIn(s.out, k, x, w)
      BY <1>1, <1>8, <2>2, <2>3, JoinedIn
    <3>2. QED
      BY <1>6, <2>1, <3>1, Zenon DEF JoinsIn
  <2>6. LeftAt(c, f, y) = w
    <3>1. L - y.i = n - 1
      BY <1>1, <1>3
    <3>2. QED
      BY <1>3, <3>1 DEF LeftAt
  <2>7. f[L] = y.out \o (Copied(c.text, y.last, y.i) \o LeftAt(c, f, y))
    BY <1>3, <2>4, <2>5, <2>6
  <2>8. y.i <= L /\ y.i # L + 1
    BY <1>1, <1>3, <1>10
  <2>9. SoundAt(c, f, y)
    BY <1>3, <2>7, <2>8 DEF SoundAt
  <2>10. TurnsLeft(c, y) < TurnsLeft(c, s)
    <3>1. TurnsLeft(c, y) = 2 * (L + 1 - (i + 1)) - 0
      BY <1>3, Zenon DEF TurnsLeft
    <3>2. TurnsLeft(c, s) >= 2 * (L + 1 - i) - 1 /\ TurnsLeft(c, s) \in Int
      BY LeftAtLeast
    <3>3. QED
      BY <1>1, <3>1, <3>2
  <2>11. QED
    BY <1>4, <2>9, <2>10 DEF TurnsWell, y
<1>11. QED
  BY <1>9, <1>10

(* An empty match: it is put out, and its place is looked at once more. *)
LEMMA TakesEmpty ==
    ASSUME NEW c, Replacing(c), NEW f, PassSteps(c, f), NEW s \in Looped(c),
           SoundAt(c, f, s), s.i <= Len(c.text),
           NEW p, p = ChosenAt(c, Len(c.text) - s.i, s.empty), p # NoPair, c.olds[p] = <<>>
    PROVE  TurnsWell(c, f, s)
<1> DEFINE L == Len(c.text)
           i == s.i
           n == L - i
           y == TurnOf(c, s)
           k == Copied(c.text, s.last, i)
           w == Onward(c, f, n)
<1>1. /\ L \in Nat /\ i \in 0 .. L /\ n \in 0 .. L /\ s.last \in 0 .. i /\ s.last \in 0 .. L
      /\ s.out \in Seq(Bytes) /\ s.empty \in BOOLEAN /\ i \in s.last .. L
  BY DEF Looped, Replacing
<1>2. Len(c.olds[p]) = 0 /\ c.news[p] \in Seq(Bytes)
  <2>1. p = ChosenAt(c, n, s.empty)
    OBVIOUS
  <2>2. c.news[p] \in Seq(Bytes)
    <3> HIDE DEF n
    <3>1. QED
      BY <1>1, <2>1, ChosenFits
  <2>3. QED
    BY <2>2
<1>3. y = [i |-> i + Len(c.olds[p]), last |-> i + Len(c.olds[p]), empty |-> Len(c.olds[p]) = 0,
           out |-> PutOut(s.out, k, c.news[p])]
  BY TurnIs
<1>4. i + Len(c.olds[p]) = i
  BY <1>1, <1>2
<1>5. y = [i |-> i, last |-> i, empty |-> TRUE, out |-> PutOut(s.out, k, c.news[p])]
  BY <1>2, <1>3, <1>4
<1>6. y.i = i /\ y.last = i /\ y.empty = TRUE /\ y.out = PutOut(s.out, k, c.news[p])
  BY <1>5
<1>7. ~s.empty /\ EmptyAt(c, n) /\ LeftAt(c, f, s) = c.news[p] \o w /\ w \in Seq(Bytes)
  <2>1. LeftHere(c, f, s, n, p)
    BY LeftIs
  <2>2. QED
    BY <2>1, Zenon DEF LeftHere
<1>8. f[L] = s.out \o (k \o (c.news[p] \o w))
  BY <1>7 DEF SoundAt
<1>9. k \in Seq(Bytes) /\ Copied(c.text, i, i) = <<>>
  <2>1. i \in i .. L
    BY <1>1
  <2> HIDE DEF i
  <2>2. QED
    BY <1>1, <2>1, CopiedTyped DEF k
<1> HIDE DEF y
<1>10. /\ f[L] = PutOut(s.out, k, c.news[p]) \o (<<>> \o w)
       /\ PutOut(s.out, k, c.news[p]) \in Seq(Bytes)
  <2> HIDE DEF k, w
  <2>1. JoinsOut(s.out, k, c.news[p], w) /\ PutOut(s.out, k, c.news[p]) \in Seq(Bytes)
    BY <1>1, <1>2, <1>7, <1>9, JoinedOut
  <2>2. QED
    BY <1>8, <2>1, Zenon DEF JoinsOut
<1>11. y \in Looped(c)
  <2>1. i \in 0 .. L + 1 /\ i <= i
    BY <1>1
  <2>2. QED
    BY <1>1, <1>5, <1>10, <2>1 DEF Looped
<1>12. LeftAt(c, f, y) = w
  BY <1>6 DEF LeftAt
<1>13. f[L] = y.out \o (Copied(c.text, y.last, y.i) \o LeftAt(c, f, y))
  BY <1>6, <1>9, <1>10, <1>12
<1>14. SoundAt(c, f, y)
  <2>1. y.i <= L /\ y.i # L + 1
    BY <1>1, <1>6
  <2>2. QED
    BY <1>6, <1>7, <1>13, <2>1 DEF SoundAt
<1>15. TurnsLeft(c, y) < TurnsLeft(c, s)
  <2>1. TurnsLeft(c, y) = 2 * (L + 1 - i) - 1
    BY <1>6, Zenon DEF TurnsLeft
  <2>2. TurnsLeft(c, s) = 2 * (L + 1 - i) - 0
    BY <1>7, Zenon DEF TurnsLeft
  <2>3. QED
    BY <1>1, <2>1, <2>2
<1>16. QED
  BY <1>11, <1>14, <1>15 DEF TurnsWell, y

(* A match that is not empty: the text goes on after it. *)
LEMMA TakesMatch ==
    ASSUME NEW c, Replacing(c), NEW f, PassSteps(c, f), NEW s \in Looped(c),
           SoundAt(c, f, s), s.i <= Len(c.text),
           NEW p, p = ChosenAt(c, Len(c.text) - s.i, s.empty), p # NoPair, c.olds[p] # <<>>
    PROVE  TurnsWell(c, f, s)
<1> DEFINE L == Len(c.text)
           i == s.i
           n == L - i
           y == TurnOf(c, s)
           k == Copied(c.text, s.last, i)
           l == Len(c.olds[p])
           w == f[n - l]
<1>1. /\ L \in Nat /\ i \in 0 .. L /\ n \in 0 .. L /\ s.last \in 0 .. i /\ s.last \in 0 .. L
      /\ s.out \in Seq(Bytes) /\ s.empty \in BOOLEAN /\ i \in s.last .. L
  BY DEF Looped, Replacing
<1>2. TakenAt(c, n) = p /\ LeftAt(c, f, s) = Onward(c, f, n)
  <2>1. LeftHere(c, f, s, n, p)
    BY LeftIs
  <2>2. QED
    BY <2>1, Zenon DEF LeftHere
<1>3. l \in 1 .. n /\ c.news[p] \in Seq(Bytes)
  <2> HIDE DEF n
  <2>1. QED
    BY <1>1, <1>2, TakenFits
<1>4. Onward(c, f, n) = c.news[p] \o w
  BY <1>2 DEF Onward
<1>5. w \in Seq(Bytes)
  <2>1. n - l \in 0 .. L
    BY <1>1, <1>3
  <2>2. QED
    BY <2>1 DEF PassSteps
<1>6. y = [i |-> i + l, last |-> i + l, empty |-> l = 0, out |-> PutOut(s.out, k, c.news[p])]
  BY TurnIs
<1>7. (l = 0) = FALSE
  BY <1>1, <1>3
<1>8. y = [i |-> i + l, last |-> i + l, empty |-> FALSE, out |-> PutOut(s.out, k, c.news[p])]
  BY <1>6, <1>7
<1>9. y.i = i + l /\ y.last = i + l /\ y.empty = FALSE /\ y.out = PutOut(s.out, k, c.news[p])
  BY <1>8
<1>10. f[L] = s.out \o (k \o (c.news[p] \o w))
  BY <1>2, <1>4 DEF SoundAt
<1>11. i + l \in 0 .. L /\ i + l \in i + l .. L /\ i + l \in 0 .. L + 1 /\ L - (i + l) = n - l
  <2> HIDE DEF l
  <2>1. QED
    BY <1>1, <1>3
<1>12. k \in Seq(Bytes) /\ Copied(c.text, i + l, i + l) = <<>>
  <2> HIDE DEF i, l
  <2>1. QED
    BY <1>1, <1>11, CopiedTyped DEF k
<1> HIDE DEF y
<1>13. /\ f[L] = PutOut(s.out, k, c.news[p]) \o (<<>> \o w)
       /\ PutOut(s.out, k, c.news[p]) \in Seq(Bytes)
  <2> HIDE DEF k, w
  <2>1. JoinsOut(s.out, k, c.news[p], w) /\ PutOut(s.out, k, c.news[p]) \in Seq(Bytes)
    BY <1>1, <1>3, <1>5, <1>12, JoinedOut
  <2>2. QED
    BY <1>10, <2>1, Zenon DEF JoinsOut
<1>14. y \in Looped(c)
  <2>1. i + l <= i + l
    BY <1>11
  <2> HIDE DEF l
  <2>2. QED
    BY <1>8, <1>11, <1>13, <2>1 DEF Looped
<1>15. LeftAt(c, f, y) = w
  BY <1>9, <1>11 DEF LeftAt
<1>16. f[L] = y.out \o (Copied(c.text, y.last, y.i) \o LeftAt(c, f, y))
  BY <1>9, <1>12, <1>13, <1>15
<1>17. SoundAt(c, f, y)
  <2>1. y.i <= L /\ y.i # L + 1
    BY <1>1, <1>9, <1>11
  <2>2. QED
    BY <1>9, <1>16, <2>1 DEF SoundAt
<1>18. TurnsLeft(c, y) < TurnsLeft(c, s)
  <2>1. TurnsLeft(c, y) = 2 * (L + 1 - (i + l)) - 0
    BY <1>9, Zenon DEF TurnsLeft
  <2>2. TurnsLeft(c, s) >= 2 * (L + 1 - i) - 1 /\ TurnsLeft(c, s) \in Int
    BY LeftAtLeast
  <2>3. l \in Int /\ l >= 1 /\ L \in Int /\ i \in Int
    BY <1>1, <1>3
  <2> HIDE DEF l, L, i
  <2>4. 2 * (L + 1 - (i + l)) - 0 < 2 * (L + 1 - i) - 1
    BY <2>3
  <2>5. QED
    BY <2>1, <2>2, <2>3, <2>4
<1>19. QED
  BY <1>14, <1>17, <1>18 DEF TurnsWell, y

LEMMA TurnsAllWell ==
    ASSUME NEW c, Replacing(c), NEW f, PassSteps(c, f), NEW s \in Looped(c), SoundAt(c, f, s)
    PROVE  TurnsWell(c, f, s)
<1> DEFINE p == ChosenAt(c, Len(c.text) - s.i, s.empty)
<1>1. CASE ~(s.i <= Len(c.text))
  <2>1. s.i > Len(c.text)
    BY <1>1 DEF Looped, Replacing
  <2>2. TurnOf(c, s) = s
    BY <2>1 DEF TurnOf, Turn
  <2>3. QED
    BY <1>1, <2>2 DEF TurnsWell
<1>2. CASE s.i <= Len(c.text) /\ p = NoPair
  BY <1>2, PassesBy
<1>3. CASE s.i <= Len(c.text) /\ p # NoPair /\ c.olds[p] = <<>>
  BY <1>3, TakesEmpty
<1>4. CASE s.i <= Len(c.text) /\ p # NoPair /\ c.olds[p] # <<>>
  BY <1>4, TakesMatch
<1>5. QED
  BY <1>1, <1>2, <1>3, <1>4

LoopStart == [i |-> 0, last |-> 0, empty |-> FALSE, out |-> <<>>]
Sounds(c, f) == {s \in Looped(c) : SoundAt(c, f, s)}

LEMMA StartSound ==
    ASSUME NEW c, Replacing(c), NEW f, PassSteps(c, f)
    PROVE  LoopStart \in Sounds(c, f)
<1> DEFINE L == Len(c.text)
           s == LoopStart
<1>1. L \in Nat /\ 0 \in 0 .. L + 1 /\ 0 \in 0 .. L /\ L \in 0 .. L /\ L - 0 = L
  BY DEF Replacing
<1>2. <<>> \in Seq(Bytes)
  OBVIOUS
<1>3. s.i = 0 /\ s.last = 0 /\ s.empty = FALSE /\ s.out = <<>>
  BY DEF LoopStart
<1>4. s \in Looped(c)
  BY <1>1, <1>2 DEF Looped, LoopStart
<1>5. f[L] \in Seq(Bytes)
  BY <1>1 DEF PassSteps
<1>6. Copied(c.text, 0, 0) = <<>>
  <2>1. 0 \in 0 .. 0
    OBVIOUS
  <2>2. 0 \in 0 .. Len(c.text) /\ 0 \in 0 .. Len(c.text)
    BY <1>1
  <2>3. QED
    BY <2>1, <2>2, CopiedTyped
<1>7. LeftAt(c, f, s) = f[L]
  BY <1>1, <1>3 DEF LeftAt
<1>8. f[L] = s.out \o (Copied(c.text, s.last, s.i) \o LeftAt(c, f, s))
  <2>1. <<>> \o f[L] = f[L]
    BY <1>5, ConcatEmptySeq
  <2>2. QED
    BY <1>3, <1>6, <1>7, <2>1
<1>9. SoundAt(c, f, s)
  <2>1. s.i # L + 1
    BY <1>1, <1>3
  <2>2. QED
    BY <1>3, <1>8, <2>1 DEF SoundAt
<1>10. QED
  BY <1>4, <1>9 DEF Sounds

LoopSteps(c, g) ==
    /\ g[0] = LoopStart
    /\ \A k \in 1 .. 2 * Len(c.text) + 2 : g[k] = TurnOf(c, g[k - 1])

LEMMA LoopRun ==
    ASSUME NEW c, Replacing(c), NEW f, PassSteps(c, f)
    PROVE  \E g : /\ LoopSteps(c, g)
                  /\ Replaced(Trie(c.olds), c.olds, c.news, c.mode, c.text)
                         = g[2 * Len(c.text) + 2].out
                           \o Copied(c.text, g[2 * Len(c.text) + 2].last, Len(c.text))
<1> DEFINE K == 2 * Len(c.text) + 2
           T == Sounds(c, f)
           G == [k \in 1 .. K |-> [s \in T |-> TurnOf(c, s)]]
           Run(g) == g = [k \in 0 .. K |-> IF k = 0 THEN LoopStart ELSE TurnOf(c, g[k - 1])]
<1>1. K \in Nat /\ LoopStart \in T
  BY StartSound DEF Replacing
<1>2. \A s \in T : TurnOf(c, s) \in T
  <2> SUFFICES ASSUME NEW s \in T PROVE TurnOf(c, s) \in T
    OBVIOUS
  <2>1. s \in Looped(c) /\ SoundAt(c, f, s)
    BY DEF Sounds
  <2>2. TurnsWell(c, f, s)
    BY <2>1, TurnsAllWell
  <2>3. QED
    BY <2>2 DEF TurnsWell, Sounds
<1>3. ASSUME NEW g \in [0 .. K -> T], Iterates(g, LoopStart, G, K)
      PROVE  Run(g)
  <2>1. \A k \in 0 .. K : g[k] = IF k = 0 THEN LoopStart ELSE G[k][g[k - 1]]
    <3> HIDE DEF G, K
    <3>1. QED
      BY <1>3 DEF Iterates
  <2>2. \A k \in 1 .. K : g[k - 1] \in T
    BY <1>1
  <2>3. \A k \in 1 .. K : \A s \in T : G[k][s] = TurnOf(c, s)
    OBVIOUS
  <2>4. g = [k \in 0 .. K |-> g[k]]
    OBVIOUS
  <2>5. \A k \in 0 .. K : g[k] = IF k = 0 THEN LoopStart ELSE TurnOf(c, g[k - 1])
    <3> HIDE DEF G, K, T
    <3>1. QED
      BY <1>1, <2>1, <2>2, <2>3
  <2> HIDE DEF K
  <2>6. QED
    BY <2>4, <2>5
<1>4. \E g : Run(g)
  <2>1. G \in [1 .. K -> [T -> T]]
    BY <1>2
  <2> HIDE DEF G, T, K, Run
  <2>2. QED
    BY <1>1, <1>3, <2>1, IterationExists
<1> DEFINE h == CHOOSE g : Run(g)
<1>5. Run(h)
  <2> HIDE DEF Run
  <2>1. QED
    BY <1>4
<1>6. Replaced(Trie(c.olds), c.olds, c.news, c.mode, c.text)
          = h[K].out \o Copied(c.text, h[K].last, Len(c.text))
  BY DEF Replaced, TurnOf, LoopStart
<1> HIDE DEF h
<1>7. \A k \in 0 .. K : h[k] = IF k = 0 THEN LoopStart ELSE TurnOf(c, h[k - 1])
  <2> HIDE DEF K
  <2>1. h = [k \in 0 .. K |-> IF k = 0 THEN LoopStart ELSE TurnOf(c, h[k - 1])]
    BY <1>5
  <2>2. QED
    BY <2>1
<1>8. h[0] = LoopStart /\ \A k \in 1 .. K : h[k] = TurnOf(c, h[k - 1])
  <2>1. 0 \in 0 .. K /\ \A k \in 1 .. K : k \in 0 .. K /\ k # 0
    BY <1>1
  <2> HIDE DEF K
  <2>2. QED
    BY <1>7, <2>1
<1>9. QED
  BY <1>6, <1>8 DEF LoopSteps

(* The loop leaves the text after at most two turns at each of its places, *)
(* and what it has put out by then is what the pass makes of the text.     *)
LEMMA ReplacedInOnePass ==
    ASSUME NEW c, Replacing(c)
    PROVE  InOnePass(c.olds, c.news, c.mode, c.text)
<1> DEFINE L == Len(c.text)
           K == 2 * L + 2
<1>1. PICK f : PassSteps(c, f) /\ Pass(c.olds, c.news, c.mode, c.text) = f[L]
  BY PassRun
<1>2. PICK g : /\ LoopSteps(c, g)
               /\ Replaced(Trie(c.olds), c.olds, c.news, c.mode, c.text)
                      = g[K].out \o Copied(c.text, g[K].last, L)
  BY <1>1, LoopRun
<1> DEFINE Within(k) == {s \in Sounds(c, f) : s.i <= L => TurnsLeft(c, s) <= K - k}
           S == [k \in 0 .. K |-> Within(k)]
<1>3. L \in Nat /\ K \in Nat
  BY DEF Replacing
<1>4. g[0] \in Within(0)
  <2>1. g[0] = LoopStart /\ LoopStart \in Sounds(c, f)
    BY <1>1, <1>2, StartSound DEF LoopSteps
  <2>2. TurnsLeft(c, LoopStart) <= 2 * (L + 1 - 0)
    <3>1. LoopStart \in Looped(c) /\ LoopStart.i = 0
      BY <2>1 DEF Sounds, LoopStart
    <3>2. TurnsLeft(c, LoopStart) <= 2 * (Len(c.text) + 1 - LoopStart.i)
      BY <3>1, LeftAtLeast
    <3>3. QED
      BY <3>1, <3>2
  <2>3. 2 * (L + 1 - 0) = K - 0
    BY <1>3
  <2>4. QED
    BY <2>1, <2>2, <2>3
<1>5. ASSUME NEW k \in 1 .. K, g[k - 1] \in Within(k - 1) PROVE g[k] \in Within(k)
  <2> DEFINE s == g[k - 1]
             y == TurnOf(c, s)
  <2>1. g[k] = y
    <3>1. \A m \in 1 .. 2 * Len(c.text) + 2 : g[m] = TurnOf(c, g[m - 1])
      BY <1>2 DEF LoopSteps
    <3>2. QED
      BY <3>1
  <2>2. s \in Looped(c) /\ SoundAt(c, f, s) /\ (s.i <= L => TurnsLeft(c, s) <= K - (k - 1))
    BY <1>5 DEF Sounds
  <2>3. TurnsWell(c, f, s)
    BY <1>1, <2>2, TurnsAllWell
  <2>4. y \in Looped(c) /\ SoundAt(c, f, y) /\ (s.i <= L => TurnsLeft(c, y) < TurnsLeft(c, s))
    BY <2>3 DEF TurnsWell
  <2>5. ASSUME y.i <= L PROVE s.i <= L
    <3>1. ASSUME ~(s.i <= L) PROVE FALSE
      <4>1. s.i > L
        BY <1>3, <2>2, <3>1 DEF Looped
      <4>2. y = s
        BY <4>1 DEF TurnOf, Turn
      <4>3. QED
        BY <2>5, <3>1, <4>2
    <3>2. QED
      BY <3>1
  <2>6. ASSUME y.i <= L PROVE TurnsLeft(c, y) <= K - k
    <3>1. TurnsLeft(c, y) < TurnsLeft(c, s) /\ TurnsLeft(c, s) <= K - (k - 1)
      BY <2>2, <2>4, <2>5, <2>6
    <3>2. TurnsLeft(c, y) \in Int /\ TurnsLeft(c, s) \in Int
      BY <2>2, <2>4, LeftAtLeast
    <3> HIDE DEF y, s, K
    <3>3. QED
      BY <1>3, <3>1, <3>2
  <2>7. QED
    BY <2>1, <2>4, <2>6 DEF Sounds
<1>6. g[K] \in Within(K)
  <2>1. g[0] \in S[0] /\ \A k \in 1 .. K : g[k - 1] \in S[k - 1] => g[k] \in S[k]
    <3>1. 0 \in 0 .. K /\ \A k \in 1 .. K : k \in 0 .. K /\ k - 1 \in 0 .. K
      BY <1>3
    <3> HIDE DEF K, L, Within
    <3>2. QED
      BY <1>4, <1>5, <3>1
  <2> HIDE DEF S, K, L, Within
  <2>2. \A k \in 0 .. K : g[k] \in S[k]
    BY <1>3, <2>1, KeptAlong
  <2>3. K \in 0 .. K
    BY <1>3
  <2>4. QED
    BY <2>2, <2>3 DEF S
<1> DEFINE e == g[K]
<1>7. e \in Looped(c) /\ SoundAt(c, f, e) /\ (e.i <= L => TurnsLeft(c, e) <= K - K)
  BY <1>6 DEF Sounds
<1>8. e.i = L + 1
  <2>1. e.i \in 0 .. L + 1
    BY <1>7 DEF Looped
  <2>2. TurnsLeft(c, e) >= 2 * (L + 1 - e.i) - 1 /\ TurnsLeft(c, e) \in Int
    BY <1>7, LeftAtLeast
  <2> HIDE DEF e, L
  <2>3. QED
    BY <1>3, <1>7, <2>1, <2>2
<1>9. f[L] = e.out \o Copied(c.text, e.last, L)
  BY <1>7, <1>8 DEF SoundAt
<1>10. QED
  BY <1>1, <1>2, <1>9 DEF InOnePass

-----------------------------------------------------------------------------
(* Validation: schemas and values by their height *)

(* What holds of a function by height, at each height.                      *)
ValuesOf(f, i) == IF i = 0 THEN Scalars ELSE Scalars \cup Tables(f[i - 1])
ValuesBy(f, n) == f = [i \in 0 .. n |-> ValuesOf(f, i)]

LEMMA ValuesExists ==
    ASSUME NEW n \in Nat
    PROVE  \E f : ValuesBy(f, n)
<1> DEFINE N == {m \in Nat : \E f : ValuesBy(f, m)}
<1>1. 0 \in N
  <2> DEFINE f == [i \in 0 .. 0 |-> Scalars]
  <2>1. ValuesBy(f, 0)
    BY DEF ValuesBy, ValuesOf
  <2>2. QED
    BY <2>1
<1>2. ASSUME NEW m \in Nat, m \in N
      PROVE  m + 1 \in N
  <2>1. PICK f : ValuesBy(f, m)
    BY <1>2
  <2> DEFINE g == [i \in 0 .. m + 1 |-> IF i <= m THEN f[i] ELSE ValuesOf(f, i)]
  <2>2. \A i \in 0 .. m : g[i] = f[i]
    OBVIOUS
  <2>3. ASSUME NEW i \in 0 .. m + 1
        PROVE  g[i] = ValuesOf(f, i)
    <3>1. CASE i <= m
      <4>1. i \in 0 .. m
        BY <3>1
      <4> HIDE DEF g
      <4>2. QED
        BY <2>1, <2>2, <4>1 DEF ValuesBy
    <3>2. CASE i = m + 1
      BY <3>2
    <3>3. QED
      BY <3>1, <3>2
  <2>4. g = [i \in 0 .. m + 1 |-> g[i]]
    OBVIOUS
  <2> HIDE DEF g
  <2>5. ASSUME NEW i \in 0 .. m + 1
        PROVE  ValuesOf(f, i) = ValuesOf(g, i)
    <3>1. CASE i = 0
      BY <3>1 DEF ValuesOf
    <3>2. CASE i # 0
      <4>1. g[i - 1] = f[i - 1]
        BY <2>2, <3>2
      <4>2. QED
        BY <4>1 DEF ValuesOf
    <3>3. QED
      BY <3>1, <3>2
  <2>6. ValuesBy(g, m + 1)
    BY <2>3, <2>4, <2>5 DEF ValuesBy
  <2>7. QED
    BY <2>6
<1> HIDE DEF N
<1>3. n \in N
  BY <1>1, <1>2, Inductive
<1>4. QED
  BY <1>3 DEF N

LEMMA ValuesAre ==
    ASSUME NEW d \in 0 .. MAX_NEST
    PROVE  Values[d] = IF d = 0 THEN Scalars ELSE Scalars \cup Tables(Values[d - 1])
<1>1. \E f : ValuesBy(f, MAX_NEST)
  BY ValuesExists, LimitsAssumption
<1>2. ValuesBy(Values, MAX_NEST)
  BY <1>1 DEF Values, ValuesBy, ValuesOf
<1>3. QED
  BY <1>2 DEF ValuesBy, ValuesOf

BuiltOf(f, i) ==
    IF i = 0
    THEN {}
    ELSE Leaf \cup OptionalNode(f[i - 1]) \cup ListNode(f[i - 1]) \cup ObjectNode(f[i - 1])
BuiltBy(f, n) == f = [i \in 0 .. n |-> BuiltOf(f, i)]

LEMMA BuiltExists ==
    ASSUME NEW n \in Nat
    PROVE  \E f : BuiltBy(f, n)
<1> DEFINE N == {m \in Nat : \E f : BuiltBy(f, m)}
<1>1. 0 \in N
  <2> DEFINE f == [i \in 0 .. 0 |-> {}]
  <2>1. BuiltBy(f, 0)
    BY DEF BuiltBy, BuiltOf
  <2>2. QED
    BY <2>1
<1>2. ASSUME NEW m \in Nat, m \in N
      PROVE  m + 1 \in N
  <2>1. PICK f : BuiltBy(f, m)
    BY <1>2
  <2> DEFINE g == [i \in 0 .. m + 1 |-> IF i <= m THEN f[i] ELSE BuiltOf(f, i)]
  <2>2. \A i \in 0 .. m : g[i] = f[i]
    OBVIOUS
  <2>3. ASSUME NEW i \in 0 .. m + 1
        PROVE  g[i] = BuiltOf(f, i)
    <3>1. CASE i <= m
      <4>1. i \in 0 .. m
        BY <3>1
      <4> HIDE DEF g
      <4>2. QED
        BY <2>1, <2>2, <4>1 DEF BuiltBy
    <3>2. CASE i = m + 1
      BY <3>2
    <3>3. QED
      BY <3>1, <3>2
  <2>4. g = [i \in 0 .. m + 1 |-> g[i]]
    OBVIOUS
  <2> HIDE DEF g
  <2>5. ASSUME NEW i \in 0 .. m + 1
        PROVE  BuiltOf(f, i) = BuiltOf(g, i)
    <3>1. CASE i = 0
      BY <3>1 DEF BuiltOf
    <3>2. CASE i # 0
      <4>1. g[i - 1] = f[i - 1]
        BY <2>2, <3>2
      <4>2. QED
        BY <4>1 DEF BuiltOf
    <3>3. QED
      BY <3>1, <3>2
  <2>6. BuiltBy(g, m + 1)
    BY <2>3, <2>4, <2>5 DEF BuiltBy
  <2>7. QED
    BY <2>6
<1> HIDE DEF N
<1>3. n \in N
  BY <1>1, <1>2, Inductive
<1>4. QED
  BY <1>3 DEF N

LEMMA BuiltAre ==
    ASSUME NEW h \in 0 .. MAX_DEPTH
    PROVE  Built[h] = IF h = 0
                      THEN {}
                      ELSE Leaf \cup OptionalNode(Built[h - 1]) \cup ListNode(Built[h - 1])
                                \cup ObjectNode(Built[h - 1])
<1>1. \E f : BuiltBy(f, MAX_DEPTH)
  BY BuiltExists, LimitsAssumption
<1>2. BuiltBy(Built, MAX_DEPTH)
  BY <1>1 DEF Built, BuiltBy, BuiltOf
<1>3. QED
  BY <1>2 DEF BuiltBy, BuiltOf

CheckOf(f, i) == IF i = 0 THEN <<>> ELSE [x \in Call(i) |-> Checked(f[i - 1], x)]
CheckBy(f, n) == f = [i \in 0 .. n |-> CheckOf(f, i)]

LEMMA CheckExists ==
    ASSUME NEW n \in Nat
    PROVE  \E f : CheckBy(f, n)
<1> DEFINE N == {m \in Nat : \E f : CheckBy(f, m)}
<1>1. 0 \in N
  <2> DEFINE f == [i \in 0 .. 0 |-> <<>>]
  <2>1. CheckBy(f, 0)
    BY DEF CheckBy, CheckOf
  <2>2. QED
    BY <2>1
<1>2. ASSUME NEW m \in Nat, m \in N
      PROVE  m + 1 \in N
  <2>1. PICK f : CheckBy(f, m)
    BY <1>2
  <2> DEFINE g == [i \in 0 .. m + 1 |-> IF i <= m THEN f[i] ELSE CheckOf(f, i)]
  <2>2. \A i \in 0 .. m : g[i] = f[i]
    OBVIOUS
  <2>3. ASSUME NEW i \in 0 .. m + 1
        PROVE  g[i] = CheckOf(f, i)
    <3>1. CASE i <= m
      <4>1. i \in 0 .. m
        BY <3>1
      <4> HIDE DEF g
      <4>2. QED
        BY <2>1, <2>2, <4>1 DEF CheckBy
    <3>2. CASE i = m + 1
      BY <3>2
    <3>3. QED
      BY <3>1, <3>2
  <2>4. g = [i \in 0 .. m + 1 |-> g[i]]
    OBVIOUS
  <2> HIDE DEF g
  <2>5. ASSUME NEW i \in 0 .. m + 1
        PROVE  CheckOf(f, i) = CheckOf(g, i)
    <3>1. CASE i = 0
      BY <3>1 DEF CheckOf
    <3>2. CASE i # 0
      <4>1. g[i - 1] = f[i - 1]
        BY <2>2, <3>2
      <4>2. QED
        BY <4>1 DEF CheckOf
    <3>3. QED
      BY <3>1, <3>2
  <2>6. CheckBy(g, m + 1)
    BY <2>3, <2>4, <2>5 DEF CheckBy
  <2>7. QED
    BY <2>6
<1> HIDE DEF N
<1>3. n \in N
  BY <1>1, <1>2, Inductive
<1>4. QED
  BY <1>3 DEF N

LEMMA CheckIs ==
    ASSUME NEW h \in 1 .. MAX_DEPTH, NEW x \in Call(h)
    PROVE  check[h][x] = Checked(check[h - 1], x)
<1>1. \E f : CheckBy(f, MAX_DEPTH)
  BY CheckExists, LimitsAssumption
<1>2. CheckBy(check, MAX_DEPTH)
  BY <1>1 DEF check, CheckBy, CheckOf
<1>3. h \in 0 .. MAX_DEPTH /\ h # 0
  OBVIOUS
<1>4. check[h] = [y \in Call(h) |-> Checked(check[h - 1], y)]
  BY <1>2, <1>3 DEF CheckBy, CheckOf
<1>5. QED
  BY <1>4

Seen(h) == [node : Built[h], value : Value, path : Path]

FaultsAt(f, i) == IF i = 0 THEN <<>> ELSE [y \in Seen(i) |-> NodeFaults(f[i - 1], y.node, y.value, y.path)]
FaultsBy(f, n) == f = [i \in 0 .. n |-> FaultsAt(f, i)]

LEMMA FaultsExists ==
    ASSUME NEW n \in Nat
    PROVE  \E f : FaultsBy(f, n)
<1> DEFINE N == {m \in Nat : \E f : FaultsBy(f, m)}
<1>1. 0 \in N
  <2> DEFINE f == [i \in 0 .. 0 |-> <<>>]
  <2>1. FaultsBy(f, 0)
    BY DEF FaultsBy, FaultsAt
  <2>2. QED
    BY <2>1
<1>2. ASSUME NEW m \in Nat, m \in N
      PROVE  m + 1 \in N
  <2>1. PICK f : FaultsBy(f, m)
    BY <1>2
  <2> DEFINE g == [i \in 0 .. m + 1 |-> IF i <= m THEN f[i] ELSE FaultsAt(f, i)]
  <2>2. \A i \in 0 .. m : g[i] = f[i]
    OBVIOUS
  <2>3. ASSUME NEW i \in 0 .. m + 1
        PROVE  g[i] = FaultsAt(f, i)
    <3>1. CASE i <= m
      <4>1. i \in 0 .. m
        BY <3>1
      <4> HIDE DEF g
      <4>2. QED
        BY <2>1, <2>2, <4>1 DEF FaultsBy
    <3>2. CASE i = m + 1
      BY <3>2
    <3>3. QED
      BY <3>1, <3>2
  <2>4. g = [i \in 0 .. m + 1 |-> g[i]]
    OBVIOUS
  <2> HIDE DEF g
  <2>5. ASSUME NEW i \in 0 .. m + 1
        PROVE  FaultsAt(f, i) = FaultsAt(g, i)
    <3>1. CASE i = 0
      BY <3>1 DEF FaultsAt
    <3>2. CASE i # 0
      <4>1. g[i - 1] = f[i - 1]
        BY <2>2, <3>2
      <4>2. QED
        BY <4>1 DEF FaultsAt
    <3>3. QED
      BY <3>1, <3>2
  <2>6. FaultsBy(g, m + 1)
    BY <2>3, <2>4, <2>5 DEF FaultsBy
  <2>7. QED
    BY <2>6
<1> HIDE DEF N
<1>3. n \in N
  BY <1>1, <1>2, Inductive
<1>4. QED
  BY <1>3 DEF N

LEMMA FaultsAre ==
    ASSUME NEW h \in 1 .. MAX_DEPTH, NEW n \in Built[h], NEW v \in Value, NEW p \in Path
    PROVE  Faults[h][[node |-> n, value |-> v, path |-> p]] = NodeFaults(Faults[h - 1], n, v, p)
<1>1. \E f : FaultsBy(f, MAX_DEPTH)
  BY FaultsExists, LimitsAssumption
<1>2. FaultsBy(Faults, MAX_DEPTH)
  BY <1>1 DEF Faults, FaultsBy, FaultsAt, Seen
<1>3. h \in 0 .. MAX_DEPTH /\ h # 0
  OBVIOUS
<1>4. Faults[h] = [y \in Seen(h) |-> NodeFaults(Faults[h - 1], y.node, y.value, y.path)]
  BY <1>2, <1>3 DEF FaultsBy, FaultsAt
<1>5. [node |-> n, value |-> v, path |-> p] \in Seen(h)
  BY DEF Seen
<1>6. QED
  BY <1>4, <1>5

Held(h) == [node : Built[h], value : Value]

MeetsOf(f, i) == IF i = 0 THEN <<>> ELSE [y \in Held(i) |-> NodeMeets(f[i - 1], y.node, y.value)]
MeetsBy(f, n) == f = [i \in 0 .. n |-> MeetsOf(f, i)]

LEMMA MeetsExists ==
    ASSUME NEW n \in Nat
    PROVE  \E f : MeetsBy(f, n)
<1> DEFINE N == {m \in Nat : \E f : MeetsBy(f, m)}
<1>1. 0 \in N
  <2> DEFINE f == [i \in 0 .. 0 |-> <<>>]
  <2>1. MeetsBy(f, 0)
    BY DEF MeetsBy, MeetsOf
  <2>2. QED
    BY <2>1
<1>2. ASSUME NEW m \in Nat, m \in N
      PROVE  m + 1 \in N
  <2>1. PICK f : MeetsBy(f, m)
    BY <1>2
  <2> DEFINE g == [i \in 0 .. m + 1 |-> IF i <= m THEN f[i] ELSE MeetsOf(f, i)]
  <2>2. \A i \in 0 .. m : g[i] = f[i]
    OBVIOUS
  <2>3. ASSUME NEW i \in 0 .. m + 1
        PROVE  g[i] = MeetsOf(f, i)
    <3>1. CASE i <= m
      <4>1. i \in 0 .. m
        BY <3>1
      <4> HIDE DEF g
      <4>2. QED
        BY <2>1, <2>2, <4>1 DEF MeetsBy
    <3>2. CASE i = m + 1
      BY <3>2
    <3>3. QED
      BY <3>1, <3>2
  <2>4. g = [i \in 0 .. m + 1 |-> g[i]]
    OBVIOUS
  <2> HIDE DEF g
  <2>5. ASSUME NEW i \in 0 .. m + 1
        PROVE  MeetsOf(f, i) = MeetsOf(g, i)
    <3>1. CASE i = 0
      BY <3>1 DEF MeetsOf
    <3>2. CASE i # 0
      <4>1. g[i - 1] = f[i - 1]
        BY <2>2, <3>2
      <4>2. QED
        BY <4>1 DEF MeetsOf
    <3>3. QED
      BY <3>1, <3>2
  <2>6. MeetsBy(g, m + 1)
    BY <2>3, <2>4, <2>5 DEF MeetsBy
  <2>7. QED
    BY <2>6
<1> HIDE DEF N
<1>3. n \in N
  BY <1>1, <1>2, Inductive
<1>4. QED
  BY <1>3 DEF N

LEMMA MeetsIs ==
    ASSUME NEW h \in 1 .. MAX_DEPTH, NEW n \in Built[h], NEW v \in Value
    PROVE  Meets[h][[node |-> n, value |-> v]] = NodeMeets(Meets[h - 1], n, v)
<1>1. \E f : MeetsBy(f, MAX_DEPTH)
  BY MeetsExists, LimitsAssumption
<1>2. MeetsBy(Meets, MAX_DEPTH)
  BY <1>1 DEF Meets, MeetsBy, MeetsOf, Held
<1>3. h \in 0 .. MAX_DEPTH /\ h # 0
  OBVIOUS
<1>4. Meets[h] = [y \in Held(h) |-> NodeMeets(Meets[h - 1], y.node, y.value)]
  BY <1>2, <1>3 DEF MeetsBy, MeetsOf
<1>5. [node |-> n, value |-> v] \in Held(h)
  BY DEF Held
<1>6. QED
  BY <1>4, <1>5

(* The three loops, by their turns.                                         *)
TurnsOf(f, sub, x, parts, i) ==
    IF i = 0 THEN [cx |-> x.cx, outs |-> <<>>] ELSE Visit(sub, f[i - 1], x, parts[i])
TurnsBy(f, sub, x, parts, n) == f = [i \in 0 .. n |-> TurnsOf(f, sub, x, parts, i)]

LEMMA TurnsExists ==
    ASSUME NEW sub, NEW x, NEW parts, NEW n \in Nat
    PROVE  \E f : TurnsBy(f, sub, x, parts, n)
<1> DEFINE N == {m \in Nat : \E f : TurnsBy(f, sub, x, parts, m)}
<1>1. 0 \in N
  <2> DEFINE f == [i \in 0 .. 0 |-> [cx |-> x.cx, outs |-> <<>>]]
  <2>1. TurnsBy(f, sub, x, parts, 0)
    BY DEF TurnsBy, TurnsOf
  <2>2. QED
    BY <2>1
<1>2. ASSUME NEW m \in Nat, m \in N
      PROVE  m + 1 \in N
  <2>1. PICK f : TurnsBy(f, sub, x, parts, m)
    BY <1>2
  <2> DEFINE g == [i \in 0 .. m + 1 |-> IF i <= m THEN f[i] ELSE TurnsOf(f, sub, x, parts, i)]
  <2>2. \A i \in 0 .. m : g[i] = f[i]
    OBVIOUS
  <2>3. ASSUME NEW i \in 0 .. m + 1
        PROVE  g[i] = TurnsOf(f, sub, x, parts, i)
    <3>1. CASE i <= m
      <4>1. i \in 0 .. m
        BY <3>1
      <4> HIDE DEF g
      <4>2. QED
        BY <2>1, <2>2, <4>1 DEF TurnsBy
    <3>2. CASE i = m + 1
      BY <3>2
    <3>3. QED
      BY <3>1, <3>2
  <2>4. g = [i \in 0 .. m + 1 |-> g[i]]
    OBVIOUS
  <2> HIDE DEF g
  <2>5. ASSUME NEW i \in 0 .. m + 1
        PROVE  TurnsOf(f, sub, x, parts, i) = TurnsOf(g, sub, x, parts, i)
    <3>1. CASE i = 0
      BY <3>1 DEF TurnsOf
    <3>2. CASE i # 0
      <4>1. g[i - 1] = f[i - 1]
        BY <2>2, <3>2
      <4>2. QED
        BY <4>1 DEF TurnsOf
    <3>3. QED
      BY <3>1, <3>2
  <2>6. TurnsBy(g, sub, x, parts, m + 1)
    BY <2>3, <2>4, <2>5 DEF TurnsBy
  <2>7. QED
    BY <2>6
<1> HIDE DEF N
<1>3. n \in N
  BY <1>1, <1>2, Inductive
<1>4. QED
  BY <1>3 DEF N

LEMMA EachTurns ==
    ASSUME NEW sub, NEW x, NEW parts, Len(parts) \in Nat
    PROVE  \E f : TurnsBy(f, sub, x, parts, Len(parts)) /\ Each(sub, x, parts) = f[Len(parts)]
<1> DEFINE f == CHOOSE g : TurnsBy(g, sub, x, parts, Len(parts))
<1>1. TurnsBy(f, sub, x, parts, Len(parts))
  BY TurnsExists
<1>2. Each(sub, x, parts) = f[Len(parts)]
  BY DEF Each, TurnsBy, TurnsOf
<1>3. QED
  BY <1>1, <1>2

RejectOf(f, cx, path, keys, i) == IF i = 0 THEN cx ELSE FailNext(f[i - 1], Append(path, keys[i]))
RejectBy(f, cx, path, keys, n) == f = [i \in 0 .. n |-> RejectOf(f, cx, path, keys, i)]

LEMMA RejectExists ==
    ASSUME NEW cx, NEW path, NEW keys, NEW n \in Nat
    PROVE  \E f : RejectBy(f, cx, path, keys, n)
<1> DEFINE N == {m \in Nat : \E f : RejectBy(f, cx, path, keys, m)}
<1>1. 0 \in N
  <2> DEFINE f == [i \in 0 .. 0 |-> cx]
  <2>1. RejectBy(f, cx, path, keys, 0)
    BY DEF RejectBy, RejectOf
  <2>2. QED
    BY <2>1
<1>2. ASSUME NEW m \in Nat, m \in N
      PROVE  m + 1 \in N
  <2>1. PICK f : RejectBy(f, cx, path, keys, m)
    BY <1>2
  <2> DEFINE g == [i \in 0 .. m + 1 |-> IF i <= m THEN f[i] ELSE RejectOf(f, cx, path, keys, i)]
  <2>2. \A i \in 0 .. m : g[i] = f[i]
    OBVIOUS
  <2>3. ASSUME NEW i \in 0 .. m + 1
        PROVE  g[i] = RejectOf(f, cx, path, keys, i)
    <3>1. CASE i <= m
      <4>1. i \in 0 .. m
        BY <3>1
      <4> HIDE DEF g
      <4>2. QED
        BY <2>1, <2>2, <4>1 DEF RejectBy
    <3>2. CASE i = m + 1
      BY <3>2
    <3>3. QED
      BY <3>1, <3>2
  <2>4. g = [i \in 0 .. m + 1 |-> g[i]]
    OBVIOUS
  <2> HIDE DEF g
  <2>5. ASSUME NEW i \in 0 .. m + 1
        PROVE  RejectOf(f, cx, path, keys, i) = RejectOf(g, cx, path, keys, i)
    <3>1. CASE i = 0
      BY <3>1 DEF RejectOf
    <3>2. CASE i # 0
      <4>1. g[i - 1] = f[i - 1]
        BY <2>2, <3>2
      <4>2. QED
        BY <4>1 DEF RejectOf
    <3>3. QED
      BY <3>1, <3>2
  <2>6. RejectBy(g, cx, path, keys, m + 1)
    BY <2>3, <2>4, <2>5 DEF RejectBy
  <2>7. QED
    BY <2>6
<1> HIDE DEF N
<1>3. n \in N
  BY <1>1, <1>2, Inductive
<1>4. QED
  BY <1>3 DEF N

LEMMA RejectTurns ==
    ASSUME NEW cx, NEW path, NEW keys, Len(keys) \in Nat
    PROVE  \E f : RejectBy(f, cx, path, keys, Len(keys)) /\ reject_unknown_keys(cx, path, keys) = f[Len(keys)]
<1> DEFINE f == CHOOSE g : RejectBy(g, cx, path, keys, Len(keys))
<1>1. RejectBy(f, cx, path, keys, Len(keys))
  BY RejectExists
<1>2. reject_unknown_keys(cx, path, keys) = f[Len(keys)]
  BY DEF reject_unknown_keys, RejectBy, RejectOf
<1>3. QED
  BY <1>1, <1>2

PartFaults(sub, part, path) ==
    sub[[node |-> part.node, value |-> part.value, path |-> Append(path, part.step)]]
ToldOf(f, sub, parts, path, i) == IF i = 0 THEN <<>> ELSE f[i - 1] \o PartFaults(sub, parts[i], path)
ToldBy(f, sub, parts, path, n) == f = [i \in 0 .. n |-> ToldOf(f, sub, parts, path, i)]

LEMMA ToldExists ==
    ASSUME NEW sub, NEW parts, NEW path, NEW n \in Nat
    PROVE  \E f : ToldBy(f, sub, parts, path, n)
<1> DEFINE N == {m \in Nat : \E f : ToldBy(f, sub, parts, path, m)}
<1>1. 0 \in N
  <2> DEFINE f == [i \in 0 .. 0 |-> <<>>]
  <2>1. ToldBy(f, sub, parts, path, 0)
    BY DEF ToldBy, ToldOf
  <2>2. QED
    BY <2>1
<1>2. ASSUME NEW m \in Nat, m \in N
      PROVE  m + 1 \in N
  <2>1. PICK f : ToldBy(f, sub, parts, path, m)
    BY <1>2
  <2> DEFINE g == [i \in 0 .. m + 1 |-> IF i <= m THEN f[i] ELSE ToldOf(f, sub, parts, path, i)]
  <2>2. \A i \in 0 .. m : g[i] = f[i]
    OBVIOUS
  <2>3. ASSUME NEW i \in 0 .. m + 1
        PROVE  g[i] = ToldOf(f, sub, parts, path, i)
    <3>1. CASE i <= m
      <4>1. i \in 0 .. m
        BY <3>1
      <4> HIDE DEF g
      <4>2. QED
        BY <2>1, <2>2, <4>1 DEF ToldBy
    <3>2. CASE i = m + 1
      BY <3>2
    <3>3. QED
      BY <3>1, <3>2
  <2>4. g = [i \in 0 .. m + 1 |-> g[i]]
    OBVIOUS
  <2> HIDE DEF g
  <2>5. ASSUME NEW i \in 0 .. m + 1
        PROVE  ToldOf(f, sub, parts, path, i) = ToldOf(g, sub, parts, path, i)
    <3>1. CASE i = 0
      BY <3>1 DEF ToldOf
    <3>2. CASE i # 0
      <4>1. g[i - 1] = f[i - 1]
        BY <2>2, <3>2
      <4>2. QED
        BY <4>1 DEF ToldOf
    <3>3. QED
      BY <3>1, <3>2
  <2>6. ToldBy(g, sub, parts, path, m + 1)
    BY <2>3, <2>4, <2>5 DEF ToldBy
  <2>7. QED
    BY <2>6
<1> HIDE DEF N
<1>3. n \in N
  BY <1>1, <1>2, Inductive
<1>4. QED
  BY <1>3 DEF N

LEMMA FaultsOfTold ==
    ASSUME NEW sub, NEW parts, NEW path, Len(parts) \in Nat
    PROVE  \E f : ToldBy(f, sub, parts, path, Len(parts)) /\ FaultsOf(sub, parts, path) = f[Len(parts)]
<1> DEFINE f == CHOOSE g : ToldBy(g, sub, parts, path, Len(parts))
<1>1. ToldBy(f, sub, parts, path, Len(parts))
  BY ToldExists
<1>2. FaultsOf(sub, parts, path) = f[Len(parts)]
  BY DEF FaultsOf, ToldBy, ToldOf, PartFaults
<1>3. QED
  BY <1>1, <1>2

-----------------------------------------------------------------------------
(* Validation: the context after the issues so far *)

(* The context once all the faults of all were failed, in their order.      *)
Kept(all) == IF Len(all) > MAX_ISSUES THEN MAX_ISSUES ELSE Len(all)
Reach(all) == [issues |-> SubSeq(all, 1, Kept(all)), truncated |-> Len(all) > MAX_ISSUES]

LEMMA ReachIs ==
    ASSUME NEW all \in Seq(Path)
    PROVE  /\ Reach(all) \in Context
           /\ Len(Reach(all).issues) = Kept(all) /\ Kept(all) \in Nat
           /\ Reach(all).truncated = (Len(all) > MAX_ISSUES)
           /\ Len(all) <= MAX_ISSUES => Reach(all) = [issues |-> all, truncated |-> FALSE]
<1>1. Len(all) \in Nat /\ MAX_ISSUES \in Nat
  BY LimitsAssumption
<1>2. Kept(all) \in 0 .. Len(all) /\ Kept(all) \in Int /\ 1 \in Int
  BY <1>1 DEF Kept
<1>3. \A i \in 1 .. Kept(all) : all[i] \in Path
  BY <1>1, <1>2
<1>4. /\ SubSeq(all, 1, Kept(all)) \in Seq(Path)
      /\ Len(SubSeq(all, 1, Kept(all))) = IF 1 <= Kept(all) THEN Kept(all) - 1 + 1 ELSE 0
  BY <1>2, <1>3, SubSeqProperties
<1>5. Len(SubSeq(all, 1, Kept(all))) = Kept(all)
  BY <1>2, <1>4
<1>6. ASSUME Len(all) <= MAX_ISSUES
      PROVE  SubSeq(all, 1, Kept(all)) = all
  <2>1. Kept(all) = Len(all)
    BY <1>1, <1>6 DEF Kept
  <2>2. QED
    BY <2>1, SubSeqFull
<1>7. ASSUME Len(all) <= MAX_ISSUES
      PROVE  (Len(all) > MAX_ISSUES) = FALSE
  BY <1>1, <1>7
<1>8. Len(all) <= MAX_ISSUES => Reach(all) = [issues |-> all, truncated |-> FALSE]
  BY <1>6, <1>7, Zenon DEF Reach
<1>9. QED
  BY <1>1, <1>2, <1>4, <1>5, <1>8 DEF Reach, Context

LEMMA ReachStart == Reach(<<>>) = Start
<1>1. <<>> \in Seq(Path) /\ Len(<<>>) = 0
  OBVIOUS
<1>2. Len(<<>>) <= MAX_ISSUES
  BY <1>1, LimitsAssumption
<1>3. QED
  BY <1>1, <1>2, ReachIs DEF Start

(* One more fault is one more call of fail.                                 *)
LEMMA ReachFail ==
    ASSUME NEW all \in Seq(Path), NEW p \in Path
    PROVE  /\ fail(Reach(all), p) = Reach(Append(all, p))
           /\ Append(all, p) \in Seq(Path) /\ Append(all, p) = all \o <<p>>
<1>1. Len(all) \in Nat /\ MAX_ISSUES \in Nat
  BY LimitsAssumption
<1>2. /\ Append(all, p) \in Seq(Path) /\ Len(Append(all, p)) = Len(all) + 1
      /\ \A i \in 1 .. Len(all) : Append(all, p)[i] = all[i]
  BY AppendProperties
<1>4. CASE Len(all) < MAX_ISSUES
  <2>1. /\ Len(all) <= MAX_ISSUES /\ Kept(all) = Len(all) /\ ~(Len(all) > MAX_ISSUES)
        /\ Len(Append(all, p)) <= MAX_ISSUES /\ ~(Len(Append(all, p)) > MAX_ISSUES)
    BY <1>1, <1>2, <1>4 DEF Kept
  <2>2. /\ Reach(all) = [issues |-> all, truncated |-> FALSE]
        /\ Reach(Append(all, p)) = [issues |-> Append(all, p), truncated |-> FALSE]
    BY <1>2, <2>1, ReachIs
  <2>3. ~(Len(Reach(all).issues) >= MAX_ISSUES)
    BY <1>1, <1>4, <2>2
  <2>4. fail(Reach(all), p) = [Reach(all) EXCEPT !.issues = Append(Reach(all).issues, p)]
    BY <2>3 DEF fail
  <2> DEFINE q == Append(all, p)
  <2>5. fail(Reach(all), p) = [Reach(all) EXCEPT !.issues = q]
    BY <2>2, <2>4
  <2> HIDE DEF q
  <2> DEFINE no == FALSE
  <2>6. fail(Reach(all), p) = [issues |-> q, truncated |-> no]
    <3>1. Reach(all) = [issues |-> all, truncated |-> no]
      BY <2>2
    <3> HIDE DEF no
    <3>2. QED
      BY <2>5, <3>1
  <2>7. fail(Reach(all), p) = [issues |-> Append(all, p), truncated |-> FALSE]
    BY <2>6 DEF q
  <2>8. QED
    BY <1>2, <2>2, <2>7, AppendIsConcat
<1>5. CASE ~(Len(all) < MAX_ISSUES)
  <2>1. Kept(all) = MAX_ISSUES /\ Kept(Append(all, p)) = MAX_ISSUES /\ Len(Append(all, p)) > MAX_ISSUES
    BY <1>1, <1>2, <1>5 DEF Kept
  <2>2. Len(Reach(all).issues) = MAX_ISSUES
    BY <2>1, ReachIs
  <2>3. fail(Reach(all), p) = [Reach(all) EXCEPT !.truncated = TRUE]
    BY <1>1, <2>2 DEF fail
  <2>4. SubSeq(Append(all, p), 1, MAX_ISSUES) = SubSeq(all, 1, MAX_ISSUES)
    BY <1>1, <1>2, <1>5
  <2>5. QED
    BY <1>2, <2>1, <2>3, <2>4, AppendIsConcat DEF Reach
<1>6. QED
  BY <1>4, <1>5

LEMMA ReachFull ==
    ASSUME NEW all \in Seq(Path), NEW more \in Seq(Path), Len(all) > MAX_ISSUES
    PROVE  Reach(all \o more) = Reach(all)
<1>1. Len(all) \in Nat /\ Len(more) \in Nat /\ MAX_ISSUES \in Nat
  BY LimitsAssumption
<1>2. /\ all \o more \in Seq(Path) /\ Len(all \o more) = Len(all) + Len(more)
      /\ \A i \in 1 .. Len(all) + Len(more) : (all \o more)[i] = IF i <= Len(all) THEN all[i] ELSE more[i - Len(all)]
  BY ConcatProperties
<1> DEFINE both == all \o more
<1> HIDE DEF both
<1>3. /\ Len(both) = Len(all) + Len(more)
      /\ \A i \in 1 .. MAX_ISSUES : both[i] = all[i]
  BY <1>1, <1>2 DEF both
<1>4. Len(both) > MAX_ISSUES
  BY <1>1, <1>3
<1>5. Kept(all) = MAX_ISSUES /\ Kept(both) = MAX_ISSUES
  BY <1>4 DEF Kept
<1>6. SubSeq(both, 1, MAX_ISSUES) = SubSeq(all, 1, MAX_ISSUES)
  BY <1>1, <1>3
<1>7. Reach(both) = Reach(all)
  BY <1>4, <1>5, <1>6 DEF Reach
<1>8. QED
  BY <1>7 DEF both

(* While there is room, a context is clean when nothing more was failed.    *)
LEMMA ReachClean ==
    ASSUME NEW all \in Seq(Path), NEW more \in Seq(Path), Len(all) <= MAX_ISSUES
    PROVE  Clean(Reach(all \o more), Reach(all)) <=> more = <<>>
<1>1. Len(all) \in Nat /\ Len(more) \in Nat /\ MAX_ISSUES \in Nat
  BY LimitsAssumption
<1>2. all \o more \in Seq(Path) /\ Len(all \o more) = Len(all) + Len(more)
  BY ConcatProperties
<1>3. (more = <<>>) <=> Len(more) = 0
  BY EmptySeq
<1>4. /\ Len(Reach(all).issues) = Kept(all)
      /\ Len(Reach(all \o more).issues) = Kept(all \o more)
      /\ Reach(all \o more).truncated = (Len(all \o more) > MAX_ISSUES)
  BY <1>2, ReachIs
<1>5. Clean(Reach(all \o more), Reach(all)) <=> Kept(all \o more) = Kept(all) /\ ~(Len(all \o more) > MAX_ISSUES)
  BY <1>4 DEF Clean
<1>6. Kept(all) = Len(all)
  BY <1>1 DEF Kept
<1> DEFINE l == Len(all \o more)
<1>7. Kept(all \o more) = IF l > MAX_ISSUES THEN MAX_ISSUES ELSE l
  BY DEF Kept
<1> HIDE DEF l
<1>8. l = Len(all) + Len(more)
  BY <1>2 DEF l
<1>9. (Kept(all \o more) = Kept(all) /\ ~(l > MAX_ISSUES)) <=> Len(more) = 0
  BY <1>1, <1>6, <1>7, <1>8
<1>10. QED
  BY <1>3, <1>5, <1>9 DEF l

-----------------------------------------------------------------------------
(* A check, given the context of all the faults so far, leaves that of all  *)
(* and the faults it finds, and has a result when it finds none.            *)
Outcome(r, all, faults) ==
    /\ faults \in Seq(Path)
    /\ r.cx = Reach(all \o faults)
    /\ (r.out = Bad) <=> (faults # <<>>)

LEMMA PassingOutcome ==
    ASSUME NEW all \in Seq(Path), NEW v, v # Bad
    PROVE  Outcome(Passing(Reach(all), v), all, <<>>)
  BY ConcatEmptySeq DEF Outcome, Passing

LEMMA FailingOutcome ==
    ASSUME NEW all \in Seq(Path), NEW p \in Path
    PROVE  Outcome(Failing(Reach(all), p), all, <<p>>)
<1>1. <<p>> \in Seq(Path) /\ <<p>> # <<>>
  OBVIOUS
<1>2. QED
  BY <1>1, ReachFail DEF Outcome, Failing

-----------------------------------------------------------------------------
(* Validation: values *)

LEMMA TablesGrow ==
    ASSUME NEW S, NEW T, S \subseteq T
    PROVE  Tables(S) \subseteq Tables(T)
<1> SUFFICES ASSUME NEW v \in Tables(S)
             PROVE  v \in Tables(T)
  OBVIOUS
<1>1. v.seq \in Seq(S \ {NilV}) /\ S \ {NilV} \subseteq T \ {NilV}
  BY DEF Tables
<1>2. v.seq \in Seq(T \ {NilV})
  BY <1>1, SeqMonotonic
<1>3. QED
  BY <1>2 DEF Tables

LEMMA ScalarsIn ==
    ASSUME NEW d \in 0 .. MAX_NEST
    PROVE  Scalars \subseteq Values[d]
  BY ValuesAre

LEMMA ValuesGrow ==
    ASSUME NEW d \in 0 .. MAX_NEST
    PROVE  Values[d] \subseteq Value
<1> DEFINE N == {m \in Nat : m + 1 <= MAX_NEST => Values[m] \subseteq Values[m + 1]}
           M == {m \in Nat : d + m <= MAX_NEST => Values[d] \subseteq Values[d + m]}
<1>1. MAX_NEST \in Nat
  BY LimitsAssumption
<1>2. 0 \in N
  <2> SUFFICES ASSUME 1 <= MAX_NEST PROVE Values[0] \subseteq Values[1]
    OBVIOUS
  <2>1. 0 \in 0 .. MAX_NEST /\ 1 \in 0 .. MAX_NEST
    BY <1>1
  <2>2. Values[0] = Scalars
    BY <2>1, ValuesAre
  <2>3. Scalars \subseteq Values[1]
    BY <2>1, ScalarsIn
  <2>4. QED
    BY <2>2, <2>3
<1>3. ASSUME NEW m \in Nat, m \in N
      PROVE  m + 1 \in N
  <2> SUFFICES ASSUME (m + 1) + 1 <= MAX_NEST
               PROVE  Values[m + 1] \subseteq Values[(m + 1) + 1]
    OBVIOUS
  <2>1. Values[m] \subseteq Values[m + 1]
    BY <1>1, <1>3
  <2>2. m + 1 \in 0 .. MAX_NEST /\ m + 1 # 0 /\ (m + 1) - 1 = m
    BY <1>1
  <2>3. Values[m + 1] = Scalars \cup Tables(Values[m])
    BY <2>2, ValuesAre
  <2>4. (m + 1) + 1 \in 0 .. MAX_NEST /\ (m + 1) + 1 # 0 /\ ((m + 1) + 1) - 1 = m + 1
    BY <1>1
  <2>5. Values[(m + 1) + 1] = Scalars \cup Tables(Values[m + 1])
    BY <2>4, ValuesAre
  <2>6. Tables(Values[m]) \subseteq Tables(Values[m + 1])
    BY <2>1, TablesGrow
  <2>7. QED
    BY <2>3, <2>5, <2>6
<1> HIDE DEF N
<1>4. \A m \in Nat : m \in N
  BY <1>2, <1>3, Inductive
<1>5. 0 \in M
  OBVIOUS
<1>6. ASSUME NEW m \in Nat, m \in M
      PROVE  m + 1 \in M
  <2> SUFFICES ASSUME d + (m + 1) <= MAX_NEST
               PROVE  Values[d] \subseteq Values[d + (m + 1)]
    OBVIOUS
  <2>1. d + m \in Nat /\ d + (m + 1) = (d + m) + 1 /\ d + m <= MAX_NEST
    BY <1>1
  <2>2. Values[d + m] \subseteq Values[(d + m) + 1]
    BY <1>4, <2>1 DEF N
  <2>3. QED
    BY <1>6, <2>1, <2>2
<1> HIDE DEF M
<1>7. MAX_NEST - d \in M /\ d + (MAX_NEST - d) = MAX_NEST /\ MAX_NEST - d \in Nat
  <2>1. MAX_NEST - d \in Nat /\ d + (MAX_NEST - d) = MAX_NEST
    BY <1>1
  <2>2. QED
    BY <1>5, <1>6, <2>1, Inductive
<1>8. QED
  BY <1>1, <1>7 DEF M, Value

(* A value by its kind; one of depth d that is a table has parts of less.   *)
LEMMA ValueKinds ==
    ASSUME NEW v \in Value
    PROVE  /\ v # Bad
           /\ v.t = "str" => v \in Strings
           /\ v.t = "num" => v \in Numbers
           /\ v.t = "bool" => v \in Booleans
<1>1. MAX_NEST \in 0 .. MAX_NEST
  BY LimitsAssumption
<1>2. v \in Scalars \/ \E S : v \in Tables(S)
  BY <1>1, ValuesAre DEF Value
<1>3. CASE v \in Scalars
  BY <1>3 DEF Scalars, NilV, NullV, Unbounded, Numbers, Booleans, Strings, Bad
<1>4. CASE \E S : v \in Tables(S)
  BY <1>4 DEF Tables, Bad
<1>5. QED
  BY <1>2, <1>3, <1>4

LEMMA TableParts ==
    ASSUME NEW d \in 0 .. MAX_NEST, NEW v \in Values[d], v.t = "table"
    PROVE  /\ d # 0 /\ d - 1 \in 0 .. MAX_NEST
           /\ v.seq \in Seq(Values[d - 1] \ {NilV})
           /\ v.keys \in [Names -> Values[d - 1]]
<1>1. v \notin Scalars
  BY DEF Scalars, NilV, NullV, Unbounded, Numbers, Booleans, Strings
<1>2. d # 0 /\ v \in Tables(Values[d - 1])
  BY <1>1, ValuesAre
<1>3. d - 1 \in 0 .. MAX_NEST
  BY <1>2, LimitsAssumption
<1>4. QED
  BY <1>2, <1>3 DEF Tables

LEMMA TableMade ==
    ASSUME NEW d \in 0 .. MAX_NEST, d # 0,
           NEW seq \in Seq(Values[d - 1] \ {NilV}), NEW keys \in [Names -> Values[d - 1]]
    PROVE  Tab(seq, keys) \in Values[d]
<1>1. Tab(seq, keys) \in Tables(Values[d - 1])
  BY DEF Tab, Tables
<1>2. QED
  BY <1>1, ValuesAre

LEMMA NilIn ==
    ASSUME NEW d \in 0 .. MAX_NEST
    PROVE  NilV \in Values[d] /\ NoKeys \in [Names -> Values[d]] /\ NilV \in Scalars
  BY ScalarsIn DEF Scalars, NoKeys

LEMMA AbsentIn ==
    ASSUME NEW d \in 0 .. MAX_NEST, NEW v \in Values[d], NEW n
    PROVE  AbsentIfNull(n, v) \in Values[d]
  BY NilIn DEF AbsentIfNull

-----------------------------------------------------------------------------
(* Validation: the leaves *)

(* What a check of a leaf shows: its faults are told, and its result, if it *)
(* has one, is a scalar or the value itself and meets the node.             *)
LeafTold(r, x, all) ==
    /\ Outcome(r, all, LeafFaults(x.node, x.value, x.path))
    /\ r.out # Bad => r.out \in Scalars \cup {x.value} /\ \A sub : NodeMeets(sub, x.node, r.out)

LEMMA TimesOutcome ==
    ASSUME NEW all \in Seq(Path), NEW p \in Path, NEW w \in BOOLEAN
    PROVE  /\ Times(w, p) \in Seq(Path)
           /\ Times(w, p) = <<>> <=> ~w
           /\ FailIf(w, Reach(all), p) = Reach(all \o Times(w, p))
           /\ all \o Times(w, p) \in Seq(Path)
<1>1. CASE w = TRUE
  <2>1. Times(w, p) = <<p>> /\ FailIf(w, Reach(all), p) = fail(Reach(all), p)
    BY <1>1 DEF Times, FailIf
  <2>2. <<p>> \in Seq(Path) /\ <<p>> # <<>>
    OBVIOUS
  <2>3. fail(Reach(all), p) = Reach(Append(all, p)) /\ Append(all, p) \in Seq(Path) /\ Append(all, p) = all \o <<p>>
    BY ReachFail
  <2>4. QED
    BY <1>1, <2>1, <2>2, <2>3
<1>2. CASE w = FALSE
  <2>1. Times(w, p) = <<>> /\ FailIf(w, Reach(all), p) = Reach(all)
    BY <1>2 DEF Times, FailIf
  <2>2. <<>> \in Seq(Path) /\ all \o <<>> = all
    BY ConcatEmptySeq
  <2>3. QED
    BY <1>2, <2>1, <2>2
<1>3. QED
  BY <1>1, <1>2

(* A value that is not given: the default, or an issue.                     *)
LEMMA DefaultTold ==
    ASSUME NEW all \in Seq(Path), NEW x, x.cx = Reach(all), x.path \in Path,
           x.node.default # None => x.node.default # Bad
    PROVE  /\ Outcome(DefaultOrRequired(x), all, Times(x.node.default = None, x.path))
           /\ DefaultOrRequired(x).out # Bad =>
                x.node.default # None /\ DefaultOrRequired(x).out = x.node.default
<1>1. CASE x.node.default = None
  <2>1. DefaultOrRequired(x) = Failing(Reach(all), x.path) /\ Times(x.node.default = None, x.path) = <<x.path>>
    BY <1>1 DEF DefaultOrRequired, Times
  <2>2. Failing(Reach(all), x.path).out = Bad
    BY DEF Failing
  <2>3. QED
    BY <2>1, <2>2, FailingOutcome
<1>2. CASE x.node.default # None
  <2>1. /\ DefaultOrRequired(x) = Passing(Reach(all), x.node.default)
        /\ Times(x.node.default = None, x.path) = <<>>
    BY <1>2 DEF DefaultOrRequired, Times
  <2>2. Passing(Reach(all), x.node.default).out = x.node.default
    BY DEF Passing
  <2>3. QED
    BY <1>2, <2>1, <2>2, PassingOutcome
<1>3. QED
  BY <1>1, <1>2

LEMMA StrTold ==
    ASSUME NEW all \in Seq(Path), NEW x, x.cx = Reach(all), x.path \in Path,
           x.node \in StrNode, x.value \in Value
    PROVE  LeafTold(check_str(x), x, all)
<1> DEFINE n == x.node
           v == x.value
           p == x.path
           a == Times(TooShort(n, v), p)
           b == Times(TooLong(n, v), p)
           c == Times(Misformed(n, v), p)
<1>1. n.k = "str" /\ n.default \in Opt(Strings) /\ \A sub, y : NodeMeets(sub, n, y) <=> (y = n.default \/ StrMeets(n, y))
  BY DEF StrNode, NodeMeets
<1>2. \A s \in Strings : s # Bad /\ s \in Scalars /\ s.t = "str"
  BY DEF Strings, Scalars, Bad
<1>3. v # Bad /\ (v.t = "str" => v \in Strings) /\ NilV.t # "str"
  BY ValueKinds DEF NilV
<1>4. Absent(n, v) <=> v = NilV
  BY <1>1 DEF Absent
<1>5. CASE v = NilV
  <2>1. check_str(x) = DefaultOrRequired(x) /\ LeafFaults(n, v, p) = Times(n.default = None, p)
    BY <1>1, <1>4, <1>5 DEF check_str, LeafFaults
  <2>2. n.default # None => n.default \in Strings
    BY <1>1 DEF Opt
  <2>3. QED
    BY <1>1, <1>2, <2>1, <2>2, DefaultTold DEF LeafTold
<1>6. CASE v # NilV /\ v.t # "str"
  <2>1. check_str(x) = Failing(Reach(all), p) /\ LeafFaults(n, v, p) = <<p>>
    BY <1>1, <1>4, <1>6 DEF check_str, LeafFaults
  <2>2. Failing(Reach(all), p).out = Bad
    BY DEF Failing
  <2>3. QED
    BY <2>1, <2>2, FailingOutcome DEF LeafTold
<1>7. CASE v # NilV /\ v.t = "str"
  <2> DEFINE wrong == TooShort(n, v) \/ TooLong(n, v) \/ Misformed(n, v)
  <2>1. LeafFaults(n, v, p) = (a \o b) \o c
    BY <1>1, <1>4, <1>7 DEF LeafFaults
  <2>2. TooShort(n, v) \in BOOLEAN /\ TooLong(n, v) \in BOOLEAN /\ Misformed(n, v) \in BOOLEAN
    BY DEF TooShort, TooLong, Misformed
  <2>3. check_str(x) =
            [cx |-> FailIf(Misformed(n, v), FailIf(TooLong(n, v), FailIf(TooShort(n, v), Reach(all), p), p), p),
             out |-> IF wrong THEN Bad ELSE v]
    BY <1>7 DEF check_str
  <2>4. StrMeets(n, v) <=> ~wrong
    BY <1>7 DEF StrMeets
  <2>5. /\ FailIf(TooShort(n, v), Reach(all), p) = Reach(all \o a)
        /\ a \in Seq(Path) /\ (a = <<>> <=> ~TooShort(n, v)) /\ all \o a \in Seq(Path)
    BY <2>2, TimesOutcome
  <2>6. /\ FailIf(TooLong(n, v), Reach(all \o a), p) = Reach((all \o a) \o b)
        /\ b \in Seq(Path) /\ (b = <<>> <=> ~TooLong(n, v)) /\ (all \o a) \o b \in Seq(Path)
    BY <2>2, <2>5, TimesOutcome
  <2>7. /\ FailIf(Misformed(n, v), Reach((all \o a) \o b), p) = Reach(((all \o a) \o b) \o c)
        /\ c \in Seq(Path) /\ (c = <<>> <=> ~Misformed(n, v))
    BY <2>2, <2>6, TimesOutcome
  <2> HIDE DEF a, b, c, wrong
  <2> DEFINE ab == a \o b
  <2>8. a \in Seq(Path) /\ b \in Seq(Path) /\ c \in Seq(Path)
    BY <2>5, <2>6, <2>7
  <2>9. ab \in Seq(Path)
    BY <2>8, ConcatProperties
  <2>10. (all \o a) \o b = all \o ab
    BY <2>8, ConcatAssociative
  <2> HIDE DEF ab
  <2>11. ab \o c \in Seq(Path)
    BY <2>8, <2>9, ConcatProperties
  <2>12. (all \o ab) \o c = all \o (ab \o c)
    BY <2>8, <2>9, ConcatAssociative
  <2>13. ab = <<>> <=> a = <<>> /\ b = <<>>
    BY <2>8, ConcatEqualIffEmpty DEF ab
  <2>14. ab \o c = <<>> <=> ab = <<>> /\ c = <<>>
    BY <2>8, <2>9, ConcatEqualIffEmpty
  <2>15. ab \o c = <<>> <=> ~wrong
    BY <2>5, <2>6, <2>7, <2>13, <2>14, Zenon DEF wrong
  <2>16. check_str(x).cx = Reach(all \o (ab \o c))
    BY <2>3, <2>5, <2>6, <2>7, <2>10, <2>12
  <2>17. check_str(x).out = IF wrong THEN Bad ELSE v
    BY <2>3
  <2>18. Outcome(check_str(x), all, ab \o c)
    BY <1>3, <2>11, <2>15, <2>16, <2>17 DEF Outcome
  <2>19. check_str(x).out # Bad => check_str(x).out = v /\ ~wrong
    BY <2>17
  <2>20. QED
    BY <1>1, <2>1, <2>4, <2>18, <2>19 DEF LeafTold, ab
<1>8. QED
  BY <1>5, <1>6, <1>7

LEMMA ReadIs ==
    ASSUME NEW v \in Value, NEW n \in IntNode \cup NumberNode, Read(n, v) # None
    PROVE  Read(n, v) \in Int /\ (n.k = "int" => Read(n, v) \in SafeInts \cup {LeastInt})
<1>1. CASE v.t = "str"
  <2>1. v.spells \in Spelled
    BY <1>1, ValueKinds DEF Strings
  <2>2. v.spells.t = "digits" => v.spells.h \in Int /\ Even(v.spells.h)
    BY <2>1 DEF Spelled, NilV, Numbers, Booleans
  <2>3. v.spells.t = "num" => v.spells.h \in Int
    BY <2>1 DEF Spelled, NilV, Numbers, Booleans
  <2>4. CASE n.k = "int"
    <3>1. v.spells.t = "digits" /\ DigitsFit(v.spells.h) /\ Read(n, v) = v.spells.h
      BY <1>1, <2>4 DEF Read, ReadInt
    <3>2. QED
      BY <2>2, <3>1 DEF DigitsFit, SafeInts
  <2>5. CASE n.k # "int"
    <3>1. v.spells.t \in {"digits", "num"} /\ Read(n, v) = v.spells.h
      BY <1>1, <2>5 DEF Read, ReadNumber
    <3>2. QED
      BY <2>2, <2>3, <2>5, <3>1
  <2>6. QED
    BY <2>4, <2>5
<1>2. CASE v.t = "num"
  <2>1. v.h \in Int
    BY <1>2, ValueKinds DEF Numbers
  <2>2. CASE n.k = "int"
    <3>1. Even(v.h) /\ IsSafe(v.h) /\ Read(n, v) = v.h
      BY <1>2, <2>2 DEF Read, ReadInt
    <3>2. QED
      BY <2>1, <3>1 DEF SafeInts
  <2>3. CASE n.k # "int"
    BY <1>2, <2>1, <2>3 DEF Read, ReadNumber
  <2>4. QED
    BY <2>2, <2>3
<1>3. CASE v.t # "str" /\ v.t # "num"
  BY <1>3 DEF Read, ReadInt, ReadNumber
<1>4. QED
  BY <1>1, <1>2, <1>3

(* Both kinds of nodes of numbers.                                          *)
LEMMA NumberNodes ==
    ASSUME NEW n \in IntNode \cup NumberNode
    PROVE  /\ n.k \in {"int", "number"}
           /\ n.min # None => n.min \in Int /\ (n.k = "int" => n.min \in SafeInts)
           /\ n.max # None => n.max \in Int /\ (n.k = "int" => n.max \in SafeInts)
           /\ n.min # None /\ n.max # None => n.min <= n.max
           /\ n.default # None => n.default \in Numbers
           /\ n.clamp \in BOOLEAN
<1>1. SafeInts \subseteq Int
  BY DEF SafeInts
<1>2. CASE n \in IntNode
  BY <1>1, <1>2 DEF IntNode, Opt, InOrder, Numbers
<1>3. CASE n \in NumberNode
  BY <1>3 DEF NumberNode, Opt, InOrder, Numbers
<1>4. QED
  BY <1>2, <1>3

(* clamp leaves a number within the bounds.                                 *)
LEMMA ClampedFits ==
    ASSUME NEW n \in IntNode \cup NumberNode, NEW h \in Int,
           n.k = "int" => h \in SafeInts \cup {LeastInt}
    PROVE  NumberMeets(n, Num(Clamped(n, h))) /\ Clamped(n, h) \in Int
<1> DEFINE r == Raised(n, h)
           c == Clamped(n, h)
<1>1. r \in Int /\ ~Under(n, r) /\ (r = h \/ (n.min # None /\ r = n.min))
  BY NumberNodes DEF Raised, Under
<1>2. (n.max # None /\ c = n.max /\ n.max < r) \/ (c = r /\ ~Over(n, r))
  BY DEF Clamped, Over
<1> HIDE DEF r
<1>3. CASE n.max # None /\ c = n.max /\ n.max < r
  <2>1. c \in Int /\ ~Over(n, c)
    BY <1>3, NumberNodes DEF Over
  <2>2. ~Under(n, c)
    BY <1>3, NumberNodes DEF Under
  <2>3. n.k = "int" => c \in SafeInts
    BY <1>3, NumberNodes
  <2> HIDE DEF c
  <2>4. QED
    BY <2>1, <2>2, <2>3 DEF NumberMeets, Num, c
<1>4. CASE c = r /\ ~Over(n, r)
  <2>1. n.k = "int" => r \in SafeInts \cup {LeastInt}
    BY <1>1, NumberNodes
  <2> HIDE DEF c
  <2>2. QED
    BY <1>1, <1>4, <2>1 DEF NumberMeets, Num, c
<1>5. QED
  BY <1>2, <1>3, <1>4

LEMMA NumberTold ==
    ASSUME NEW all \in Seq(Path), NEW x, x.cx = Reach(all), x.path \in Path,
           x.node \in IntNode \cup NumberNode, x.value \in Value
    PROVE  LeafTold(check_number(x), x, all)
<1> DEFINE n == x.node
           v == x.value
           p == x.path
           h == Read(n, v)
<1>1. n.k \in {"int", "number"} /\ n.clamp \in BOOLEAN /\ (n.default # None => n.default \in Numbers)
  BY NumberNodes
<1>2. \A sub, y : NodeMeets(sub, n, y) <=> (y = n.default \/ NumberMeets(n, y))
  BY <1>1 DEF NodeMeets
<1>3. \A y \in Numbers : y # Bad /\ y \in Scalars
  BY DEF Numbers, Scalars, Bad
<1>4. \A i \in Int : Num(i) \in Numbers
  BY DEF Num, Numbers
<1>5. Absent(n, v) <=> v = NilV \/ IsEmptyStr(v)
  BY <1>1 DEF Absent
<1>6. h # None => h \in Int /\ (n.k = "int" => h \in SafeInts \cup {LeastInt})
  BY ReadIs
<1> HIDE DEF h
<1>7. CASE v = NilV \/ IsEmptyStr(v)
  <2>1. check_number(x) = DefaultOrRequired(x) /\ LeafFaults(n, v, p) = Times(n.default = None, p)
    BY <1>1, <1>5, <1>7 DEF check_number, LeafFaults
  <2>2. QED
    BY <1>1, <1>2, <1>3, <2>1, DefaultTold DEF LeafTold
<1>8. CASE ~(v = NilV \/ IsEmptyStr(v))
  <2>1. LeafFaults(n, v, p) = Times(NoNumber(n, v), p)
    BY <1>1, <1>5, <1>8 DEF LeafFaults
  <2>2. CASE h = None
    <3>1. check_number(x) = Failing(Reach(all), p)
      BY <1>8, <2>2 DEF check_number, h
    <3>2. LeafFaults(n, v, p) = <<p>>
      BY <2>1, <2>2 DEF NoNumber, Times, h
    <3>3. Failing(Reach(all), p).out = Bad
      BY DEF Failing
    <3>4. QED
      BY <3>1, <3>2, <3>3, FailingOutcome DEF LeafTold
  <2>3. CASE h # None /\ ~n.clamp /\ (Under(n, h) \/ Over(n, h))
    <3>1. check_number(x) = Failing(Reach(all), p)
      BY <1>8, <2>3 DEF check_number, h
    <3>2. LeafFaults(n, v, p) = <<p>>
      BY <2>1, <2>3 DEF NoNumber, Times, h
    <3>3. Failing(Reach(all), p).out = Bad
      BY DEF Failing
    <3>4. QED
      BY <3>1, <3>2, <3>3, FailingOutcome DEF LeafTold
  <2>4. CASE h # None /\ (n.clamp \/ ~(Under(n, h) \/ Over(n, h)))
    <3> DEFINE out == IF n.clamp THEN Num(Clamped(n, h)) ELSE Num(h)
    <3>1. check_number(x) = Passing(Reach(all), out)
      BY <1>8, <2>4 DEF check_number, h
    <3>2. LeafFaults(n, v, p) = <<>>
      BY <2>1, <2>4 DEF NoNumber, Times, h
    <3>3. out \in Numbers /\ NumberMeets(n, out)
      <4>1. CASE n.clamp
        BY <1>4, <1>6, <2>4, <4>1, ClampedFits
      <4>2. CASE ~n.clamp
        BY <1>4, <1>6, <2>4, <4>2 DEF NumberMeets, Num
      <4>3. QED
        BY <4>1, <4>2
    <3> HIDE DEF out
    <3>4. Outcome(Passing(Reach(all), out), all, <<>>) /\ Passing(Reach(all), out).out = out
      BY <1>3, <3>3, PassingOutcome DEF Passing
    <3>5. QED
      BY <1>2, <1>3, <3>1, <3>2, <3>3, <3>4 DEF LeafTold
  <2>5. QED
    BY <2>2, <2>3, <2>4
<1>9. QED
  BY <1>7, <1>8

LEMMA BoolTold ==
    ASSUME NEW all \in Seq(Path), NEW x, x.cx = Reach(all), x.path \in Path,
           x.node \in BoolNode, x.value \in Value
    PROVE  LeafTold(check_bool(x), x, all)
<1> DEFINE n == x.node
           v == x.value
           p == x.path
<1>1. n.k = "bool" /\ (n.default # None => n.default \in Booleans)
  BY DEF BoolNode, Opt
<1>2. \A sub, y : NodeMeets(sub, n, y) <=> (y = n.default \/ y.t = "bool")
  BY <1>1 DEF NodeMeets
<1>3. \A y \in Booleans : y # Bad /\ y \in Scalars /\ y.t = "bool"
  BY DEF Booleans, Scalars, Bad
<1>4. Absent(n, v) <=> v = NilV \/ IsEmptyStr(v)
  BY <1>1 DEF Absent
<1>5. CASE v = NilV \/ IsEmptyStr(v)
  <2>1. check_bool(x) = DefaultOrRequired(x) /\ LeafFaults(n, v, p) = Times(n.default = None, p)
    BY <1>1, <1>4, <1>5 DEF check_bool, LeafFaults
  <2>2. QED
    BY <1>1, <1>2, <1>3, <2>1, DefaultTold DEF LeafTold
<1>6. CASE ~(v = NilV \/ IsEmptyStr(v))
  <2> DEFINE out == IF v.t = "bool" THEN v ELSE v.spells
  <2>1. LeafFaults(n, v, p) = Times(NoBoolean(v), p)
    BY <1>1, <1>4, <1>6 DEF LeafFaults
  <2>2. CASE NoBoolean(v)
    <3>1. check_bool(x) = Failing(Reach(all), p)
      BY <1>6, <2>2 DEF check_bool, NoBoolean
    <3>2. LeafFaults(n, v, p) = <<p>>
      BY <2>1, <2>2 DEF Times
    <3>3. Failing(Reach(all), p).out = Bad
      BY DEF Failing
    <3>4. QED
      BY <3>1, <3>2, <3>3, FailingOutcome DEF LeafTold
  <2>3. CASE ~NoBoolean(v)
    <3>1. check_bool(x) = Passing(Reach(all), out)
      BY <1>6, <2>3 DEF check_bool, NoBoolean
    <3>2. LeafFaults(n, v, p) = <<>>
      BY <2>1, <2>3 DEF Times
    <3>3. out \in Booleans
      <4>1. CASE v.t = "bool"
        BY <4>1, ValueKinds
      <4>2. CASE v.t # "bool"
        <5>1. v.t = "str" /\ v.spells.t = "bool"
          BY <2>3, <4>2 DEF NoBoolean
        <5>2. v.spells \in Spelled
          BY <5>1, ValueKinds DEF Strings
        <5>3. QED
          BY <4>2, <5>1, <5>2 DEF Spelled, NilV, Numbers, Booleans
      <4>3. QED
        BY <4>1, <4>2
    <3> HIDE DEF out
    <3>4. Outcome(Passing(Reach(all), out), all, <<>>) /\ Passing(Reach(all), out).out = out
      BY <1>3, <3>3, PassingOutcome DEF Passing
    <3>5. QED
      BY <1>2, <1>3, <3>1, <3>2, <3>3, <3>4 DEF LeafTold
  <2>4. QED
    BY <2>2, <2>3
<1>7. QED
  BY <1>5, <1>6

LEMMA OneOfTold ==
    ASSUME NEW all \in Seq(Path), NEW x, x.cx = Reach(all), x.path \in Path,
           x.node \in OneOfNode, x.value \in Value
    PROVE  LeafTold(check_one_of(x), x, all)
<1> DEFINE n == x.node
           v == x.value
           p == x.path
<1>1. n.k = "one_of"
  BY DEF OneOfNode
<1>2. /\ \A sub, y : NodeMeets(sub, n, y) <=> y \in n.options
      /\ LeafFaults(n, v, p) = Times(v \notin n.options, p)
  BY <1>1 DEF NodeMeets, LeafFaults
<1>3. CASE v \in n.options
  <2>1. check_one_of(x) = Passing(Reach(all), v) /\ LeafFaults(n, v, p) = <<>>
    BY <1>2, <1>3 DEF check_one_of, Times
  <2>2. Outcome(Passing(Reach(all), v), all, <<>>) /\ Passing(Reach(all), v).out = v
    BY ValueKinds, PassingOutcome DEF Passing
  <2>3. QED
    BY <1>2, <1>3, <2>1, <2>2 DEF LeafTold
<1>4. CASE v \notin n.options
  <2>1. check_one_of(x) = Failing(Reach(all), p) /\ LeafFaults(n, v, p) = <<p>>
    BY <1>2, <1>4 DEF check_one_of, Times
  <2>2. Failing(Reach(all), p).out = Bad
    BY DEF Failing
  <2>3. QED
    BY <2>1, <2>2, FailingOutcome DEF LeafTold
<1>5. QED
  BY <1>3, <1>4

LEMMA FuncTold ==
    ASSUME NEW all \in Seq(Path), NEW x, x.cx = Reach(all), x.path \in Path,
           x.node \in FuncNode, x.value \in Value
    PROVE  LeafTold(check_func(x), x, all)
<1> DEFINE n == x.node
           v == x.value
           p == x.path
<1>1. n.k = "func" /\ n.does \in {"fail", "keep", "drop"}
  BY DEF FuncNode
<1>2. /\ \A sub, y : NodeMeets(sub, n, y)
      /\ LeafFaults(n, v, p) = Times(n.does = "fail", p)
  BY <1>1 DEF NodeMeets, LeafFaults
<1>3. CASE n.does = "fail"
  <2>1. check_func(x) = Failing(Reach(all), p) /\ LeafFaults(n, v, p) = <<p>>
    BY <1>2, <1>3 DEF check_func, Times
  <2>2. Failing(Reach(all), p).out = Bad
    BY DEF Failing
  <2>3. QED
    BY <2>1, <2>2, FailingOutcome DEF LeafTold
<1>4. CASE n.does # "fail"
  <2> DEFINE out == IF n.does = "keep" THEN v ELSE NilV
  <2>1. check_func(x) = Passing(Reach(all), out) /\ LeafFaults(n, v, p) = <<>>
    BY <1>1, <1>2, <1>4 DEF check_func, Times
  <2>2. out # Bad /\ out \in Scalars \cup {v}
    BY ValueKinds DEF Scalars, NilV, Bad
  <2> HIDE DEF out
  <2>3. Outcome(Passing(Reach(all), out), all, <<>>) /\ Passing(Reach(all), out).out = out
    BY <2>2, PassingOutcome DEF Passing
  <2>4. QED
    BY <1>2, <2>1, <2>2, <2>3 DEF LeafTold
<1>5. QED
  BY <1>3, <1>4

LEMMA LeavesTold ==
    ASSUME NEW all \in Seq(Path), NEW x, x.cx = Reach(all), x.path \in Path,
           x.node \in Leaf, x.value \in Value, x.depth \in Nat, x.depth <= MAX_DEPTH, NEW sub
    PROVE  LeafTold(Checked(sub, x), x, all)
<1>1. ~(x.depth > MAX_DEPTH)
  BY LimitsAssumption
<1>2. CASE x.node \in StrNode
  <2>1. x.node.k = "str"
    BY <1>2 DEF StrNode
  <2>2. Checked(sub, x) = check_str(x)
    BY <1>1, <2>1 DEF Checked
  <2>3. QED
    BY <1>2, <2>2, StrTold
<1>3. CASE x.node \in IntNode \cup NumberNode
  <2>1. x.node.k \in {"int", "number"}
    BY <1>3, NumberNodes
  <2>2. Checked(sub, x) = check_number(x)
    BY <1>1, <2>1 DEF Checked
  <2>3. QED
    BY <1>3, <2>2, NumberTold
<1>4. CASE x.node \in BoolNode
  <2>1. x.node.k = "bool"
    BY <1>4 DEF BoolNode
  <2>2. Checked(sub, x) = check_bool(x)
    BY <1>1, <2>1 DEF Checked
  <2>3. QED
    BY <1>4, <2>2, BoolTold
<1>5. CASE x.node \in OneOfNode
  <2>1. x.node.k = "one_of"
    BY <1>5 DEF OneOfNode
  <2>2. Checked(sub, x) = check_one_of(x)
    BY <1>1, <2>1 DEF Checked
  <2>3. QED
    BY <1>5, <2>2, OneOfTold
<1>6. CASE x.node \in FuncNode
  <2>1. x.node.k = "func"
    BY <1>6 DEF FuncNode
  <2>2. Checked(sub, x) = check_func(x)
    BY <1>1, <2>1 DEF Checked
  <2>3. QED
    BY <1>6, <2>2, FuncTold
<1>7. QED
  BY <1>2, <1>3, <1>4, <1>5, <1>6 DEF Leaf

-----------------------------------------------------------------------------
(* Validation: the parts of a list or an object *)

(* out may stand for the value v at a node of height h: it meets the node   *)
(* and nests no deeper than v.                                              *)
Stands(h, n, v, out) ==
    /\ Meets[h][[node |-> n, value |-> out]]
    /\ \A d \in 0 .. MAX_NEST : v \in Values[d] => out \in Values[d]

FaultsIn(h, n, v, p) == Faults[h][[node |-> n, value |-> v, path |-> p]]

Told(r, h, n, v, p, all) ==
    /\ Outcome(r, all, FaultsIn(h, n, v, p))
    /\ r.out # Bad => Stands(h, n, v, r.out)

(* The checks of height h are exact wherever the schema can have them run.  *)
ExactAt(h) ==
    \A x \in Call(h), all \in Seq(Path) :
        x.cx = Reach(all) /\ Len(all) <= MAX_ISSUES /\ x.depth + h <= MAX_DEPTH
            => Told(check[h][x], h, x.node, x.value, x.path, all)

Step == [key : Names] \cup [index : Nat]
PartsOf(h) == [step : Step, node : Built[h], value : Value]

LEMMA FaultsType ==
    ASSUME NEW h \in 0 .. MAX_DEPTH, ExactAt(h), NEW n \in Built[h], NEW v \in Value, NEW p \in Path
    PROVE  FaultsIn(h, n, v, p) \in Seq(Path)
<1> DEFINE x == [cx |-> Start, node |-> n, value |-> v, path |-> p, depth |-> 0]
<1>1. <<>> \in Seq(Path) /\ Len(<<>>) <= MAX_ISSUES /\ 0 + h <= MAX_DEPTH
  BY LimitsAssumption
<1>2. Start = Reach(<<>>) /\ Start \in Context
  BY <1>1, ReachStart, ReachIs
<1>3. x \in Call(h) /\ x.cx = Reach(<<>>) /\ x.depth = 0 /\ x.node = n /\ x.value = v /\ x.path = p
  BY <1>2 DEF Call
<1> HIDE DEF x
<1>4. Told(check[h][x], h, n, v, p, <<>>)
  BY <1>1, <1>3 DEF ExactAt
<1>5. QED
  BY <1>4 DEF Told, Outcome

Holds(h, part, out) == out # Bad /\ out \in Value /\ Stands(h, part.node, part.value, out)

(* After i turns: s is what they left, t the faults of the parts they took. *)
AfterTurns(s, t, h, parts, all, i) ==
    /\ t \in Seq(Path)
    /\ s.cx = Reach(all \o t)
    /\ t = <<>> => /\ s.outs \in Seq(Value) /\ Len(s.outs) = i
                   /\ \A j \in 1 .. i : Holds(h, parts[j], s.outs[j])

LEMMA PathsJoin ==
    ASSUME NEW a \in Seq(Path), NEW b \in Seq(Path), NEW c \in Seq(Path)
    PROVE  (a \o b) \o c = a \o (b \o c)
  BY ConcatAssociative

LEMMA VisitTold ==
    ASSUME NEW h \in 0 .. MAX_DEPTH, ExactAt(h), NEW all \in Seq(Path), Len(all) <= MAX_ISSUES,
           NEW x, x.path \in Path, x.depth \in Nat, (x.depth + 1) + h <= MAX_DEPTH,
           NEW parts \in Seq(PartsOf(h)), NEW i \in Nat, i + 1 <= Len(parts),
           NEW s, NEW t, AfterTurns(s, t, h, parts, all, i)
    PROVE  AfterTurns(Visit(check[h], s, x, parts[i + 1]),
                      t \o PartFaults(Faults[h], parts[i + 1], x.path), h, parts, all, i + 1)
<1> DEFINE part == parts[i + 1]
           p == Append(x.path, part.step)
           f == FaultsIn(h, part.node, part.value, p)
           so_far == all \o t
           v == Visit(check[h], s, x, part)
<1>1. part \in PartsOf(h)
  BY ElementOfSeq
<1>2. part.step \in Step /\ part.node \in Built[h] /\ part.value \in Value
  BY <1>1 DEF PartsOf
<1> HIDE DEF part
<1>3. p \in Path
  BY <1>2 DEF Path, Step
<1> HIDE DEF p
<1>4. PartFaults(Faults[h], part, x.path) = f
  BY DEF PartFaults, FaultsIn, p
<1>5. f \in Seq(Path)
  BY <1>2, <1>3, FaultsType
<1>6. t \in Seq(Path) /\ s.cx = Reach(so_far)
  BY DEF AfterTurns
<1>7. so_far \in Seq(Path)
  BY <1>6, ConcatProperties
<1>8. t \o f \in Seq(Path)
  BY <1>5, <1>6, ConcatProperties
<1> HIDE DEF f
<1>9. all \o (t \o f) = so_far \o f
  <2>1. t \in Seq(Path)
    BY <1>6
  <2> HIDE <1>5, <1>6, <1>7, <1>8
  <2>2. (all \o t) \o f = all \o (t \o f)
    BY <1>5, <2>1, PathsJoin, Zenon
  <2>3. QED
    BY <2>2
<1>10. t \o f = <<>> <=> t = <<>> /\ f = <<>>
  BY <1>5, <1>6, ConcatEqualIffEmpty
<1>11. t = <<>> => so_far = all
  BY ConcatEmptySeq
<1> HIDE DEF so_far
<1>12. s.cx.truncated = (Len(so_far) > MAX_ISSUES)
  BY <1>6, <1>7, ReachIs
<1>13. Len(so_far) \in Nat /\ Len(all) \in Nat /\ MAX_ISSUES \in Nat
  BY <1>7, LimitsAssumption
<1>14. CASE Len(so_far) > MAX_ISSUES
  <2>1. v = s
    BY <1>12, <1>14 DEF Visit
  <2>2. Reach(so_far \o f) = Reach(so_far)
    BY <1>5, <1>7, <1>14, ReachFull
  <2>3. t # <<>>
    BY <1>11, <1>13, <1>14
  <2>4. v.cx = Reach(all \o (t \o f)) /\ t \o f # <<>>
    BY <1>6, <1>9, <1>10, <2>1, <2>2, <2>3
  <2>5. QED
    BY <1>4, <1>8, <2>4 DEF AfterTurns, part
<1>15. CASE ~(Len(so_far) > MAX_ISSUES)
  <2> DEFINE y == [cx |-> s.cx, node |-> part.node, value |-> part.value, path |-> p, depth |-> x.depth + 1]
             r == check[h][y]
  <2>1. ~s.cx.truncated
    BY <1>12, <1>15
  <2>2. v = [cx |-> r.cx, outs |-> Append(s.outs, r.out)]
    BY <2>1 DEF Visit, p
  <2>3. s.cx \in Context
    BY <1>6, <1>7, ReachIs
  <2>4. /\ y \in Call(h) /\ y.cx = Reach(so_far) /\ y.node = part.node /\ y.value = part.value
        /\ y.path = p /\ y.depth = x.depth + 1
    BY <1>2, <1>3, <1>6, <2>3 DEF Call
  <2> HIDE DEF y
  <2>5. Len(so_far) <= MAX_ISSUES /\ y.depth + h <= MAX_DEPTH
    BY <1>13, <1>15, <2>4
  <2>6. Told(r, h, part.node, part.value, p, so_far)
    BY <1>7, <2>4, <2>5 DEF ExactAt
  <2> HIDE DEF r
  <2>7. /\ r.cx = Reach(so_far \o f) /\ (r.out = Bad <=> f # <<>>)
        /\ r.out # Bad => Stands(h, part.node, part.value, r.out)
    BY <2>6 DEF Told, Outcome, f
  <2>8. v.cx = Reach(all \o (t \o f)) /\ v.outs = Append(s.outs, r.out)
    BY <1>9, <2>2, <2>7
  <2>9. ASSUME t \o f = <<>>
        PROVE  /\ v.outs \in Seq(Value) /\ Len(v.outs) = i + 1
               /\ \A j \in 1 .. i + 1 : Holds(h, parts[j], v.outs[j])
    <3>1. t = <<>> /\ f = <<>>
      BY <1>10, <2>9
    <3>2. s.outs \in Seq(Value) /\ Len(s.outs) = i /\ \A j \in 1 .. i : Holds(h, parts[j], s.outs[j])
      BY <3>1 DEF AfterTurns
    <3>3. r.out # Bad /\ Stands(h, part.node, part.value, r.out)
      BY <2>7, <3>1
    <3>4. MAX_NEST \in 0 .. MAX_NEST
      BY LimitsAssumption
    <3>5. r.out \in Value
      BY <1>2, <3>3, <3>4 DEF Stands, Value
    <3>6. Holds(h, part, r.out)
      BY <3>3, <3>5 DEF Holds
    <3>7. /\ v.outs \in Seq(Value) /\ Len(v.outs) = i + 1
          /\ \A j \in 1 .. i : v.outs[j] = s.outs[j]
          /\ v.outs[i + 1] = r.out
      BY <2>8, <3>2, <3>5, AppendProperties
    <3>8. \A j \in 1 .. i + 1 : j \in 1 .. i \/ j = i + 1
      OBVIOUS
    <3>9. QED
      BY <3>2, <3>6, <3>7, <3>8 DEF part
  <2>10. QED
    BY <1>4, <1>8, <2>8, <2>9 DEF AfterTurns, part
<1>16. QED
  BY <1>14, <1>15

LEMMA EachTold ==
    ASSUME NEW h \in 0 .. MAX_DEPTH, ExactAt(h), NEW all \in Seq(Path), Len(all) <= MAX_ISSUES,
           NEW x, x.cx = Reach(all), x.path \in Path, x.depth \in Nat, (x.depth + 1) + h <= MAX_DEPTH,
           NEW parts \in Seq(PartsOf(h))
    PROVE  AfterTurns(Each(check[h], x, parts), FaultsOf(Faults[h], parts, x.path), h, parts, all, Len(parts))
<1> DEFINE n == Len(parts)
<1>1. n \in Nat
  OBVIOUS
<1>2. PICK f : TurnsBy(f, check[h], x, parts, n) /\ Each(check[h], x, parts) = f[n]
  BY <1>1, EachTurns
<1>3. PICK g : ToldBy(g, Faults[h], parts, x.path, n) /\ FaultsOf(Faults[h], parts, x.path) = g[n]
  BY <1>1, FaultsOfTold
<1> HIDE DEF n
<1> DEFINE Done(i) == AfterTurns(f[i], g[i], h, parts, all, i)
           N == {i \in Nat : i <= n => Done(i)}
<1>4. \A i \in 0 .. n : /\ f[i] = TurnsOf(f, check[h], x, parts, i)
                        /\ g[i] = ToldOf(g, Faults[h], parts, x.path, i)
  BY <1>2, <1>3 DEF TurnsBy, ToldBy
<1>5. 0 \in N
  <2>1. 0 \in 0 .. n
    BY <1>1
  <2>2. f[0] = [cx |-> x.cx, outs |-> <<>>] /\ g[0] = <<>>
    BY <1>4, <2>1 DEF TurnsOf, ToldOf
  <2>3. <<>> \in Seq(Path) /\ <<>> \in Seq(Value) /\ Len(<<>>) = 0 /\ all \o <<>> = all
    BY ConcatEmptySeq
  <2>4. \A j \in 1 .. 0 : FALSE
    OBVIOUS
  <2>5. f[0].cx = Reach(all \o g[0]) /\ f[0].outs = <<>>
    BY <2>2, <2>3
  <2>6. g[0] \in Seq(Path) /\ f[0].outs \in Seq(Value) /\ Len(f[0].outs) = 0
    BY <2>2, <2>3, <2>5
  <2>7. AfterTurns(f[0], g[0], h, parts, all, 0)
    BY <2>4, <2>5, <2>6 DEF AfterTurns
  <2>8. QED
    BY <2>7
<1>6. ASSUME NEW i \in Nat, i \in N
      PROVE  i + 1 \in N
  <2> SUFFICES ASSUME i + 1 <= n PROVE Done(i + 1)
    OBVIOUS
  <2>1. i <= n /\ i + 1 \in 0 .. n /\ i + 1 # 0 /\ (i + 1) - 1 = i
    BY <1>1
  <2>2. /\ f[i + 1] = Visit(check[h], f[i], x, parts[i + 1])
        /\ g[i + 1] = g[i] \o PartFaults(Faults[h], parts[i + 1], x.path)
    BY <1>4, <2>1 DEF TurnsOf, ToldOf
  <2>3. Done(i) /\ i + 1 <= Len(parts)
    BY <1>6, <2>1 DEF n
  <2>4. QED
    BY <2>2, <2>3, VisitTold
<1> HIDE DEF N, Done
<1>7. n \in N
  BY <1>1, <1>5, <1>6, Inductive
<1>8. Done(n)
  BY <1>1, <1>7 DEF N
<1>9. QED
  BY <1>2, <1>3, <1>8 DEF Done, n

-----------------------------------------------------------------------------
(* Validation: the keys an object does not name *)

LEMMA FailNextTold ==
    ASSUME NEW all \in Seq(Path), NEW p \in Path
    PROVE  FailNext(Reach(all), p) = Reach(all \o <<p>>)
<1>1. Reach(all).truncated = (Len(all) > MAX_ISSUES)
  BY ReachIs
<1>2. CASE Len(all) > MAX_ISSUES
  <2>1. FailNext(Reach(all), p) = Reach(all)
    BY <1>1, <1>2 DEF FailNext
  <2>2. <<p>> \in Seq(Path)
    OBVIOUS
  <2>3. QED
    BY <1>2, <2>1, <2>2, ReachFull
<1>3. CASE ~(Len(all) > MAX_ISSUES)
  <2>1. FailNext(Reach(all), p) = fail(Reach(all), p)
    BY <1>1, <1>3 DEF FailNext
  <2>2. QED
    BY <2>1, ReachFail
<1>4. QED
  BY <1>2, <1>3

KeyPaths(p, keys, n) == [i \in 1 .. n |-> Append(p, keys[i])]

LEMMA RejectTold ==
    ASSUME NEW all \in Seq(Path), NEW p \in Path, NEW keys \in Seq(Step)
    PROVE  /\ KeyPaths(p, keys, Len(keys)) \in Seq(Path)
           /\ reject_unknown_keys(Reach(all), p, keys) = Reach(all \o KeyPaths(p, keys, Len(keys)))
<1> DEFINE n == Len(keys)
<1>1. n \in Nat
  OBVIOUS
<1>2. PICK f : RejectBy(f, Reach(all), p, keys, n) /\ reject_unknown_keys(Reach(all), p, keys) = f[n]
  BY <1>1, RejectTurns
<1>3. \A i \in 1 .. n : Append(p, keys[i]) \in Path
  BY DEF Path, Step
<1> HIDE DEF n
<1> DEFINE k(i) == KeyPaths(p, keys, i)
           Done(i) == k(i) \in Seq(Path) /\ f[i] = Reach(all \o k(i))
           N == {i \in Nat : i <= n => Done(i)}
<1>4. \A i \in 0 .. n : f[i] = RejectOf(f, Reach(all), p, keys, i)
  BY <1>2 DEF RejectBy
<1>5. 0 \in N
  <2>1. 0 \in 0 .. n
    BY <1>1
  <2>2. f[0] = Reach(all)
    BY <1>4, <2>1 DEF RejectOf
  <2>3. k(0) = <<>>
    BY DEF KeyPaths
  <2>4. <<>> \in Seq(Path) /\ all \o <<>> = all
    BY ConcatEmptySeq
  <2> HIDE DEF k
  <2>5. QED
    BY <2>2, <2>3, <2>4
<1>6. ASSUME NEW i \in Nat, i \in N
      PROVE  i + 1 \in N
  <2> SUFFICES ASSUME i + 1 <= n PROVE Done(i + 1)
    OBVIOUS
  <2> DEFINE q == Append(p, keys[i + 1])
  <2>1. i <= n /\ i + 1 \in 0 .. n /\ i + 1 # 0 /\ (i + 1) - 1 = i /\ i + 1 \in 1 .. n
    BY <1>1
  <2>2. f[i + 1] = FailNext(f[i], q)
    BY <1>4, <2>1 DEF RejectOf
  <2>3. q \in Path
    BY <1>3, <2>1
  <2>4. k(i + 1) = Append(k(i), q)
    <3>1. Len(k(i)) = i /\ \A j \in 1 .. i : k(i)[j] = Append(p, keys[j])
      BY DEF KeyPaths
    <3>2. k(i) \in Seq(Path)
      BY <1>6, <2>1
    <3>3. k(i + 1) = [j \in 1 .. i + 1 |-> Append(p, keys[j])]
      BY DEF KeyPaths
    <3> HIDE DEF k
    <3>4. /\ Append(k(i), q) \in Seq(Path) /\ Len(Append(k(i), q)) = i + 1
          /\ \A j \in 1 .. i : Append(k(i), q)[j] = k(i)[j]
          /\ Append(k(i), q)[i + 1] = q
      BY <2>3, <3>1, <3>2, AppendProperties
    <3>5. Append(k(i), q) = [j \in 1 .. i + 1 |-> Append(k(i), q)[j]]
      BY <3>4
    <3>6. \A j \in 1 .. i + 1 : Append(k(i), q)[j] = Append(p, keys[j])
      <4>1. \A j \in 1 .. i + 1 : j \in 1 .. i \/ j = i + 1
        OBVIOUS
      <4>2. QED
        BY <3>1, <3>4, <4>1
    <3>7. QED
      BY <3>3, <3>5, <3>6
  <2> HIDE DEF q, k
  <2>5. k(i) \in Seq(Path) /\ f[i] = Reach(all \o k(i))
    BY <1>6, <2>1
  <2>6. all \o k(i) \in Seq(Path)
    BY <2>5, ConcatProperties
  <2>7. f[i + 1] = Reach((all \o k(i)) \o <<q>>)
    BY <2>2, <2>3, <2>5, <2>6, FailNextTold
  <2>8. <<q>> \in Seq(Path)
    BY <2>3
  <2>9. (all \o k(i)) \o <<q>> = all \o (k(i) \o <<q>>)
    BY <2>5, <2>8, PathsJoin, Zenon
  <2>10. k(i + 1) = k(i) \o <<q>>
    BY <2>3, <2>4, <2>5, AppendIsConcat, Zenon
  <2>11. k(i) \o <<q>> \in Seq(Path)
    BY <2>5, <2>8, ConcatProperties, Zenon
  <2>12. QED
    BY <2>7, <2>9, <2>10, <2>11, Zenon
<1> HIDE DEF N, Done
<1>7. n \in N
  BY <1>1, <1>5, <1>6, Inductive
<1>8. Done(n)
  BY <1>1, <1>7 DEF N
<1>9. QED
  BY <1>2, <1>8 DEF Done, n

LEMMA UnknownSteps ==
    ASSUME NEW n, NEW v, Len(v.seq) \in Nat
    PROVE  UnknownKeys(n, v) \in Seq(Step)
<1> DEFINE known == {k \in Names : k \in FieldNames(n) \/ v.keys[k] = NilV}
           keys == Unlisted(KeyOrder, known)
           a == [i \in 1 .. Len(v.seq) |-> [index |-> i]]
           b == [i \in 1 .. Len(keys) |-> [key |-> keys[i]]]
<1>1. UnknownKeys(n, v) = a \o b
  BY DEF UnknownKeys
<1>2. KeyOrder \in Seq(Names)
  BY KeyOrderAssumption DEF Names
<1>3. keys \in Seq(Names)
  BY <1>2, UnlistedPicks
<1> HIDE DEF keys
<1>4. \A i \in 1 .. Len(keys) : [key |-> keys[i]] \in Step
  BY <1>3 DEF Step
<1>5. Len(keys) \in Nat
  BY <1>3
<1>6. b \in Seq(Step)
  BY <1>4, <1>5
<1>7. \A i \in 1 .. Len(v.seq) : [index |-> i] \in Step
  BY DEF Step
<1>8. a \in Seq(Step)
  BY <1>7
<1> HIDE DEF a, b
<1>9. QED
  BY <1>1, <1>6, <1>8, ConcatProperties

-----------------------------------------------------------------------------
(* Validation: one height from the one below *)

(* A call whose context has room, and whose node is shallow enough.         *)
Asked(h, x, all) ==
    /\ x \in Call(h) /\ x.cx = Reach(all) /\ x.depth + h <= MAX_DEPTH
    /\ all \in Seq(Path) /\ Len(all) <= MAX_ISSUES

ToldAt(h, x, all) == Told(check[h][x], h, x.node, x.value, x.path, all)

LEMMA AskedIs ==
    ASSUME NEW h \in 1 .. MAX_DEPTH, NEW x, NEW all, Asked(h, x, all)
    PROVE  /\ x.node \in Built[h] /\ x.value \in Value /\ x.path \in Path
           /\ x.depth \in Nat /\ x.depth <= MAX_DEPTH /\ (x.depth + 1) + (h - 1) <= MAX_DEPTH
           /\ h - 1 \in 0 .. MAX_DEPTH
           /\ check[h][x] = Checked(check[h - 1], x)
           /\ FaultsIn(h, x.node, x.value, x.path) = NodeFaults(Faults[h - 1], x.node, x.value, x.path)
<1>1. /\ x \in Call(h) /\ x.depth + h <= MAX_DEPTH
      /\ x.node \in Built[h] /\ x.value \in Value /\ x.path \in Path /\ x.depth \in Nat
  BY DEF Asked, Call
<1>2. /\ x.depth <= MAX_DEPTH /\ (x.depth + 1) + (h - 1) <= MAX_DEPTH
      /\ h - 1 \in 0 .. MAX_DEPTH
  BY <1>1, LimitsAssumption
<1>3. check[h][x] = Checked(check[h - 1], x)
  BY <1>1, CheckIs
<1>4. FaultsIn(h, x.node, x.value, x.path) = NodeFaults(Faults[h - 1], x.node, x.value, x.path)
  BY <1>1, FaultsAre DEF FaultsIn
<1>5. QED
  BY <1>1, <1>2, <1>3, <1>4

(* A result stands for the value when it meets the node and nests no deeper *)
LEMMA StandsWhen ==
    ASSUME NEW h \in 1 .. MAX_DEPTH, NEW x, NEW all, Asked(h, x, all), NEW out,
           \A d \in 0 .. MAX_NEST : x.value \in Values[d] => out \in Values[d],
           NodeMeets(Meets[h - 1], x.node, out)
    PROVE  Stands(h, x.node, x.value, out)
<1>1. MAX_NEST \in 0 .. MAX_NEST
  BY LimitsAssumption
<1>2. out \in Value
  BY <1>1, AskedIs DEF Value
<1>3. x \in Call(h)
  BY DEF Asked
<1>4. x.node \in Built[h]
  BY <1>3 DEF Call
<1>5. Meets[h][[node |-> x.node, value |-> out]] = NodeMeets(Meets[h - 1], x.node, out)
  BY <1>2, <1>4, MeetsIs
<1>6. QED
  BY <1>5 DEF Stands

LEMMA LeafKinds ==
    ASSUME NEW n \in Leaf
    PROVE  n.k \in {"str", "int", "number", "bool", "one_of", "func"}
  BY DEF Leaf, StrNode, IntNode, NumberNode, BoolNode, OneOfNode, FuncNode

LEMMA LeafStep ==
    ASSUME NEW h \in 1 .. MAX_DEPTH, NEW x, NEW all, Asked(h, x, all), x.node \in Leaf
    PROVE  ToldAt(h, x, all)
<1> DEFINE r == Checked(check[h - 1], x)
<1>1. LeafTold(r, x, all)
  BY AskedIs, LeavesTold DEF Asked
<1>2. NodeFaults(Faults[h - 1], x.node, x.value, x.path) = LeafFaults(x.node, x.value, x.path)
  BY LeafKinds DEF NodeFaults
<1>3. check[h][x] = r /\ FaultsIn(h, x.node, x.value, x.path) = LeafFaults(x.node, x.value, x.path)
  BY <1>2, AskedIs
<1> HIDE DEF r
<1>4. ASSUME r.out # Bad
      PROVE  Stands(h, x.node, x.value, r.out)
  <2>1. r.out \in Scalars \cup {x.value} /\ NodeMeets(Meets[h - 1], x.node, r.out)
    BY <1>1, <1>4 DEF LeafTold
  <2>2. \A d \in 0 .. MAX_NEST : x.value \in Values[d] => r.out \in Values[d]
    BY <2>1, ScalarsIn
  <2>3. QED
    BY <2>1, <2>2, StandsWhen
<1>5. QED
  BY <1>1, <1>3, <1>4 DEF ToldAt, Told, LeafTold

(* An absent value is no fault where there is a default for it.             *)
LEMMA DefaultNoFault ==
    ASSUME NEW h \in 0 .. MAX_DEPTH, NEW n \in Built[h], HasDefault(n), NEW p \in Path
    PROVE  FaultsIn(h, n, NilV, p) = <<>>
<1>1. h # 0 /\ h - 1 \in 0 .. MAX_DEPTH /\ h \in 1 .. MAX_DEPTH
  <2>1. ASSUME h = 0
        PROVE  Built[h] = {}
    BY <2>1, BuiltAre
  <2>2. h # 0
    BY <2>1
  <2>3. QED
    BY <2>2, LimitsAssumption
<1>2. n \in Leaf \cup OptionalNode(Built[h - 1]) \cup ListNode(Built[h - 1]) \cup ObjectNode(Built[h - 1])
  BY <1>1, BuiltAre
<1>3. NilV \in Value
  BY NilIn, LimitsAssumption DEF Value
<1>4. FaultsIn(h, n, NilV, p) = NodeFaults(Faults[h - 1], n, NilV, p)
  BY <1>1, <1>3, FaultsAre DEF FaultsIn
<1>5. CASE n.k = "optional"
  BY <1>4, <1>5 DEF NodeFaults
<1>6. CASE n.k # "optional"
  <2>1. n.k \in {"str", "int", "number", "bool"} /\ n.default # None
    BY <1>6 DEF HasDefault, Bare
  <2>2. Absent(n, NilV)
    BY DEF Absent
  <2>3. NodeFaults(Faults[h - 1], n, NilV, p) = LeafFaults(n, NilV, p)
    BY <2>1 DEF NodeFaults
  <2>4. LeafFaults(n, NilV, p) = Times(n.default = None, p)
    BY <2>1, <2>2 DEF LeafFaults
  <2>5. QED
    BY <1>4, <2>1, <2>3, <2>4 DEF Times
<1>7. QED
  BY <1>5, <1>6

LEMMA OptionalStep ==
    ASSUME NEW h \in 1 .. MAX_DEPTH, ExactAt(h - 1), NEW x, NEW all, Asked(h, x, all),
           x.node \in OptionalNode(Built[h - 1])
    PROVE  ToldAt(h, x, all)
<1> DEFINE n == x.node
           v == x.value
           p == x.path
           inner == n.inner
           r == Checked(check[h - 1], x)
<1>1. n.k = "optional" /\ inner \in Built[h - 1] /\ n.bare = Bare(inner)
  BY DEF OptionalNode
<1>2. /\ v \in Value /\ p \in Path /\ x.depth \in Nat /\ ~(x.depth > MAX_DEPTH)
      /\ h - 1 \in 0 .. MAX_DEPTH
      /\ all \in Seq(Path) /\ Len(all) <= MAX_ISSUES /\ x.cx = Reach(all)
      /\ x \in Call(h) /\ x.depth + h <= MAX_DEPTH
  BY AskedIs, LimitsAssumption DEF Asked
<1>3. r = check_optional(check[h - 1], x)
  BY <1>1, <1>2 DEF Checked
<1>4. /\ check[h][x] = r
      /\ FaultsIn(h, n, v, p) = NodeFaults(Faults[h - 1], n, v, p)
  BY AskedIs
<1>5. NodeFaults(Faults[h - 1], n, v, p) =
        IF v = NilV \/ (Absent(n.bare, v) /\ ~HasDefault(n)) THEN <<>> ELSE FaultsIn(h - 1, inner, v, p)
  BY <1>1 DEF NodeFaults, FaultsIn
<1>6. (HasDefault(n) <=> HasDefault(inner)) /\ (Absent(n.bare, v) <=> IsMissing(inner, v))
  BY <1>1 DEF HasDefault, Bare, Absent, IsMissing
<1>7. \A out : NodeMeets(Meets[h - 1], n, out) = (out = NilV \/ Meets[h - 1][[node |-> inner, value |-> out]])
  BY <1>1 DEF NodeMeets
<1> HIDE DEF r
<1>8. CASE OptionalSkips(inner, v)
  <2>1. FaultsIn(h, n, v, p) = <<>>
    BY <1>4, <1>5, <1>6, <1>8 DEF OptionalSkips
  <2>2. r = Passing(Reach(all), NilV)
    BY <1>2, <1>3, <1>8 DEF check_optional
  <2>3. NilV # Bad /\ r.out = NilV
    BY <2>2 DEF NilV, Bad, Passing
  <2>4. Outcome(r, all, <<>>)
    BY <1>2, <2>2, <2>3, PassingOutcome
  <2>5. NodeMeets(Meets[h - 1], n, NilV)
    BY <1>7
  <2>6. \A d \in 0 .. MAX_NEST : v \in Values[d] => NilV \in Values[d]
    BY NilIn
  <2>7. Stands(h, n, v, NilV)
    BY <2>5, <2>6, StandsWhen
  <2>8. QED
    BY <1>4, <2>1, <2>3, <2>4, <2>7 DEF ToldAt, Told
<1>9. CASE ~OptionalSkips(inner, v)
  <2> DEFINE y == [x EXCEPT !.node = inner]
  <2>1. r = check[h - 1][y]
    BY <1>3, <1>9 DEF check_optional
  <2>2. /\ y \in Call(h - 1) /\ y.cx = Reach(all) /\ y.node = inner /\ y.value = v
        /\ y.path = p /\ y.depth = x.depth
    BY <1>1, <1>2 DEF Call
  <2> HIDE DEF y
  <2>3. y.depth + (h - 1) <= MAX_DEPTH
    BY <1>2, <2>2, LimitsAssumption
  <2>4. Told(r, h - 1, inner, v, p, all)
    BY <1>2, <2>1, <2>2, <2>3 DEF ExactAt
  <2>5. FaultsIn(h, n, v, p) = FaultsIn(h - 1, inner, v, p)
    <3>1. CASE v = NilV
      <4>1. HasDefault(inner)
        BY <1>9, <3>1 DEF OptionalSkips, IsMissing
      <4>2. FaultsIn(h - 1, inner, v, p) = <<>>
        BY <1>1, <1>2, <3>1, <4>1, DefaultNoFault
      <4>3. QED
        BY <1>4, <1>5, <3>1, <4>2
    <3>2. CASE v # NilV
      BY <1>4, <1>5, <1>6, <1>9, <3>2 DEF OptionalSkips
    <3>3. QED
      BY <3>1, <3>2
  <2>6. ASSUME r.out # Bad
        PROVE  Stands(h, n, v, r.out)
    <3>1. Stands(h - 1, inner, v, r.out)
      BY <2>4, <2>6 DEF Told
    <3>2. NodeMeets(Meets[h - 1], n, r.out)
      BY <1>7, <3>1 DEF Stands
    <3>3. \A d \in 0 .. MAX_NEST : v \in Values[d] => r.out \in Values[d]
      BY <3>1 DEF Stands
    <3>4. QED
      BY <3>2, <3>3, StandsWhen
  <2>7. QED
    BY <1>4, <2>4, <2>5, <2>6 DEF ToldAt, Told
<1>10. QED
  BY <1>8, <1>9

LEMMA UnlistedShort ==
    ASSUME NEW X, NEW list \in Seq(X), NEW S
    PROVE  Len(Unlisted(list, S)) \in Nat /\ Len(Unlisted(list, S)) <= Len(list)
<1> DEFINE r == Unlisted(list, S)
           l == Len(r)
           m == Len(list)
<1>1. PICK e : Picks(e, r, list, S, m)
  BY UnlistedPicks
<1>2. l \in Nat /\ m \in Nat
  BY UnlistedPicks
<1>3. e \in [1 .. l -> 1 .. m] /\ \A j, k \in 1 .. l : j < k => e[j] < e[k]
  BY <1>1 DEF Picks
<1> HIDE DEF r, l, m
<1> DEFINE N == {i \in Nat : i + 1 <= l => e[i + 1] >= i + 1}
<1>4. 0 \in N
  BY <1>2, <1>3
<1>5. ASSUME NEW i \in Nat, i \in N
      PROVE  i + 1 \in N
  <2> SUFFICES ASSUME (i + 1) + 1 <= l
               PROVE  e[(i + 1) + 1] >= (i + 1) + 1
    OBVIOUS
  <2>1. i + 1 \in 1 .. l /\ (i + 1) + 1 \in 1 .. l /\ i + 1 < (i + 1) + 1
    BY <1>2
  <2>2. e[i + 1] >= i + 1 /\ e[i + 1] < e[(i + 1) + 1] /\ e[i + 1] \in Int /\ e[(i + 1) + 1] \in Int
    BY <1>2, <1>3, <1>5, <2>1
  <2>3. QED
    BY <2>2
<1> HIDE DEF N
<1>6. \A i \in Nat : i \in N
  BY <1>4, <1>5, Inductive
<1>7. l <= m
  <2>1. CASE l = 0
    BY <1>2, <2>1
  <2>2. CASE l # 0
    <3>1. l - 1 \in N /\ l - 1 \in Nat /\ (l - 1) + 1 = l /\ l \in 1 .. l
      BY <1>2, <1>6, <2>2
    <3>2. e[l] >= l /\ e[l] \in 1 .. m
      BY <1>3, <3>1 DEF N
    <3>3. QED
      BY <1>2, <3>2
  <2>3. QED
    BY <2>1, <2>2
<1>8. QED
  BY <1>2, <1>7 DEF r, l, m

(* The parts of a value a list or an object is held against are no deeper.  *)
LEMMA PartsIn ==
    ASSUME NEW v \in Value, v.t = "table"
    PROVE  v.seq \in Seq(Value) /\ v.keys \in [Names -> Value]
<1>1. MAX_NEST \in 0 .. MAX_NEST /\ v \in Values[MAX_NEST]
  BY LimitsAssumption DEF Value
<1>2. /\ MAX_NEST - 1 \in 0 .. MAX_NEST
      /\ v.seq \in Seq(Values[MAX_NEST - 1] \ {NilV}) /\ v.keys \in [Names -> Values[MAX_NEST - 1]]
  BY <1>1, TableParts
<1>3. Values[MAX_NEST - 1] \subseteq Value
  BY <1>2, ValuesGrow
<1>4. v.seq \in Seq(Value)
  BY <1>2, <1>3, SeqMonotonic
<1>5. QED
  BY <1>2, <1>3, <1>4

(* What is left of the results of a list's elements.                        *)
LEMMA KeptItems ==
    ASSUME NEW outs \in Seq(Value), NEW T, \A j \in 1 .. Len(outs) : outs[j] \in T
    PROVE  LET kept == Unlisted(outs, {Bad, NilV}) IN
           /\ kept \in Seq(T \ {NilV}) /\ Len(kept) \in Nat /\ Len(kept) <= Len(outs)
           /\ \A i \in 1 .. Len(kept) : \E j \in 1 .. Len(outs) : kept[i] = outs[j]
<1> DEFINE kept == Unlisted(outs, {Bad, NilV})
<1>1. kept \in Seq(Value) /\ Len(kept) \in Nat /\ Len(kept) <= Len(outs)
  BY UnlistedPicks, UnlistedShort
<1>2. Listed(kept) = Listed(outs) \ {Bad, NilV}
  BY UnlistedElements
<1> HIDE DEF kept
<1>3. \A i \in 1 .. Len(kept) : kept[i] # NilV /\ \E j \in 1 .. Len(outs) : kept[i] = outs[j]
  BY <1>2 DEF Listed
<1>4. \A i \in 1 .. Len(kept) : kept[i] \in T \ {NilV}
  BY <1>3
<1>5. kept = [i \in 1 .. Len(kept) |-> kept[i]]
  BY <1>1
<1>6. kept \in Seq(T \ {NilV})
  BY <1>1, <1>4, <1>5
<1>7. QED
  BY <1>1, <1>3, <1>6 DEF kept

LEMMA ListStep ==
    ASSUME NEW h \in 1 .. MAX_DEPTH, ExactAt(h - 1), NEW x, NEW all, Asked(h, x, all),
           x.node \in ListNode(Built[h - 1])
    PROVE  ToldAt(h, x, all)
<1> DEFINE n == x.node
           v == x.value
           p == x.path
           g == h - 1
           parts == Items(n, v)
           m == Len(v.seq)
           end == Each(check[g], x, parts)
           faults == FaultsOf(Faults[g], parts, p)
           r == Checked(check[g], x)
<1>1. n.k = "list" /\ n.item \in Built[g]
  BY DEF ListNode
<1>2. /\ v \in Value /\ p \in Path /\ x.depth \in Nat /\ ~(x.depth > MAX_DEPTH)
      /\ g \in 0 .. MAX_DEPTH /\ (x.depth + 1) + g <= MAX_DEPTH
      /\ all \in Seq(Path) /\ Len(all) <= MAX_ISSUES /\ x.cx = Reach(all)
  BY AskedIs, LimitsAssumption DEF Asked
<1>3. r = check_list(check[g], x)
  BY <1>1, <1>2 DEF Checked
<1>4. check[h][x] = r /\ FaultsIn(h, n, v, p) = NodeFaults(Faults[g], n, v, p)
  BY AskedIs
<1>5. NodeFaults(Faults[g], n, v, p) = IF ~ListFits(n, v) THEN <<p>> ELSE faults
  BY <1>1 DEF NodeFaults
<1>6. CASE ~ListFits(n, v)
  <2>1. r = Failing(Reach(all), p) /\ FaultsIn(h, n, v, p) = <<p>>
    BY <1>2, <1>3, <1>4, <1>5, <1>6 DEF check_list
  <2>2. Failing(Reach(all), p).out = Bad
    BY DEF Failing
  <2>3. QED
    BY <1>2, <1>4, <2>1, <2>2, FailingOutcome DEF ToldAt, Told
<1>7. CASE ListFits(n, v)
  <2>1. v.t = "table" /\ v.seq \in Seq(Value) /\ m \in Nat
    BY <1>2, <1>7, PartsIn DEF ListFits
  <2>2. parts \in Seq(PartsOf(g)) /\ Len(parts) = m
    <3>1. ASSUME NEW i \in 1 .. m
          PROVE  Part([index |-> i], n.item, v.seq[i]) \in PartsOf(g)
      BY <1>1, <2>1 DEF Part, PartsOf, Step
    <3>2. QED
      BY <2>1, <3>1 DEF Items
  <2>3. \A i \in 1 .. m : parts[i].node = n.item /\ parts[i].value = v.seq[i]
    BY DEF Items, Part
  <2> HIDE DEF parts
  <2>4. AfterTurns(end, faults, g, parts, all, m)
    BY <1>2, <2>2, EachTold
  <2>5. r = IF Clean(end.cx, x.cx)
            THEN Passing(end.cx, Tab(Unlisted(end.outs, {Bad, NilV}), NoKeys))
            ELSE [cx |-> end.cx, out |-> Bad]
    BY <1>3, <1>7 DEF check_list, parts
  <2>6. FaultsIn(h, n, v, p) = faults
    BY <1>4, <1>5, <1>7
  <2> HIDE DEF end, faults, r
  <2>7. faults \in Seq(Path) /\ end.cx = Reach(all \o faults)
    BY <2>4 DEF AfterTurns
  <2>8. Clean(end.cx, x.cx) <=> faults = <<>>
    BY <1>2, <2>7, ReachClean
  <2>9. r.cx = Reach(all \o faults)
    BY <2>5, <2>7 DEF Passing
  <2>10. CASE faults # <<>>
    <3>1. r.out = Bad
      BY <2>5, <2>8, <2>10
    <3>2. QED
      BY <1>4, <2>6, <2>7, <2>9, <2>10, <3>1 DEF ToldAt, Told, Outcome
  <2>11. CASE faults = <<>>
    <3> DEFINE outs == end.outs
               kept == Unlisted(outs, {Bad, NilV})
               out == Tab(kept, NoKeys)
    <3>1. /\ outs \in Seq(Value) /\ Len(outs) = m
          /\ \A j \in 1 .. m : Holds(g, parts[j], outs[j])
      BY <2>4, <2>11 DEF AfterTurns
    <3>2. \A j \in 1 .. m : Stands(g, n.item, v.seq[j], outs[j])
      BY <2>3, <3>1 DEF Holds
    <3>3. r.out = out /\ out # Bad
      BY <2>5, <2>8, <2>11 DEF Passing, Tab, Bad
    <3>4. ASSUME NEW d \in 0 .. MAX_NEST, v \in Values[d]
          PROVE  out \in Values[d]
      <4>1. d # 0 /\ d - 1 \in 0 .. MAX_NEST /\ v.seq \in Seq(Values[d - 1] \ {NilV})
        BY <2>1, <3>4, TableParts
      <4>2. \A j \in 1 .. m : v.seq[j] \in Values[d - 1]
        BY <4>1
      <4>3. \A j \in 1 .. Len(outs) : outs[j] \in Values[d - 1]
        BY <3>1, <3>2, <4>1, <4>2 DEF Stands
      <4>4. kept \in Seq(Values[d - 1] \ {NilV})
        BY <3>1, <4>3, KeptItems
      <4>5. NoKeys \in [Names -> Values[d - 1]]
        BY <4>1, NilIn
      <4> HIDE DEF kept
      <4>6. QED
        BY <4>1, <4>4, <4>5, TableMade
    <3>5. /\ Len(kept) \in Nat /\ Len(kept) <= m
          /\ \A i \in 1 .. Len(kept) : \E j \in 1 .. m : kept[i] = outs[j]
      <4>1. \A j \in 1 .. Len(outs) : outs[j] \in Value
        BY <3>1
      <4>2. QED
        BY <3>1, <4>1, KeptItems
    <3> HIDE DEF kept
    <3>6. out.t = "table" /\ out.keys = NoKeys /\ out.seq = kept
      BY DEF Tab
    <3> HIDE DEF out
    <3>7. n.max_items # None => Len(kept) <= n.max_items
      <4>1. n.max_items # None => n.max_items \in Nat /\ m <= n.max_items
        BY <1>7 DEF ListFits, ListNode, Counts, Opt
      <4>2. QED
        BY <2>1, <3>5, <4>1
    <3>8. \A i \in 1 .. Len(kept) : Meets[g][[node |-> n.item, value |-> kept[i]]]
      BY <3>2, <3>5 DEF Stands
    <3>9. NodeMeets(Meets[g], n, out)
      BY <1>1, <3>6, <3>7, <3>8 DEF NodeMeets
    <3>10. Stands(h, n, v, out)
      BY <3>4, <3>9, StandsWhen
    <3>11. QED
      BY <1>4, <2>6, <2>7, <2>9, <2>11, <3>3, <3>10 DEF ToldAt, Told, Outcome
  <2>12. QED
    BY <2>10, <2>11
<1>8. QED
  BY <1>6, <1>7

(* The results of the fields are each under its own name.                   *)
LEMMA NamedIs ==
    ASSUME NEW fields, NEW outs, NEW m \in Nat, Len(fields) = m,
           \A i, j \in 1 .. m : fields[i].name = fields[j].name => i = j,
           \A i \in 1 .. m : fields[i].name \in Names
    PROVE  /\ \A i \in 1 .. m : Named(fields, outs)[fields[i].name] = outs[i]
           /\ \A k \in Names : (\A i \in 1 .. m : fields[i].name # k) => Named(fields, outs)[k] = NilV
           /\ \A S : NilV \in S /\ (\A i \in 1 .. m : outs[i] \in S) => Named(fields, outs) \in [Names -> S]
<1> DEFINE At(k) == CHOOSE i \in 1 .. Len(fields) : fields[i].name = k
           keys == Named(fields, outs)
<1>1. \A k \in Names : keys[k] = IF \E i \in 1 .. m : fields[i].name = k THEN outs[At(k)] ELSE NilV
  BY DEF Named
<1>2. keys = [k \in Names |-> keys[k]]
  BY DEF Named
<1>3. \A k \in Names : (\E i \in 1 .. m : fields[i].name = k) => At(k) \in 1 .. m /\ fields[At(k)].name = k
  OBVIOUS
<1>4. \A i \in 1 .. m : At(fields[i].name) = i
  BY <1>3
<1> HIDE DEF At, keys
<1>5. \A i \in 1 .. m : keys[fields[i].name] = outs[i]
  BY <1>1, <1>4
<1>6. \A k \in Names : (\A i \in 1 .. m : fields[i].name # k) => keys[k] = NilV
  BY <1>1
<1>7. ASSUME NEW S, NilV \in S, \A i \in 1 .. m : outs[i] \in S
      PROVE  keys \in [Names -> S]
  <2>1. \A k \in Names : keys[k] \in S
    BY <1>1, <1>3, <1>7
  <2>2. QED
    BY <1>2, <2>1
<1>8. QED
  BY <1>5, <1>6, <1>7 DEF keys

LEMMA ObjectParts ==
    ASSUME NEW g \in 0 .. MAX_DEPTH, NEW n \in ObjectNode(Built[g]), NEW v \in Value, v.t = "table"
    PROVE  /\ n.k = "object" /\ n.strict \in BOOLEAN /\ Len(n.fields) \in Nat
           /\ \A i, j \in 1 .. Len(n.fields) : n.fields[i].name = n.fields[j].name => i = j
           /\ \A i \in 1 .. Len(n.fields) :
                /\ n.fields[i].name \in Names
                /\ Fields(n, v)[i].node = n.fields[i].node
                /\ Fields(n, v)[i].value = AbsentIfNull(n.fields[i].node, v.keys[n.fields[i].name])
           /\ Fields(n, v) \in Seq(PartsOf(g)) /\ Len(Fields(n, v)) = Len(n.fields)
<1> DEFINE m == Len(n.fields)
           f(i) == n.fields[i]
           part(i) == Part([key |-> f(i).name], f(i).node, AbsentIfNull(f(i).node, v.keys[f(i).name]))
<1>1. /\ n.k = "object" /\ n.strict \in BOOLEAN /\ n.fields \in Seq([name : Names, node : Built[g]])
      /\ \A i, j \in 1 .. m : f(i).name = f(j).name => i = j
  BY DEF ObjectNode
<1>2. m \in Nat /\ \A i \in 1 .. m : f(i).name \in Names /\ f(i).node \in Built[g]
  <2>1. m \in Nat
    BY <1>1
  <2>2. ASSUME NEW i \in 1 .. m
        PROVE  f(i) \in [name : Names, node : Built[g]]
    BY <1>1, ElementOfSeq
  <2>3. QED
    BY <2>1, <2>2
<1>3. v.keys \in [Names -> Value] /\ MAX_NEST \in 0 .. MAX_NEST
  BY PartsIn, LimitsAssumption
<1>4. ASSUME NEW i \in 1 .. m
      PROVE  part(i) \in PartsOf(g)
  <2>1. v.keys[f(i).name] \in Values[MAX_NEST]
    BY <1>2, <1>3 DEF Value
  <2>2. AbsentIfNull(f(i).node, v.keys[f(i).name]) \in Value
    BY <1>3, <2>1, AbsentIn DEF Value
  <2>3. QED
    BY <1>2, <2>2 DEF Part, PartsOf, Step
<1>5. Fields(n, v) = [i \in 1 .. m |-> part(i)]
  BY DEF Fields
<1>6. \A i \in 1 .. m : part(i).node = f(i).node /\ part(i).value = AbsentIfNull(f(i).node, v.keys[f(i).name])
  BY DEF Part
<1> HIDE DEF part
<1>7. Fields(n, v) \in Seq(PartsOf(g)) /\ Len(Fields(n, v)) = m
  BY <1>2, <1>4, <1>5
<1>8. \A i \in 1 .. m : Fields(n, v)[i] = part(i)
  BY <1>5
<1>9. QED
  BY <1>1, <1>2, <1>6, <1>7, <1>8

LEMMA ObjectStep ==
    ASSUME NEW h \in 1 .. MAX_DEPTH, ExactAt(h - 1), NEW x, NEW all, Asked(h, x, all),
           x.node \in ObjectNode(Built[h - 1])
    PROVE  ToldAt(h, x, all)
<1> DEFINE n == x.node
           v == x.value
           p == x.path
           g == h - 1
           parts == Fields(n, v)
           m == Len(n.fields)
           end == Each(check[g], x, parts)
           faults == FaultsOf(Faults[g], parts, p)
           others == UnknownFaults(n, v, p)
           both == faults \o others
           last == IF n.strict THEN reject_unknown_keys(end.cx, p, UnknownKeys(n, v)) ELSE end.cx
           r == Checked(check[g], x)
<1>1. n.k = "object"
  BY DEF ObjectNode
<1>2. /\ v \in Value /\ p \in Path /\ x.depth \in Nat /\ ~(x.depth > MAX_DEPTH)
      /\ g \in 0 .. MAX_DEPTH /\ (x.depth + 1) + g <= MAX_DEPTH
      /\ all \in Seq(Path) /\ Len(all) <= MAX_ISSUES /\ x.cx = Reach(all)
  BY AskedIs, LimitsAssumption DEF Asked
<1>3. r = check_object(check[g], x)
  BY <1>1, <1>2 DEF Checked
<1>4. check[h][x] = r /\ FaultsIn(h, n, v, p) = NodeFaults(Faults[g], n, v, p)
  BY AskedIs
<1>5. NodeFaults(Faults[g], n, v, p) = IF v.t # "table" THEN <<p>> ELSE both
  BY <1>1 DEF NodeFaults
<1>6. CASE v.t # "table"
  <2>1. r = Failing(Reach(all), p) /\ FaultsIn(h, n, v, p) = <<p>>
    BY <1>2, <1>3, <1>4, <1>5, <1>6 DEF check_object
  <2>2. Failing(Reach(all), p).out = Bad
    BY DEF Failing
  <2>3. QED
    BY <1>2, <1>4, <2>1, <2>2, FailingOutcome DEF ToldAt, Told
<1>7. CASE v.t = "table"
  <2>1. /\ n.strict \in BOOLEAN /\ m \in Nat /\ parts \in Seq(PartsOf(g)) /\ Len(parts) = m
        /\ \A i, j \in 1 .. m : n.fields[i].name = n.fields[j].name => i = j
        /\ \A i \in 1 .. m :
             /\ n.fields[i].name \in Names
             /\ parts[i].node = n.fields[i].node
             /\ parts[i].value = AbsentIfNull(n.fields[i].node, v.keys[n.fields[i].name])
    BY <1>2, <1>7, ObjectParts
  <2>2. AfterTurns(end, faults, g, parts, all, m)
    BY <1>2, <2>1, EachTold
  <2>3. r = IF Clean(last, x.cx)
            THEN Passing(last, Tab(<<>>, Named(n.fields, end.outs)))
            ELSE [cx |-> last, out |-> Bad]
    BY <1>3, <1>7 DEF check_object
  <2>4. FaultsIn(h, n, v, p) = both
    BY <1>4, <1>5, <1>7
  <2> HIDE DEF parts, end, faults, r
  <2>5. faults \in Seq(Path) /\ end.cx = Reach(all \o faults)
    BY <2>2 DEF AfterTurns
  <2>6. all \o faults \in Seq(Path)
    BY <1>2, <2>5, ConcatProperties
  <2>7. others \in Seq(Path) /\ last = Reach((all \o faults) \o others)
    <3>1. CASE n.strict = TRUE
      <4> DEFINE keys == UnknownKeys(n, v)
      <4>1. Len(v.seq) \in Nat
        BY <1>2, <1>7, PartsIn
      <4>2. keys \in Seq(Step)
        BY <4>1, UnknownSteps
      <4>3. others = KeyPaths(p, keys, Len(keys)) /\ last = reject_unknown_keys(end.cx, p, keys)
        BY <3>1 DEF UnknownFaults, KeyPaths
      <4> HIDE DEF keys, others, last
      <4>4. QED
        BY <1>2, <2>5, <2>6, <4>2, <4>3, RejectTold
    <3>2. CASE n.strict = FALSE
      <4>1. others = <<>> /\ last = end.cx
        BY <3>2 DEF UnknownFaults
      <4>2. (all \o faults) \o <<>> = all \o faults /\ <<>> \in Seq(Path)
        BY <2>6, ConcatEmptySeq
      <4> HIDE DEF others, last
      <4>3. QED
        BY <2>5, <4>1, <4>2
    <3>3. QED
      BY <2>1, <3>1, <3>2
  <2> HIDE DEF others, last
  <2>8. both \in Seq(Path) /\ (both = <<>> <=> faults = <<>> /\ others = <<>>)
    BY <2>5, <2>7, ConcatProperties, ConcatEqualIffEmpty
  <2>9. last = Reach(all \o both)
    <3>1. (all \o faults) \o others = all \o (faults \o others)
      BY <1>2, <2>5, <2>7, PathsJoin, Zenon
    <3>2. QED
      BY <2>7, <3>1
  <2> HIDE DEF both
  <2>10. Clean(last, x.cx) <=> both = <<>>
    BY <1>2, <2>8, <2>9, ReachClean
  <2>11. r.cx = Reach(all \o both)
    BY <2>3, <2>9 DEF Passing
  <2>12. CASE both # <<>>
    <3>1. r.out = Bad
      BY <2>3, <2>10, <2>12
    <3>2. QED
      BY <1>4, <2>4, <2>8, <2>11, <2>12, <3>1 DEF ToldAt, Told, Outcome
  <2>13. CASE both = <<>>
    <3> DEFINE outs == end.outs
               keys == Named(n.fields, outs)
               out == Tab(<<>>, keys)
    <3>1. faults = <<>> /\ \A j \in 1 .. m : Holds(g, parts[j], outs[j])
      BY <2>2, <2>8, <2>13 DEF AfterTurns
    <3>2. \A j \in 1 .. m : Stands(g, parts[j].node, parts[j].value, outs[j])
      BY <3>1 DEF Holds
    <3>3. r.out = out /\ out # Bad
      BY <2>3, <2>10, <2>13 DEF Passing, Tab, Bad
    <3>4. /\ \A i \in 1 .. m : keys[n.fields[i].name] = outs[i]
          /\ \A k \in Names : (\A i \in 1 .. m : n.fields[i].name # k) => keys[k] = NilV
          /\ \A S : NilV \in S /\ (\A i \in 1 .. m : outs[i] \in S) => keys \in [Names -> S]
      BY <2>1, NamedIs
    <3>5. ASSUME NEW d \in 0 .. MAX_NEST, v \in Values[d]
          PROVE  out \in Values[d]
      <4>1. d # 0 /\ d - 1 \in 0 .. MAX_NEST /\ v.keys \in [Names -> Values[d - 1]]
        BY <1>7, <3>5, TableParts
      <4>2. ASSUME NEW j \in 1 .. m
            PROVE  parts[j].value \in Values[d - 1]
        <5>1. v.keys[n.fields[j].name] \in Values[d - 1]
          BY <2>1, <4>1
        <5>2. AbsentIfNull(n.fields[j].node, v.keys[n.fields[j].name]) \in Values[d - 1]
          BY <4>1, <5>1, AbsentIn
        <5>3. QED
          BY <2>1, <5>2
      <4>3. \A j \in 1 .. m : outs[j] \in Values[d - 1]
        BY <3>2, <4>1, <4>2 DEF Stands
      <4>4. NilV \in Values[d - 1]
        BY <4>1, NilIn
      <4>5. keys \in [Names -> Values[d - 1]]
        BY <3>4, <4>3, <4>4
      <4>6. <<>> \in Seq(Values[d - 1] \ {NilV})
        OBVIOUS
      <4> HIDE DEF keys
      <4>7. QED
        BY <4>1, <4>5, <4>6, TableMade
    <3> HIDE DEF keys
    <3>6. out.t = "table" /\ out.keys = keys /\ out.seq = <<>>
      BY DEF Tab
    <3> HIDE DEF out
    <3>7. \A k \in Names \ FieldNames(n) : keys[k] = NilV
      BY <3>4 DEF FieldNames
    <3>8. \A i \in 1 .. m : Meets[g][[node |-> n.fields[i].node, value |-> keys[n.fields[i].name]]]
      BY <2>1, <3>2, <3>4 DEF Stands
    <3>9. NodeMeets(Meets[g], n, out)
      BY <1>1, <3>6, <3>7, <3>8 DEF NodeMeets
    <3>10. Stands(h, n, v, out)
      BY <3>5, <3>9, StandsWhen
    <3>11. QED
      BY <1>4, <2>4, <2>8, <2>11, <2>13, <3>3, <3>10 DEF ToldAt, Told, Outcome
  <2>14. QED
    BY <2>12, <2>13
<1>8. QED
  BY <1>6, <1>7

LEMMA HeightStep ==
    ASSUME NEW h \in 1 .. MAX_DEPTH, ExactAt(h - 1)
    PROVE  ExactAt(h)
<1> SUFFICES ASSUME NEW x \in Call(h), NEW all \in Seq(Path),
                    x.cx = Reach(all), Len(all) <= MAX_ISSUES, x.depth + h <= MAX_DEPTH
             PROVE  ToldAt(h, x, all)
  BY DEF ExactAt, ToldAt
<1>1. Asked(h, x, all)
  BY DEF Asked
<1>2. x.node \in Built[h]
  BY DEF Call
<1>3. h \in 0 .. MAX_DEPTH /\ h # 0
  BY LimitsAssumption
<1>4. x.node \in Leaf \cup OptionalNode(Built[h - 1]) \cup ListNode(Built[h - 1]) \cup ObjectNode(Built[h - 1])
  BY <1>2, <1>3, BuiltAre
<1>5. CASE x.node \in Leaf
  BY <1>1, <1>5, LeafStep
<1>6. CASE x.node \in OptionalNode(Built[h - 1])
  BY <1>1, <1>6, OptionalStep
<1>7. CASE x.node \in ListNode(Built[h - 1])
  BY <1>1, <1>7, ListStep
<1>8. CASE x.node \in ObjectNode(Built[h - 1])
  BY <1>1, <1>8, ObjectStep
<1>9. QED
  BY <1>4, <1>5, <1>6, <1>7, <1>8

LEMMA AllExact == ExactAt(MAX_DEPTH)
<1> DEFINE N == {h \in Nat : h <= MAX_DEPTH => ExactAt(h)}
<1>1. MAX_DEPTH \in Nat
  BY LimitsAssumption
<1>2. 0 \in N
  <2>1. 0 \in 0 .. MAX_DEPTH
    BY <1>1
  <2>2. Built[0] = {}
    BY <2>1, BuiltAre
  <2>3. Call(0) = {}
    BY <2>2 DEF Call
  <2>4. ExactAt(0)
    BY <2>3 DEF ExactAt
  <2>5. QED
    BY <2>4
<1>3. ASSUME NEW h \in Nat, h \in N
      PROVE  h + 1 \in N
  <2> SUFFICES ASSUME h + 1 <= MAX_DEPTH
               PROVE  ExactAt(h + 1)
    OBVIOUS
  <2>1. h + 1 \in 1 .. MAX_DEPTH /\ (h + 1) - 1 = h /\ h <= MAX_DEPTH
    BY <1>1
  <2>2. ExactAt((h + 1) - 1)
    BY <1>3, <2>1
  <2>3. QED
    BY <2>1, <2>2, HeightStep
<1> HIDE DEF N
<1>4. MAX_DEPTH \in N
  BY <1>1, <1>2, <1>3, Inductive
<1>5. QED
  BY <1>1, <1>4 DEF N

LEMMA Exactly ==
    ASSUME NEW n, Constructs(n), NEW v \in Value
    PROVE  EveryFaultTold(n, v) /\ ResultMeetsSchema(n, v)
<1> DEFINE h == MAX_DEPTH
           u == AbsentIfNull(n, v)
           x == [cx |-> Start, node |-> n, value |-> u, path |-> <<>>, depth |-> 0]
           r == check[h][x]
           faults == FaultsIn(h, n, u, <<>>)
<1>1. h \in Nat /\ MAX_NEST \in 0 .. MAX_NEST
  BY LimitsAssumption
<1>2. u \in Value
  BY <1>1, AbsentIn DEF Value
<1>3. <<>> \in Seq(Path) /\ <<>> \in Path /\ Len(<<>>) <= MAX_ISSUES
  BY LimitsAssumption DEF Path
<1>4. Start = Reach(<<>>) /\ Start \in Context
  BY <1>3, ReachStart, ReachIs
<1> HIDE DEF u
<1>5. /\ x \in Call(h) /\ x.cx = Reach(<<>>) /\ x.node = n /\ x.value = u /\ x.path = <<>>
      /\ x.depth + h <= MAX_DEPTH
  BY <1>1, <1>2, <1>3, <1>4 DEF Call, Constructs
<1>6. /\ try(n, v).ok = (r.out # Bad /\ r.cx.issues = <<>>)
      /\ try(n, v).value = r.out
      /\ try(n, v).issues = r.cx.issues
      /\ try(n, v).truncated = r.cx.truncated
  BY DEF try, u
<1> HIDE DEF x
<1>7. Told(r, h, n, u, <<>>, <<>>)
  BY <1>3, <1>5, AllExact DEF ExactAt
<1> HIDE DEF r
<1>8. /\ faults \in Seq(Path) /\ r.cx = Reach(<<>> \o faults) /\ (r.out = Bad <=> faults # <<>>)
      /\ r.out # Bad => Meets[h][[node |-> n, value |-> r.out]]
  BY <1>7 DEF Told, Outcome, Stands
<1> HIDE DEF faults
<1>9. r.cx = Reach(faults)
  <2>1. <<>> \o faults = faults
    BY <1>8, ConcatEmptySeq
  <2>2. QED
    BY <1>8, <2>1
<1>10. r.cx.issues = SubSeq(faults, 1, Kept(faults)) /\ r.cx.truncated = (Len(faults) > MAX_ISSUES)
  <2>1. r.cx.truncated = (Len(faults) > MAX_ISSUES)
    BY <1>8, <1>9, ReachIs
  <2>2. Reach(faults).issues = SubSeq(faults, 1, Kept(faults))
    BY DEF Reach
  <2>3. QED
    BY <1>9, <2>1, <2>2
<1>11. faults = <<>> => r.cx.issues = <<>>
  BY <1>4, <1>9 DEF Start
<1>12. try(n, v).ok = (faults = <<>>)
  BY <1>6, <1>8, <1>11
<1>13. EveryFaultTold(n, v)
  BY <1>6, <1>10, <1>12 DEF EveryFaultTold, FaultsIn, faults, u, Kept
<1>14. ResultMeetsSchema(n, v)
  BY <1>6, <1>8 DEF ResultMeetsSchema
<1>15. QED
  BY <1>13, <1>14

-----------------------------------------------------------------------------
(* The behaviors of Algorithms: the case at hand is one of its algorithm's. *)

CaseInv == of # "none" => of \in DOMAIN Cases /\ case \in Cases[of]

LEMMA CaseInvAlways == Spec => []CaseInv
<1>1. Init => CaseInv
  BY DEF Init, CaseInv
<1>2. CaseInv /\ [Next]_algorithmVars => CaseInv'
  BY DEF CaseInv, Next, Take, Leave, algorithmVars
<1>3. QED
  BY <1>1, <1>2, PTL DEF Spec

(* Whatever routes an app registers, in whatever order, the route a        *)
(* request gets is the one that is more specific than every other that     *)
(* answers it, and a request that some route answers gets one              *)
(* (serve.rs:839).                                                         *)
THEOREM RoutesUnique == Spec => []RouteUnique
<1>1. CaseInv => RouteUnique
  <2> SUFFICES ASSUME CaseInv, of = "routes", NEW method \in Methods, NEW req \in Requests
               PROVE  MostSpecificWins(case, method, req)
    BY DEF RouteUnique
  <2>1. case \in Cases.routes
    BY DEF CaseInv
  <2>2. Routes(case, STRING)
    BY <2>1, CasesAssumption DEF Routes
  <2>3. req \in Seq(STRING)
    BY RequestsAssumption
  <2>4. QED
    BY <2>2, <2>3, MostSpecificAlways
<1>2. QED
  BY <1>1, CaseInvAlways, PTL

(* Every address there is, not only those the run tries, is refused        *)
(* exactly if it or the IPv4 address it embeds is in a listed range        *)
(* (policy.rs:242-266).                                                    *)
THEOREM AddressesAsListed == Spec => []RefusedAsListed
<1>1. CaseInv => RefusedAsListed
  <2> SUFFICES ASSUME CaseInv, of = "address" PROVE AsListed(case)
    BY DEF RefusedAsListed
  <2>1. case \in Cases.address
    BY DEF CaseInv
  <2>2. case \in V4Address \cup V6Address
    BY <2>1, CasesAssumption
  <2>3. QED
    BY <2>2, EveryAddressListed
<1>2. QED
  BY <1>1, CaseInvAlways, PTL

(* Whatever is bound to a statement reads back as the same value, on both  *)
(* backends and for any width of the integers: the edge of the range is    *)
(* neither cut off nor turned into its neighbour (sqlite.rs:164-199,       *)
(* postgres.rs:55-128).                                                    *)
THEOREM ReadsBackAlwaysSame == Spec => []ReadsBackSame
<1>1. CaseInv => ReadsBackSame
  <2> SUFFICES ASSUME CaseInv, of = "bind" PROVE ReadsBack(case)
    BY DEF ReadsBackSame
  <2>1. case \in Cases.bind
    BY DEF CaseInv
  <2>2. case \in LuaValue
    BY <2>1, CasesAssumption
  <2>3. QED
    BY <2>2, ValuesReadBack
<1>2. QED
  BY <1>1, CaseInvAlways, PTL

(* On a row that both backends can keep, a statement leaves the same row   *)
(* and answers the same on SQLite and on Postgres, whatever its arguments  *)
(* and its instant, short of a sum that overflows (kv.rs:7-9).             *)
THEOREM BackendsAlwaysAgree == Spec => []BackendsAgree
<1>1. CaseInv => BackendsAgree
  <2> SUFFICES ASSUME CaseInv, of = "statement" PROVE SameOnBoth(case.row, case.op, case.at)
    BY DEF BackendsAgree
  <2>1. case \in Cases.statement
    BY DEF CaseInv
  <2>2. case \in [row : SharedRow, op : Given, at : Nat]
    BY <2>1, CasesAssumption
  <2>3. case.row \in SharedRow /\ case.op \in Given /\ case.at \in Nat
    BY <2>2
  <2>4. QED
    BY <2>3, BackendsSame
<1>2. QED
  BY <1>1, CaseInvAlways, PTL

(* Whatever a handler does to read its body, and in whatever order, it is  *)
(* given each byte once and never a part of the body as the whole; and     *)
(* whatever fields a query or a form has, every value reaches the          *)
(* validator (serve.rs:1090-1110, 1301-1303).                              *)
THEOREM RequestsWhole == Spec => []RequestWhole
<1>1. CaseInv => RequestWhole
  <2> SUFFICES ASSUME CaseInv
               PROVE  /\ of = "read" => BodyReadOnce(case.body, case.ops)
                      /\ of = "feed" => EveryValueFed(case.pairs, case.lists)
    BY DEF RequestWhole
  <2>1. ASSUME of = "read" PROVE BodyReadOnce(case.body, case.ops)
    <3>1. case \in Cases.read
      BY <2>1 DEF CaseInv
    <3>2. case \in [body : Seq(Bytes), ops : Seq(ReadOp)]
      BY <3>1, CasesAssumption
    <3>3. case.body \in Seq(Bytes) /\ case.ops \in Seq(ReadOp)
      BY <3>2
    <3>4. QED
      BY <3>3, BodyOnce
  <2>2. ASSUME of = "feed" PROVE EveryValueFed(case.pairs, case.lists)
    <3>1. case \in Cases.feed
      BY <2>2 DEF CaseInv
    <3>2. case.pairs \in Seq(Pairs)
      BY <3>1, CasesAssumption DEF Pairs
    <3>3. QED
      BY <3>2, FieldsFed
  <2>3. QED
    BY <2>1, <2>2
<1>2. QED
  BY <1>1, CaseInvAlways, PTL

(* Whatever pairs a replacer has, in either mode, and whatever the text,   *)
(* the trie with its pruning and the loop with its two marks make one pass *)
(* that takes the pair the README names at every place, and the loop ends  *)
(* (text.rs:178-258).                                                      *)
THEOREM ReplacesInOnePassAlways == Spec => []ReplacesInOnePass
<1>1. CaseInv => ReplacesInOnePass
  <2> SUFFICES ASSUME CaseInv, of = "replace"
               PROVE  InOnePass(case.olds, case.news, case.mode, case.text)
    BY DEF ReplacesInOnePass
  <2>1. case \in Cases.replace
    BY DEF CaseInv
  <2>2. Replacing(case)
    BY <2>1, CasesAssumption DEF Replacing, Olds
  <2>3. QED
    BY <2>2, ReplacedInOnePass
<1>2. QED
  BY <1>1, CaseInvAlways, PTL

(* Whatever schema the constructors accept and whatever the value, try      *)
(* tells of exactly the faults there are, in their order and up to the      *)
(* limit, says when there were more, never finds a schema too deep, and     *)
(* what it returns meets the schema (validate.rs:9-17).                     *)
THEOREM ChecksAlwaysExact == Spec => []ChecksExact
<1>1. CaseInv => ChecksExact
  <2> SUFFICES ASSUME CaseInv, of = "check", Constructs(case.node)
               PROVE  EveryFaultTold(case.node, case.value) /\ ResultMeetsSchema(case.node, case.value)
    BY DEF ChecksExact
  <2>1. case \in Cases.check
    BY DEF CaseInv
  <2>2. case.value \in Value
    BY <2>1, CasesAssumption
  <2>3. QED
    BY <2>2, Exactly
<1>2. QED
  BY <1>1, CaseInvAlways, PTL
=============================================================================
