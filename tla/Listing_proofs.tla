--------------------------- MODULE Listing_proofs ---------------------------
(***************************************************************************)
(* Facts about lists and sums.  The least-element principle takes the      *)
(* place of an induction rule: what holds of 0, and of n + 1 when it holds *)
(* of n, is stated as a set of numbers.                                    *)
(***************************************************************************)
EXTENDS Listing, FiniteSetTheorems, WellFoundedInduction, TLAPS

(* Every set of natural numbers has a least element. *)
LEMMA LeastNumber ==
    ASSUME NEW S, S \subseteq Nat, S # {}
    PROVE  \E n \in S : \A m \in S : n <= m
<1> DEFINE R == OpToRel(<, Nat)
<1>1. PICK n \in S : \A m \in S : ~(<<m, n>> \in R)
  BY WFMin, NatLessThanWellFounded
<1>2. \A m \in S : ~(m < n)
  BY <1>1 DEF OpToRel
<1> HIDE DEF R
<1>3. \A m \in S : n <= m
  BY <1>2
<1> QED BY <1>3

(* Induction, for the numbers of a set. *)
LEMMA Inductive ==
    ASSUME NEW S, 0 \in S, \A n \in Nat : n \in S => n + 1 \in S
    PROVE  \A n \in Nat : n \in S
<1> DEFINE Out == {n \in Nat : n \notin S}
<1>1. SUFFICES ASSUME Out # {} PROVE FALSE
  OBVIOUS
<1>2. PICK n \in Out : \A m \in Out : n <= m
  BY <1>1, LeastNumber
<1>3. n - 1 \in Nat /\ n - 1 \in S
  BY <1>2
<1>4. QED
  BY <1>2, <1>3

(* Induction, for the subsets of a finite set. *)
LEMMA FiniteInductive ==
    ASSUME NEW S, IsFiniteSet(S), NEW T, {} \in T,
           \A s \in SUBSET S : \A x \in S \ s : s \in T => s \cup {x} \in T
    PROVE  S \in T
<1> DEFINE N == {n \in Nat : \A s \in SUBSET S : Cardinality(s) = n => s \in T}
<1>1. \A s \in SUBSET S : IsFiniteSet(s) /\ Cardinality(s) \in Nat
  BY FS_Subset, FS_CardinalityType
<1>2. 0 \in N
  BY <1>1, FS_EmptySet
<1>3. ASSUME NEW n \in Nat, n \in N
      PROVE  n + 1 \in N
  <2> SUFFICES ASSUME NEW s \in SUBSET S, Cardinality(s) = n + 1
               PROVE  s \in T
    OBVIOUS
  <2>1. s # {}
    <3>1. Cardinality({}) = 0
      BY FS_EmptySet
    <3>2. n + 1 # 0
      OBVIOUS
    <3>3. QED
      BY <3>1, <3>2
  <2>2. PICK x : x \in s
    BY <2>1
  <2>3. Cardinality(s \ {x}) = n
    <3>1. IsFiniteSet(s)
      BY <1>1
    <3>2. Cardinality(s \ {x}) = Cardinality(s) - 1
      BY <2>2, <3>1, FS_RemoveElement
    <3>3. QED
      BY <3>2
  <2>4. s \ {x} \in T
    BY <1>3, <2>3
  <2>5. (s \ {x}) \cup {x} \in T
    BY <2>2, <2>4
  <2>6. (s \ {x}) \cup {x} = s
    BY <2>2
  <2>7. QED
    BY <2>5, <2>6
<1> HIDE DEF N
<1>4. Cardinality(S) \in N
  BY <1>1, <1>2, <1>3, Inductive
<1>5. QED
  BY <1>1, <1>4 DEF N

-----------------------------------------------------------------------------
(* A function defined by its value at 0 and, at each i, from the one before *)
(* exists where a step G[i] leads from T to T; and what holds of the first  *)
(* value and is kept from each to the next holds of all.                    *)
Iterates(f, a, G, n) == f = [i \in 0 .. n |-> IF i = 0 THEN a ELSE G[i][f[i - 1]]]

LEMMA IterationExists ==
    ASSUME NEW T, NEW a \in T, NEW n \in Nat, NEW G \in [1 .. n -> [T -> T]]
    PROVE  \E f \in [0 .. n -> T] : Iterates(f, a, G, n)
<1> DEFINE N == {m \in Nat : m <= n => \E f \in [0 .. m -> T] : Iterates(f, a, G, m)}
<1>1. 0 \in N
  <2> DEFINE f == [i \in 0 .. 0 |-> a]
  <2>1. f \in [0 .. 0 -> T] /\ Iterates(f, a, G, 0)
    BY DEF Iterates
  <2>2. QED
    BY <2>1
<1>2. ASSUME NEW m \in Nat, m \in N
      PROVE  m + 1 \in N
  <2> SUFFICES ASSUME m + 1 <= n
               PROVE  \E f \in [0 .. m + 1 -> T] : Iterates(f, a, G, m + 1)
    OBVIOUS
  <2>1. PICK f \in [0 .. m -> T] : Iterates(f, a, G, m)
    BY <1>2
  <2> DEFINE g == [i \in 0 .. m + 1 |-> IF i <= m THEN f[i] ELSE G[i][f[i - 1]]]
  <2>2. \A i \in 0 .. m : g[i] = f[i] /\ f[i] \in T
    OBVIOUS
  <2>3. G[m + 1][f[m]] \in T /\ g[m + 1] = G[m + 1][f[m]]
    OBVIOUS
  <2>4. g = [i \in 0 .. m + 1 |-> g[i]]
    OBVIOUS
  <2> HIDE DEF g
  <2>5. ASSUME NEW i \in 0 .. m + 1
        PROVE  g[i] = (IF i = 0 THEN a ELSE G[i][g[i - 1]]) /\ g[i] \in T
    <3>1. CASE i <= m
      <4>1. i \in 0 .. m /\ (i # 0 => i - 1 \in 0 .. m)
        BY <3>1
      <4>2. f[i] = IF i = 0 THEN a ELSE G[i][f[i - 1]]
        BY <2>1, <4>1 DEF Iterates
      <4>3. QED
        BY <2>2, <4>1, <4>2
    <3>2. CASE i = m + 1
      BY <2>2, <2>3, <3>2
    <3>3. QED
      BY <3>1, <3>2
  <2>6. Iterates(g, a, G, m + 1) /\ g \in [0 .. m + 1 -> T]
    BY <2>4, <2>5 DEF Iterates
  <2>7. QED
    BY <2>6
<1> HIDE DEF N
<1>3. n \in N
  BY <1>1, <1>2, Inductive
<1>4. QED
  BY <1>3 DEF N

LEMMA KeptAlong ==
    ASSUME NEW n \in Nat, NEW f, NEW S, f[0] \in S[0],
           \A i \in 1 .. n : f[i - 1] \in S[i - 1] => f[i] \in S[i]
    PROVE  \A i \in 0 .. n : f[i] \in S[i]
<1> DEFINE N == {m \in Nat : m <= n => f[m] \in S[m]}
<1>1. 0 \in N
  OBVIOUS
<1>2. ASSUME NEW m \in Nat, m \in N
      PROVE  m + 1 \in N
  <2>1. m + 1 <= n => m + 1 \in 1 .. n /\ (m + 1) - 1 = m
    OBVIOUS
  <2>2. QED
    BY <1>2, <2>1
<1> HIDE DEF N
<1>3. \A m \in Nat : m \in N
  BY <1>1, <1>2, Inductive
<1>4. QED
  BY <1>3 DEF N

-----------------------------------------------------------------------------
(* What Unlisted keeps of the first i elements, by what it keeps of fewer. *)
KeptOf(f, list, S, i) ==
    IF i = 0
    THEN <<>>
    ELSE IF list[i] \in S THEN f[i - 1] ELSE Append(f[i - 1], list[i])

Keeps(f, list, S, n) == f = [i \in 0 .. n |-> KeptOf(f, list, S, i)]

LEMMA KeepsExists ==
    ASSUME NEW list, NEW S, NEW n \in Nat
    PROVE  \E f : Keeps(f, list, S, n)
<1> DEFINE N == {m \in Nat : \E f : Keeps(f, list, S, m)}
<1>1. 0 \in N
  <2> DEFINE f == [i \in 0 .. 0 |-> <<>>]
  <2>1. Keeps(f, list, S, 0)
    BY DEF Keeps, KeptOf
  <2>2. QED
    BY <2>1
<1>2. ASSUME NEW m \in Nat, m \in N
      PROVE  m + 1 \in N
  <2>1. PICK f : Keeps(f, list, S, m)
    BY <1>2
  <2> DEFINE g == [i \in 0 .. m + 1 |-> IF i <= m THEN f[i] ELSE KeptOf(f, list, S, i)]
  <2>2. \A i \in 0 .. m : g[i] = f[i]
    OBVIOUS
  <2>3. ASSUME NEW i \in 0 .. m + 1
        PROVE  g[i] = KeptOf(f, list, S, i)
    <3>1. CASE i <= m
      <4>1. i \in 0 .. m
        BY <3>1
      <4> HIDE DEF g
      <4>2. QED
        BY <2>1, <2>2, <4>1 DEF Keeps
    <3>2. CASE i = m + 1
      BY <3>2
    <3>3. QED
      BY <3>1, <3>2
  <2>4. DOMAIN g = 0 .. m + 1 /\ g = [i \in 0 .. m + 1 |-> g[i]]
    OBVIOUS
  <2> HIDE DEF g
  <2>5. ASSUME NEW i \in 0 .. m + 1
        PROVE  KeptOf(f, list, S, i) = KeptOf(g, list, S, i)
    BY <2>2 DEF KeptOf
  <2>6. Keeps(g, list, S, m + 1)
    BY <2>3, <2>4, <2>5 DEF Keeps
  <2>7. QED
    BY <2>6
<1> HIDE DEF N
<1>3. n \in N
  BY <1>1, <1>2, Inductive
<1>4. QED
  BY <1>3 DEF N

LEMMA UnlistedKeeps ==
    ASSUME NEW list, NEW S, Len(list) \in Nat
    PROVE  \E f : Keeps(f, list, S, Len(list)) /\ Unlisted(list, S) = f[Len(list)]
<1> DEFINE f == CHOOSE g : Keeps(g, list, S, Len(list))
<1>1. Keeps(f, list, S, Len(list))
  BY KeepsExists
<1>2. Unlisted(list, S) = f[Len(list)]
  BY DEF Unlisted, Keeps, KeptOf
<1>3. QED
  BY <1>1, <1>2

(* e tells, of the n first elements of list, the places of those that are   *)
(* not in S; r is what stands there.                                        *)
Picks(e, r, list, S, n) ==
    /\ e \in [1 .. Len(r) -> 1 .. n]
    /\ \A j \in 1 .. Len(r) : r[j] = list[e[j]] /\ list[e[j]] \notin S
    /\ \A j, l \in 1 .. Len(r) : j < l => e[j] < e[l]
    /\ \A i \in 1 .. n : list[i] \notin S => \E j \in 1 .. Len(r) : e[j] = i

LEMMA PicksSkips ==
    ASSUME NEW X, NEW list, NEW S, NEW n \in Nat, NEW r \in Seq(X), NEW e,
           Picks(e, r, list, S, n), list[n + 1] \in S
    PROVE  Picks(e, r, list, S, n + 1)
<1>1. \A j \in 1 .. Len(r) : e[j] \in 1 .. n + 1
  BY DEF Picks
<1>2. e \in [1 .. Len(r) -> 1 .. n + 1]
  BY <1>1 DEF Picks
<1>3. ASSUME NEW i \in 1 .. n + 1, list[i] \notin S
      PROVE  \E j \in 1 .. Len(r) : e[j] = i
  <2>1. i \in 1 .. n
    BY <1>3
  <2>2. QED
    BY <1>3, <2>1 DEF Picks
<1>4. QED
  BY <1>2, <1>3 DEF Picks

LEMMA PicksNext ==
    ASSUME NEW X, NEW list, NEW S, NEW n \in Nat, NEW r \in Seq(X), NEW e,
           Picks(e, r, list, S, n), list[n + 1] \notin S, list[n + 1] \in X
    PROVE  \E d : Picks(d, Append(r, list[n + 1]), list, S, n + 1)
<1> DEFINE q == Append(r, list[n + 1])
           d == [j \in 1 .. Len(r) + 1 |-> IF j <= Len(r) THEN e[j] ELSE n + 1]
<1>1. /\ Len(q) = Len(r) + 1 /\ Len(r) \in Nat
      /\ \A j \in 1 .. Len(r) : q[j] = r[j]
      /\ q[Len(r) + 1] = list[n + 1]
  OBVIOUS
<1>2. /\ \A j \in 1 .. Len(r) : d[j] = e[j] /\ e[j] \in 1 .. n
      /\ d[Len(r) + 1] = n + 1
      /\ DOMAIN d = 1 .. Len(r) + 1 /\ d = [j \in 1 .. Len(r) + 1 |-> d[j]]
  BY <1>1 DEF Picks
<1> HIDE DEF q, d
<1>3. ASSUME NEW j \in 1 .. Len(r) + 1
      PROVE  d[j] \in 1 .. n + 1
  <2>1. CASE j \in 1 .. Len(r)
    <3>1. d[j] \in 1 .. n
      BY <2>1, <1>2
    <3>2. QED
      BY <3>1
  <2>2. CASE j = Len(r) + 1
    BY <2>2, <1>2
  <2>3. QED
    BY <1>1, <2>1, <2>2
<1>4. d \in [1 .. Len(q) -> 1 .. n + 1]
  BY <1>1, <1>2, <1>3
<1>5. ASSUME NEW j \in 1 .. Len(q)
      PROVE  q[j] = list[d[j]] /\ list[d[j]] \notin S
  <2>1. CASE j \in 1 .. Len(r)
    BY <2>1, <1>1, <1>2 DEF Picks
  <2>2. CASE j = Len(r) + 1
    BY <2>2, <1>1, <1>2
  <2>3. QED
    BY <1>1, <2>1, <2>2
<1>6. ASSUME NEW j \in 1 .. Len(q), NEW l \in 1 .. Len(q), j < l
      PROVE  d[j] < d[l]
  <2>1. j \in 1 .. Len(r)
    BY <1>1, <1>6
  <2>2. CASE l \in 1 .. Len(r)
    BY <2>1, <2>2, <1>2, <1>6 DEF Picks
  <2>3. CASE l = Len(r) + 1
    <3>1. d[j] \in 1 .. n
      BY <2>1, <1>2
    <3>2. d[l] = n + 1
      BY <2>3, <1>2
    <3>3. QED
      BY <3>1, <3>2
  <2>4. QED
    BY <1>1, <2>2, <2>3
<1>7. ASSUME NEW i \in 1 .. n + 1, list[i] \notin S
      PROVE  \E j \in 1 .. Len(q) : d[j] = i
  <2>1. CASE i \in 1 .. n
    <3>1. PICK j \in 1 .. Len(r) : e[j] = i
      BY <2>1, <1>7 DEF Picks
    <3>2. d[j] = i
      BY <3>1, <1>2
    <3>3. j \in 1 .. Len(q)
      BY <1>1
    <3>4. QED
      BY <3>2, <3>3
  <2>2. CASE i = n + 1
    <3>1. Len(r) + 1 \in 1 .. Len(q) /\ d[Len(r) + 1] = i
      BY <2>2, <1>1, <1>2
    <3>2. QED
      BY <3>1
  <2>3. QED
    BY <2>1, <2>2
<1>8. Picks(d, q, list, S, n + 1)
  BY <1>4, <1>5, <1>6, <1>7 DEF Picks
<1>9. QED
  BY <1>8 DEF q

(* What Unlisted returns: each element of list that is not in S, at its     *)
(* turn.                                                                    *)
LEMMA UnlistedPicks ==
    ASSUME NEW X, NEW list \in Seq(X), NEW S
    PROVE  /\ Unlisted(list, S) \in Seq(X)
           /\ \E e : Picks(e, Unlisted(list, S), list, S, Len(list))
<1> DEFINE n == Len(list)
<1>1. n \in Nat /\ \A i \in 1 .. n : list[i] \in X
  OBVIOUS
<1>2. PICK f : Keeps(f, list, S, n) /\ Unlisted(list, S) = f[n]
  BY <1>1, UnlistedKeeps
<1> HIDE DEF n
<1> DEFINE Done(i) == f[i] \in Seq(X) /\ \E e : Picks(e, f[i], list, S, i)
           N == {i \in Nat : i <= n => Done(i)}
<1>3. \A i \in 0 .. n : f[i] = KeptOf(f, list, S, i)
  BY <1>2 DEF Keeps
<1>4. 0 \in N
  <2>1. 0 \in 0 .. n
    BY <1>1
  <2>2. f[0] = <<>>
    BY <1>3, <2>1 DEF KeptOf
  <2>3. <<>> \in Seq(X) /\ Len(<<>>) = 0
    OBVIOUS
  <2>4. 1 .. 0 = {}
    OBVIOUS
  <2>5. Picks([j \in {} |-> 0], <<>>, list, S, 0)
    BY <2>3, <2>4 DEF Picks
  <2>6. QED
    BY <2>2, <2>3, <2>5
<1>5. ASSUME NEW i \in Nat, i \in N
      PROVE  i + 1 \in N
  <2> SUFFICES ASSUME i + 1 <= n PROVE Done(i + 1)
    OBVIOUS
  <2>1. i \in 0 .. n /\ i + 1 \in 1 .. n /\ i + 1 \in 0 .. n /\ i <= n
    BY <1>1
  <2>2. PICK e : Picks(e, f[i], list, S, i)
    BY <1>5, <2>1
  <2>3. f[i] \in Seq(X)
    BY <1>5, <2>1
  <2>4. list[i + 1] \in X
    BY <1>1, <2>1
  <2>5. f[i + 1] = KeptOf(f, list, S, i + 1)
    BY <1>3, <2>1
  <2>6. i + 1 # 0 /\ (i + 1) - 1 = i
    OBVIOUS
  <2>7. f[i + 1] = IF list[i + 1] \in S THEN f[i] ELSE Append(f[i], list[i + 1])
    BY <2>5, <2>6 DEF KeptOf
  <2>8. CASE list[i + 1] \in S
    <3>1. f[i + 1] = f[i]
      BY <2>7, <2>8
    <3>2. Picks(e, f[i], list, S, i + 1)
      BY <2>2, <2>3, <2>8, PicksSkips
    <3>3. QED
      BY <2>3, <3>1, <3>2
  <2>9. CASE list[i + 1] \notin S
    <3>1. f[i + 1] = Append(f[i], list[i + 1])
      BY <2>7, <2>9
    <3>2. \E d : Picks(d, Append(f[i], list[i + 1]), list, S, i + 1)
      BY <2>2, <2>3, <2>4, <2>9, PicksNext
    <3>3. Append(f[i], list[i + 1]) \in Seq(X)
      BY <2>3, <2>4
    <3>4. QED
      BY <3>1, <3>2, <3>3
  <2>10. QED
    BY <2>8, <2>9
<1> HIDE DEF N, Done
<1>6. n \in N
  BY <1>1, <1>4, <1>5, Inductive
<1>7. Done(n)
  BY <1>1, <1>6 DEF N
<1>8. QED
  BY <1>2, <1>7 DEF Done, n

-----------------------------------------------------------------------------
Listed(list) == {list[i] : i \in 1 .. Len(list)}
Distinct(list) == \A i, j \in 1 .. Len(list) : list[i] = list[j] => i = j

(* Unlisted takes the elements of S out, keeps the order of the others, and *)
(* repeats none.                                                            *)
LEMMA UnlistedElements ==
    ASSUME NEW X, NEW list \in Seq(X), NEW S
    PROVE  Listed(Unlisted(list, S)) = Listed(list) \ S
<1> DEFINE r == Unlisted(list, S)
<1>1. PICK e : Picks(e, r, list, S, Len(list))
  BY UnlistedPicks
<1> HIDE DEF r
<1>2. ASSUME NEW x \in Listed(r)
      PROVE  x \in Listed(list) \ S
  BY <1>1 DEF Picks, Listed
<1>3. ASSUME NEW x \in Listed(list) \ S
      PROVE  x \in Listed(r)
  <2>1. PICK i \in 1 .. Len(list) : list[i] = x
    BY DEF Listed
  <2>2. PICK j \in 1 .. Len(r) : e[j] = i
    BY <1>1, <2>1 DEF Picks
  <2>3. QED
    BY <1>1, <2>1, <2>2 DEF Picks, Listed
<1>4. QED
  BY <1>2, <1>3 DEF r

LEMMA UnlistedDistinct ==
    ASSUME NEW X, NEW list \in Seq(X), NEW S, Distinct(list)
    PROVE  /\ Distinct(Unlisted(list, S))
           /\ \A i, j \in 1 .. Len(Unlisted(list, S)) : i < j =>
                \E a, b \in 1 .. Len(list) :
                    /\ a < b
                    /\ list[a] = Unlisted(list, S)[i] /\ list[b] = Unlisted(list, S)[j]
<1> DEFINE r == Unlisted(list, S)
<1>1. PICK e : Picks(e, r, list, S, Len(list))
  BY UnlistedPicks
<1>2. Len(r) \in Nat /\ Len(list) \in Nat
  BY UnlistedPicks
<1> HIDE DEF r
<1>3. ASSUME NEW i \in 1 .. Len(r)
      PROVE  e[i] \in 1 .. Len(list) /\ r[i] = list[e[i]]
  BY <1>1 DEF Picks
<1>4. ASSUME NEW i \in 1 .. Len(r), NEW j \in 1 .. Len(r), r[i] = r[j]
      PROVE  i = j
  <2>1. e[i] = e[j]
    BY <1>3, <1>4 DEF Distinct
  <2>2. ~(i < j) /\ ~(j < i)
    BY <1>1, <1>3, <2>1 DEF Picks
  <2>3. QED
    BY <1>2, <2>2
<1>5. ASSUME NEW i \in 1 .. Len(r), NEW j \in 1 .. Len(r), i < j
      PROVE  \E a, b \in 1 .. Len(list) : a < b /\ list[a] = r[i] /\ list[b] = r[j]
  <2>1. e[i] < e[j]
    BY <1>1, <1>5 DEF Picks
  <2>2. QED
    BY <1>3, <2>1
<1>6. QED
  BY <1>4, <1>5 DEF Distinct, r

(* x stands before y. *)
Before(list, x, y) ==
    \E i, j \in 1 .. Len(list) : i < j /\ list[i] = x /\ list[j] = y

LEMMA BeforeUnlisted ==
    ASSUME NEW X, NEW list \in Seq(X), Distinct(list), NEW S, NEW x, NEW y,
           Before(Unlisted(list, S), x, y)
    PROVE  Before(list, x, y)
<1>1. PICK i \in 1 .. Len(Unlisted(list, S)), j \in 1 .. Len(Unlisted(list, S)) :
         i < j /\ Unlisted(list, S)[i] = x /\ Unlisted(list, S)[j] = y
  BY DEF Before
<1>2. \E a, b \in 1 .. Len(list) :
         a < b /\ list[a] = Unlisted(list, S)[i] /\ list[b] = Unlisted(list, S)[j]
  BY <1>1, UnlistedDistinct
<1>3. QED
  BY <1>1, <1>2 DEF Before

(* A list that repeats nothing is as long as the set of its elements. *)
LEMMA DistinctLength ==
    ASSUME NEW X, NEW list \in Seq(X), Distinct(list)
    PROVE  IsFiniteSet(Listed(list)) /\ Cardinality(Listed(list)) = Len(list)
<1>1. Len(list) \in Nat /\ list \in [1 .. Len(list) -> X]
  OBVIOUS
<1>2. list \in [1 .. Len(list) -> Listed(list)]
  BY <1>1 DEF Listed
<1>3. list \in Bijection(1 .. Len(list), Listed(list))
  BY <1>2 DEF Bijection, Injection, Surjection, IsInjective, Listed, Distinct
<1>4. ExistsBijection(1 .. Len(list), Listed(list))
  BY <1>3 DEF ExistsBijection
<1>5. QED
  BY <1>1, <1>4, FS_CountingElements, FS_NatBijection

LEMMA AppendListed ==
    ASSUME NEW X, NEW list \in Seq(X), NEW x \in X
    PROVE  /\ Append(list, x) \in Seq(X)
           /\ Listed(Append(list, x)) = Listed(list) \cup {x}
           /\ Distinct(list) /\ x \notin Listed(list) => Distinct(Append(list, x))
<1> DEFINE q == Append(list, x)
<1>1. /\ Len(q) = Len(list) + 1 /\ Len(list) \in Nat /\ q \in Seq(X)
      /\ \A i \in 1 .. Len(list) : q[i] = list[i]
      /\ q[Len(list) + 1] = x
  OBVIOUS
<1> HIDE DEF q
<1>2. ASSUME NEW y \in Listed(q)
      PROVE  y \in Listed(list) \cup {x}
  <2>1. PICK i \in 1 .. Len(q) : q[i] = y
    BY DEF Listed
  <2>2. CASE i \in 1 .. Len(list)
    BY <2>1, <2>2, <1>1 DEF Listed
  <2>3. CASE i = Len(list) + 1
    BY <2>1, <2>3, <1>1
  <2>4. QED
    BY <1>1, <2>2, <2>3
<1>3. ASSUME NEW y \in Listed(list) \cup {x}
      PROVE  y \in Listed(q)
  <2>1. CASE y = x
    <3>1. Len(list) + 1 \in 1 .. Len(q)
      BY <1>1
    <3>2. QED
      BY <3>1, <2>1, <1>1 DEF Listed
  <2>2. CASE y \in Listed(list)
    <3>1. PICK i \in 1 .. Len(list) : list[i] = y
      BY <2>2 DEF Listed
    <3>2. i \in 1 .. Len(q)
      BY <1>1
    <3>3. QED
      BY <3>1, <3>2, <1>1 DEF Listed
  <2>3. QED
    BY <2>1, <2>2
<1>4. ASSUME Distinct(list), x \notin Listed(list),
             NEW i \in 1 .. Len(q), NEW j \in 1 .. Len(q), q[i] = q[j]
      PROVE  i = j
  <2>1. \A l \in 1 .. Len(list) : list[l] # x
    BY <1>4 DEF Listed
  <2>2. CASE i \in 1 .. Len(list) /\ j \in 1 .. Len(list)
    BY <2>2, <1>1, <1>4 DEF Distinct
  <2>3. CASE i \in 1 .. Len(list) /\ j = Len(list) + 1
    BY <2>3, <2>1, <1>1, <1>4
  <2>4. CASE i = Len(list) + 1 /\ j \in 1 .. Len(list)
    BY <2>4, <2>1, <1>1, <1>4
  <2>5. CASE i = Len(list) + 1 /\ j = Len(list) + 1
    BY <2>5
  <2>6. i \in 1 .. Len(list) \/ i = Len(list) + 1
    BY <1>1
  <2>7. j \in 1 .. Len(list) \/ j = Len(list) + 1
    BY <1>1
  <2>8. QED
    BY <2>2, <2>3, <2>4, <2>5, <2>6, <2>7
<1>5. QED
  BY <1>1, <1>2, <1>3, <1>4 DEF Distinct, q

-----------------------------------------------------------------------------
(* The sum of the elements of s, by the sums of smaller sets. *)
AnyOf(s) == CHOOSE x \in s : TRUE
AddedOf(f, w, s) == IF s = {} THEN 0 ELSE w[AnyOf(s)] + f[s \ {AnyOf(s)}]
Adds(f, w, S) == f = [s \in SUBSET S |-> AddedOf(f, w, s)]

LEMMA AnyIn ==
    ASSUME NEW s, s # {}
    PROVE  AnyOf(s) \in s
  BY DEF AnyOf

(* A set without one of its elements has one fewer. *)
LEMMA OneFewer ==
    ASSUME NEW s, IsFiniteSet(s), NEW x \in s, NEW n \in Nat, Cardinality(s) <= n + 1
    PROVE  IsFiniteSet(s \ {x}) /\ Cardinality(s \ {x}) <= n
<1>1. IsFiniteSet(s \ {x}) /\ Cardinality(s \ {x}) = Cardinality(s) - 1
  BY FS_RemoveElement
<1>2. Cardinality(s) \in Nat
  BY FS_CardinalityType
<1>3. QED
  BY <1>1, <1>2

LEMMA NoneIn ==
    ASSUME NEW s, IsFiniteSet(s), Cardinality(s) <= 0
    PROVE  s = {}
<1>1. Cardinality(s) \in Nat
  BY FS_CardinalityType
<1>2. Cardinality(s) = 0
  BY <1>1
<1>3. QED
  BY <1>2, FS_EmptySet

(* The subsets of S of at most n elements, and the sums of those. *)
Small(S, n) == {s \in SUBSET S : Cardinality(s) <= n}
AddsSmall(f, w, S, n) == f = [s \in Small(S, n) |-> AddedOf(f, w, s)]

LEMMA AddsExists ==
    ASSUME NEW S, IsFiniteSet(S), NEW w
    PROVE  \E f : Adds(f, w, S)
<1> USE DEF Small
<1> DEFINE N == {n \in Nat : \E f : AddsSmall(f, w, S, n)}
<1>1. \A s \in SUBSET S : IsFiniteSet(s) /\ Cardinality(s) \in Nat
  BY FS_Subset, FS_CardinalityType
<1>2. 0 \in N
  <2> DEFINE f == [s \in Small(S, 0) |-> 0]
  <2>1. \A s \in Small(S, 0) : s = {}
    BY <1>1, NoneIn
  <2>2. AddsSmall(f, w, S, 0)
    BY <2>1 DEF AddedOf, AddsSmall
  <2>3. QED
    BY <2>2
<1>3. ASSUME NEW n \in Nat, n \in N
      PROVE  n + 1 \in N
  <2>1. PICK f : AddsSmall(f, w, S, n)
    BY <1>3
  <2> DEFINE g == [s \in Small(S, n + 1) |-> IF s \in Small(S, n) THEN f[s] ELSE AddedOf(f, w, s)]
  <2>2. \A s \in Small(S, n) : s \in Small(S, n + 1)
    BY <1>1
  <2>3. /\ \A s \in Small(S, n) : g[s] = f[s]
        /\ \A s \in Small(S, n + 1) : s \notin Small(S, n) => g[s] = AddedOf(f, w, s)
        /\ g = [s \in Small(S, n + 1) |-> g[s]]
    BY <2>2
  <2>4. \A s \in Small(S, n) : f[s] = AddedOf(f, w, s)
    BY <2>1 DEF AddsSmall
  <2> HIDE DEF g
  <2>5. ASSUME NEW s \in Small(S, n + 1)
        PROVE  g[s] = AddedOf(g, w, s)
    <3>1. g[s] = AddedOf(f, w, s)
      BY <2>3, <2>4
    <3>2. CASE s = {}
      BY <3>1, <3>2 DEF AddedOf
    <3>3. CASE s # {}
      <4>1. s \ {AnyOf(s)} \in Small(S, n)
        BY <3>3, <1>1, AnyIn, OneFewer
      <4>2. QED
        BY <3>1, <4>1, <2>3 DEF AddedOf
    <3>4. QED
      BY <3>2, <3>3
  <2>6. AddsSmall(g, w, S, n + 1)
    BY <2>3, <2>5 DEF AddsSmall
  <2>7. QED
    BY <2>6
<1> HIDE DEF N
<1>4. Cardinality(S) \in N
  BY <1>1, <1>2, <1>3, Inductive
<1>5. PICK f : AddsSmall(f, w, S, Cardinality(S))
  BY <1>4 DEF N
<1>6. Small(S, Cardinality(S)) = SUBSET S
  BY FS_Subset
<1>7. QED
  BY <1>5, <1>6 DEF Adds, AddsSmall

LEMMA SumAdds ==
    ASSUME NEW S, IsFiniteSet(S), NEW w
    PROVE  \E f : Adds(f, w, S) /\ SumOver(w, S) = f[S]
<1> DEFINE f == CHOOSE g : Adds(g, w, S)
<1>1. Adds(f, w, S)
  BY AddsExists
<1>2. SumOver(w, S) = f[S]
  BY DEF SumOver, FoldFunctionOnSet, MapThenFoldSet, Adds, AddedOf, AnyOf
<1>3. QED
  BY <1>1, <1>2

(* Sums depend on nothing but the weights of the elements. *)
LEMMA AddsAgree ==
    ASSUME NEW S, NEW T, NEW f, NEW g, NEW w, NEW v, Adds(f, w, S), Adds(g, v, T),
           NEW u, IsFiniteSet(u), u \subseteq S, u \subseteq T, \A x \in u : w[x] = v[x]
    PROVE  f[u] = g[u]
<1> DEFINE N == {n \in Nat : \A s \in SUBSET u : Cardinality(s) <= n => f[s] = g[s]}
<1>1. \A s \in SUBSET u : IsFiniteSet(s) /\ Cardinality(s) \in Nat
  BY FS_Subset, FS_CardinalityType
<1>2. \A s \in SUBSET u : f[s] = AddedOf(f, w, s) /\ g[s] = AddedOf(g, v, s)
  BY DEF Adds
<1>3. 0 \in N
  <2>1. \A s \in SUBSET u : Cardinality(s) <= 0 => s = {}
    BY <1>1, NoneIn
  <2>2. f[{}] = 0 /\ g[{}] = 0
    BY <1>2 DEF AddedOf
  <2>3. QED
    BY <2>1, <2>2
<1>4. ASSUME NEW n \in Nat, n \in N
      PROVE  n + 1 \in N
  <2> SUFFICES ASSUME NEW s \in SUBSET u, Cardinality(s) <= n + 1
               PROVE  f[s] = g[s]
    OBVIOUS
  <2>1. CASE s = {}
    BY <2>1, <1>2 DEF AddedOf
  <2>2. CASE s # {}
    <3>1. AnyOf(s) \in s
      BY <2>2, AnyIn
    <3>2. Cardinality(s \ {AnyOf(s)}) <= n
      BY <3>1, <1>1, OneFewer
    <3>3. f[s \ {AnyOf(s)}] = g[s \ {AnyOf(s)}]
      BY <1>4, <3>2
    <3>4. w[AnyOf(s)] = v[AnyOf(s)]
      BY <3>1
    <3>5. QED
      BY <2>2, <3>3, <3>4, <1>2 DEF AddedOf
  <2>3. QED
    BY <2>1, <2>2
<1> HIDE DEF N
<1>5. Cardinality(u) \in N
  BY <1>1, <1>3, <1>4, Inductive
<1>6. QED
  BY <1>1, <1>5 DEF N

LEMMA SumSame ==
    ASSUME NEW S, IsFiniteSet(S), NEW w, NEW v, \A x \in S : w[x] = v[x]
    PROVE  SumOver(w, S) = SumOver(v, S)
<1>1. PICK f : Adds(f, w, S) /\ SumOver(w, S) = f[S]
  BY SumAdds
<1>2. PICK g : Adds(g, v, S) /\ SumOver(v, S) = g[S]
  BY SumAdds
<1>3. f[S] = g[S]
  BY <1>1, <1>2, AddsAgree
<1>4. QED
  BY <1>1, <1>2, <1>3

LEMMA SumEmpty ==
    ASSUME NEW w
    PROVE  SumOver(w, {}) = 0
<1>1. PICK f : Adds(f, w, {}) /\ SumOver(w, {}) = f[{}]
  BY SumAdds, FS_EmptySet
<1>2. QED
  BY <1>1 DEF Adds, AddedOf

LEMMA SumAny ==
    ASSUME NEW S, IsFiniteSet(S), S # {}, NEW w
    PROVE  SumOver(w, S) = w[AnyOf(S)] + SumOver(w, S \ {AnyOf(S)})
<1> DEFINE R == S \ {AnyOf(S)}
<1>1. IsFiniteSet(R) /\ R \subseteq S
  BY FS_Subset
<1>2. PICK f : Adds(f, w, S) /\ SumOver(w, S) = f[S]
  BY SumAdds
<1>3. PICK g : Adds(g, w, R) /\ SumOver(w, R) = g[R]
  BY <1>1, SumAdds
<1> HIDE DEF R
<1>4. f[R] = g[R]
  BY <1>1, <1>2, <1>3, AddsAgree
<1>5. f[S] = w[AnyOf(S)] + f[R]
  BY <1>2 DEF Adds, AddedOf, R
<1>6. QED
  BY <1>2, <1>3, <1>4, <1>5 DEF R

LEMMA SumNat ==
    ASSUME NEW S, IsFiniteSet(S), NEW w, \A x \in S : w[x] \in Nat
    PROVE  SumOver(w, S) \in Nat
<1> DEFINE N == {n \in Nat : \A s \in SUBSET S : Cardinality(s) <= n => SumOver(w, s) \in Nat}
<1>1. \A s \in SUBSET S : IsFiniteSet(s) /\ Cardinality(s) \in Nat
  BY FS_Subset, FS_CardinalityType
<1>2. 0 \in N
  <2>1. \A s \in SUBSET S : Cardinality(s) <= 0 => s = {}
    BY <1>1, NoneIn
  <2>2. QED
    BY <2>1, SumEmpty
<1>3. ASSUME NEW n \in Nat, n \in N
      PROVE  n + 1 \in N
  <2> SUFFICES ASSUME NEW s \in SUBSET S, Cardinality(s) <= n + 1
               PROVE  SumOver(w, s) \in Nat
    OBVIOUS
  <2>1. CASE s = {}
    BY <2>1, SumEmpty
  <2>2. CASE s # {}
    <3>1. AnyOf(s) \in s
      BY <2>2, AnyIn
    <3>2. Cardinality(s \ {AnyOf(s)}) <= n
      BY <3>1, <1>1, OneFewer
    <3>3. SumOver(w, s \ {AnyOf(s)}) \in Nat
      BY <1>3, <3>2
    <3>4. SumOver(w, s) = w[AnyOf(s)] + SumOver(w, s \ {AnyOf(s)})
      BY <2>2, <1>1, SumAny
    <3>5. w[AnyOf(s)] \in Nat
      BY <3>1
    <3>6. QED
      BY <3>3, <3>4, <3>5
  <2>3. QED
    BY <2>1, <2>2
<1> HIDE DEF N
<1>4. Cardinality(S) \in N
  BY <1>1, <1>2, <1>3, Inductive
<1>5. QED
  BY <1>1, <1>4 DEF N

(* The sum of S, by that of S without any of its elements. *)
LEMMA SumRemove ==
    ASSUME NEW S, IsFiniteSet(S), NEW w, \A x \in S : w[x] \in Nat, NEW x \in S
    PROVE  SumOver(w, S) = w[x] + SumOver(w, S \ {x})
<1> DEFINE Splits(s) == \A y \in s : SumOver(w, s) = w[y] + SumOver(w, s \ {y})
           N == {n \in Nat : \A s \in SUBSET S : Cardinality(s) <= n => Splits(s)}
<1>1. \A s \in SUBSET S : IsFiniteSet(s) /\ Cardinality(s) \in Nat /\ SumOver(w, s) \in Nat
  BY FS_Subset, FS_CardinalityType, SumNat
<1>2. 0 \in N
  <2>1. \A s \in SUBSET S : Cardinality(s) <= 0 => s = {}
    BY <1>1, NoneIn
  <2>2. QED
    BY <2>1
<1>3. ASSUME NEW n \in Nat, n \in N
      PROVE  n + 1 \in N
  <2> SUFFICES ASSUME NEW s \in SUBSET S, Cardinality(s) <= n + 1, NEW y \in s
               PROVE  SumOver(w, s) = w[y] + SumOver(w, s \ {y})
    OBVIOUS
  <2> DEFINE z == AnyOf(s)
             rest == s \ {y, z}
  <2>1. z \in s
    BY AnyIn
  <2>2. SumOver(w, s) = w[z] + SumOver(w, s \ {z})
    BY <1>1, SumAny
  <2>3. CASE y = z
    BY <2>2, <2>3
  <2>4. CASE y # z
    <3>1. Splits(s \ {z})
      BY <1>1, <1>3, <2>1, OneFewer
    <3>2. Splits(s \ {y})
      BY <1>1, <1>3, OneFewer
    <3>3. (s \ {z}) \ {y} = rest /\ (s \ {y}) \ {z} = rest
      OBVIOUS
    <3>4. y \in s \ {z} /\ z \in s \ {y}
      BY <2>1, <2>4
    <3> HIDE DEF z
    <3>5. SumOver(w, s \ {z}) = w[y] + SumOver(w, rest)
      BY <3>1, <3>3, <3>4
    <3>6. SumOver(w, s \ {y}) = w[z] + SumOver(w, rest)
      BY <3>2, <3>3, <3>4
    <3>7. w[y] \in Nat /\ w[z] \in Nat /\ SumOver(w, rest) \in Nat
      BY <2>1, <1>1
    <3> HIDE DEF rest
    <3>8. QED
      BY <2>2, <3>5, <3>6, <3>7
  <2>5. QED
    BY <2>3, <2>4
<1> HIDE DEF N
<1>4. Cardinality(S) \in N
  BY <1>1, <1>2, <1>3, Inductive
<1>5. QED
  BY <1>1, <1>4 DEF N

LEMMA SumAdd ==
    ASSUME NEW S, IsFiniteSet(S), NEW w, NEW x, x \notin S, \A y \in S \cup {x} : w[y] \in Nat
    PROVE  SumOver(w, S \cup {x}) = w[x] + SumOver(w, S)
<1>1. IsFiniteSet(S \cup {x})
  BY FS_AddElement
<1>2. (S \cup {x}) \ {x} = S
  OBVIOUS
<1>3. QED
  BY <1>1, <1>2, SumRemove

(* The sum of S, by those of a part of it and of the rest. *)
LEMMA SumSplit ==
    ASSUME NEW S, IsFiniteSet(S), NEW w, \A x \in S : w[x] \in Nat, NEW T, T \subseteq S
    PROVE  SumOver(w, S) = SumOver(w, T) + SumOver(w, S \ T)
<1> DEFINE U == {s \in SUBSET T : SumOver(w, S) = SumOver(w, s) + SumOver(w, S \ s)}
<1>1. \A s \in SUBSET S : IsFiniteSet(s) /\ SumOver(w, s) \in Nat
  BY FS_Subset, SumNat
<1>2. {} \in U
  <2>1. S \ {} = S
    OBVIOUS
  <2>2. QED
    BY <2>1, <1>1, SumEmpty
<1>3. ASSUME NEW s \in SUBSET T, NEW x \in T \ s, s \in U
      PROVE  s \cup {x} \in U
  <2>1. x \in S \ s /\ s \subseteq S /\ S \ s \subseteq S
    OBVIOUS
  <2>2. SumOver(w, s \cup {x}) = w[x] + SumOver(w, s)
    BY <1>1, <2>1, SumAdd
  <2>3. SumOver(w, S \ s) = w[x] + SumOver(w, (S \ s) \ {x})
    BY <1>1, <2>1, SumRemove
  <2>4. (S \ s) \ {x} = S \ (s \cup {x})
    OBVIOUS
  <2>5. SumOver(w, S) = SumOver(w, s) + SumOver(w, S \ s)
    BY <1>3
  <2>6. /\ SumOver(w, s) \in Nat /\ SumOver(w, S \ (s \cup {x})) \in Nat
        /\ w[x] \in Nat
    BY <1>1, <2>1
  <2>7. SumOver(w, S) = SumOver(w, s \cup {x}) + SumOver(w, S \ (s \cup {x}))
    BY <2>2, <2>3, <2>4, <2>5, <2>6
  <2>8. QED
    BY <2>7
<1>4. IsFiniteSet(T)
  BY FS_Subset
<1> HIDE DEF U
<1>5. T \in U
  BY <1>2, <1>3, <1>4, FiniteInductive
<1>6. QED
  BY <1>5 DEF U
=============================================================================
