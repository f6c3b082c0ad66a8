------------------------- MODULE AsyncDrive_proofs -------------------------
(***************************************************************************)
(* Proofs about AsyncDrive, for any number of calls and of tasks, any      *)
(* limits and any number of permits.                                       *)
(***************************************************************************)
EXTENDS AsyncDrive, Listing_proofs, TLAPS

Stages == {"none", "pending", "waiting", "running", "nested", "ended"}

Entries == [i : Indices, v : Ends]

DrivingCalls ==
    [pc : {"driving"}, kind : Kinds, n : Indices, limit : Nat \ {0}, parent : Tasks \cup {Main},
     next : Nat \ {0}, order : Seq(Entries), slots : Seq(Entries \cup {Nil})]

ReturnedCalls ==
    [pc : {"returned"}, kind : Kinds, n : 0 .. MaxTasks, order : Seq(Entries),
     result : Ends \cup Seq(Entries \cup {Nil})]

Over == [pc |-> "over"]

(* Between two failures the slot is empty, but for what the script         *)
(* rendered.                                                               *)
SlotKept == rendered \in BOOLEAN /\ slot = IF rendered THEN Held ELSE Nil

TypeOK ==
    /\ call \in [Calls -> {Fresh, Over} \cup DrivingCalls \cup ReturnedCalls]
    /\ task \in [Tasks -> Stages]
    /\ queue \in Seq(Tasks)
    /\ SlotKept

-----------------------------------------------------------------------------
(* Permits: what a queue and the tasks' stages agree on.                   *)

HoldersOf(t) == {x \in Tasks : t[x] \in {"running", "nested"}}

Waits(t, q) ==
    /\ \A x \in Tasks : t[x] = "waiting" <=> x \in Listed(q)
    /\ Distinct(q)
    /\ ~Capped => q = <<>>
    /\ Capped => Cardinality(HoldersOf(t)) <= max_concurrency

(* Of the permits none is idle while a task waits.                         *)
Prompt(t, q) == q # <<>> => Cardinality(HoldersOf(t)) = max_concurrency

Queued == Waits(task, queue) /\ Prompt(task, queue)

LEMMA TasksFinite ==
    \A S \in SUBSET Tasks : IsFiniteSet(S) /\ Cardinality(S) \in Nat
<1>1. IsFiniteSet(Calls) /\ IsFiniteSet(Indices)
  BY AsyncAssumption, FS_Interval DEF Calls, Indices
<1>2. IsFiniteSet(Tasks)
  BY <1>1, FS_Product DEF Tasks
<1>3. QED
  BY <1>2, FS_Subset, FS_CardinalityType

LEMMA LeastOfTwo ==
    ASSUME NEW a \in Int, NEW b \in Int
    PROVE  Min({a, b}) = IF a <= b THEN a ELSE b
  BY DEF Min

First(q, n) == {q[i] : i \in 1 .. n}
Rest(q, n) == SubSeq(q, n + 1, Len(q))

(* The first n of a list, and the rest of it. *)
LEMMA ListCut ==
    ASSUME NEW X, NEW q \in Seq(X), Distinct(q), NEW n \in 0 .. Len(q)
    PROVE  /\ Rest(q, n) \in Seq(X) /\ Distinct(Rest(q, n))
           /\ Listed(Rest(q, n)) = Listed(q) \ First(q, n)
           /\ First(q, n) \in SUBSET Listed(q)
           /\ IsFiniteSet(First(q, n)) /\ Cardinality(First(q, n)) = n
           /\ n = Len(q) => Rest(q, n) = <<>>
<1> DEFINE first == First(q, n)
           rest == Rest(q, n)
<1>1. Len(q) \in Nat /\ n \in Nat /\ n <= Len(q)
  OBVIOUS
<1>2. rest \in Seq(X) /\ Len(rest) = Len(q) - n
  BY <1>1 DEF Rest
<1>3. \A i \in 1 .. Len(q) - n : rest[i] = q[n + i]
  BY <1>1 DEF Rest
<1>4. Distinct(rest)
  BY <1>1, <1>2, <1>3 DEF Distinct
<1>5. first \in SUBSET Listed(q)
  BY <1>1 DEF Listed, First
<1>6. \A i \in 1 .. Len(q) : q[i] \in first => i <= n
  BY <1>1 DEF Distinct, First
<1> HIDE DEF rest, first
<1>7. ASSUME NEW x \in Listed(rest)
      PROVE  x \in Listed(q) \ first
  <2>1. PICK i \in 1 .. Len(q) - n : x = q[n + i]
    BY <1>2, <1>3 DEF Listed
  <2>2. n + i \in 1 .. Len(q) /\ ~(n + i <= n)
    BY <1>1
  <2>3. QED
    BY <2>1, <2>2, <1>6 DEF Listed
<1>8. ASSUME NEW x \in Listed(q) \ first
      PROVE  x \in Listed(rest)
  <2>1. PICK j \in 1 .. Len(q) : x = q[j]
    BY DEF Listed
  <2>2. j > n
    BY <2>1, <1>1 DEF first, First
  <2>3. j - n \in 1 .. Len(rest) /\ rest[j - n] = q[j]
    <3>1. j - n \in 1 .. Len(q) - n /\ n + (j - n) = j
      BY <1>1, <2>2
    <3>2. QED
      BY <3>1, <1>2, <1>3
  <2>4. QED
    BY <2>1, <2>3 DEF Listed
<1>9. IsFiniteSet(first) /\ Cardinality(first) = n
  <2> DEFINE p == SubSeq(q, 1, n)
  <2>1. p \in Seq(X) /\ Len(p) = n /\ \A i \in 1 .. n : p[i] = q[i]
    BY <1>1
  <2> HIDE DEF p
  <2>2. Distinct(p)
    BY <2>1, <1>1 DEF Distinct
  <2>3. Listed(p) = first
    BY <2>1 DEF Listed, first, First
  <2>4. QED
    BY <2>1, <2>2, <2>3, DistinctLength
<1>10. n = Len(q) => rest = <<>>
  BY <1>2, <1>1
<1>11. QED
  BY <1>2, <1>4, <1>5, <1>7, <1>8, <1>9, <1>10 DEF rest, first

(* Permits handed over: whoever gets one waited for it, a permit is left   *)
(* idle only when no task waits, and none is given twice.                  *)
LEMMA HandedKeeps ==
    ASSUME NEW t \in [Tasks -> Stages], NEW q \in Seq(Tasks), Waits(t, q), Handed(t, q)
    PROVE  /\ task' \in [Tasks -> Stages] /\ queue' \in Seq(Tasks)
           /\ \A x \in Tasks : \/ task'[x] = t[x]
                               \/ t[x] = "waiting" /\ task'[x] = "running"
           /\ Queued'
<1> DEFINE held == Cardinality(HoldersOf(t))
           n == IF ~Capped THEN 0 ELSE Min({max_concurrency - held, Len(q)})
           lucky == First(q, n)
<1>1. /\ task' = [x \in Tasks |-> IF x \in lucky THEN "running" ELSE t[x]]
      /\ queue' = Rest(q, n)
  BY DEF Handed, HoldersOf, First, Rest
<1>2. held \in Nat /\ IsFiniteSet(HoldersOf(t))
  BY TasksFinite DEF HoldersOf
<1>3. Len(q) \in Nat
  OBVIOUS
<1>4. Capped => /\ max_concurrency \in Nat /\ held <= max_concurrency
                /\ n = IF max_concurrency - held <= Len(q) THEN max_concurrency - held ELSE Len(q)
  BY <1>2, <1>3, AsyncAssumption, LeastOfTwo DEF Capped, Waits
<1>5. n \in 0 .. Len(q) /\ (Capped => held + n <= max_concurrency)
  <2>1. CASE ~Capped
    BY <2>1, <1>3
  <2>2. CASE Capped
    <3> HIDE DEF n, held
    <3>1. QED
      BY <2>2, <1>2, <1>3, <1>4
  <2>3. QED
    BY <2>1, <2>2
<1>6. /\ ~Capped => q = <<>> /\ n = 0
      /\ Capped /\ n # Len(q) => held + n = max_concurrency
  <2>1. CASE ~Capped
    BY <2>1 DEF Waits
  <2>2. CASE Capped
    <3> HIDE DEF n, held
    <3>1. QED
      BY <2>2, <1>2, <1>3, <1>4
  <2>3. QED
    BY <2>1, <2>2
<1>7. Distinct(q)
  BY DEF Waits
<1> HIDE DEF n
<1>8. /\ Rest(q, n) \in Seq(Tasks) /\ Distinct(Rest(q, n))
      /\ Listed(Rest(q, n)) = Listed(q) \ lucky
      /\ lucky \in SUBSET Listed(q)
      /\ IsFiniteSet(lucky) /\ Cardinality(lucky) = n
      /\ n = Len(q) => Rest(q, n) = <<>>
  BY <1>5, <1>7, ListCut
<1> HIDE DEF lucky
<1>9. lucky \subseteq Tasks /\ \A x \in lucky : t[x] = "waiting"
  <2>1. Listed(q) \subseteq Tasks
    BY DEF Listed
  <2>2. QED
    BY <2>1, <1>8 DEF Waits
<1>10. /\ task' \in [Tasks -> Stages]
       /\ \A x \in Tasks : task'[x] = IF x \in lucky THEN "running" ELSE t[x]
  BY <1>1 DEF Stages
<1>11. HoldersOf(task') = HoldersOf(t) \cup lucky /\ HoldersOf(t) \cap lucky = {}
  BY <1>9, <1>10 DEF HoldersOf
<1>12. Cardinality(HoldersOf(task')) = held + n
  <2>1. Cardinality(HoldersOf(t) \cap lucky) = 0
    BY <1>11, FS_EmptySet
  <2>2. Cardinality(HoldersOf(t) \cup lucky) = held + n - 0
    BY <2>1, <1>2, <1>8, FS_Union
  <2>3. QED
    BY <2>2, <1>2, <1>5, <1>11
<1> HIDE DEF held
<1>13. Waits(task', queue')
  <2>1. \A x \in Tasks : task'[x] = "waiting" <=> x \in Listed(queue')
    BY <1>1, <1>8, <1>10 DEF Waits
  <2>2. ~Capped => queue' = <<>>
    <3>1. SUFFICES ASSUME ~Capped PROVE queue' = <<>>
      OBVIOUS
    <3>2. n = Len(q)
      BY <3>1, <1>6
    <3>3. QED
      BY <3>2, <1>1, <1>8
  <2>3. Capped => Cardinality(HoldersOf(task')) <= max_concurrency
    BY <1>12, <1>5
  <2>4. QED
    BY <2>1, <2>2, <2>3, <1>1, <1>8 DEF Waits
<1>14. Prompt(task', queue')
  <2>1. SUFFICES ASSUME queue' # <<>>
                 PROVE  Cardinality(HoldersOf(task')) = max_concurrency
    BY DEF Prompt
  <2>2. n # Len(q) /\ Capped
    BY <2>1, <1>1, <1>8, <1>6
  <2>3. QED
    BY <2>2, <1>6, <1>12
<1>15. QED
  BY <1>1, <1>8, <1>9, <1>10, <1>13, <1>14 DEF Queued, Waits, Prompt, Capped, HoldersOf

-----------------------------------------------------------------------------
(* What is returned.  order lists tasks that have ended, each once.        *)

Ordered(order, n) ==
    /\ order \in Seq(Entries) /\ Len(order) <= n
    /\ \A j \in 1 .. Len(order) : order[j].i \in 1 .. n
    /\ \A j, k \in 1 .. Len(order) : order[j].i = order[k].i => j = k

(* slots has each of them at its own place.                                *)
Placed(slots, order, n) ==
    /\ slots \in Seq(Entries \cup {Nil}) /\ Len(slots) = n
    /\ \A j \in 1 .. Len(order) : slots[order[j].i] = order[j]

LEMMA EntryShape ==
    \A e \in Entries : e.i \in Indices /\ e.v \in Ends /\ e = [i |-> e.i, v |-> e.v]
  BY DEF Entries

(* What Promised abbreviates.                                             *)
Complete(order, n) == {order[j].i : j \in 1 .. Len(order)} = 1 .. n /\ Len(order) = n
Sorted(order, n) == [i \in 1 .. n |-> order[CHOOSE j \in 1 .. Len(order) : order[j].i = i]]
LastEnd(order) == order[Len(order)].v
BeforeOk(order) == \A j \in 1 .. Len(SubSeq(order, 1, Len(order) - 1)) :
                        SubSeq(order, 1, Len(order) - 1)[j].v.ok

(* Once as many tasks have ended as there are, all have.                   *)
LEMMA AllEnded ==
    ASSUME NEW n \in Nat, NEW order, Ordered(order, n), Len(order) = n
    PROVE  {order[j].i : j \in 1 .. n} = 1 .. n
<1> DEFINE p == [j \in 1 .. n |-> order[j].i]
<1>1. p \in Seq(1 .. n) /\ Len(p) = n /\ \A j \in 1 .. n : p[j] = order[j].i
  BY DEF Ordered
<1> HIDE DEF p
<1>2. Distinct(p)
  BY <1>1 DEF Distinct, Ordered
<1>3. Cardinality(Listed(p)) = n
  BY <1>1, <1>2, DistinctLength
<1>4. Listed(p) = {order[j].i : j \in 1 .. n} /\ Listed(p) \subseteq 1 .. n
  BY <1>1 DEF Listed
<1>5. IsFiniteSet(1 .. n) /\ Cardinality(1 .. n) = n
  BY FS_Interval
<1>6. Listed(p) = 1 .. n
  BY <1>3, <1>4, <1>5, FS_Subset
<1>7. QED
  BY <1>4, <1>6

(* Then the slots are the results in the order of the tasks.               *)
LEMMA SlotsListed ==
    ASSUME NEW n \in Nat, NEW order, Ordered(order, n), Len(order) = n,
           NEW slots, Placed(slots, order, n)
    PROVE  slots = Sorted(order, n)
<1>1. slots = [i \in 1 .. n |-> slots[i]]
  BY DEF Placed
<1>2. ASSUME NEW i \in 1 .. n
      PROVE  slots[i] = order[CHOOSE j \in 1 .. n : order[j].i = i]
  <2>0. {order[j].i : j \in 1 .. n} = 1 .. n
    BY AllEnded
  <2>1. \E j \in 1 .. n : order[j].i = i
    BY <2>0
  <2> DEFINE k == CHOOSE j \in 1 .. n : order[j].i = i
  <2>2. k \in 1 .. n /\ order[k].i = i
    BY <2>1
  <2> HIDE DEF k
  <2>3. slots[order[k].i] = order[k]
    BY <2>2 DEF Placed
  <2>4. slots[i] = order[k]
    BY <2>2, <2>3
  <2>5. QED
    BY <2>4 DEF k
<1>3. QED
  BY <1>1, <1>2 DEF Sorted

LEMMA EndsTell ==
    \A e \in Ends : /\ e.ok \in BOOLEAN
                    /\ e.ok <=> e = Value
<1>1. Value.ok = TRUE /\ \A x : Error(x).ok = FALSE
  BY Zenon DEF Value, Error
<1>2. \A x : Value # Error(x)
  BY <1>1, Zenon
<1>3. \A e \in Ends : e = Value \/ \E x : e = Error(x)
  BY Zenon DEF Ends, Errors
<1>4. QED
  BY <1>1, <1>2, <1>3, Zenon

LEMMA FailedEnds == Failed \in Ends
  BY DEF Failed, Ends, Errors

(* Promised, kind by kind. *)
LEMMA PromisedCases ==
    ASSUME NEW n \in Nat, n > 0, NEW order
    PROVE  /\ Promised("race", n, order) = {LastEnd(order)}
           /\ LastEnd(order).ok => Promised("any", n, order) = {Value}
           /\ ~LastEnd(order).ok /\ Complete(order, n) => Promised("any", n, order) = {Failed}
           /\ \A k \in {"all", "map"} :
                 ~LastEnd(order).ok /\ BeforeOk(order) => Promised(k, n, order) = {LastEnd(order)}
           /\ \A k \in {"all", "map"} :
                 LastEnd(order).ok /\ Complete(order, n) => Promised(k, n, order) = {Sorted(order, n)}
           /\ Complete(order, n) => Promised("map_drop", n, order) = {Kept(Sorted(order, n))}
           /\ Complete(order, n) => Promised("settled", n, order) = {Sorted(order, n)}
<1>1. n # 0
  OBVIOUS
<1>2. Promised("race", n, order) = {LastEnd(order)}
  BY <1>1 DEF Promised, LastEnd
<1>3. LastEnd(order).ok => Promised("any", n, order) = {Value}
  BY <1>1 DEF Promised, LastEnd
<1>4. ~LastEnd(order).ok /\ Complete(order, n) => Promised("any", n, order) = {Failed}
  BY <1>1 DEF Promised, LastEnd, Complete
<1>5. Complete(order, n) => Promised("map_drop", n, order) = {Kept(Sorted(order, n))}
  BY <1>1 DEF Promised, Sorted, Complete
<1>6. Complete(order, n) => Promised("settled", n, order) = {Sorted(order, n)}
  BY <1>1 DEF Promised, Sorted, Complete
<1>7. ASSUME NEW k \in {"all", "map"}, ~LastEnd(order).ok, BeforeOk(order)
      PROVE  Promised(k, n, order) = {LastEnd(order)}
  BY <1>1, <1>7 DEF Promised, LastEnd, BeforeOk
<1>8. ASSUME NEW k \in {"all", "map"}, LastEnd(order).ok, Complete(order, n)
      PROVE  Promised(k, n, order) = {Sorted(order, n)}
  BY <1>1, <1>8 DEF Promised, LastEnd, Complete, Sorted
<1>9. QED
  BY <1>2, <1>3, <1>4, <1>5, <1>6, <1>7, <1>8

(* All the tasks have ended, and none of their ends broke the loop.        *)
LEMMA GatheredPromised ==
    ASSUME NEW k \in Kinds, NEW n \in Nat, n > 0, NEW order, Ordered(order, n), Len(order) = n,
           NEW slots, Placed(slots, order, n),
           \A j \in 1 .. n : ~Breaks(k, order[j].v)
    PROVE  Gathered(k, slots) \in Promised(k, n, order)
<1>1. Complete(order, n)
  <2>1. {order[j].i : j \in 1 .. n} = 1 .. n
    BY AllEnded
  <2>2. QED
    BY <2>1 DEF Complete
<1>2. slots = Sorted(order, n)
  BY SlotsListed
<1>3. n \in 1 .. n /\ ~Breaks(k, LastEnd(order))
  BY DEF LastEnd
<1>4. CASE k = "race"
  BY <1>3, <1>4 DEF Breaks
<1>5. CASE k = "any"
  <2>1. ~LastEnd(order).ok
    BY <1>3, <1>5 DEF Breaks
  <2>2. Promised("any", n, order) = {Failed}
    BY <2>1, <1>1, PromisedCases
  <2>3. QED
    BY <2>2, <1>5 DEF Gathered
<1>6. CASE k \in {"all", "map"}
  <2>1. LastEnd(order).ok
    BY <1>3, <1>6 DEF Breaks
  <2>2. Promised(k, n, order) = {Sorted(order, n)}
    BY <2>1, <1>1, <1>6, PromisedCases
  <2>3. QED
    BY <2>2, <1>2, <1>6 DEF Gathered
<1>7. CASE k = "map_drop"
  <2>1. Promised("map_drop", n, order) = {Kept(Sorted(order, n))}
    BY <1>1, PromisedCases
  <2>2. QED
    BY <2>1, <1>2, <1>7 DEF Gathered
<1>8. CASE k = "settled"
  <2>1. Promised("settled", n, order) = {Sorted(order, n)}
    BY <1>1, PromisedCases
  <2>2. QED
    BY <2>1, <1>2, <1>8 DEF Gathered
<1>9. QED
  BY <1>4, <1>5, <1>6, <1>7, <1>8 DEF Kinds

(* The last end breaks the loop, the first that did. *)
LEMMA BrokenPromised ==
    ASSUME NEW k \in Kinds, NEW n \in Nat, n > 0, NEW order \in Seq(Entries), Len(order) > 0,
           \A j \in 1 .. Len(order) - 1 : ~Breaks(k, order[j].v),
           Breaks(k, LastEnd(order))
    PROVE  LastEnd(order) \in Promised(k, n, order)
<1>1. LastEnd(order) \in Ends
  <2>1. order[Len(order)] \in Entries
    OBVIOUS
  <2>2. QED
    BY <2>1, EntryShape DEF LastEnd
<1>2. CASE k = "race"
  BY <1>2, PromisedCases
<1>3. CASE k = "any"
  <2>1. LastEnd(order).ok
    BY <1>3 DEF Breaks
  <2>2. LastEnd(order) = Value
    BY <1>1, <2>1, EndsTell
  <2>3. Promised("any", n, order) = {Value}
    BY <2>1, PromisedCases
  <2>4. QED
    BY <2>2, <2>3, <1>3
<1>4. CASE k \in {"all", "map"}
  <2>1. ~LastEnd(order).ok
    BY <1>4 DEF Breaks
  <2>2. \A j \in 1 .. Len(order) - 1 : order[j].v.ok
    BY <1>4 DEF Breaks
  <2>3. BeforeOk(order)
    <3> DEFINE m == Len(order) - 1
    <3>1. m \in 0 .. Len(order)
      OBVIOUS
    <3> HIDE DEF m
    <3>2. Len(SubSeq(order, 1, m)) = m /\ \A j \in 1 .. m : SubSeq(order, 1, m)[j] = order[j]
      BY <3>1
    <3>3. QED
      BY <3>2, <2>2 DEF BeforeOk, m
  <2>4. Promised(k, n, order) = {LastEnd(order)}
    BY <2>1, <2>3, <1>4, PromisedCases
  <2>5. QED
    BY <2>4
<1>5. QED
  BY <1>2, <1>3, <1>4 DEF Kinds, Breaks

-----------------------------------------------------------------------------
(* The tasks of a call, and the calls of a task.                           *)

Linked ==
    /\ \A t \in Tasks : task[t] # "none" => call[t[1]].pc = "driving"
    /\ \A c \in Calls :
          call[c].pc = "driving" /\ call[c].parent # Main => task[call[c].parent] = "nested"
    /\ \A c, d \in Calls :
          call[c].pc = "driving" /\ call[d].pc = "driving" /\ call[c].parent = call[d].parent
          => c = d

(* x is the record of a call c that is driven while its tasks are as t     *)
(* says: those before next have been started, those of order have ended.   *)
Fills(c, x, t) ==
    /\ x.next <= x.n + 1 /\ x.next - 1 - Len(x.order) <= x.limit
    /\ \A i \in Indices : t[<<c, i>>] = "none" <=> i >= x.next
    /\ \A i \in Indices :
          t[<<c, i>>] = "ended" <=> \E j \in 1 .. Len(x.order) : x.order[j].i = i
    /\ Ordered(x.order, x.n) /\ Len(x.order) < x.n
    /\ Placed(x.slots, x.order, x.n)
    /\ \A j \in 1 .. Len(x.order) : ~Breaks(x.kind, x.order[j].v)

Filled == \A c \in Calls : call[c].pc = "driving" => Fills(c, call[c], task)

AsyncInv == TypeOK /\ Queued /\ Linked /\ Filled /\ ReturnsPromised

LEMMA TaskShape ==
    /\ \A c \in Calls, i \in Indices : <<c, i>> \in Tasks
    /\ \A t \in Tasks : t = <<t[1], t[2]>> /\ t[1] \in Calls /\ t[2] \in Indices
    /\ Main \notin Tasks
  BY AsyncAssumption DEF Tasks

LEMMA DrivingShape ==
    ASSUME TypeOK, NEW c \in Calls, call[c].pc = "driving"
    PROVE  call[c] \in DrivingCalls
  BY DEF TypeOK, DrivingCalls, ReturnedCalls, Fresh, Over

LEMMA ReturnedShape ==
    ASSUME TypeOK, NEW c \in Calls, call[c].pc = "returned"
    PROVE  call[c] \in ReturnedCalls
  BY DEF TypeOK, DrivingCalls, ReturnedCalls, Fresh, Over

LEMMA DrivingFields ==
    ASSUME NEW x \in DrivingCalls
    PROVE  /\ x.pc = "driving" /\ x.kind \in Kinds /\ x.n \in Indices /\ x.limit \in Nat \ {0}
           /\ x.parent \in Tasks \cup {Main} /\ x.next \in Nat \ {0} /\ x.order \in Seq(Entries)
           /\ x.slots \in Seq(Entries \cup {Nil}) /\ x.n \in Nat /\ x.n <= MaxTasks /\ x.n > 0
  BY AsyncAssumption DEF DrivingCalls, Indices

(* What a call has done stands as long as its tasks start and end as they  *)
(* did.                                                                    *)
LEMMA FillsStay ==
    ASSUME NEW c \in Calls, NEW x, NEW t, NEW u, Fills(c, x, t),
           \A i \in Indices : /\ u[<<c, i>>] = "none" <=> t[<<c, i>>] = "none"
                              /\ u[<<c, i>>] = "ended" <=> t[<<c, i>>] = "ended"
    PROVE  Fills(c, x, u)
  BY DEF Fills

LEMMA UnderClosed ==
    ASSUME NEW c \in Calls
    PROVE  c \in Under(c) /\ Under(c) \subseteq Calls /\ ClosedBelow(Under(c))
<1>1. c \in Under(c) /\ Under(c) \subseteq Calls
  BY DEF Under
<1>2. ASSUME NEW e \in Calls, call[e].pc = "driving", call[e].parent \in Under(c) \X Indices,
             NEW S \in SUBSET Calls, c \in S, ClosedBelow(S)
      PROVE  e \in S
  <2>1. Under(c) \subseteq S
    BY <1>2 DEF Under
  <2>2. QED
    BY <1>2, <2>1 DEF ClosedBelow
<1>3. QED
  BY <1>1, <1>2 DEF ClosedBelow, Under

LEMMA NothingListed ==
    ASSUME NEW X, NEW q \in Seq(X), Listed(q) = {}
    PROVE  q = <<>>
<1>1. Len(q) \in Nat /\ \A i \in 1 .. Len(q) : q[i] \in Listed(q)
  BY DEF Listed
<1>2. Len(q) = 0
  BY <1>1
<1>3. QED
  BY <1>2

(* A task that ends: its result goes to the end of order, and to its slot. *)
LEMMA OrderGrows ==
    ASSUME NEW c \in Calls, NEW x \in DrivingCalls, NEW t, Fills(c, x, t),
           NEW i \in Indices, t[<<c, i>>] = "running", NEW e \in Entries, e.i = i
    PROVE  /\ i < x.next /\ i \in 1 .. x.n
           /\ Append(x.order, e) \in Seq(Entries)
           /\ Len(Append(x.order, e)) = Len(x.order) + 1
           /\ LastEnd(Append(x.order, e)) = e.v
           /\ \A j \in 1 .. Len(x.order) : Append(x.order, e)[j] = x.order[j]
           /\ Append(x.order, e)[Len(x.order) + 1] = e
           /\ Ordered(Append(x.order, e), x.n)
           /\ Placed(Slotted(x.slots, i, e), Append(x.order, e), x.n)
<1> DEFINE order == x.order
           grown == Append(order, e)
           m == Len(order)
<1>1. m \in Nat /\ order \in Seq(Entries) /\ x.n \in Nat /\ x.next \in Nat
  BY DrivingFields
<1>2. i < x.next /\ i \in 1 .. x.n
  BY <1>1, DrivingFields DEF Fills, Indices
<1>3. /\ grown \in Seq(Entries) /\ Len(grown) = m + 1
      /\ \A j \in 1 .. m : grown[j] = order[j]
      /\ grown[m + 1] = e
  BY <1>1
<1> HIDE DEF grown
<1>4. \A j \in 1 .. m : order[j].i # i /\ order[j].i \in 1 .. x.n
  BY DEF Fills, Ordered
<1>5. \A j \in 1 .. m + 1 : j \in 1 .. m \/ j = m + 1
  BY <1>1
<1>6. \A j, k \in 1 .. m : order[j].i = order[k].i => j = k
  BY DEF Fills, Ordered
<1>7. \A j, k \in 1 .. m + 1 : grown[j].i = grown[k].i => j = k
  BY <1>3, <1>4, <1>5, <1>6
<1>8. m < x.n
  BY DEF Fills
<1>9. Ordered(grown, x.n)
  <2>1. m + 1 <= x.n
    BY <1>1, <1>8
  <2>2. \A j \in 1 .. m + 1 : grown[j].i \in 1 .. x.n
    BY <1>2, <1>3, <1>4, <1>5
  <2>3. QED
    BY <2>1, <2>2, <1>3, <1>7 DEF Ordered
<1>10. /\ x.slots \in Seq(Entries \cup {Nil}) /\ Len(x.slots) = x.n
       /\ \A j \in 1 .. m : x.slots[order[j].i] = order[j]
  BY DEF Fills, Placed
<1>11. Placed(Slotted(x.slots, i, e), grown, x.n)
  <2> DEFINE slots == [x.slots EXCEPT ![i] = e]
  <2>1. slots \in Seq(Entries \cup {Nil}) /\ Len(slots) = x.n
    BY <1>2, <1>10
  <2>2. \A j \in 1 .. x.n : slots[j] = IF j = i THEN e ELSE x.slots[j]
    BY <1>2, <1>10
  <2> HIDE DEF slots
  <2>3. ASSUME NEW j \in 1 .. m
        PROVE  slots[grown[j].i] = grown[j]
    <3>1. grown[j] = order[j] /\ order[j].i # i /\ order[j].i \in 1 .. x.n
      BY <1>3, <1>4
    <3>2. x.slots[order[j].i] = order[j]
      BY <1>10
    <3>3. slots[order[j].i] = x.slots[order[j].i]
      BY <2>2, <3>1
    <3>4. QED
      BY <3>1, <3>2, <3>3
  <2>4. slots[grown[m + 1].i] = grown[m + 1]
    BY <2>2, <1>2, <1>3
  <2>5. \A j \in 1 .. Len(grown) : slots[grown[j].i] = grown[j]
    BY <2>3, <2>4, <1>3, <1>5
  <2>6. QED
    BY <2>1, <2>5 DEF Placed, Slotted, slots
<1>12. LastEnd(grown) = e.v
  BY <1>3 DEF LastEnd
<1>13. QED
  BY <1>2, <1>3, <1>9, <1>11, <1>12 DEF grown


-----------------------------------------------------------------------------
(* The invariant, action by action. *)

LEMMA InitHolds == AsyncInit => AsyncInv
<1> SUFFICES ASSUME AsyncInit PROVE AsyncInv
  OBVIOUS
<1> USE DEF AsyncInit
<1>1. TypeOK
  <2>1. SlotKept
    BY DEF SlotKept
  <2>2. QED
    BY <2>1 DEF TypeOK, Stages
<1>2. \A c \in Calls : call[c].pc = "fresh"
  BY DEF Fresh
<1>3. HoldersOf(task) = {} /\ Listed(queue) = {}
  BY DEF HoldersOf, Listed
<1>4. Queued
  <2>1. Cardinality(HoldersOf(task)) = 0
    BY <1>3, FS_EmptySet
  <2>2. Capped => 0 <= max_concurrency
    BY AsyncAssumption DEF Capped
  <2>3. Distinct(queue)
    BY DEF Distinct
  <2>4. QED
    BY <1>3, <2>1, <2>2, <2>3 DEF Queued, Waits, Prompt
<1>5. Linked
  BY <1>2 DEF Linked
<1>6. QED
  BY <1>1, <1>2, <1>4, <1>5 DEF AsyncInv, Filled, ReturnsPromised

(* Calls that stay as they are, and tasks that are started, ended and      *)
(* nested as before.                                                       *)
LEMMA OnlyPolled ==
    ASSUME AsyncInv, call' = call, SlotKept', task' \in [Tasks -> Stages], queue' \in Seq(Tasks),
           Queued',
           \A t \in Tasks : task'[t] = task[t] \/ (/\ task[t] \in {"pending", "waiting"}
                                                   /\ task'[t] \in {"waiting", "running"})
    PROVE  AsyncInv'
<1>1. TypeOK'
  BY DEF AsyncInv, TypeOK
<1>2. Linked'
  <2>1. \A t \in Tasks : task'[t] # "none" => task[t] # "none"
    BY TaskShape
  <2>2. \A t \in Tasks : task[t] = "nested" => task'[t] = "nested"
    BY TaskShape
  <2>3. \A c \in Calls : call[c].pc = "driving" => call[c].parent \in Tasks \cup {Main}
    BY DrivingShape, DrivingFields DEF AsyncInv
  <2>4. QED
    BY <2>1, <2>2, <2>3 DEF AsyncInv, Linked
<1>3. Filled'
  <2>1. ASSUME NEW c \in Calls, call[c].pc = "driving"
        PROVE  Fills(c, call[c], task')
    <3>1. \A i \in Indices : /\ task'[<<c, i>>] = "none" <=> task[<<c, i>>] = "none"
                             /\ task'[<<c, i>>] = "ended" <=> task[<<c, i>>] = "ended"
      BY TaskShape
    <3>2. Fills(c, call[c], task)
      BY <2>1 DEF AsyncInv, Filled
    <3>3. QED
      BY <3>1, <3>2, FillsStay
  <2>2. QED
    BY <2>1 DEF Filled, Fills, Ordered, Placed, Breaks
<1>4. ReturnsPromised'
  BY DEF AsyncInv, ReturnsPromised
<1>5. QED
  BY <1>1, <1>2, <1>3, <1>4 DEF AsyncInv

LEMMA PollHolds ==
    ASSUME AsyncInv, NEW t \in Tasks, Poll(t)
    PROVE  AsyncInv'
<1>1. /\ task \in [Tasks -> Stages] /\ queue \in Seq(Tasks) /\ Queued
      /\ call' = call /\ SlotKept'
  BY DEF AsyncInv, TypeOK, Poll, SlotKept
<1>2. task[t] = "pending"
  BY DEF Poll
<1>3. CASE ~Capped \/ (Free /\ queue = <<>>)
  <2>1. task' = [task EXCEPT ![t] = "running"] /\ queue' = queue
    BY <1>3 DEF Poll
  <2>2. \A x \in Tasks : task'[x] = IF x = t THEN "running" ELSE task[x]
    BY <1>1, <2>1
  <2>3. queue = <<>>
    BY <1>1, <1>3 DEF Queued, Waits
  <2>4. HoldersOf(task') = HoldersOf(task) \cup {t} /\ t \notin HoldersOf(task)
    BY <2>2, <1>2 DEF HoldersOf
  <2>5. Capped => Cardinality(HoldersOf(task')) <= max_concurrency
    <3>1. SUFFICES ASSUME Capped PROVE Cardinality(HoldersOf(task')) <= max_concurrency
      OBVIOUS
    <3>2. IsFiniteSet(HoldersOf(task)) /\ Cardinality(HoldersOf(task)) \in Nat
      BY TasksFinite DEF HoldersOf
    <3>3. Cardinality(HoldersOf(task')) = Cardinality(HoldersOf(task)) + 1
      BY <2>4, <3>2, FS_AddElement
    <3>4. Cardinality(HoldersOf(task)) < max_concurrency /\ max_concurrency \in Nat
      BY <3>1, <1>3, AsyncAssumption DEF Free, Capped, Holders, HoldersOf
    <3>5. QED
      BY <3>2, <3>3, <3>4
  <2>6. Waits(task', queue') /\ Prompt(task', queue')
    BY <1>1, <1>2, <2>1, <2>2, <2>3, <2>5 DEF Queued, Waits, Prompt
  <2>7. Queued'
    BY <2>6 DEF Queued, Waits, Prompt, Capped, HoldersOf
  <2>8. task' \in [Tasks -> Stages] /\ queue' \in Seq(Tasks)
    BY <1>1, <2>1 DEF Stages
  <2>9. QED
    BY <1>1, <1>2, <2>2, <2>7, <2>8, OnlyPolled
<1>4. CASE ~(~Capped \/ (Free /\ queue = <<>>))
  <2>1. task' = [task EXCEPT ![t] = "waiting"] /\ queue' = Append(queue, t)
    BY <1>4 DEF Poll
  <2>2. \A x \in Tasks : task'[x] = IF x = t THEN "waiting" ELSE task[x]
    BY <1>1, <2>1
  <2>3. /\ queue' \in Seq(Tasks)
        /\ Listed(queue') = Listed(queue) \cup {t}
        /\ Distinct(queue) /\ t \notin Listed(queue) => Distinct(queue')
    BY <1>1, <2>1, AppendListed
  <2>4. HoldersOf(task') = HoldersOf(task)
    BY <2>2, <1>2 DEF HoldersOf
  <2>5. t \notin Listed(queue) /\ Distinct(queue)
    BY <1>1, <1>2 DEF Queued, Waits
  <2>6. Waits(task', queue')
    BY <1>1, <1>4, <2>2, <2>3, <2>4, <2>5 DEF Queued, Waits
  <2>7. Cardinality(HoldersOf(task)) = max_concurrency
    <3>1. CASE queue # <<>>
      BY <3>1, <1>1 DEF Queued, Prompt
    <3>2. CASE ~Free
      <4>1. Cardinality(HoldersOf(task)) \in Nat /\ max_concurrency \in Nat
        BY <1>4, TasksFinite, AsyncAssumption DEF HoldersOf, Capped
      <4>2. ~(Cardinality(HoldersOf(task)) < max_concurrency)
        BY <3>2, <1>4 DEF Free, Holders, HoldersOf
      <4>3. Cardinality(HoldersOf(task)) <= max_concurrency
        BY <1>1, <1>4 DEF Queued, Waits
      <4>4. QED
        BY <4>1, <4>2, <4>3
    <3>3. QED
      BY <3>1, <3>2, <1>4
  <2>8. Queued'
    BY <2>4, <2>6, <2>7 DEF Queued, Waits, Prompt, Capped, HoldersOf
  <2>9. task' \in [Tasks -> Stages]
    BY <1>1, <2>1 DEF Stages
  <2>10. QED
    BY <1>1, <1>2, <2>2, <2>3, <2>8, <2>9, OnlyPolled
<1>5. QED
  BY <1>3, <1>4

LEMMA CancelHolds ==
    ASSUME AsyncInv, Cancel
    PROVE  AsyncInv'
<1>1. /\ \A c \in Calls : call'[c] = IF call[c].pc = "driving" THEN Over ELSE call[c]
      /\ \A t \in Tasks : task'[t] = "none"
      /\ queue' = <<>> /\ SlotKept'
  BY DEF Cancel, Over, SlotKept
<1>2. TypeOK'
  BY <1>1 DEF AsyncInv, TypeOK, Cancel, Over, Stages
<1>3. \A c \in Calls : call'[c].pc # "driving"
  BY <1>1 DEF Over
<1>4. HoldersOf(task') = {} /\ Listed(queue') = {}
  BY <1>1 DEF HoldersOf, Listed
<1>5. Queued'
  <2>1. Cardinality(HoldersOf(task')) = 0
    BY <1>4, FS_EmptySet
  <2>2. Capped => 0 <= max_concurrency
    BY AsyncAssumption DEF Capped
  <2>3. Distinct(queue')
    BY <1>1 DEF Distinct
  <2>4. Waits(task', queue') /\ Prompt(task', queue')
    BY <1>1, <1>4, <2>1, <2>2, <2>3 DEF Waits, Prompt
  <2>5. QED
    BY <2>4 DEF Queued, Waits, Prompt, Capped, HoldersOf
<1>6. Linked'
  BY <1>1, <1>3 DEF Linked
<1>7. \A c \in Calls : call'[c].pc = "returned" => call'[c] = call[c]
  BY <1>1 DEF Over
<1>8. ReturnsPromised'
  BY <1>7 DEF AsyncInv, ReturnsPromised
<1>9. QED
  BY <1>2, <1>3, <1>5, <1>6, <1>8 DEF AsyncInv, Filled


LEMMA NothingKept == Kept(<<>>) = <<>>
<1>1. <<>> \in Seq(Entries)
  OBVIOUS
<1>2. Listed(<<>>) = {}
  BY DEF Listed
<1>3. /\ Kept(<<>>) \in Seq(Entries)
      /\ Listed(Kept(<<>>)) = {}
  BY <1>1, <1>2, UnlistedPicks, UnlistedElements DEF Kept
<1>4. QED
  BY <1>3, NothingListed

(* A call without tasks. *)
LEMMA EmptyPromised ==
    ASSUME NEW k \in Kinds
    PROVE  (IF k \in {"race", "any"} THEN Failed ELSE <<>>) \in Promised(k, 0, <<>>)
<1>1. Complete(<<>>, 0) /\ Sorted(<<>>, 0) = <<>> /\ ~(0 > 0)
  <2>1. Len(<<>>) = 0 /\ 1 .. 0 = {}
    OBVIOUS
  <2>2. Complete(<<>>, 0)
    BY <2>1 DEF Complete
  <2>3. Sorted(<<>>, 0) = <<>>
    BY <2>1 DEF Sorted
  <2>4. QED
    BY <2>2, <2>3
<1>2. CASE k = "race"
  BY <1>2 DEF Promised
<1>3. CASE k = "any"
  BY <1>1, <1>3 DEF Promised, Complete
<1>4. CASE k = "map_drop"
  <2>1. Promised("map_drop", 0, <<>>) = {Kept(Sorted(<<>>, 0))}
    BY <1>1 DEF Promised, Complete, Sorted
  <2>2. QED
    BY <2>1, <1>1, <1>4, NothingKept
<1>5. CASE k \in {"all", "map", "settled"}
  <2>1. Promised(k, 0, <<>>) = {Sorted(<<>>, 0)}
    BY <1>1, <1>5 DEF Promised, Complete, Sorted
  <2>2. QED
    BY <2>1, <1>1, <1>5
<1>6. QED
  BY <1>2, <1>3, <1>4, <1>5 DEF Kinds

StartedAs(p, k, n, asked) ==
    [pc |-> "driving", kind |-> k, n |-> n, limit |-> asked, parent |-> p,
     next |-> Min({Window(k, asked), n}) + 1, order |-> <<>>, slots |-> [i \in 1 .. n |-> Nil]]

EmptyCall(k) ==
    [pc |-> "returned", kind |-> k, n |-> 0, order |-> <<>>,
     result |-> IF k \in {"race", "any"} THEN Failed ELSE <<>>]

(* The others, when a call is made: what returned is forgotten.            *)
LEMMA ForgottenShape ==
    ASSUME AsyncInv, NEW c \in Calls, NEW r \in {Fresh, Over} \cup DrivingCalls \cup ReturnedCalls,
           call' = [Forgotten EXCEPT ![c] = r]
    PROVE  /\ call' \in [Calls -> {Fresh, Over} \cup DrivingCalls \cup ReturnedCalls]
           /\ call'[c] = r
           /\ \A d \in Calls \ {c} :
                 /\ call'[d].pc # "returned"
                 /\ call'[d].pc = "driving" <=> call[d].pc = "driving"
                 /\ call[d].pc = "driving" => call'[d] = call[d]
<1> DEFINE All == {Fresh, Over} \cup DrivingCalls \cup ReturnedCalls
<1>1. \A d \in Calls : Forgotten[d] = IF call[d].pc = "returned" THEN Over ELSE call[d]
  BY DEF Forgotten, Over
<1>2. call \in [Calls -> All]
  BY DEF AsyncInv, TypeOK
<1>3. Over \in All /\ r \in All
  OBVIOUS
<1> HIDE DEF All
<1>4. Forgotten \in [Calls -> All]
  BY <1>2, <1>3 DEF Forgotten, Over
<1>5. call' \in [Calls -> All] /\ \A d \in Calls : call'[d] = IF d = c THEN r ELSE Forgotten[d]
  BY <1>3, <1>4
<1>6. \A d \in Calls \ {c} : call'[d] = IF call[d].pc = "returned" THEN Over ELSE call[d]
  BY <1>1, <1>5
<1>7. Over.pc = "over"
  BY DEF Over
<1>8. ASSUME NEW d \in Calls \ {c}
      PROVE  /\ call'[d].pc # "returned"
             /\ call'[d].pc = "driving" <=> call[d].pc = "driving"
             /\ call[d].pc = "driving" => call'[d] = call[d]
  BY <1>6, <1>7
<1>9. QED
  BY <1>5, <1>8 DEF All

LEMMA StartEmptyHolds ==
    ASSUME AsyncInv, NEW c \in Calls, NEW p \in Tasks \cup {Main}, NEW k \in Kinds,
           NEW l \in 1 .. MaxLimit, Start(c, p, k, 0, l)
    PROVE  AsyncInv'
<1>1. /\ call' = [Forgotten EXCEPT ![c] = EmptyCall(k)]
      /\ task' = task /\ queue' = queue /\ SlotKept' /\ call[c] = Fresh
  BY DEF Start, MayCall, EmptyCall, AsyncInv, TypeOK, SlotKept
<1>2. EmptyCall(k) \in ReturnedCalls
  <2>1. /\ <<>> \in Seq(Entries) /\ <<>> \in Seq(Entries \cup {Nil}) /\ Failed \in Ends
        /\ 0 \in 0 .. MaxTasks
    BY AsyncAssumption, FailedEnds
  <2>2. QED
    BY <2>1 DEF EmptyCall, ReturnedCalls
<1>3. /\ call' \in [Calls -> {Fresh, Over} \cup DrivingCalls \cup ReturnedCalls]
      /\ call'[c] = EmptyCall(k)
      /\ \A d \in Calls \ {c} :
            /\ call'[d].pc # "returned"
            /\ call'[d].pc = "driving" <=> call[d].pc = "driving"
            /\ call[d].pc = "driving" => call'[d] = call[d]
  BY <1>1, <1>2, ForgottenShape
<1>4. call'[c].pc = "returned" /\ call[c].pc = "fresh"
  BY <1>1, <1>3 DEF EmptyCall, Fresh
<1>5. \A d \in Calls : /\ call'[d].pc = "driving" <=> call[d].pc = "driving"
                       /\ call[d].pc = "driving" => call'[d] = call[d]
  BY <1>3, <1>4
<1>6. TypeOK'
  BY <1>1, <1>3 DEF AsyncInv, TypeOK
<1>7. Queued'
  BY <1>1 DEF AsyncInv, Queued, Waits, Prompt, Capped, HoldersOf
<1>8. Linked'
  <2>1. \A t \in Tasks : t[1] \in Calls
    BY TaskShape
  <2>2. QED
    BY <1>1, <1>5, <2>1 DEF AsyncInv, Linked
<1>9. Filled'
  <2>1. \A d \in Calls : call'[d].pc = "driving" => Fills(d, call'[d], task')
    BY <1>1, <1>5 DEF AsyncInv, Filled
  <2>2. QED
    BY <2>1 DEF Filled, Fills, Ordered, Placed, Breaks
<1>10. ReturnsPromised'
  <2>1. \A d \in Calls : call'[d].pc = "returned" => d = c
    BY <1>3
  <2>2. /\ EmptyCall(k).kind = k /\ EmptyCall(k).n = 0 /\ EmptyCall(k).order = <<>>
        /\ EmptyCall(k).result = IF k \in {"race", "any"} THEN Failed ELSE <<>>
    BY DEF EmptyCall
  <2>3. \A d \in Calls : call'[d].pc = "returned" =>
           call'[d].result \in Promised(call'[d].kind, call'[d].n, call'[d].order)
    BY <1>3, <2>1, <2>2, EmptyPromised
  <2>4. QED
    BY <2>3 DEF ReturnsPromised, Promised, Kept, Unlisted
<1>11. QED
  BY <1>6, <1>7, <1>8, <1>9, <1>10 DEF AsyncInv


(* The first futures of a window: some, and no more than asked.            *)
LEMMA WindowOpens ==
    ASSUME NEW k \in Kinds, NEW asked \in Nat \ {0}, NEW n \in Nat \ {0}
    PROVE  Min({Window(k, asked), n}) \in 1 .. n /\ Min({Window(k, asked), n}) <= asked
<1>1. Window(k, asked) \in Nat \ {0} /\ Window(k, asked) <= asked
  <2>1. CASE Capped
    <3>1. max_concurrency \in Nat \ {0}
      BY <2>1, AsyncAssumption DEF Capped
    <3>2. Window(k, asked) = IF asked <= max_concurrency THEN asked ELSE max_concurrency
      BY <3>1, <2>1, LeastOfTwo DEF Window
    <3>3. QED
      BY <3>1, <3>2
  <2>2. CASE ~Capped
    BY <2>2 DEF Window
  <2>3. QED
    BY <2>1, <2>2
<1> DEFINE w == Window(k, asked)
<1>2. w \in Int /\ n \in Int
  BY <1>1
<1>3. Min({w, n}) = IF w <= n THEN w ELSE n
  BY <1>2, LeastOfTwo
<1>4. QED
  BY <1>1, <1>3

LEMMA StartDrivingHolds ==
    ASSUME AsyncInv, NEW c \in Calls, NEW p \in Tasks \cup {Main}, NEW k \in Kinds,
           NEW n \in 1 .. MaxTasks, NEW l \in 1 .. MaxLimit, Start(c, p, k, n, l)
    PROVE  AsyncInv'
<1> DEFINE asked == IF k \in {"map", "map_drop"} THEN l ELSE n
           m == Min({Window(k, asked), n})
           x == StartedAs(p, k, n, asked)
<1>1. n \in Nat \ {0} /\ asked \in Nat \ {0} /\ n \in Indices /\ n <= MaxTasks
  BY AsyncAssumption DEF Indices
<1>2. m \in 1 .. n /\ m <= asked
  BY <1>1, WindowOpens
<1>3. /\ call' = [Forgotten EXCEPT ![c] = x]
      /\ task' = [t \in Tasks |-> IF t[1] = c /\ t[2] <= m
                                  THEN "pending"
                                  ELSE IF t = p THEN "nested" ELSE task[t]]
      /\ queue' = queue /\ SlotKept' /\ call[c] = Fresh
  BY <1>1 DEF Start, MayCall, StartedAs, AsyncInv, TypeOK, SlotKept
<1>4. /\ p # Main => task[p] = "running" /\ call[p[1]].pc = "driving"
      /\ \A d \in Calls : call[d].pc = "driving" => call[d].parent # p
  BY DEF Start, MayCall
<1>5. /\ x.pc = "driving" /\ x.kind = k /\ x.n = n /\ x.limit = asked /\ x.parent = p
      /\ x.next = m + 1 /\ x.order = <<>> /\ x.slots = [i \in 1 .. n |-> Nil]
  BY DEF StartedAs
<1>6. x \in DrivingCalls
  <2> HIDE DEF m, asked
  <2>1. /\ m + 1 \in Nat \ {0} /\ <<>> \in Seq(Entries)
        /\ [i \in 1 .. n |-> Nil] \in Seq(Entries \cup {Nil})
    BY <1>1, <1>2
  <2>2. QED
    BY <2>1, <1>1 DEF StartedAs, DrivingCalls, m
<1> HIDE DEF x, asked, m
<1>7. /\ call' \in [Calls -> {Fresh, Over} \cup DrivingCalls \cup ReturnedCalls]
      /\ call'[c] = x
      /\ \A d \in Calls \ {c} :
            /\ call'[d].pc # "returned"
            /\ call'[d].pc = "driving" <=> call[d].pc = "driving"
            /\ call[d].pc = "driving" => call'[d] = call[d]
  BY <1>3, <1>6, ForgottenShape
<1>8. call[c].pc = "fresh"
  BY <1>3 DEF Fresh
<1>9. \A i \in Indices : task[<<c, i>>] = "none"
  BY <1>8, TaskShape DEF AsyncInv, Linked
<1>10. p # Main => p \in Tasks /\ p[1] \in Calls /\ p[1] # c
  BY <1>4, <1>8, TaskShape
<1>11. \A t \in Tasks : task'[t] = IF t[1] = c /\ t[2] <= m
                                   THEN "pending"
                                   ELSE IF t = p THEN "nested" ELSE task[t]
  BY <1>3
<1>12. TypeOK'
  BY <1>3, <1>7 DEF AsyncInv, TypeOK, Stages
<1>13. \A t \in Tasks : t[1] = c => task[t] = "none"
  BY <1>9, TaskShape
<1>14. \A t \in Tasks : t = p => task[t] = "running" /\ task'[t] = "nested"
  BY <1>4, <1>10, <1>11, TaskShape
<1>15. Queued'
  <2>1. HoldersOf(task') = HoldersOf(task)
    BY <1>11, <1>13, <1>14 DEF HoldersOf
  <2>2. \A t \in Tasks : task'[t] = "waiting" <=> task[t] = "waiting"
    BY <1>11, <1>13, <1>14
  <2>3. Waits(task', queue') /\ Prompt(task', queue')
    BY <2>1, <2>2, <1>3 DEF AsyncInv, Queued, Waits, Prompt
  <2>4. QED
    BY <2>3 DEF Queued, Waits, Prompt, Capped, HoldersOf
<1>16. Linked'
  <2>1. ASSUME NEW t \in Tasks, task'[t] # "none"
        PROVE  call'[t[1]].pc = "driving"
    <3>1. CASE t[1] = c
      BY <3>1, <1>5, <1>7
    <3>2. CASE t[1] # c
      <4>1. task[t] # "none" /\ t[1] \in Calls
        BY <2>1, <3>2, <1>11, <1>14, TaskShape
      <4>2. call[t[1]].pc = "driving"
        BY <4>1 DEF AsyncInv, Linked
      <4>3. QED
        BY <4>1, <4>2, <3>2, <1>7
    <3>3. QED
      BY <3>1, <3>2
  <2>2. ASSUME NEW d \in Calls, call'[d].pc = "driving", call'[d].parent # Main
        PROVE  task'[call'[d].parent] = "nested"
    <3>1. CASE d = c
      BY <3>1, <2>2, <1>5, <1>7, <1>10, <1>14
    <3>2. CASE d # c
      <4>1. call[d].pc = "driving" /\ call'[d] = call[d]
        BY <2>2, <3>2, <1>7
      <4>2. call[d].parent \in Tasks
        BY <4>1, <2>2, DrivingShape, DrivingFields DEF AsyncInv
      <4>3. task[call[d].parent] = "nested"
        BY <4>1, <2>2 DEF AsyncInv, Linked
      <4>4. QED
        BY <4>1, <4>2, <4>3, <1>11, <1>13
    <3>3. QED
      BY <3>1, <3>2
  <2>3. ASSUME NEW d \in Calls, NEW e \in Calls, call'[d].pc = "driving", call'[e].pc = "driving",
               call'[d].parent = call'[e].parent
        PROVE  d = e
    <3>1. CASE d = c \/ e = c
      BY <3>1, <2>3, <1>4, <1>5, <1>7
    <3>2. CASE d # c /\ e # c
      BY <3>2, <2>3, <1>7 DEF AsyncInv, Linked
    <3>3. QED
      BY <3>1, <3>2
  <2>4. QED
    BY <2>1, <2>2, <2>3 DEF Linked
<1>17. Filled'
  <2>1. Fills(c, x, task')
    <3>1. Len(x.order) = 0 /\ Len(x.slots) = n /\ x.slots \in Seq(Entries \cup {Nil})
      BY <1>1, <1>5
    <3>2. /\ x.next <= x.n + 1 /\ x.next - 1 - Len(x.order) <= x.limit /\ Len(x.order) < x.n
      BY <3>1, <1>1, <1>2, <1>5
    <3>3. Ordered(x.order, x.n) /\ Placed(x.slots, x.order, x.n)
      BY <3>1, <1>1, <1>5 DEF Ordered, Placed
    <3>4. \A i \in Indices : task'[<<c, i>>] = IF i <= m THEN "pending" ELSE "none"
      BY <1>9, <1>11, <1>14, TaskShape
    <3>5. \A i \in Indices : task'[<<c, i>>] = "none" <=> i >= x.next
      <4>1. \A i \in Indices : i \in Int
        BY DEF Indices
      <4>2. QED
        BY <3>4, <4>1, <1>2, <1>5
    <3>6. \A i \in Indices :
             task'[<<c, i>>] = "ended" <=> \E j \in 1 .. Len(x.order) : x.order[j].i = i
      BY <3>1, <3>4
    <3>7. QED
      BY <3>1, <3>2, <3>3, <3>5, <3>6 DEF Fills
  <2>2. ASSUME NEW d \in Calls, d # c, call[d].pc = "driving"
        PROVE  Fills(d, call[d], task')
    <3>1. \A i \in Indices : /\ task'[<<d, i>>] = "none" <=> task[<<d, i>>] = "none"
                             /\ task'[<<d, i>>] = "ended" <=> task[<<d, i>>] = "ended"
      BY <2>2, <1>11, <1>14, TaskShape
    <3>2. Fills(d, call[d], task)
      BY <2>2 DEF AsyncInv, Filled
    <3>3. QED
      BY <3>1, <3>2, FillsStay
  <2>3. \A d \in Calls : call'[d].pc = "driving" => Fills(d, call'[d], task')
    BY <2>1, <2>2, <1>7
  <2>4. QED
    BY <2>3 DEF Filled, Fills, Ordered, Placed, Breaks
<1>18. ReturnsPromised'
  <2>1. \A d \in Calls : call'[d].pc # "returned"
    BY <1>5, <1>7
  <2>2. QED
    BY <2>1 DEF ReturnsPromised
<1>19. QED
  BY <1>12, <1>15, <1>16, <1>17, <1>18 DEF AsyncInv


(* What a list loses the permits' books lose too. *)
LEMMA WaitsFewer ==
    ASSUME AsyncInv, NEW t \in [Tasks -> Stages], NEW S,
           \A x \in Tasks : t[x] = "waiting" <=> task[x] = "waiting" /\ x \notin S,
           HoldersOf(t) \subseteq HoldersOf(task)
    PROVE  Waits(t, Unlisted(queue, S)) /\ Unlisted(queue, S) \in Seq(Tasks)
<1> DEFINE q == Unlisted(queue, S)
<1>1. queue \in Seq(Tasks) /\ Waits(task, queue)
  BY DEF AsyncInv, TypeOK, Queued
<1>2. q \in Seq(Tasks) /\ Listed(q) = Listed(queue) \ S /\ Distinct(q)
  BY <1>1, UnlistedPicks, UnlistedElements, UnlistedDistinct DEF Waits
<1> HIDE DEF q
<1>3. \A x \in Tasks : t[x] = "waiting" <=> x \in Listed(q)
  BY <1>1, <1>2 DEF Waits
<1>4. ~Capped => q = <<>>
  <2>1. SUFFICES ASSUME ~Capped PROVE q = <<>>
    OBVIOUS
  <2>2. Listed(queue) = {}
    BY <2>1, <1>1 DEF Waits, Listed
  <2>3. QED
    BY <2>2, <1>2, NothingListed
<1>5. Capped => Cardinality(HoldersOf(t)) <= max_concurrency
  <2>1. SUFFICES ASSUME Capped PROVE Cardinality(HoldersOf(t)) <= max_concurrency
    OBVIOUS
  <2>2. IsFiniteSet(HoldersOf(task))
    BY TasksFinite DEF HoldersOf
  <2>3. Cardinality(HoldersOf(t)) <= Cardinality(HoldersOf(task))
    BY <2>2, FS_Subset
  <2>4. Cardinality(HoldersOf(task)) <= max_concurrency
    BY <2>1, <1>1 DEF Waits
  <2>5. Cardinality(HoldersOf(t)) \in Nat /\ Cardinality(HoldersOf(task)) \in Nat
    BY TasksFinite DEF HoldersOf
  <2>6. max_concurrency \in Nat
    BY <2>1, AsyncAssumption DEF Capped
  <2>7. QED
    BY <2>3, <2>4, <2>5, <2>6
<1>6. QED
  BY <1>2, <1>3, <1>4, <1>5 DEF Waits, q

EndedCall(c, order, result) ==
    [pc |-> "returned", kind |-> call[c].kind, n |-> call[c].n, order |-> order, result |-> result]

(* The stages of the tasks before permits are handed over.                 *)
AfterReturn(gone, p, t) ==
    [x \in Tasks |-> IF x[1] \in gone THEN "none" ELSE IF x = p THEN "running" ELSE t[x]]

LEMMA ReturnsHolds ==
    ASSUME AsyncInv, NEW c \in Calls, call[c].pc = "driving",
           NEW i \in Indices, task[<<c, i>>] = "running",
           NEW order \in Seq(Entries), NEW result \in Ends \cup Seq(Entries \cup {Nil}),
           result \in Promised(call[c].kind, call[c].n, order),
           Returns(c, order, result, [task EXCEPT ![<<c, i>>] = "ended"]), SlotKept'
    PROVE  AsyncInv'
<1> DEFINE ended == [task EXCEPT ![<<c, i>>] = "ended"]
           gone == Under(c)
           p == call[c].parent
           t == AfterReturn(gone, p, ended)
           q == Unlisted(queue, gone \X Indices)
           r == EndedCall(c, order, result)
<1>1. /\ call' = [d \in Calls |-> IF d = c THEN r ELSE IF d \in gone THEN Over ELSE call[d]]
      /\ Handed(t, q)
  BY DEF Returns, EndedCall, Over, AfterReturn
<1>2. c \in gone /\ gone \subseteq Calls /\ ClosedBelow(gone)
  BY UnderClosed
<1>3. call[c] \in DrivingCalls
  BY DrivingShape DEF AsyncInv
<1>4. /\ r \in ReturnedCalls /\ r.pc = "returned" /\ r.kind = call[c].kind /\ r.n = call[c].n
      /\ r.order = order /\ r.result = result
  <2>1. call[c].kind \in Kinds /\ call[c].n \in 0 .. MaxTasks
    BY <1>3, AsyncAssumption DEF DrivingCalls, Indices
  <2>2. QED
    BY <2>1 DEF EndedCall, ReturnedCalls
<1>5. \A x \in Tasks : ended[x] = IF x = <<c, i>> THEN "ended" ELSE task[x]
  BY DEF AsyncInv, TypeOK
<1> HIDE DEF ended, gone, r
<1>6. \A x \in Tasks : t[x] = IF x[1] \in gone
                              THEN "none"
                              ELSE IF x = p THEN "running" ELSE task[x]
  <2>1. \A x \in Tasks : x[1] \notin gone => x # <<c, i>>
    BY <1>2
  <2>2. QED
    BY <2>1, <1>5 DEF AfterReturn
<1>7. t \in [Tasks -> Stages]
  <2>1. \A x \in Tasks : t[x] \in Stages
    BY <1>6 DEF AsyncInv, TypeOK, Stages
  <2>2. QED
    BY <2>1 DEF AfterReturn
<1>8. \A x \in Tasks : x = p => task[x] = "nested"
  BY <1>3, TaskShape DEF AsyncInv, Linked
<1> HIDE DEF t, p
<1>9. Waits(t, q) /\ q \in Seq(Tasks)
  <2>1. \A x \in Tasks : x[1] \in gone <=> x \in gone \X Indices
    BY TaskShape
  <2>2. \A x \in Tasks : t[x] = "waiting" <=> task[x] = "waiting" /\ x \notin gone \X Indices
    BY <2>1, <1>6, <1>8
  <2>3. HoldersOf(t) \subseteq HoldersOf(task)
    BY <1>6, <1>8 DEF HoldersOf
  <2>4. QED
    BY <2>2, <2>3, <1>7, WaitsFewer
<1> HIDE DEF q
<1>10. /\ task' \in [Tasks -> Stages] /\ queue' \in Seq(Tasks)
       /\ \A x \in Tasks : task'[x] = t[x] \/ (t[x] = "waiting" /\ task'[x] = "running")
       /\ Queued'
  BY <1>1, <1>7, <1>9, HandedKeeps
<1>11. /\ call'[c] = r
       /\ \A d \in gone \ {c} : call'[d] = Over
       /\ \A d \in Calls \ gone : call'[d] = call[d]
  BY <1>1, <1>2
<1>12. Over.pc = "over"
  BY DEF Over
<1>13. \A d \in Calls : call'[d].pc = "driving" => /\ d \in Calls \ gone /\ d # c
                                                  /\ call[d].pc = "driving" /\ call'[d] = call[d]
  BY <1>2, <1>4, <1>11, <1>12
<1>14. TypeOK'
  <2>1. \A d \in Calls : call'[d] \in {Fresh, Over} \cup DrivingCalls \cup ReturnedCalls
    BY <1>2, <1>4, <1>11 DEF AsyncInv, TypeOK
  <2>2. call' \in [Calls -> {Fresh, Over} \cup DrivingCalls \cup ReturnedCalls]
    BY <2>1, <1>1
  <2>3. QED
    BY <2>2, <1>10 DEF TypeOK
<1>15. Linked'
  <2>1. ASSUME NEW x \in Tasks, task'[x] # "none"
        PROVE  call'[x[1]].pc = "driving"
    <3>1. t[x] # "none" /\ x[1] \in Calls
      BY <2>1, <1>10, TaskShape
    <3>2. x[1] \notin gone /\ task[x] # "none"
      BY <3>1, <1>6, <1>8
    <3>3. QED
      BY <3>1, <3>2, <1>11 DEF AsyncInv, Linked
  <2>2. ASSUME NEW d \in Calls, call'[d].pc = "driving", call'[d].parent # Main
        PROVE  task'[call'[d].parent] = "nested"
    <3>1. d \notin gone /\ d # c /\ call[d].pc = "driving" /\ call'[d] = call[d]
      BY <2>2, <1>13
    <3>2. call[d].parent \in Tasks
      BY <3>1, <2>2, DrivingShape, DrivingFields DEF AsyncInv
    <3>3. task[call[d].parent] = "nested" /\ call[d].parent # p
      BY <3>1, <2>2 DEF AsyncInv, Linked, p
    <3>4. call[d].parent \notin gone \X Indices
      BY <3>1, <1>2 DEF ClosedBelow
    <3>5. call[d].parent[1] \notin gone
      BY <3>2, <3>4, TaskShape
    <3>6. t[call[d].parent] = "nested"
      BY <3>2, <3>3, <3>5, <1>6
    <3>7. QED
      BY <3>1, <3>2, <3>6, <1>10
  <2>3. ASSUME NEW d \in Calls, NEW e \in Calls, call'[d].pc = "driving", call'[e].pc = "driving",
               call'[d].parent = call'[e].parent
        PROVE  d = e
    BY <2>3, <1>13 DEF AsyncInv, Linked
  <2>4. QED
    BY <2>1, <2>2, <2>3 DEF Linked
<1>16. Filled'
  <2>1. ASSUME NEW d \in Calls, call'[d].pc = "driving"
        PROVE  Fills(d, call'[d], task')
    <3>1. d \notin gone /\ call[d].pc = "driving" /\ call'[d] = call[d]
      BY <2>1, <1>13
    <3>2. \A j \in Indices : /\ task'[<<d, j>>] = "none" <=> task[<<d, j>>] = "none"
                             /\ task'[<<d, j>>] = "ended" <=> task[<<d, j>>] = "ended"
      BY <3>1, <1>6, <1>8, <1>10, TaskShape
    <3>3. Fills(d, call[d], task)
      BY <3>1 DEF AsyncInv, Filled
    <3>4. QED
      BY <3>1, <3>2, <3>3, FillsStay
  <2>2. QED
    BY <2>1 DEF Filled, Fills, Ordered, Placed, Breaks
<1>17. ReturnsPromised'
  <2>1. ASSUME NEW d \in Calls, call'[d].pc = "returned"
        PROVE  call'[d].result \in Promised(call'[d].kind, call'[d].n, call'[d].order)
    <3>1. CASE d = c
      BY <3>1, <1>4, <1>11
    <3>2. CASE d # c
      <4>1. d \notin gone /\ call'[d] = call[d]
        BY <3>2, <2>1, <1>11, <1>12
      <4>2. QED
        BY <4>1, <2>1 DEF AsyncInv, ReturnsPromised
    <3>3. QED
      BY <3>1, <3>2
  <2>2. QED
    BY <2>1 DEF ReturnsPromised, Promised, Kept, Unlisted
<1>18. QED
  BY <1>10, <1>14, <1>15, <1>16, <1>17 DEF AsyncInv


WentOn(c, i, e) ==
    [call[c] EXCEPT !.order = Append(call[c].order, e), !.slots = Slotted(call[c].slots, i, e),
                    !.next = IF Refills(c) THEN call[c].next + 1 ELSE call[c].next]

(* The stages of the tasks before a permit is handed over.                 *)
Refilled(c, i) ==
    [x \in Tasks |-> IF Refills(c) /\ x = <<c, call[c].next>>
                     THEN "pending"
                     ELSE [task EXCEPT ![<<c, i>>] = "ended"][x]]

(* The loop goes on: the result is kept, and the next task may start.      *)
LEMMA GoesOnHolds ==
    ASSUME AsyncInv, NEW c \in Calls, call[c].pc = "driving",
           NEW i \in Indices, task[<<c, i>>] = "running",
           NEW e \in Entries, e.i = i, ~Breaks(call[c].kind, e.v),
           Len(Append(call[c].order, e)) # call[c].n,
           call' = [call EXCEPT ![c] = WentOn(c, i, e)],
           Handed(Refilled(c, i), queue), SlotKept'
    PROVE  AsyncInv'
<1> DEFINE x == call[c]
           next == IF Refills(c) THEN x.next + 1 ELSE x.next
           order == Append(x.order, e)
           slots == Slotted(x.slots, i, e)
           r == WentOn(c, i, e)
           t == Refilled(c, i)
<1>1. x \in DrivingCalls /\ Fills(c, x, task)
  BY DrivingShape DEF AsyncInv, Filled
<1>2. /\ x.pc = "driving" /\ x.kind \in Kinds /\ x.n \in Indices /\ x.limit \in Nat \ {0}
      /\ x.parent \in Tasks \cup {Main} /\ x.next \in Nat \ {0} /\ x.order \in Seq(Entries)
      /\ x.n \in Nat /\ x.n <= MaxTasks
  BY <1>1, DrivingFields
<1>3. /\ i < x.next /\ i \in 1 .. x.n
      /\ order \in Seq(Entries)
      /\ Len(order) = Len(x.order) + 1
      /\ \A j \in 1 .. Len(x.order) : order[j] = x.order[j]
      /\ order[Len(x.order) + 1] = e
      /\ Ordered(order, x.n)
      /\ Placed(slots, order, x.n)
  BY <1>1, OrderGrows
<1>4. /\ r = [pc |-> "driving", kind |-> x.kind, n |-> x.n, limit |-> x.limit,
              parent |-> x.parent, next |-> next, order |-> order, slots |-> slots]
  <2>1. r = [x EXCEPT !.order = order, !.slots = slots, !.next = next]
    BY DEF WentOn
  <2> HIDE DEF r, order, slots, next
  <2>2. QED
    BY <2>1, <1>1, <1>2 DEF DrivingCalls
<1> HIDE DEF r
<1>5. /\ r.pc = "driving" /\ r.kind = x.kind /\ r.n = x.n /\ r.limit = x.limit
      /\ r.parent = x.parent /\ r.next = next /\ r.order = order /\ r.slots = slots
  BY <1>4
<1> HIDE DEF order, slots
<1>6. next \in Nat \ {0} /\ (Refills(c) <=> x.next <= x.n)
  BY <1>2 DEF Refills
<1> HIDE DEF next
<1>7. r \in DrivingCalls
  <2>1. slots \in Seq(Entries \cup {Nil})
    BY <1>3 DEF Placed
  <2>2. [pc |-> "driving", kind |-> x.kind, n |-> x.n, limit |-> x.limit,
         parent |-> x.parent, next |-> next, order |-> order, slots |-> slots] \in DrivingCalls
    BY <2>1, <1>2, <1>3, <1>6 DEF DrivingCalls
  <2>3. QED
    BY <2>2, <1>4
<1>8. /\ \A d \in Calls : call'[d] = IF d = c THEN r ELSE call[d]
      /\ call' \in [Calls -> {Fresh, Over} \cup DrivingCalls \cup ReturnedCalls]
  BY <1>7 DEF AsyncInv, TypeOK, r
<1>9. Refills(c) => x.next \in Indices /\ task[<<c, x.next>>] = "none"
  <2>1. SUFFICES ASSUME Refills(c) PROVE x.next \in Indices /\ task[<<c, x.next>>] = "none"
    OBVIOUS
  <2>2. x.next \in Indices
    BY <2>1, <1>2, <1>6, AsyncAssumption DEF Indices
  <2>3. QED
    BY <2>2, <1>1, <1>2 DEF Fills
<1>10. \A y \in Tasks : t[y] = IF Refills(c) /\ y = <<c, x.next>>
                               THEN "pending"
                               ELSE IF y = <<c, i>> THEN "ended" ELSE task[y]
  BY DEF AsyncInv, TypeOK, Refilled
<1>11. t \in [Tasks -> Stages]
  <2>1. \A y \in Tasks : t[y] \in Stages
    BY <1>10 DEF AsyncInv, TypeOK, Stages
  <2>2. QED
    BY <2>1 DEF Refilled
<1> HIDE DEF t
<1>12. \A y \in Tasks : y = <<c, x.next>> /\ Refills(c) => task[y] = "none"
  BY <1>9
<1>13. Waits(t, queue) /\ queue \in Seq(Tasks)
  <2>1. queue \in Seq(Tasks) /\ Waits(task, queue)
    BY DEF AsyncInv, TypeOK, Queued
  <2>2. \A y \in Tasks : t[y] = "waiting" <=> task[y] = "waiting"
    BY <1>10, <1>12
  <2>3. HoldersOf(t) \subseteq HoldersOf(task)
    BY <1>10, <1>12 DEF HoldersOf
  <2>4. Capped => Cardinality(HoldersOf(t)) <= max_concurrency
    <3>1. SUFFICES ASSUME Capped PROVE Cardinality(HoldersOf(t)) <= max_concurrency
      OBVIOUS
    <3>2. IsFiniteSet(HoldersOf(task))
      BY TasksFinite DEF HoldersOf
    <3>3. Cardinality(HoldersOf(t)) <= Cardinality(HoldersOf(task))
      BY <2>3, <3>2, FS_Subset
    <3>4. Cardinality(HoldersOf(t)) \in Nat /\ Cardinality(HoldersOf(task)) \in Nat
      BY TasksFinite DEF HoldersOf
    <3>5. max_concurrency \in Nat /\ Cardinality(HoldersOf(task)) <= max_concurrency
      BY <3>1, <2>1, AsyncAssumption DEF Capped, Waits
    <3>6. QED
      BY <3>3, <3>4, <3>5
  <2>5. QED
    BY <2>1, <2>2, <2>4 DEF Waits
<1>14. /\ task' \in [Tasks -> Stages] /\ queue' \in Seq(Tasks)
       /\ \A y \in Tasks : task'[y] = t[y] \/ (t[y] = "waiting" /\ task'[y] = "running")
       /\ Queued'
  BY <1>11, <1>13, HandedKeeps DEF t
<1>15. TypeOK'
  BY <1>8, <1>14 DEF TypeOK
<1>16. \A d \in Calls : /\ call'[d].pc = "driving" <=> call[d].pc = "driving"
                        /\ call[d].pc = "driving" => call'[d].parent = call[d].parent
                        /\ d # c => call'[d] = call[d]
  BY <1>2, <1>5, <1>8
<1>17. Linked'
  <2>1. ASSUME NEW y \in Tasks, task'[y] # "none"
        PROVE  call'[y[1]].pc = "driving"
    <3>1. t[y] # "none" /\ y[1] \in Calls
      BY <2>1, <1>14, TaskShape
    <3>2. y[1] = c \/ task[y] # "none"
      BY <3>1, <1>10
    <3>3. call[y[1]].pc = "driving"
      BY <3>1, <3>2, <1>2 DEF AsyncInv, Linked
    <3>4. QED
      BY <3>1, <3>3, <1>16
  <2>2. ASSUME NEW d \in Calls, call'[d].pc = "driving", call'[d].parent # Main
        PROVE  task'[call'[d].parent] = "nested"
    <3>1. call[d].pc = "driving" /\ call'[d].parent = call[d].parent
      BY <2>2, <1>16
    <3>2. call[d].parent \in Tasks /\ task[call[d].parent] = "nested"
      BY <3>1, <2>2, DrivingShape, DrivingFields DEF AsyncInv, Linked
    <3>3. t[call[d].parent] = "nested"
      BY <3>2, <1>10, <1>12
    <3>4. QED
      BY <3>1, <3>2, <3>3, <1>14
  <2>3. QED
    BY <2>1, <2>2, <1>16 DEF AsyncInv, Linked
<1>18. Fills(c, r, task')
  <2>1. next <= r.n + 1 /\ next - 1 - Len(order) <= r.limit
    <3>1. x.next <= x.n + 1 /\ x.next - 1 - Len(x.order) <= x.limit /\ Len(x.order) \in Nat
      BY <1>1, <1>2 DEF Fills
    <3>2. x.next \in Nat /\ x.n \in Nat /\ x.limit \in Nat
      BY <1>2
    <3>3. /\ x.next <= x.n => next = x.next + 1
          /\ ~(x.next <= x.n) => next = x.next
      BY <1>6 DEF next
    <3>4. next <= x.n + 1
      BY <3>1, <3>2, <3>3
    <3>5. next - 1 <= x.next
      BY <3>1, <3>2, <3>3
    <3>6. next \in Nat
      BY <3>2, <3>3
    <3> DEFINE m == Len(x.order)
    <3>7. m \in Nat /\ x.next - 1 - m <= x.limit /\ Len(order) = m + 1
      BY <3>1, <1>3
    <3> HIDE DEF m
    <3>8. next - 1 - (m + 1) <= x.limit
      BY <3>2, <3>5, <3>6, <3>7
    <3>9. QED
      BY <3>4, <3>7, <3>8, <1>5
  <2>2. \A j \in Indices : task'[<<c, j>>] = "none" <=> j >= next
    <3>1. ASSUME NEW j \in Indices
          PROVE  task'[<<c, j>>] = "none" <=> j >= next
      <4>1. task'[<<c, j>>] = "none" <=> t[<<c, j>>] = "none"
        BY <1>14, TaskShape
      <4>2. t[<<c, j>>] = "none" <=> task[<<c, j>>] = "none" /\ ~(Refills(c) /\ j = x.next)
        BY <1>10, TaskShape
      <4>3. task[<<c, j>>] = "none" <=> j >= x.next
        BY <1>1 DEF Fills
      <4>4. j \in Int
        BY DEF Indices
      <4>5. QED
        BY <4>1, <4>2, <4>3, <4>4, <1>2 DEF next
    <3>2. QED
      BY <3>1
  <2>3. \A j \in Indices : task'[<<c, j>>] = "ended" <=> \E k \in 1 .. Len(r.order) : r.order[k].i = j
    <3>1. /\ Len(r.order) = Len(x.order) + 1
          /\ \A k \in 1 .. Len(x.order) : r.order[k] = x.order[k]
          /\ r.order[Len(x.order) + 1] = e
      BY <1>3, <1>5
    <3>2. ASSUME NEW j \in Indices
          PROVE  task'[<<c, j>>] = "ended" <=> \E k \in 1 .. Len(r.order) : r.order[k].i = j
      <4>1. task'[<<c, j>>] = "ended" <=> t[<<c, j>>] = "ended"
        BY <1>14, TaskShape
      <4>2. t[<<c, j>>] = "ended" <=> task[<<c, j>>] = "ended" \/ j = i
        BY <1>3, <1>10, <1>12, <1>2, TaskShape
      <4>3. task[<<c, j>>] = "ended" <=> \E k \in 1 .. Len(x.order) : x.order[k].i = j
        BY <1>1 DEF Fills
      <4>4. Len(x.order) \in Nat
        BY <1>2
      <4>5. \A k \in 1 .. Len(r.order) : k \in 1 .. Len(x.order) \/ k = Len(x.order) + 1
        BY <3>1, <4>4
      <4>6. /\ \A k \in 1 .. Len(x.order) : k \in 1 .. Len(r.order)
            /\ Len(x.order) + 1 \in 1 .. Len(r.order)
        BY <3>1, <4>4
      <4>7. (\E k \in 1 .. Len(r.order) : r.order[k].i = j) <=>
               (\E k \in 1 .. Len(x.order) : x.order[k].i = j) \/ j = i
        BY <3>1, <4>5, <4>6
      <4>8. QED
        BY <4>1, <4>2, <4>3, <4>7
    <3>3. QED
      BY <3>2
  <2>4. \A j \in 1 .. Len(order) : ~Breaks(r.kind, order[j].v)
    <3>1. \A j \in 1 .. Len(order) : j \in 1 .. Len(x.order) \/ j = Len(x.order) + 1
      BY <1>2, <1>3
    <3>2. \A j \in 1 .. Len(x.order) : ~Breaks(x.kind, x.order[j].v)
      BY <1>1 DEF Fills
    <3>3. QED
      BY <3>1, <3>2, <1>3, <1>5
  <2>5. Len(order) < r.n
    <3>1. Len(order) <= x.n /\ Len(order) \in Nat /\ Len(order) # x.n
      BY <1>3 DEF Ordered, order
    <3>2. QED
      BY <3>1, <1>2, <1>5
  <2>6. Ordered(r.order, r.n) /\ Placed(r.slots, r.order, r.n) /\ Len(r.order) < r.n
    BY <2>5, <1>3, <1>5
  <2>7. r.next <= r.n + 1 /\ r.next - 1 - Len(r.order) <= r.limit
    BY <2>1, <1>5
  <2>8. \A j \in Indices : task'[<<c, j>>] = "none" <=> j >= r.next
    BY <2>2, <1>5
  <2>9. \A j \in 1 .. Len(r.order) : ~Breaks(r.kind, r.order[j].v)
    BY <2>4, <1>5
  <2>10. QED
    BY <2>3, <2>6, <2>7, <2>8, <2>9 DEF Fills
<1>19. Filled'
  <2>1. ASSUME NEW d \in Calls, d # c, call[d].pc = "driving"
        PROVE  Fills(d, call[d], task')
    <3>1. \A j \in Indices : /\ task'[<<d, j>>] = "none" <=> task[<<d, j>>] = "none"
                             /\ task'[<<d, j>>] = "ended" <=> task[<<d, j>>] = "ended"
      BY <2>1, <1>10, <1>14, TaskShape
    <3>2. Fills(d, call[d], task)
      BY <2>1 DEF AsyncInv, Filled
    <3>3. QED
      BY <3>1, <3>2, FillsStay
  <2>2. \A d \in Calls : call'[d].pc = "driving" => Fills(d, call'[d], task')
    BY <2>1, <1>8, <1>16, <1>18
  <2>3. QED
    BY <2>2 DEF Filled, Fills, Ordered, Placed, Breaks
<1>20. ReturnsPromised'
  <2>1. \A d \in Calls : call'[d].pc = "returned" => call'[d] = call[d]
    BY <1>5, <1>8
  <2>2. \A d \in Calls : call'[d].pc = "returned" =>
           call'[d].result \in Promised(call'[d].kind, call'[d].n, call'[d].order)
    BY <2>1 DEF AsyncInv, ReturnsPromised
  <2>3. QED
    BY <2>2 DEF ReturnsPromised, Promised, Kept, Unlisted
<1>21. QED
  BY <1>14, <1>15, <1>17, <1>19, <1>20 DEF AsyncInv


(* What a task may end with, as its caller gets it: what is due for it.    *)
LEMMA RecoveredDue ==
    ASSUME SlotKept, NEW t \in Tasks, NEW end \in {Value, Failed, Error(t)}
    PROVE  LET filled == IF end = Error(t) THEN t ELSE slot IN
           /\ Due(end) \in Ends /\ (Due(end).ok <=> end.ok)
           /\ (IF end.ok THEN end ELSE Recovered(filled, end)) = Due(end)
<1> DEFINE filled == IF end = Error(t) THEN t ELSE slot
           got == IF end.ok THEN end ELSE Recovered(filled, end)
<1>1. Value.ok = TRUE /\ \A x : Error(x).ok = FALSE /\ Error(x).table = x
  BY DEF Value, Error
<1>2. t # Nil /\ Held # Nil
  BY AsyncAssumption
<1>3. Error(t) # Failed /\ Value # Failed /\ Value # Error(t) /\ Failed = Error(Nil)
  BY <1>1, <1>2 DEF Failed
<1>4. Value \in Ends /\ Failed \in Ends /\ Error(t) \in Ends /\ Error(Held) \in Ends
  BY FailedEnds DEF Ends, Errors
<1>5. CASE end = Value
  BY <1>1, <1>3, <1>4, <1>5 DEF Due
<1>6. CASE end = Error(t)
  <2>1. Due(end) = Error(t) /\ ~end.ok /\ filled = t
    BY <1>1, <1>3, <1>6 DEF Due
  <2>2. QED
    BY <1>2, <1>4, <1>6, <2>1 DEF Recovered
<1>7. CASE end = Failed
  <2>1. ~end.ok /\ filled = slot
    BY <1>1, <1>3, <1>7
  <2>2. CASE rendered
    <3>1. slot = Held /\ Due(end) = Error(Held)
      BY <1>7, <2>2 DEF SlotKept, Due
    <3>2. QED
      BY <1>1, <1>2, <1>4, <2>1, <3>1 DEF Recovered
  <2>3. CASE ~rendered
    <3>1. slot = Nil /\ Due(end) = end
      BY <1>7, <2>3 DEF SlotKept, Due
    <3>2. QED
      BY <1>4, <1>7, <2>1, <3>1 DEF Recovered
  <2>4. QED
    BY <2>2, <2>3
<1>8. QED
  BY <1>5, <1>6, <1>7

LEMMA SettleHolds ==
    ASSUME AsyncInv, NEW c \in Calls, NEW i \in Indices, NEW t, t = <<c, i>>, t \in Tasks,
           NEW end \in {Value, Failed, Error(t)}, Settle(c, i, end)
    PROVE  AsyncInv'
<1> DEFINE k == call[c].kind
           n == call[c].n
           d == Due(end)
           e == [i |-> i, v |-> d]
           order == Append(call[c].order, e)
           slots == Slotted(call[c].slots, i, e)
           ended == [task EXCEPT ![<<c, i>>] = "ended"]
           filled == IF end = Error(t) THEN t ELSE slot
           got == IF end.ok THEN end ELSE Recovered(filled, end)
<1>1. call[c].pc = "driving" /\ task[<<c, i>>] = "running" /\ SlotKept
  BY DEF Settle, AsyncInv, TypeOK
<1>2. got = d /\ d \in Ends /\ (d.ok <=> end.ok)
  BY <1>1, RecoveredDue
<1>3. SlotKept'
  <2>1. slot' = (IF end.ok THEN slot ELSE Nil) /\ rendered' = (rendered /\ end.ok)
    BY DEF Settle, Taken
  <2>2. end.ok \in BOOLEAN
    <3>1. end = Value \/ \E x : end = Error(x)
      BY DEF Failed
    <3>2. Value.ok = TRUE /\ \A x : Error(x).ok = FALSE
      BY DEF Value, Error
    <3>3. QED
      BY <3>1, <3>2
  <2>3. QED
    BY <1>1, <2>1, <2>2 DEF SlotKept
<1>4. IF Breaks(k, d)
      THEN Returns(c, order, d, ended)
      ELSE IF Len(order) = n
      THEN Returns(c, order, Gathered(k, slots), ended)
      ELSE /\ call' = [call EXCEPT ![c] = WentOn(c, i, e)]
           /\ Handed(Refilled(c, i), queue)
  <2>1. IF Breaks(k, got)
        THEN Returns(c, order, got, ended)
        ELSE IF Len(order) = n
        THEN Returns(c, order, Gathered(k, Slotted(call[c].slots, i, [i |-> i, v |-> got])), ended)
        ELSE /\ call' = [call EXCEPT ![c] =
                            [call[c] EXCEPT !.order = order,
                                            !.slots = Slotted(call[c].slots, i, [i |-> i, v |-> got]),
                                            !.next = IF Refills(c) THEN call[c].next + 1
                                                                   ELSE call[c].next]]
             /\ Handed([x \in Tasks |->
                           IF Refills(c) /\ x = <<c, call[c].next>> THEN "pending" ELSE ended[x]],
                       queue)
    BY DEF Settle
  <2> HIDE DEF got, d
  <2>2. QED
    BY <1>2, <2>1 DEF WentOn, Refilled
<1>5. call[c] \in DrivingCalls /\ Fills(c, call[c], task)
  BY <1>1, DrivingShape DEF AsyncInv, Filled
<1>6. k \in Kinds /\ n \in Nat /\ n > 0 /\ call[c].order \in Seq(Entries)
  BY <1>5, DrivingFields
<1>7. e \in Entries /\ e.i = i /\ e.v = d
  BY <1>2 DEF Entries
<1> HIDE DEF e, d
<1>8. /\ order \in Seq(Entries) /\ Len(order) = Len(call[c].order) + 1
      /\ LastEnd(order) = d
      /\ \A j \in 1 .. Len(call[c].order) : order[j] = call[c].order[j]
      /\ order[Len(call[c].order) + 1] = e
      /\ Ordered(order, n) /\ Placed(slots, order, n)
  BY <1>1, <1>5, <1>7, OrderGrows
<1>9. \A j \in 1 .. Len(call[c].order) : ~Breaks(k, call[c].order[j].v)
  BY <1>5 DEF Fills
<1>10. Len(call[c].order) \in Nat
  BY <1>6
<1> HIDE DEF k, n, order, slots, got, filled
<1>11. CASE Breaks(k, d)
  <2>1. d \in Promised(k, n, order)
    <3>1. Len(order) > 0 /\ Len(order) - 1 = Len(call[c].order)
      BY <1>8, <1>10
    <3>2. \A j \in 1 .. Len(order) - 1 : ~Breaks(k, order[j].v)
      BY <3>1, <1>8, <1>9
    <3>3. LastEnd(order) \in Promised(k, n, order)
      BY <3>1, <3>2, <1>6, <1>8, <1>11, BrokenPromised
    <3>4. QED
      BY <3>3, <1>8
  <2>2. Returns(c, order, d, ended)
    BY <1>4, <1>11
  <2>3. QED
    BY <2>1, <2>2, <1>1, <1>2, <1>3, <1>8, ReturnsHolds DEF k, n
<1>12. CASE ~Breaks(k, d) /\ Len(order) = n
  <2>1. \A j \in 1 .. n : j \in 1 .. Len(call[c].order) \/ j = Len(call[c].order) + 1
    BY <1>8, <1>10, <1>12
  <2>2. \A j \in 1 .. n : ~Breaks(k, order[j].v)
    BY <2>1, <1>7, <1>8, <1>9, <1>12
  <2>3. Gathered(k, slots) \in Promised(k, n, order)
    BY <2>2, <1>6, <1>8, <1>12, GatheredPromised
  <2>4. Gathered(k, slots) \in Ends \cup Seq(Entries \cup {Nil})
    <3>1. slots \in Seq(Entries \cup {Nil})
      BY <1>8 DEF Placed
    <3>2. Kept(slots) \in Seq(Entries \cup {Nil})
      BY <3>1, UnlistedPicks DEF Kept
    <3>3. QED
      BY <3>1, <3>2, FailedEnds DEF Gathered
  <2>5. Returns(c, order, Gathered(k, slots), ended)
    BY <1>4, <1>12
  <2>6. QED
    BY <2>3, <2>4, <2>5, <1>1, <1>3, <1>8, ReturnsHolds DEF k, n
<1>13. CASE ~Breaks(k, d) /\ Len(order) # n
  <2>1. /\ call' = [call EXCEPT ![c] = WentOn(c, i, e)]
        /\ Handed(Refilled(c, i), queue)
    BY <1>4, <1>13
  <2>2. ~Breaks(call[c].kind, e.v) /\ Len(Append(call[c].order, e)) # call[c].n
    BY <1>7, <1>13 DEF k, n, order
  <2>3. QED
    BY <2>1, <2>2, <1>1, <1>3, <1>7, GoesOnHolds
<1>14. QED
  BY <1>11, <1>12, <1>13

LEMMA StepHolds == AsyncInv /\ [AsyncNext]_asyncVars => AsyncInv'
<1> SUFFICES ASSUME AsyncInv, [AsyncNext]_asyncVars
             PROVE  AsyncInv'
  OBVIOUS
<1>1. ASSUME NEW c \in Calls, NEW p \in Tasks \cup {Main}, NEW k \in Kinds,
             NEW n \in 0 .. MaxTasks, NEW l \in 1 .. MaxLimit, Start(c, p, k, n, l)
      PROVE  AsyncInv'
  <2>1. n = 0 \/ n \in 1 .. MaxTasks
    BY AsyncAssumption
  <2>2. QED
    BY <2>1, <1>1, StartEmptyHolds, StartDrivingHolds
<1>2. ASSUME NEW t \in Tasks, Progress(t)
      PROVE  AsyncInv'
  <2>1. CASE Poll(t)
    BY <2>1, PollHolds
  <2>2. ASSUME NEW end \in {Value, Failed, Error(t)}, Settle(t[1], t[2], end)
        PROVE  AsyncInv'
    <3>1. t[1] \in Calls /\ t[2] \in Indices /\ t = <<t[1], t[2]>>
      BY TaskShape
    <3>2. QED
      BY <2>2, <3>1, SettleHolds
  <2>3. QED
    BY <1>2, <2>1, <2>2 DEF Progress
<1>3. CASE Cancel
  BY <1>3, CancelHolds
<1>4. CASE (\E x \in {Held, Nil} : Render(x)) \/ UNCHANGED asyncVars
  <2>1. call' = call /\ task' = task /\ queue' = queue /\ SlotKept'
    <3>1. ASSUME NEW x \in {Held, Nil}, Render(x)
          PROVE  call' = call /\ task' = task /\ queue' = queue /\ SlotKept'
      <4>1. slot' = x /\ rendered' = (x = Held) /\ (x = Held \/ x = Nil) /\ Held # Nil
        BY <3>1, AsyncAssumption DEF Render
      <4>2. SlotKept'
        BY <4>1 DEF SlotKept
      <4>3. QED
        BY <3>1, <4>2 DEF Render
    <3>2. CASE UNCHANGED asyncVars
      BY <3>2 DEF asyncVars, AsyncInv, TypeOK, SlotKept
    <3>3. QED
      BY <1>4, <3>1, <3>2
  <2>2. task' \in [Tasks -> Stages] /\ queue' \in Seq(Tasks)
    BY <2>1 DEF AsyncInv, TypeOK
  <2>3. Queued'
    BY <2>1 DEF AsyncInv, Queued, Waits, Prompt, Capped, HoldersOf
  <2>4. QED
    BY <2>1, <2>2, <2>3, OnlyPolled
<1>5. QED
  BY <1>1, <1>2, <1>3, <1>4 DEF AsyncNext, Begin

LEMMA InvAlways == AsyncSpec => []AsyncInv
<1>1. QED
  BY InitHolds, StepHolds, PTL DEF AsyncSpec


-----------------------------------------------------------------------------
(* What the invariant says of a window: the futures alive are those that   *)
(* have been started and have not ended.                                   *)
LEMMA WindowHeld ==
    ASSUME AsyncInv, NEW c \in Calls, call[c].pc = "driving"
    PROVE  Cardinality(InFlight(c)) <= call[c].limit
<1> DEFINE x == call[c]
           m == Len(x.order)
           p == [j \in 1 .. m |-> x.order[j].i]
<1>1. x \in DrivingCalls /\ Fills(c, x, task)
  BY DrivingShape DEF AsyncInv, Filled
<1>2. x.next \in Nat \ {0} /\ x.n \in Nat /\ x.n <= MaxTasks /\ x.limit \in Nat /\ m \in Nat
  BY <1>1, DrivingFields
<1>3. Listed(p) = {i \in Indices : task[<<c, i>>] = "ended"}
      /\ IsFiniteSet(Listed(p)) /\ Cardinality(Listed(p)) = m
  <2>1. \A j \in 1 .. m : x.order[j].i \in Indices
    <3>1. \A j \in 1 .. m : x.order[j] \in Entries
      BY <1>1, DrivingFields
    <3>2. QED
      BY <3>1, EntryShape
  <2>2. p \in Seq(Indices) /\ Len(p) = m /\ \A j \in 1 .. m : p[j] = x.order[j].i
    BY <1>2, <2>1
  <2> HIDE DEF p, m
  <2>3. Distinct(p)
    BY <1>1, <2>2 DEF Fills, Ordered, Distinct, m
  <2>4. Listed(p) = {i \in Indices : task[<<c, i>>] = "ended"}
    <3>1. \A i \in Indices : task[<<c, i>>] = "ended" <=> \E j \in 1 .. m : x.order[j].i = i
      BY <1>1 DEF Fills, m
    <3>2. QED
      BY <2>1, <2>2, <3>1 DEF Listed
  <2>5. QED
    BY <2>2, <2>3, <2>4, DistinctLength
<1> HIDE DEF p
<1> DEFINE started == 1 .. x.next - 1
<1>4. x.next <= x.n + 1 /\ x.next - 1 - m <= x.limit
  BY <1>1 DEF Fills
<1>5. \A i \in Indices : i \in started <=> task[<<c, i>>] # "none"
  <2>1. \A i \in Indices : i \in Nat /\ i > 0
    BY AsyncAssumption DEF Indices
  <2>2. \A i \in Indices : task[<<c, i>>] = "none" <=> i >= x.next
    BY <1>1 DEF Fills
  <2>3. QED
    BY <2>1, <2>2, <1>2
<1>6. started \subseteq Indices /\ IsFiniteSet(started) /\ Cardinality(started) = x.next - 1
  <2>1. 1 \in Int /\ x.next - 1 \in Int /\ x.next - 1 <= MaxTasks /\ MaxTasks \in Nat
    BY <1>2, <1>4, AsyncAssumption
  <2>2. IsFiniteSet(started)
    BY <2>1, FS_Interval
  <2>3. Cardinality(started) = IF 1 > x.next - 1 THEN 0 ELSE x.next - 1 - 1 + 1
    BY <2>1, FS_Interval
  <2>4. QED
    BY <2>1, <2>2, <2>3, <1>2 DEF Indices
<1>7. Listed(p) \subseteq started
  BY <1>3, <1>5
<1>8. InFlight(c) \subseteq started \ Listed(p)
  BY <1>3, <1>5, <1>6 DEF InFlight, Alive
<1>9. Cardinality(started \ Listed(p)) = x.next - 1 - m
  <2>1. Cardinality(started \ Listed(p)) = Cardinality(started) - Cardinality(started \cap Listed(p))
    BY <1>6, FS_Difference
  <2>2. started \cap Listed(p) = Listed(p)
    BY <1>7
  <2>3. QED
    BY <2>1, <2>2, <1>3, <1>6
<1>10. /\ IsFiniteSet(started \ Listed(p))
       /\ Cardinality(InFlight(c)) <= Cardinality(started \ Listed(p))
       /\ Cardinality(InFlight(c)) \in Nat
  <2>1. IsFiniteSet(started \ Listed(p))
    BY <1>6, FS_Difference
  <2>2. QED
    BY <2>1, <1>8, FS_Subset, FS_CardinalityType
<1> HIDE DEF started, m
<1>11. QED
  BY <1>2, <1>4, <1>9, <1>10

(* Whatever the kind of a call, its limits and the nesting, and in         *)
(* whatever order its tasks end: a call that returns returns what is       *)
(* promised of those ends.                                                 *)
THEOREM ReturnsCorrect == AsyncSpec => []ReturnsPromised
<1>1. AsyncInv => ReturnsPromised
  BY DEF AsyncInv
<1>2. QED
  BY InvAlways, <1>1, PTL

(* A combinator that settles early takes with it every task below it: no   *)
(* task is alive under a call that is over, however deep it was nested.    *)
THEOREM EarlySettleCorrect == AsyncSpec => []NothingLeftBehind
<1>1. AsyncInv => NothingLeftBehind
  <2>1. \A t \in Tasks : task[t] \in Alive => task[t] # "none"
    BY DEF Alive
  <2>2. QED
    BY <2>1 DEF AsyncInv, Linked, NothingLeftBehind
<1>2. QED
  BY InvAlways, <1>1, PTL

(* The permits of the VM and the windows of its calls are kept in every    *)
(* state, none is given twice, and none is idle while a task waits.        *)
THEOREM PermitsCorrect == AsyncSpec => []PermitsExact
<1>1. AsyncInv => PermitsExact
  <2>1. SUFFICES ASSUME AsyncInv PROVE PermitsExact
    OBVIOUS
  <2>2. Holders = HoldersOf(task) /\ Waits(task, queue) /\ Prompt(task, queue)
    BY <2>1 DEF AsyncInv, Queued, Holders, HoldersOf
  <2>3. queue \in Seq(Tasks)
    BY <2>1 DEF AsyncInv, TypeOK
  <2>4. DOMAIN queue = 1 .. Len(queue)
    BY <2>3
  <2>5. ToSet(queue) = {t \in Tasks : task[t] = "waiting"}
    <3>1. ToSet(queue) = Listed(queue) /\ Listed(queue) \subseteq Tasks
      BY <2>3, <2>4 DEF ToSet, Listed
    <3>2. QED
      BY <3>1, <2>2 DEF Waits
  <2>6. IsInjective(queue)
    BY <2>2, <2>4 DEF IsInjective, Waits, Distinct
  <2>7. \A c \in Calls : call[c].pc = "driving" => Cardinality(InFlight(c)) <= call[c].limit
    BY <2>1, WindowHeld
  <2>8. QED
    BY <2>2, <2>5, <2>6, <2>7 DEF PermitsExact, Waits, Prompt
<1>2. QED
  BY InvAlways, <1>1, PTL

=============================================================================
