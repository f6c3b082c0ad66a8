------------------------- MODULE StateStore_proofs -------------------------
(***************************************************************************)
(* Proofs about StateStore, for any keys, clients, caps and bounds.        *)
(***************************************************************************)
EXTENDS StateStore, Listing_proofs, TLAPS

(* m is a record of Inner's fields whose map is a function on Keys. *)
Shaped(m) ==
    /\ m = [map |-> m.map, order |-> m.order, bytes |-> m.bytes,
            last_version |-> m.last_version, last_sweep |-> m.last_sweep,
            earliest |-> m.earliest]
    /\ m.map = [k \in Keys |-> m.map[k]]
    /\ m.last_version \in Nat

(* Every entry has a value, at a version handed out before. *)
Versioned(m) ==
    \A k \in Present(m) : /\ m.map[k].value \in Values
                          /\ m.map[k].version \in 1 .. m.last_version

(* From m to n, entries were only removed, the keys of S aside. *)
Shrunk(m, n, S) ==
    /\ Shaped(n)
    /\ \A k \in Keys \ S : n.map[k] \in {m.map[k], Nil}

Removed(m, n) == Shrunk(m, n, {}) /\ n.last_version = m.last_version

LEMMA WithoutRemoves ==
    ASSUME NEW m, Shaped(m), NEW S
    PROVE  Removed(m, Without(m, S))
<1> DEFINE gone == S \cap Present(m)
           map == [k \in Keys |-> IF k \in gone THEN Nil ELSE m.map[k]]
           order == Unlisted(m.order, {k \in gone : m.map[k].evictable})
           bytes == m.bytes - Bytes(m, gone)
<1>1. Without(m, S) = [m EXCEPT !.map = map, !.order = order, !.bytes = bytes]
  BY DEF Without
<1>2. \A k \in Keys : map[k] \in {m.map[k], Nil}
  OBVIOUS
<1>3. map = [k \in Keys |-> map[k]]
  OBVIOUS
<1> HIDE DEF map, order, bytes
<1>4. /\ Without(m, S).map = map
      /\ Without(m, S).last_version = m.last_version
      /\ Without(m, S) = [map |-> map, order |-> order, bytes |-> bytes,
                          last_version |-> m.last_version,
                          last_sweep |-> m.last_sweep, earliest |-> m.earliest]
  BY <1>1 DEF Shaped
<1>5. QED
  BY <1>2, <1>3, <1>4 DEF Shaped, Removed, Shrunk

(* A removal by any of the operators, of dead, expired or given keys. *)
LEMMA RemovedTwice ==
    ASSUME NEW m, NEW n, NEW o, Removed(m, n), Removed(n, o)
    PROVE  Removed(m, o)
  BY DEF Removed, Shrunk

LEMMA LiveRemoves ==
    ASSUME NEW m, Shaped(m), NEW k
    PROVE  Removed(m, Live(m, k))
  BY WithoutRemoves DEF Live

LEMMA DropExpiredRemoves ==
    ASSUME NEW m, Shaped(m)
    PROVE  Removed(m, DropExpired(m))
<1> DEFINE gone == {k \in Keys : /\ PastExpiry(m.map[k], now)
                                 /\ m.map[k].evictable \/ IsDead(m.map[k], now)}
           n == Without(m, gone)
           ahead == {t \in {n.map[k].expires : k \in Present(n)} \ {Never} : t > now}
           earliest == IF ahead = {} THEN Never ELSE Min(ahead)
<1>1. DropExpired(m) = m \/ DropExpired(m) = [n EXCEPT !.earliest = earliest]
  BY DEF DropExpired
<1>2. Removed(m, n)
  BY WithoutRemoves
<1> HIDE DEF n, earliest
<1>3. [n EXCEPT !.earliest = earliest]
        = [map |-> n.map, order |-> n.order, bytes |-> n.bytes,
           last_version |-> n.last_version, last_sweep |-> n.last_sweep,
           earliest |-> earliest]
  BY <1>2 DEF Removed, Shrunk, Shaped
<1>4. Removed(m, [n EXCEPT !.earliest = earliest])
  BY <1>2, <1>3 DEF Removed, Shrunk, Shaped
<1>5. Removed(m, m)
  BY DEF Removed, Shrunk
<1>6. QED
  BY <1>1, <1>4, <1>5

LEMMA SweptRemoves ==
    ASSUME NEW m, Shaped(m)
    PROVE  Removed(m, Swept(m))
<1> DEFINE n == DropDead(m)
<1>1. Swept(m) = m \/ Swept(m) = [n EXCEPT !.last_sweep = now]
  BY DEF Swept
<1>2. Removed(m, n)
  BY WithoutRemoves DEF DropDead
<1> HIDE DEF n
<1>3. [n EXCEPT !.last_sweep = now]
        = [map |-> n.map, order |-> n.order, bytes |-> n.bytes,
           last_version |-> n.last_version, last_sweep |-> now,
           earliest |-> n.earliest]
  BY <1>2 DEF Removed, Shrunk, Shaped
<1>4. Removed(m, [n EXCEPT !.last_sweep = now])
  BY <1>2, <1>3 DEF Removed, Shrunk, Shaped
<1>5. Removed(m, m)
  BY DEF Removed, Shrunk
<1>6. QED
  BY <1>1, <1>4, <1>5

LEMMA TouchRemoves ==
    ASSUME NEW m, Shaped(m), NEW k
    PROVE  Removed(m, Touch(m, k))
<1> DEFINE order == Append(Unlisted(m.order, {k}), k)
<1>1. Touch(m, k) = m \/ Touch(m, k) = [m EXCEPT !.order = order]
  BY DEF Touch
<1> HIDE DEF order
<1>2. [m EXCEPT !.order = order]
        = [map |-> m.map, order |-> order, bytes |-> m.bytes,
           last_version |-> m.last_version, last_sweep |-> m.last_sweep,
           earliest |-> m.earliest]
  BY DEF Shaped
<1>3. Removed(m, [m EXCEPT !.order = order])
  BY <1>2 DEF Removed, Shrunk, Shaped
<1>4. Removed(m, m)
  BY DEF Removed, Shrunk
<1>5. QED
  BY <1>1, <1>3, <1>4

(* n is m with v stored under k at the next version; other entries may be   *)
(* gone.                                                                    *)
Stored(m, n, k, v) ==
    /\ Shrunk(m, n, {k})
    /\ n.last_version = m.last_version + 1
    /\ n.map[k].value = v /\ n.map[k].version = n.last_version

LEMMA InsertStores ==
    ASSUME NEW m, Shaped(m), NEW k \in Keys, NEW v, NEW meta
    PROVE  Stored(m, InsertFresh(m, k, v, meta), k, v)
<1> DEFINE n == Without(m, {k})
           entry == [value |-> v, version |-> n.last_version + 1,
                     expires |-> meta.expires, stale_for |-> meta.stale_for,
                     evictable |-> meta.evictable]
           order == IF meta.evictable THEN Append(n.order, k) ELSE n.order
           bytes == n.bytes + Size(v)
           earliest == IF meta.expires = Never THEN n.earliest
                       ELSE IF n.earliest = Never THEN meta.expires
                       ELSE Min({n.earliest, meta.expires})
           new == InsertFresh(m, k, v, meta)
<1>1. Removed(m, n)
  BY WithoutRemoves
<1>2. new = [n EXCEPT !.map[k] = entry, !.last_version = @ + 1, !.order = order,
                      !.bytes = bytes, !.earliest = earliest]
  BY DEF InsertFresh
<1>3. entry.value = v /\ entry.version = n.last_version + 1
  OBVIOUS
<1> HIDE DEF n, entry, order, bytes, earliest, new
<1>4. new = [map |-> [n.map EXCEPT ![k] = entry], order |-> order, bytes |-> bytes,
             last_version |-> n.last_version + 1, last_sweep |-> n.last_sweep,
             earliest |-> earliest]
  BY <1>1, <1>2 DEF Removed, Shrunk, Shaped
<1>5. /\ new.map = [n.map EXCEPT ![k] = entry]
      /\ new.last_version = n.last_version + 1
  BY <1>4
<1>6. Shaped(new)
  BY <1>1, <1>4, <1>5 DEF Removed, Shrunk, Shaped
<1>7. /\ new.map[k] = entry
      /\ \A x \in Keys \ {k} : new.map[x] \in {m.map[x], Nil}
  BY <1>1, <1>5 DEF Removed, Shrunk, Shaped
<1>8. QED
  BY <1>1, <1>3, <1>5, <1>6, <1>7 DEF Stored, Removed, Shrunk, new

(* put stores v at the next version, or stores nothing; either way what     *)
(* else it does is to remove entries.                                       *)
LEMMA PutStores ==
    ASSUME NEW m, Shaped(m), NEW k \in Keys, NEW v \in Values \cup {Nil}, NEW w
    PROVE  \/ Removed(m, Put(m, k, v, w).m)
           \/ v # Nil /\ Stored(m, Put(m, k, v, w).m, k, v)
<1> DEFINE s == Swept(m)
           meta == Meta(s, k, w)
           l == Live(s, k)
           size == Size(v)
           r == IF Fits(l, k, size, {}) THEN l ELSE DropExpired(l)
           room == Without(r, Victims(r, k, size))
<1>1. CASE v = Nil
  BY <1>1, WithoutRemoves DEF Put
<1>2. CASE v # Nil
  <2>1. Removed(m, s)
    BY SweptRemoves
  <2>2. Removed(m, l)
    BY <2>1, LiveRemoves, RemovedTwice DEF Removed, Shrunk
  <2>3. Removed(m, r)
    <3>1. Removed(l, DropExpired(l))
      BY <2>2, DropExpiredRemoves DEF Removed, Shrunk
    <3>2. QED
      BY <2>2, <3>1, RemovedTwice
  <2>4. Removed(m, room)
    BY <2>3, WithoutRemoves, RemovedTwice DEF Removed, Shrunk
  <2>5. Stored(room, InsertFresh(room, k, v, meta), k, v)
    BY <2>4, InsertStores DEF Removed, Shrunk
  <2>6. Stored(m, InsertFresh(room, k, v, meta), k, v)
    BY <2>4, <2>5 DEF Stored, Removed, Shrunk
  <2>7. \/ Put(m, k, v, w).m = l
        \/ Put(m, k, v, w).m = r
        \/ Put(m, k, v, w).m = InsertFresh(room, k, v, meta)
    BY <1>2 DEF Put, PutValue
  <2> HIDE DEF s, meta, l, size, r, room
  <2>8. QED
    BY <1>2, <2>2, <2>3, <2>6, <2>7
<1>3. QED
  BY <1>1, <1>2

-----------------------------------------------------------------------------
(* What the snapshots say of a store m: each is of a version handed out,    *)
(* that names one value, and 0 stands for none.                             *)
Named(m) ==
    \A c \in Clients : snap[c] # NoRead =>
        /\ snap[c] \in Snapshot
        /\ snap[c].version <= m.last_version
        /\ snap[c].version = 0 <=> snap[c].value = Nil
        /\ LET e == m.map[snap[c].key] IN
            e # Nil /\ e.version = snap[c].version => e.value = snap[c].value

VersionInv ==
    /\ Shaped(inner) /\ Versioned(inner) /\ Named(inner)
    /\ snap = [c \in Clients |-> snap[c]]

LEMMA RemovedKeeps ==
    ASSUME NEW m, NEW n, Shaped(m), Versioned(m), Removed(m, n)
    PROVE  /\ Shaped(n) /\ Versioned(n)
           /\ Named(m) => Named(n)
<1>1. Versioned(n)
  BY DEF Versioned, Removed, Shrunk, Present
<1>2. ASSUME Named(m)
      PROVE  Named(n)
  BY <1>2 DEF Named, Removed, Shrunk, Snapshot
<1>3. QED
  BY <1>1, <1>2 DEF Removed, Shrunk

LEMMA StoredKeeps ==
    ASSUME NEW m, NEW n, NEW k \in Keys, NEW v \in Values,
           Shaped(m), Versioned(m), Stored(m, n, k, v)
    PROVE  /\ Shaped(n) /\ Versioned(n)
           /\ Named(m) => Named(n)
<1>1. n.last_version = m.last_version + 1 /\ m.last_version \in Nat /\ Shaped(n)
  BY DEF Stored, Shrunk, Shaped
<1>2. Versioned(n)
  <2> SUFFICES ASSUME NEW x \in Present(n)
               PROVE  n.map[x].value \in Values /\ n.map[x].version \in 1 .. n.last_version
    BY DEF Versioned
  <2>1. CASE x = k
    BY <2>1, <1>1 DEF Stored
  <2>2. CASE x # k
    BY <2>2, <1>1 DEF Stored, Shrunk, Versioned, Present
  <2>3. QED
    BY <2>1, <2>2
<1>3. ASSUME Named(m)
      PROVE  Named(n)
  <2> SUFFICES ASSUME NEW c \in Clients, snap[c] # NoRead
               PROVE  /\ snap[c] \in Snapshot
                      /\ snap[c].version <= n.last_version
                      /\ snap[c].version = 0 <=> snap[c].value = Nil
                      /\ n.map[snap[c].key] # Nil
                          /\ n.map[snap[c].key].version = snap[c].version
                          => n.map[snap[c].key].value = snap[c].value
    BY DEF Named
  <2>1. /\ snap[c] \in Snapshot
        /\ snap[c].version <= m.last_version
        /\ snap[c].version = 0 <=> snap[c].value = Nil
        /\ m.map[snap[c].key] # Nil
            /\ m.map[snap[c].key].version = snap[c].version
            => m.map[snap[c].key].value = snap[c].value
    BY <1>3 DEF Named
  <2>2. snap[c].version \in Nat /\ snap[c].key \in Keys
    BY <2>1 DEF Snapshot
  <2>3. snap[c].version < n.last_version
    BY <2>1, <2>2, <1>1
  <2>4. CASE snap[c].key = k
    BY <2>1, <2>2, <2>3, <2>4, <1>1 DEF Stored
  <2>5. CASE snap[c].key # k
    BY <2>1, <2>2, <2>3, <2>5, <1>1 DEF Stored, Shrunk
  <2>6. QED
    BY <2>4, <2>5
<1>4. QED
  BY <1>1, <1>2, <1>3

(* Put, after the removal of a dead entry, keeps what VersionInv says.      *)
LEMMA PutKeeps ==
    ASSUME NEW m, NEW k \in Keys, NEW v \in Values \cup {Nil}, NEW w,
           Shaped(m), Versioned(m)
    PROVE  LET n == Put(m, k, v, w).m IN
           /\ Shaped(n) /\ Versioned(n)
           /\ Named(m) => Named(n)
<1> DEFINE n == Put(m, k, v, w).m
<1>1. Removed(m, n) \/ (v # Nil /\ Stored(m, n, k, v))
  BY PutStores
<1> HIDE DEF n
<1>2. /\ Shaped(n) /\ Versioned(n)
      /\ Named(m) => Named(n)
  BY <1>1, RemovedKeeps, StoredKeeps
<1>3. QED
  BY <1>2 DEF n

(* What a visible version and value are. *)
LEMMA Visible ==
    ASSUME NEW m, NEW k \in Keys, Shaped(m), Versioned(m)
    PROVE  /\ VisibleValue(m, k) \in Values \cup {Nil}
           /\ VisibleVersion(m, k) \in 0 .. m.last_version
           /\ VisibleVersion(m, k) = 0 <=> VisibleValue(m, k) = Nil
           /\ m.map[k] # Nil /\ m.map[k].version = VisibleVersion(m, k)
               => m.map[k].value = VisibleValue(m, k)
  BY SentinelAssumption
     DEF VisibleValue, VisibleVersion, Shaped, Versioned, Present, IsFresh

LEMMA VersionInvInit == Init => VersionInv
<1> SUFFICES ASSUME Init PROVE VersionInv
  OBVIOUS
<1>1. Shaped(inner)
  BY DEF Init, Shaped
<1>2. Present(inner) = {}
  BY DEF Init, Present
<1>3. Versioned(inner) /\ Named(inner) /\ snap = [c \in Clients |-> snap[c]]
  BY <1>2 DEF Init, Versioned, Named
<1>4. QED
  BY <1>1, <1>3 DEF VersionInv

(* A step that leaves the snapshots alone, or gives some of them up.        *)
LEMMA SnapsDropped ==
    ASSUME VersionInv, NEW m, inner' = m, Shaped(m), Versioned(m), Named(m),
           \/ snap' = snap
           \/ \E c \in Clients : snap' = [snap EXCEPT ![c] = NoRead]
    PROVE  VersionInv'
<1>1. snap' = [c \in Clients |-> snap'[c]]
  BY DEF VersionInv
<1>2. \A c \in Clients : snap'[c] \in {snap[c], NoRead}
  BY DEF VersionInv
<1>3. Named(m)'
  BY <1>2 DEF Named
<1>4. Shaped(inner)' /\ Versioned(inner)' /\ Named(inner)'
  BY <1>3 DEF Shaped, Versioned, Named, Present
<1>5. QED
  BY <1>1, <1>4 DEF VersionInv

LEMMA VersionInvNext == VersionInv /\ [Next]_vars => VersionInv'
<1> SUFFICES ASSUME VersionInv, [Next]_vars PROVE VersionInv'
  OBVIOUS
<1> USE DEF VersionInv
<1>l. ASSUME NEW k \in Keys
      PROVE  /\ Removed(inner, Live(inner, k))
             /\ Shaped(Live(inner, k)) /\ Versioned(Live(inner, k))
             /\ Named(Live(inner, k))
  BY LiveRemoves, RemovedKeeps
<1>p. ASSUME NEW m, NEW k \in Keys, NEW v \in Values \cup {Nil}, NEW w,
             Shaped(m), Versioned(m), Named(m)
      PROVE  /\ Shaped(Put(m, k, v, w).m) /\ Versioned(Put(m, k, v, w).m)
             /\ Named(Put(m, k, v, w).m)
  BY <1>p, PutKeeps
<1>1. CASE Tick
  BY <1>1, SnapsDropped DEF Tick
<1>2. ASSUME NEW k \in Keys, Get(k)
      PROVE  VersionInv'
  <2>1. Removed(Live(inner, k), Touch(Live(inner, k), k))
    BY <1>l, TouchRemoves
  <2>2. Shaped(inner') /\ Versioned(inner') /\ Named(Touch(Live(inner, k), k))
    BY <1>2, <1>l, <2>1, RemovedKeeps DEF Get
  <2>3. QED
    BY <1>2, <2>2, SnapsDropped DEF Get
<1>3. ASSUME NEW k \in Keys, Peek(k)
      PROVE  VersionInv'
  BY <1>3, <1>l, SnapsDropped DEF Peek
<1>4. ASSUME NEW k \in Keys, NEW v \in Values \cup {Nil}, NEW w, Set(k, v, w)
      PROVE  VersionInv'
  BY <1>4, <1>p, SnapsDropped DEF Set
<1>5. ASSUME NEW k \in Keys, NEW n \in {-1, 0, 1}, NEW w, Incr(k, n, w)
      PROVE  VersionInv'
  <2> DEFINE m == Live(inner, k)
             base == IF VisibleValue(m, k) = Nil THEN 0 ELSE VisibleValue(m, k)
  <2>1. CASE inner' = m
    BY <1>5, <1>l, <2>1, SnapsDropped DEF Incr
  <2>2. CASE base + n \in 0 .. MaxNum /\ inner' = Put(m, k, base + n, w).m
    <3>1. base + n \in Values
      BY <2>2 DEF Values
    <3> HIDE DEF m, base
    <3>2. Shaped(m) /\ Versioned(m) /\ Named(m)
      BY <1>l DEF m
    <3>3. QED
      BY <1>5, <1>p, <2>2, <3>1, <3>2, SnapsDropped DEF Incr
  <2>3. QED
    BY <1>5, <2>1, <2>2 DEF Incr
<1>6. ASSUME NEW k \in Keys, NEW v \in Values, NEW w, FinishLoad(k, v, w)
      PROVE  VersionInv'
  <2>1. CASE inner' = Live(inner, k)
    BY <1>6, <1>l, <2>1, SnapsDropped DEF FinishLoad
  <2>2. CASE inner' = Put(Live(inner, k), k, v, w).m
    BY <1>6, <1>l, <1>p, <2>2, SnapsDropped DEF FinishLoad
  <2>3. QED
    BY <1>6, <2>1, <2>2 DEF FinishLoad
<1>7. ASSUME NEW k \in Keys, NEW c \in Clients, Read(c, k)
      PROVE  VersionInv'
  <2> DEFINE m == Live(inner, k)
             read == [key |-> k, value |-> VisibleValue(m, k),
                      version |-> VisibleVersion(m, k)]
  <2>1. Shaped(m) /\ Versioned(m) /\ Named(m)
    BY <1>l
  <2>2. /\ read.value \in Values \cup {Nil}
        /\ read.version \in 0 .. m.last_version
        /\ read.version = 0 <=> read.value = Nil
        /\ m.map[read.key] # Nil /\ m.map[read.key].version = read.version
            => m.map[read.key].value = read.value
    <3> HIDE DEF m
    <3>1. QED
      BY <2>1, Visible
  <2>3. read \in Snapshot /\ read.version <= m.last_version
    BY <2>1, <2>2 DEF Snapshot, Shaped
  <2>4. inner' = m /\ snap' = [snap EXCEPT ![c] = read]
    BY <1>7 DEF Read
  <2> HIDE DEF m, read
  <2>5. snap' = [x \in Clients |-> IF x = c THEN read ELSE snap[x]]
    BY <2>4
  <2>6. Named(inner)'
    BY <2>1, <2>2, <2>3, <2>4, <2>5 DEF Named
  <2>7. Shaped(inner') /\ Versioned(inner')
    BY <2>1, <2>4
  <2>8. Shaped(inner)' /\ Versioned(inner)'
    BY <2>7 DEF Shaped, Versioned, Present
  <2>9. QED
    BY <2>5, <2>6, <2>8
<1>8. ASSUME NEW c \in Clients, NEW v \in Values \cup {Nil}, NEW w, Swap(c, v, w)
      PROVE  VersionInv'
  <2> DEFINE k == snap[c].key
  <2>1. k \in Keys
    BY <1>8 DEF Swap, Named, Snapshot
  <2>2. snap' = [snap EXCEPT ![c] = NoRead]
    BY <1>8 DEF Swap
  <2>3. \/ inner' = Live(inner, k)
        \/ inner' = Put(Live(inner, k), k, v, w).m
    BY <1>8 DEF Swap
  <2> HIDE DEF k
  <2>4. CASE inner' = Live(inner, k)
    BY <1>l, <2>1, <2>2, <2>4, SnapsDropped
  <2>5. CASE inner' = Put(Live(inner, k), k, v, w).m
    BY <1>l, <1>p, <2>1, <2>2, <2>5, SnapsDropped
  <2>6. QED
    BY <2>3, <2>4, <2>5
<1>9. ASSUME NEW c \in Clients, TransformFails(c)
      PROVE  VersionInv'
  BY <1>9, SnapsDropped DEF TransformFails
<1>10. CASE UNCHANGED vars
  BY <1>10, SnapsDropped DEF vars
<1>11. QED
  BY <1>1, <1>2, <1>3, <1>4, <1>5, <1>6, <1>7, <1>8, <1>9, <1>10 DEF Next, Add

(* An entry at the version a client read is the entry it read: what update, *)
(* cas and add compare cannot be fooled by a key that was deleted, evicted  *)
(* or expired and written again in between.                                 *)
THEOREM VersionsCorrect == Spec => []VersionsName
<1>1. VersionInv => VersionsName
  BY DEF VersionInv, Versioned, Named, VersionsName
<1>2. QED
  BY <1>1, VersionInvInit, VersionInvNext, PTL DEF Spec

-----------------------------------------------------------------------------
(* What the entries of a set of keys add up to. *)
Weight(m) == [k \in Keys |-> Size(m.map[k].value)]

LEMMA SizeNat ==
    ASSUME NEW v
    PROVE  Size(v) \in Nat \ {0}
  BY SizeAssumption DEF Size

LEMMA BytesSum ==
    ASSUME NEW m, NEW S \in SUBSET Keys
    PROVE  /\ IsFiniteSet(S)
           /\ Bytes(m, S) = SumOver(Weight(m), S)
           /\ \A k \in S : Weight(m)[k] = Size(m.map[k].value) /\ Weight(m)[k] \in Nat
<1> DEFINE w == [k \in S |-> Size(m.map[k].value)]
<1>1. IsFiniteSet(S)
  BY FiniteAssumption, FS_Subset
<1>2. \A k \in S : Weight(m)[k] = Size(m.map[k].value)
  BY DEF Weight
<1>3. \A k \in S : Weight(m)[k] \in Nat
  BY <1>2, SizeNat
<1>4. \A k \in S : w[k] = Weight(m)[k]
  BY <1>2
<1>5. Bytes(m, S) = SumOver(w, S)
  BY DEF Bytes
<1> HIDE DEF w
<1>6. SumOver(w, S) = SumOver(Weight(m), S)
  BY <1>1, <1>4, SumSame
<1>7. QED
  BY <1>1, <1>2, <1>3, <1>5, <1>6

LEMMA BytesNat ==
    ASSUME NEW m, NEW S \in SUBSET Keys
    PROVE  Bytes(m, S) \in Nat /\ Bytes(m, {}) = 0
<1>1. Bytes(m, S) \in Nat
  BY BytesSum, SumNat
<1>2. Bytes(m, {}) = SumOver(Weight(m), {})
  <2>1. {} \in SUBSET Keys
    OBVIOUS
  <2>2. QED
    BY <2>1, BytesSum
<1>3. QED
  BY <1>1, <1>2, SumEmpty

LEMMA BytesSplit ==
    ASSUME NEW m, NEW S \in SUBSET Keys, NEW T \in SUBSET S
    PROVE  Bytes(m, S) = Bytes(m, T) + Bytes(m, S \ T)
<1>1. T \in SUBSET Keys /\ S \ T \in SUBSET Keys
  OBVIOUS
<1>2. /\ Bytes(m, S) = SumOver(Weight(m), S)
      /\ Bytes(m, T) = SumOver(Weight(m), T)
      /\ Bytes(m, S \ T) = SumOver(Weight(m), S \ T)
  BY <1>1, BytesSum
<1>3. IsFiniteSet(S) /\ \A k \in S : Weight(m)[k] \in Nat
  BY BytesSum
<1>4. SumOver(Weight(m), S) = SumOver(Weight(m), T) + SumOver(Weight(m), S \ T)
  BY <1>3, SumSplit
<1>5. QED
  BY <1>2, <1>4

LEMMA BytesAdd ==
    ASSUME NEW m, NEW S \in SUBSET Keys, NEW k \in Keys \ S
    PROVE  Bytes(m, S \cup {k}) = Bytes(m, S) + Size(m.map[k].value)
<1>1. S \cup {k} \in SUBSET Keys
  OBVIOUS
<1>2. /\ Bytes(m, S) = SumOver(Weight(m), S)
      /\ Bytes(m, S \cup {k}) = SumOver(Weight(m), S \cup {k})
  BY <1>1, BytesSum
<1>3. IsFiniteSet(S) /\ \A x \in S \cup {k} : Weight(m)[x] \in Nat
  BY <1>1, BytesSum
<1>4. Weight(m)[k] = Size(m.map[k].value)
  BY DEF Weight
<1>5. SumOver(Weight(m), S \cup {k}) = Weight(m)[k] + SumOver(Weight(m), S)
  BY <1>3, SumAdd
<1>6. SumOver(Weight(m), S) \in Nat /\ Weight(m)[k] \in Nat
  BY <1>3, SumNat
<1>7. QED
  BY <1>2, <1>4, <1>5, <1>6

LEMMA BytesSame ==
    ASSUME NEW m, NEW n, NEW S \in SUBSET Keys, \A k \in S : n.map[k] = m.map[k]
    PROVE  Bytes(n, S) = Bytes(m, S)
<1>1. \A k \in S : Weight(n)[k] = Weight(m)[k]
  BY DEF Weight
<1>2. QED
  BY <1>1, BytesSum, SumSame

-----------------------------------------------------------------------------
(* The accounts of a store: order lists the evictable entries, bytes is     *)
(* their sum, and no evictable entry expires before earliest.               *)
Evictable(m) == {k \in Present(m) : m.map[k].evictable}

Sound(m) ==
    /\ m \in Inner
    /\ Distinct(m.order) /\ Listed(m.order) = Evictable(m)
    /\ m.bytes = Bytes(m, Present(m))
    /\ \A k \in Evictable(m) : m.map[k].expires # Never =>
           m.earliest # Never /\ m.earliest <= m.map[k].expires

(* n is m without some of its entries, the others as they were. *)
Less(m, n) ==
    /\ Sound(n)
    /\ \A k \in Keys : n.map[k] \in {m.map[k], Nil}
    /\ n.last_version = m.last_version
    /\ \A x, y \in Keys : Before(n.order, x, y) => Before(m.order, x, y)

LEMMA InnerFields ==
    ASSUME NEW m \in Inner
    PROVE  /\ m = [map |-> m.map, order |-> m.order, bytes |-> m.bytes,
                   last_version |-> m.last_version, last_sweep |-> m.last_sweep,
                   earliest |-> m.earliest]
           /\ m.map \in [Keys -> Entry \cup {Nil}] /\ m.order \in Seq(Keys) /\ m.bytes \in Nat
           /\ m.last_version \in Nat /\ m.last_sweep \in Instant /\ m.earliest \in Instant
           /\ Shaped(m)
<1>1. /\ m = [map |-> m.map, order |-> m.order, bytes |-> m.bytes,
              last_version |-> m.last_version, last_sweep |-> m.last_sweep,
              earliest |-> m.earliest]
      /\ m.map \in [Keys -> Entry \cup {Nil}] /\ m.order \in Seq(Keys) /\ m.bytes \in Nat
      /\ m.last_version \in Nat /\ m.last_sweep \in Instant /\ m.earliest \in Instant
  BY DEF Inner
<1>2. m.map = [k \in Keys |-> m.map[k]]
  BY <1>1
<1>3. QED
  BY <1>1, <1>2 DEF Shaped

LEMMA LessSame ==
    ASSUME NEW m, Sound(m)
    PROVE  Less(m, m)
  BY DEF Less

LEMMA LessTwice ==
    ASSUME NEW m, NEW n, NEW o, Less(m, n), Less(n, o)
    PROVE  Less(m, o)
  BY DEF Less

(* remove, of the keys of a set: the accounts stay exact. *)
LEMMA WithoutLess ==
    ASSUME NEW m, Sound(m), NEW S
    PROVE  /\ Less(m, Without(m, S))
           /\ \A k \in Keys : Without(m, S).map[k] = IF k \in S THEN Nil ELSE m.map[k]
           /\ Without(m, S).earliest = m.earliest
<1> DEFINE gone == S \cap Present(m)
           map == [k \in Keys |-> IF k \in gone THEN Nil ELSE m.map[k]]
           out == {k \in gone : m.map[k].evictable}
           order == Unlisted(m.order, out)
           bytes == m.bytes - Bytes(m, gone)
           n == Without(m, S)
<1>1. /\ m.map \in [Keys -> Entry \cup {Nil}] /\ m.order \in Seq(Keys) /\ m.bytes \in Nat
      /\ m.last_version \in Nat /\ m.last_sweep \in Instant /\ m.earliest \in Instant
      /\ m = [map |-> m.map, order |-> m.order, bytes |-> m.bytes,
              last_version |-> m.last_version, last_sweep |-> m.last_sweep,
              earliest |-> m.earliest]
  BY InnerFields DEF Sound
<1>2. n = [m EXCEPT !.map = map, !.order = order, !.bytes = bytes]
  BY DEF Without
<1>3. n = [map |-> map, order |-> order, bytes |-> bytes, last_version |-> m.last_version,
           last_sweep |-> m.last_sweep, earliest |-> m.earliest]
  <2> HIDE DEF map, order, bytes, n
  <2> QED BY <1>1, <1>2
<1>4. /\ n.map = map /\ n.order = order /\ n.bytes = bytes /\ n.earliest = m.earliest
      /\ n.last_version = m.last_version
  <2> HIDE DEF map, order, bytes, n
  <2> QED BY <1>3
<1>5. /\ map \in [Keys -> Entry \cup {Nil}]
      /\ \A k \in Keys : map[k] = IF k \in S THEN Nil ELSE m.map[k]
  BY <1>1 DEF Present
<1>6. /\ gone \subseteq Present(m) /\ Present(m) \subseteq Keys
      /\ Present(n) = Present(m) \ gone
  <2>1. \A k \in Keys : map[k] # Nil <=> k \in Present(m) \ gone
    BY DEF Present
  <2> HIDE DEF map, n
  <2>2. QED
    BY <1>4, <2>1 DEF Present
<1>7. bytes \in Nat /\ bytes = Bytes(n, Present(n))
  <2>1. gone \in SUBSET Present(m) /\ Present(m) \in SUBSET Keys
        /\ Present(m) \ gone \in SUBSET Keys /\ gone \in SUBSET Keys
    BY <1>6
  <2>2. \A k \in Present(m) \ gone : n.map[k] = m.map[k]
    BY <1>4, <1>5 DEF Present
  <2> HIDE DEF gone, n, map
  <2>3. Bytes(m, Present(m)) = Bytes(m, gone) + Bytes(m, Present(m) \ gone)
    BY <2>1, BytesSplit
  <2>4. Bytes(n, Present(n)) = Bytes(m, Present(m) \ gone)
    BY <1>6, <2>1, <2>2, BytesSame
  <2>5. Bytes(m, gone) \in Nat /\ Bytes(m, Present(m) \ gone) \in Nat
    BY <2>1, BytesNat
  <2>6. m.bytes = Bytes(m, Present(m))
    BY DEF Sound
  <2>7. QED
    BY <2>3, <2>4, <2>5, <2>6
<1>8. /\ order \in Seq(Keys) /\ Distinct(order) /\ Listed(order) = Evictable(m) \ out
  <2>1. Distinct(m.order) /\ Listed(m.order) = Evictable(m)
    BY DEF Sound
  <2> HIDE DEF out
  <2>2. QED
    BY <1>1, <2>1, UnlistedPicks, UnlistedDistinct, UnlistedElements
<1>9. Evictable(n) = Evictable(m) \ out
  <2>1. \A k \in Present(m) \ gone : n.map[k] = m.map[k]
    BY <1>4, <1>5 DEF Present
  <2> HIDE DEF n, map, order, bytes
  <2>2. QED
    BY <1>6, <2>1 DEF Evictable
<1>10. n \in Inner
  <2> HIDE DEF n, map, order, bytes
  <2>1. QED
    BY <1>1, <1>3, <1>5, <1>7, <1>8 DEF Inner
<1>11. \A k \in Keys : n.map[k] = (IF k \in S THEN Nil ELSE m.map[k])
  BY <1>4, <1>5
<1> HIDE DEF n, map, order, bytes, gone, out
<1>12. Sound(n)
  <2>1. ASSUME NEW k \in Evictable(n), n.map[k].expires # Never
        PROVE  n.earliest # Never /\ n.earliest <= n.map[k].expires
    <3>1. k \in Evictable(m) /\ n.map[k] = m.map[k]
      BY <1>9, <1>11 DEF Evictable, Present
    <3>2. QED
      BY <2>1, <3>1, <1>4 DEF Sound
  <2>2. QED
    BY <2>1, <1>4, <1>7, <1>8, <1>9, <1>10 DEF Sound
<1>13. ASSUME NEW x \in Keys, NEW y \in Keys, Before(n.order, x, y)
       PROVE  Before(m.order, x, y)
  BY <1>1, <1>4, <1>13, BeforeUnlisted DEF Sound, order
<1>14. Less(m, n)
  BY <1>4, <1>11, <1>12, <1>13 DEF Less
<1>15. QED
  BY <1>4, <1>11, <1>14 DEF n

(* Only entries past their expiry are missing from n. *)
Lapsed(m, n) ==
    /\ Less(m, n)
    /\ \A k \in Keys : m.map[k] # Nil /\ n.map[k] = Nil => PastExpiry(m.map[k], now)

LEMMA LapsedSame ==
    ASSUME NEW m, Sound(m)
    PROVE  Lapsed(m, m)
  BY LessSame DEF Lapsed

LEMMA LapsedTwice ==
    ASSUME NEW m, NEW n, NEW o, Lapsed(m, n), Lapsed(n, o)
    PROVE  Lapsed(m, o)
<1>1. Less(m, o)
  BY LessTwice DEF Lapsed
<1>2. ASSUME NEW k \in Keys, m.map[k] # Nil, o.map[k] = Nil
      PROVE  PastExpiry(m.map[k], now)
  BY <1>2 DEF Lapsed, Less
<1>3. QED
  BY <1>1, <1>2 DEF Lapsed

LEMMA LiveLapsed ==
    ASSUME NEW m, Sound(m), NEW k
    PROVE  Lapsed(m, Live(m, k)) /\ Live(m, k).earliest = m.earliest
<1> DEFINE S == {k} \cap {x \in Keys : IsDead(m.map[x], now)}
<1>1. Live(m, k) = Without(m, S)
  BY DEF Live
<1>2. \A x \in Keys : x \in S => PastExpiry(m.map[x], now)
  BY DEF IsDead
<1> HIDE DEF S
<1>3. QED
  BY <1>1, <1>2, WithoutLess DEF Lapsed

(* A change of the instants alone. *)
LEMMA TimesLess ==
    ASSUME NEW m, Sound(m), NEW n, NEW e \in Instant, NEW l \in Instant,
           n = [map |-> m.map, order |-> m.order, bytes |-> m.bytes,
                last_version |-> m.last_version, last_sweep |-> l, earliest |-> e],
           \A k \in Evictable(m) : m.map[k].expires # Never => e # Never /\ e <= m.map[k].expires
    PROVE  Less(m, n)
<1>1. /\ n.map = m.map /\ n.order = m.order /\ n.bytes = m.bytes
      /\ n.last_version = m.last_version /\ n.earliest = e
  OBVIOUS
<1>2. n \in Inner
  <2>1. /\ m.map \in [Keys -> Entry \cup {Nil}] /\ m.order \in Seq(Keys) /\ m.bytes \in Nat
        /\ m.last_version \in Nat
    BY InnerFields DEF Sound
  <2>2. QED
    BY <2>1 DEF Inner
<1>3. Present(n) = Present(m) /\ Evictable(n) = Evictable(m)
  BY <1>1 DEF Present, Evictable
<1>4. Bytes(n, Present(n)) = Bytes(m, Present(m))
  <2>1. Present(m) \in SUBSET Keys
    BY DEF Present
  <2>2. QED
    BY <1>1, <1>3, <2>1, BytesSame
<1>5. Sound(n)
  BY <1>1, <1>2, <1>3, <1>4 DEF Sound
<1>6. QED
  BY <1>1, <1>5 DEF Less

LEMMA SweptLapsed ==
    ASSUME NEW m, Sound(m), now \in Nat
    PROVE  Lapsed(m, Swept(m))
<1> DEFINE S == {k \in Keys : IsDead(m.map[k], now)}
           n == Without(m, S)
           o == [n EXCEPT !.last_sweep = now]
<1>1. Swept(m) \in {m, o}
  BY DEF Swept, DropDead
<1>2. Lapsed(m, n)
  <2>1. \A x \in Keys : x \in S => PastExpiry(m.map[x], now)
    BY DEF IsDead
  <2> HIDE DEF S
  <2>2. QED
    BY <2>1, WithoutLess DEF Lapsed
<1> HIDE DEF n
<1>3. Sound(n)
  BY <1>2 DEF Lapsed, Less
<1>4. o = [map |-> n.map, order |-> n.order, bytes |-> n.bytes,
           last_version |-> n.last_version, last_sweep |-> now, earliest |-> n.earliest]
  BY <1>3, InnerFields DEF Sound
<1>5. n.earliest \in Instant /\ now \in Instant
  BY <1>3, InnerFields DEF Sound, Instant
<1>6. \A k \in Evictable(n) : n.map[k].expires # Never =>
          n.earliest # Never /\ n.earliest <= n.map[k].expires
  BY <1>3 DEF Sound
<1> HIDE DEF o
<1>7. Less(n, o) /\ o.map = n.map
  BY <1>3, <1>4, <1>5, <1>6, TimesLess
<1>8. Lapsed(n, o)
  BY <1>7 DEF Lapsed
<1>9. Lapsed(m, o)
  BY <1>2, <1>8, LapsedTwice
<1>10. QED
  BY <1>1, <1>9, LapsedSame

(* drop_expired looks up to no earlier than an evictable entry expires, so  *)
(* afterwards none is left that is past its expiry.                         *)
LEMMA DropExpiredLapsed ==
    ASSUME NEW m, Sound(m), now \in Nat
    PROVE  /\ Lapsed(m, DropExpired(m))
           /\ \A k \in Evictable(DropExpired(m)) : ~PastExpiry(DropExpired(m).map[k], now)
<1> DEFINE S == {k \in Keys : /\ PastExpiry(m.map[k], now)
                              /\ m.map[k].evictable \/ IsDead(m.map[k], now)}
           n == Without(m, S)
           ahead == {t \in {n.map[k].expires : k \in Present(n)} \ {Never} : t > now}
           e == IF ahead = {} THEN Never ELSE Min(ahead)
           o == [n EXCEPT !.earliest = e]
<1>1. CASE m.earliest = Never \/ m.earliest > now
  <2>1. DropExpired(m) = m
    BY <1>1 DEF DropExpired
  <2>2. ASSUME NEW k \in Evictable(m)
        PROVE  ~PastExpiry(m.map[k], now)
    <3>1. m.map[k] \in Entry
      BY InnerFields DEF Sound, Evictable, Present
    <3>2. m.map[k].expires \in Instant /\ m.earliest \in Instant
      BY <3>1, InnerFields DEF Sound, Entry
    <3>3. CASE m.map[k].expires = Never
      BY <3>3 DEF PastExpiry
    <3>4. CASE m.map[k].expires # Never
      <4>1. m.earliest # Never /\ m.earliest <= m.map[k].expires
        BY <3>4 DEF Sound
      <4>2. m.earliest > now /\ m.earliest \in Nat /\ m.map[k].expires \in Nat
        BY <1>1, <3>2, <3>4, <4>1 DEF Instant
      <4>3. ~(now >= m.map[k].expires)
        BY <4>1, <4>2
      <4>4. QED
        BY <4>3 DEF PastExpiry
    <3>5. QED
      BY <3>3, <3>4
  <2>3. QED
    BY <2>1, <2>2, LapsedSame
<1>2. CASE ~(m.earliest = Never \/ m.earliest > now)
  <2>1. DropExpired(m) = o
    BY <1>2 DEF DropExpired
  <2>2. \A k \in Keys : n.map[k] = IF k \in S THEN Nil ELSE m.map[k]
    BY WithoutLess
  <2>3. Lapsed(m, n)
    BY WithoutLess DEF Lapsed
  <2> HIDE DEF n
  <2>4. Sound(n)
    BY <2>3 DEF Lapsed, Less
  <2>5. \A k \in Present(n) : n.map[k] \in Entry /\ n.map[k].expires \in Instant
    <3>1. \A k \in Present(n) : n.map[k] \in Entry
      BY <2>4, InnerFields DEF Sound, Present
    <3>2. QED
      BY <3>1 DEF Entry
  <2>6. \A k \in Evictable(n) : ~PastExpiry(n.map[k], now)
    BY <2>2 DEF Evictable, Present
  <2>7. ahead \subseteq Nat
    BY <2>5 DEF Instant
  <2>8. e \in Instant /\ (ahead # {} => e \in Nat /\ \A t \in ahead : e <= t)
    <3>1. CASE ahead = {}
      BY <3>1 DEF Instant
    <3>2. CASE ahead # {}
      <4>1. e = Min(ahead)
        BY <3>2
      <4> HIDE DEF ahead, e
      <4>2. \E t \in ahead : \A u \in ahead : t <= u
        BY <2>7, <3>2, LeastNumber
      <4>3. Min(ahead) \in ahead /\ \A t \in ahead : Min(ahead) <= t
        BY <4>2 DEF Min
      <4>4. QED
        BY <2>7, <4>1, <4>3 DEF Instant
    <3>3. QED
      BY <3>1, <3>2
  <2>9. ASSUME NEW k \in Evictable(n), n.map[k].expires # Never
        PROVE  e # Never /\ e <= n.map[k].expires
    <3>1. k \in Present(n) /\ n.map[k].expires \in Nat
      BY <2>5, <2>9 DEF Evictable, Instant
    <3>2. n.map[k].expires > now
      BY <2>6, <2>9, <3>1 DEF PastExpiry, Present
    <3>3. n.map[k].expires \in ahead
      BY <3>1, <3>2, <2>9
    <3> HIDE DEF ahead, e
    <3>4. ahead # {} /\ e \in Nat /\ e <= n.map[k].expires
      BY <3>3, <2>8
    <3>5. QED
      BY <3>4, SentinelAssumption
  <2> HIDE DEF ahead, e
  <2>10. o = [map |-> n.map, order |-> n.order, bytes |-> n.bytes,
              last_version |-> n.last_version, last_sweep |-> n.last_sweep, earliest |-> e]
    BY <2>4, InnerFields DEF Sound
  <2>11. n.last_sweep \in Instant
    BY <2>4, InnerFields DEF Sound
  <2> HIDE DEF o
  <2>12. Less(n, o)
    BY <2>4, <2>8, <2>9, <2>10, <2>11, TimesLess
  <2>13. o.map = n.map
    BY <2>10
  <2>14. Lapsed(n, o)
    BY <2>12, <2>13 DEF Lapsed
  <2>15. Lapsed(m, o)
    BY <2>3, <2>14, LapsedTwice
  <2>16. Evictable(o) = Evictable(n)
    BY <2>13 DEF Evictable, Present
  <2>17. QED
    BY <2>1, <2>6, <2>13, <2>15, <2>16
<1>3. QED
  BY <1>1, <1>2

LEMMA TouchSound ==
    ASSUME NEW m, Sound(m), NEW k \in Keys
    PROVE  /\ Sound(Touch(m, k)) /\ Touch(m, k).map = m.map
           /\ Touch(m, k).last_version = m.last_version /\ Touch(m, k).bytes = m.bytes
<1> DEFINE rest == Unlisted(m.order, {k})
           order == Append(rest, k)
           n == [m EXCEPT !.order = order]
<1>1. CASE ~(IsFresh(m.map[k], now) /\ m.map[k].evictable)
  BY <1>1 DEF Touch
<1>2. CASE IsFresh(m.map[k], now) /\ m.map[k].evictable
  <2>1. Touch(m, k) = n
    BY <1>2 DEF Touch
  <2>2. k \in Evictable(m)
    BY <1>2 DEF IsFresh, Evictable, Present
  <2>3. /\ rest \in Seq(Keys) /\ Distinct(rest) /\ Listed(rest) = Evictable(m) \ {k}
    BY InnerFields, UnlistedPicks, UnlistedDistinct, UnlistedElements DEF Sound
  <2> HIDE DEF rest
  <2>4. /\ order \in Seq(Keys) /\ Distinct(order) /\ Listed(order) = Evictable(m)
    BY <2>2, <2>3, AppendListed
  <2> HIDE DEF order
  <2>5. n = [map |-> m.map, order |-> order, bytes |-> m.bytes,
             last_version |-> m.last_version, last_sweep |-> m.last_sweep,
             earliest |-> m.earliest]
    BY InnerFields DEF Sound
  <2> HIDE DEF n
  <2>6. /\ n.map = m.map /\ n.order = order /\ n.bytes = m.bytes
        /\ n.last_version = m.last_version /\ n.earliest = m.earliest
    BY <2>5
  <2>7. n \in Inner
    BY <2>4, <2>5, InnerFields DEF Sound, Inner
  <2>8. Present(n) = Present(m) /\ Evictable(n) = Evictable(m)
    BY <2>6 DEF Present, Evictable
  <2>9. Bytes(n, Present(n)) = Bytes(m, Present(m))
    <3>1. Present(m) \in SUBSET Keys
      BY DEF Present
    <3>2. QED
      BY <2>6, <2>8, <3>1, BytesSame
  <2>10. Sound(n)
    BY <2>4, <2>6, <2>7, <2>8, <2>9 DEF Sound
  <2>11. QED
    BY <2>1, <2>6, <2>10
<1>3. QED
  BY <1>1, <1>2

-----------------------------------------------------------------------------
(* What plan_evictions decides. *)
LEMMA FitsMeans ==
    ASSUME NEW m, Sound(m), NEW k \in Keys, NEW size \in Nat, NEW gone
    PROVE  LET left == Present(m) \ (gone \cup {k}) IN
           /\ left \in SUBSET Keys
           /\ Fits(m, k, size, gone) <=> Allows(Cardinality(left) + 1, Bytes(m, left) + size)
<1> DEFINE out == (gone \cup {k}) \cap Present(m)
           left == Present(m) \ (gone \cup {k})
<1>1. Present(m) \ out = left /\ out \in SUBSET Present(m) /\ Present(m) \in SUBSET Keys
      /\ left \in SUBSET Keys /\ out \in SUBSET Keys
  BY DEF Present
<1> HIDE DEF out, left
<1>2. Bytes(m, Present(m)) = Bytes(m, out) + Bytes(m, left)
  BY <1>1, BytesSplit
<1>3. m.bytes = Bytes(m, Present(m))
  BY DEF Sound
<1>4. Bytes(m, out) \in Nat /\ Bytes(m, left) \in Nat
  BY <1>1, BytesNat
<1>5. m.bytes - Bytes(m, out) + size = Bytes(m, left) + size
  BY <1>2, <1>3, <1>4
<1>6. Fits(m, k, size, gone) <=>
          Allows(Cardinality(Present(m) \ out) + 1, m.bytes - Bytes(m, out) + size)
  BY DEF Fits, out
<1>7. QED
  BY <1>1, <1>5, <1>6 DEF left

LEMMA VictimsRight ==
    ASSUME NEW m, Sound(m), NEW k \in Keys, NEW size \in Nat, Enough(m, k, size) # {}
    PROVE  LET V == Victims(m, k, size) IN
           /\ V \subseteq Evictable(m) \ {k}
           /\ Fits(m, k, size, V)
           /\ Fits(m, k, size, {}) => V = {}
           /\ V # {} => \E x \in V : ~Fits(m, k, size, V \ {x})
           /\ \A y \in V, x \in Evictable(m) \ {k} : x \notin V => Before(m.order, y, x)
<1> DEFINE list == Others(m, k)
           E == Enough(m, k, size)
           n == Min(E)
           V == Victims(m, k, size)
<1>1. /\ m.order \in Seq(Keys) /\ Distinct(m.order) /\ Listed(m.order) = Evictable(m)
  BY InnerFields DEF Sound
<1>2. /\ list \in Seq(Keys) /\ Distinct(list) /\ Listed(list) = Evictable(m) \ {k}
  BY <1>1, UnlistedPicks, UnlistedDistinct, UnlistedElements DEF Others
<1>3. Len(list) \in Nat
  BY <1>2
<1>4. /\ E = {i \in 0 .. Len(list) : Fits(m, k, size, Oldest(m, k, i))}
      /\ V = Oldest(m, k, n)
      /\ \A i : Oldest(m, k, i) = {list[j] : j \in 1 .. i}
  BY DEF Enough, Victims, Oldest
<1>b. \A x, y : Before(list, x, y) => Before(m.order, x, y)
  BY <1>1, BeforeUnlisted DEF Others
<1> HIDE DEF list, E, V
<1>5. E \subseteq Nat /\ E # {}
  BY <1>3, <1>4 DEF E
<1>6. n \in E /\ \A i \in E : n <= i
  <2>1. \E i \in E : \A j \in E : i <= j
    BY <1>5, LeastNumber
  <2>2. QED
    BY <2>1 DEF Min
<1> HIDE DEF n
<1>7. n \in 0 .. Len(list) /\ Fits(m, k, size, V)
  BY <1>4, <1>6
<1>8. V = {list[j] : j \in 1 .. n}
  BY <1>4
<1>9. V \subseteq Evictable(m) \ {k}
  BY <1>2, <1>3, <1>7, <1>8 DEF Listed
<1>10. ASSUME Fits(m, k, size, {})
       PROVE  V = {}
  <2>1. Oldest(m, k, 0) = {}
    BY <1>4
  <2>2. 0 \in E
    <3>1. Fits(m, k, size, Oldest(m, k, 0)) /\ 0 \in 0 .. Len(list)
      BY <1>3, <1>10, <2>1
    <3>2. QED
      BY <1>4, <3>1
  <2>3. n = 0
    BY <1>6, <1>7, <2>2
  <2>4. QED
    BY <1>8, <2>3
<1>11. ASSUME V # {}
       PROVE  \E x \in V : ~Fits(m, k, size, V \ {x})
  <2>1. n \in 1 .. Len(list) /\ n - 1 \in 0 .. Len(list)
    BY <1>3, <1>7, <1>8, <1>11
  <2>2. n - 1 \notin E
    BY <1>6, <2>1
  <2>3. ~Fits(m, k, size, Oldest(m, k, n - 1))
    BY <1>4, <2>1, <2>2
  <2>4. V \ {list[n]} = {list[j] : j \in 1 .. n - 1}
    <3>1. \A j \in 1 .. n : list[j] = list[n] => j = n
      BY <1>2, <1>3, <2>1 DEF Distinct
    <3>2. \A j \in 1 .. n : j # n <=> j \in 1 .. n - 1
      BY <2>1
    <3>3. QED
      BY <1>8, <3>1, <3>2, <2>1
  <2>5. list[n] \in V
    BY <1>8, <2>1
  <2>6. V \ {list[n]} = Oldest(m, k, n - 1)
    BY <1>4, <2>4
  <2>7. QED
    BY <2>3, <2>5, <2>6
<1>12. ASSUME NEW y \in V, NEW x \in Evictable(m) \ {k}, x \notin V
       PROVE  Before(m.order, y, x)
  <2>1. PICK j \in 1 .. n : list[j] = y
    BY <1>8
  <2>2. PICK i \in 1 .. Len(list) : list[i] = x
    BY <1>2 DEF Listed
  <2>3. ~(i \in 1 .. n)
    BY <1>8, <1>12, <2>2
  <2>4. j < i /\ j \in 1 .. Len(list)
    BY <1>3, <1>7, <2>3
  <2>5. Before(list, y, x)
    BY <2>1, <2>2, <2>4 DEF Before
  <2>6. QED
    BY <2>5, <1>b
<1>13. QED
  BY <1>7, <1>9, <1>10, <1>11, <1>12 DEF V

-----------------------------------------------------------------------------
(* What a write does to a sound store with k's old entry still in it. *)
MetaOK(meta) ==
    /\ meta.expires \in Instant /\ meta.stale_for \in Nat /\ meta.evictable \in BOOLEAN

Inserted(m, n, k, v, meta) ==
    /\ Sound(n)
    /\ Present(n) = Present(m) \cup {k}
    /\ n.bytes = Bytes(m, Present(m) \ {k}) + Size(v)
    /\ n.last_version = m.last_version + 1
    /\ n.map[k] = [value |-> v, version |-> m.last_version + 1, expires |-> meta.expires,
                   stale_for |-> meta.stale_for, evictable |-> meta.evictable]
    /\ \A x \in Keys \ {k} : n.map[x] = m.map[x]

LEMMA InsertSound ==
    ASSUME NEW m, Sound(m), NEW k \in Keys, NEW v \in Values, NEW meta, MetaOK(meta)
    PROVE  Inserted(m, InsertFresh(m, k, v, meta), k, v, meta)
<1> DEFINE o == Without(m, {k})
           entry == [value |-> v, version |-> o.last_version + 1,
                     expires |-> meta.expires, stale_for |-> meta.stale_for,
                     evictable |-> meta.evictable]
           order == IF meta.evictable THEN Append(o.order, k) ELSE o.order
           bytes == o.bytes + Size(v)
           earliest == IF meta.expires = Never THEN o.earliest
                       ELSE IF o.earliest = Never THEN meta.expires
                       ELSE Min({o.earliest, meta.expires})
           n == InsertFresh(m, k, v, meta)
<1>1. /\ Less(m, o)
      /\ \A x \in Keys : o.map[x] = IF x = k THEN Nil ELSE m.map[x]
  BY WithoutLess
<1>2. n = [o EXCEPT !.map[k] = entry, !.last_version = @ + 1, !.order = order,
                    !.bytes = bytes, !.earliest = earliest]
  BY DEF InsertFresh
<1>3. Sound(o) /\ o.last_version = m.last_version
  BY <1>1 DEF Less
<1>o. /\ o = [map |-> o.map, order |-> o.order, bytes |-> o.bytes,
              last_version |-> o.last_version, last_sweep |-> o.last_sweep,
              earliest |-> o.earliest]
      /\ o.map \in [Keys -> Entry \cup {Nil}] /\ o.order \in Seq(Keys) /\ o.bytes \in Nat
      /\ o.last_version \in Nat /\ o.last_sweep \in Instant /\ o.earliest \in Instant
  <2> HIDE DEF o
  <2> QED BY <1>3, InnerFields DEF Sound
<1> HIDE DEF o
<1>4. /\ entry \in Entry /\ entry.evictable = meta.evictable /\ entry.expires = meta.expires
      /\ entry.value = v
  BY <1>o DEF Entry, MetaOK
<1>5. Listed(o.order) = Evictable(o) /\ Distinct(o.order) /\ k \notin Evictable(o)
  BY <1>1, <1>3 DEF Sound, Evictable, Present
<1>6. /\ order \in Seq(Keys) /\ Distinct(order)
      /\ Listed(order) = IF meta.evictable THEN Evictable(o) \cup {k} ELSE Evictable(o)
  <2> DEFINE longer == Append(o.order, k)
  <2>1. /\ longer \in Seq(Keys) /\ Distinct(longer)
        /\ Listed(longer) = Evictable(o) \cup {k}
    BY <1>5, <1>o, AppendListed
  <2>2. order = IF meta.evictable THEN longer ELSE o.order
    OBVIOUS
  <2> HIDE DEF longer, order
  <2>3. QED
    BY <2>1, <2>2, <1>5, <1>o
<1>7. /\ earliest \in Instant
      /\ o.earliest # Never => earliest # Never /\ earliest <= o.earliest
      /\ meta.expires # Never => earliest # Never /\ earliest <= meta.expires
  <2>1. o.earliest \in Instant /\ meta.expires \in Instant
    BY <1>o DEF MetaOK
  <2>2. CASE meta.expires = Never
    BY <2>1, <2>2, <1>o DEF Instant
  <2>3. CASE meta.expires # Never /\ o.earliest = Never
    BY <2>1, <2>3 DEF Instant
  <2>4. CASE meta.expires # Never /\ o.earliest # Never
    <3>1. o.earliest \in Nat /\ meta.expires \in Nat
      BY <2>1, <2>4 DEF Instant
    <3>2. \E i \in {o.earliest, meta.expires} : \A j \in {o.earliest, meta.expires} : i <= j
      BY <3>1, LeastNumber
    <3>3. /\ Min({o.earliest, meta.expires}) \in {o.earliest, meta.expires}
          /\ \A j \in {o.earliest, meta.expires} : Min({o.earliest, meta.expires}) <= j
      BY <3>2 DEF Min
    <3>4. earliest = Min({o.earliest, meta.expires})
      BY <2>4
    <3> HIDE DEF earliest
    <3>5. QED
      BY <3>1, <3>3, <3>4, SentinelAssumption DEF Instant
  <2>5. QED
    BY <2>2, <2>3, <2>4
<1>8. bytes \in Nat
  BY <1>o, SizeNat
<1> DEFINE map == [o.map EXCEPT ![k] = entry]
<1> HIDE DEF entry, order, earliest, bytes, n
<1>9. n = [map |-> map, order |-> order, bytes |-> bytes,
           last_version |-> o.last_version + 1, last_sweep |-> o.last_sweep,
           earliest |-> earliest]
  BY <1>2, <1>o
<1>10. /\ map \in [Keys -> Entry \cup {Nil}] /\ map[k] = entry
       /\ \A x \in Keys \ {k} : map[x] = m.map[x]
  BY <1>1, <1>4, <1>o
<1> HIDE DEF map
<1>11. /\ n.map = map /\ n.order = order /\ n.bytes = bytes /\ n.earliest = earliest
       /\ n.last_version = m.last_version + 1
  BY <1>3, <1>9
<1>12. n \in Inner
  BY <1>6, <1>7, <1>8, <1>9, <1>10, <1>o DEF Inner
<1>13. Present(n) = Present(o) \cup {k} /\ Present(o) = Present(m) \ {k}
  <2>1. \A x \in Keys : n.map[x] # Nil <=> x \in Present(o) \cup {k}
    BY <1>1, <1>4, <1>10, <1>11, SentinelAssumption DEF Present
  <2>2. Present(n) = Present(o) \cup {k}
    BY <2>1 DEF Present
  <2>3. QED
    BY <2>2, <1>1 DEF Present
<1>14. bytes = Bytes(n, Present(n)) /\ bytes = Bytes(m, Present(m) \ {k}) + Size(v)
  <2>1. Present(o) \in SUBSET Keys /\ k \in Keys \ Present(o)
    BY <1>1 DEF Present
  <2>2. o.bytes = Bytes(o, Present(o))
    BY <1>3 DEF Sound
  <2>3. Bytes(n, Present(n)) = Bytes(n, Present(o)) + Size(v)
    BY <2>1, <1>4, <1>10, <1>11, <1>13, BytesAdd
  <2>4. Bytes(n, Present(o)) = Bytes(o, Present(o))
    BY <2>1, <1>1, <1>10, <1>11, BytesSame
  <2>5. Bytes(m, Present(o)) = Bytes(o, Present(o))
    BY <2>1, <1>1, BytesSame
  <2>6. QED
    BY <2>2, <2>3, <2>4, <2>5, <1>13 DEF bytes
<1>15. /\ Evictable(n) = IF meta.evictable THEN Evictable(o) \cup {k} ELSE Evictable(o)
       /\ \A x \in Evictable(o) : x # k /\ n.map[x] = o.map[x]
  <2>1. \A x \in Keys \ {k} : n.map[x] = o.map[x]
    BY <1>1, <1>10, <1>11
  <2>2. n.map[k].evictable = meta.evictable
    BY <1>4, <1>10, <1>11
  <2>3. QED
    BY <2>1, <2>2, <1>5, <1>13 DEF Evictable, Present, MetaOK
<1>16. ASSUME NEW x \in Evictable(n), n.map[x].expires # Never
       PROVE  n.earliest # Never /\ n.earliest <= n.map[x].expires
  <2>1. CASE x = k
    BY <2>1, <1>4, <1>7, <1>10, <1>11, <1>16
  <2>2. CASE x # k
    <3>1. x \in Evictable(o) /\ n.map[x] = o.map[x]
      BY <2>2, <1>15
    <3>2. o.earliest # Never /\ o.earliest <= o.map[x].expires
      BY <3>1, <1>3, <1>16 DEF Sound
    <3>3. earliest # Never /\ earliest <= o.earliest
      BY <3>2, <1>7
    <3>4. o.map[x].expires \in Nat
      <4>1. o.map[x] \in Entry
        BY <3>1, <1>o DEF Evictable, Present
      <4>2. QED
        BY <4>1, <3>1, <1>16 DEF Entry, Instant
    <3>5. earliest \in Nat /\ o.earliest \in Nat
      BY <3>2, <3>3, <1>7, <1>o DEF Instant
    <3>6. QED
      BY <3>1, <3>2, <3>3, <3>4, <3>5, <1>11
  <2>3. QED
    BY <2>1, <2>2
<1>17. Sound(n)
  BY <1>6, <1>11, <1>12, <1>14, <1>15, <1>16 DEF Sound
<1>18. /\ n.map[k] = [value |-> v, version |-> m.last_version + 1, expires |-> meta.expires,
                      stale_for |-> meta.stale_for, evictable |-> meta.evictable]
  BY <1>3, <1>10, <1>11 DEF entry
<1>19. Present(n) = Present(m) \cup {k}
  BY <1>13 DEF Present
<1>20. QED
  BY <1>10, <1>11, <1>14, <1>17, <1>18, <1>19 DEF n, Inserted

WriteOK(w) ==
    /\ w.expiry \in {"clear", "keep", "after", "unset"} /\ w.ttl \in Nat
    /\ w.expiry \in {"after", "unset"} => w.ttl # 0
    /\ w.evictable \in BOOLEAN \cup {Nil} /\ w.stale \in Nat

LEMMA WritesOK ==
    ASSUME NEW w, w \in SetWrites \cup KeepWrites \cup IncrWrites \cup FetchWrites
    PROVE  WriteOK(w)
<1>1. ASSUME NEW E, E \subseteq {"clear", "keep", "after", "unset"},
             NEW F, F \subseteq BOOLEAN \cup {Nil}, NEW S, S \subseteq Nat,
             w \in Writes(E, F, S)
      PROVE  WriteOK(w)
  <2>1. PICK x \in E : w \in [expiry : {x}, ttl : IF x \in {"clear", "keep"} THEN {0} ELSE Ttls,
                              evictable : F, stale : S]
    BY <1>1 DEF Writes
  <2>2. /\ w.expiry = x /\ w.ttl \in (IF x \in {"clear", "keep"} THEN {0} ELSE Ttls)
        /\ w.evictable \in F /\ w.stale \in S
    BY <2>1
  <2>3. x \in {"clear", "keep", "after", "unset"} /\ w.evictable \in BOOLEAN \cup {Nil}
        /\ w.stale \in Nat
    BY <1>1, <2>1, <2>2
  <2>4. CASE x \in {"clear", "keep"}
    BY <2>2, <2>3, <2>4 DEF WriteOK
  <2>5. CASE x \notin {"clear", "keep"}
    <3>1. w.ttl \in Nat \ {0}
      BY <2>2, <2>5, TtlAssumption
    <3>2. QED
      BY <2>2, <2>3, <3>1 DEF WriteOK
  <2>6. QED
    BY <2>4, <2>5
<1>2. {0} \subseteq Nat /\ Stales \cup {0} \subseteq Nat
  BY TtlAssumption
<1>3. BOOLEAN \subseteq BOOLEAN \cup {Nil} /\ {TRUE} \subseteq BOOLEAN \cup {Nil}
  OBVIOUS
<1>4. CASE w \in SetWrites
  BY <1>1, <1>2, <1>3, <1>4 DEF SetWrites
<1>5. CASE w \in KeepWrites
  BY <1>1, <1>2, <1>5 DEF KeepWrites
<1>6. CASE w \in IncrWrites
  BY <1>1, <1>2, <1>6 DEF IncrWrites
<1>7. CASE w \in FetchWrites
  BY <1>1, <1>2, <1>3, <1>7 DEF FetchWrites
<1>8. QED
  BY <1>4, <1>5, <1>6, <1>7

LEMMA MetaFresh ==
    ASSUME NEW m, Sound(m), now \in Nat, NEW k \in Keys, NEW w, WriteOK(w)
    PROVE  /\ MetaOK(Meta(m, k, w))
           /\ Meta(m, k, w).expires # Never => Meta(m, k, w).expires > now
<1> DEFINE old == m.map[k]
           fresh == IsFresh(old, now)
           had == IF fresh THEN old.expires ELSE Never
           inherits == w.expiry = "keep" \/ (w.expiry = "unset" /\ had # Never)
           expires == CASE inherits -> had
                        [] w.expiry = "clear" -> Never
                        [] OTHER -> now + w.ttl
           stale_for == IF expires = Never THEN 0
                        ELSE IF w.stale # 0 THEN w.stale
                        ELSE IF inherits /\ fresh THEN old.stale_for ELSE 0
           evictable == IF w.evictable # Nil THEN w.evictable ELSE fresh /\ old.evictable
<1>1. fresh => old \in Entry /\ old.expires \in Instant /\ old.stale_for \in Nat
               /\ old.evictable \in BOOLEAN
  <2>1. fresh => old \in Entry
    BY InnerFields DEF Sound, IsFresh
  <2>2. QED
    BY <2>1 DEF Entry
<1>2. had \in Instant /\ (had # Never => had > now)
  <2>1. CASE ~fresh \/ had = Never
    BY <2>1, <1>1 DEF Instant
  <2>2. CASE fresh /\ had # Never
    <3>1. had = old.expires /\ had \in Nat
      BY <2>2, <1>1 DEF Instant
    <3>2. ~(now >= old.expires)
      BY <2>2, <3>1 DEF IsFresh, PastExpiry
    <3>3. QED
      BY <3>1, <3>2 DEF Instant
  <2>3. QED
    BY <2>1, <2>2
<1> HIDE DEF had, fresh, old
<1>3. expires \in Instant /\ (expires # Never => expires > now)
  <2>1. CASE inherits
    BY <2>1, <1>2
  <2>2. CASE ~inherits /\ w.expiry = "clear"
    BY <2>2 DEF Instant
  <2>3. CASE ~inherits /\ w.expiry # "clear"
    <3>1. expires = now + w.ttl
      BY <2>3
    <3>2. w.ttl \in Nat /\ w.ttl # 0
      BY <2>3 DEF WriteOK
    <3> HIDE DEF expires
    <3>3. QED
      BY <3>1, <3>2 DEF Instant
  <2>4. QED
    BY <2>1, <2>2, <2>3
<1>4. stale_for \in Nat
  <2> HIDE DEF expires
  <2>1. w.stale \in Nat
    BY DEF WriteOK
  <2>2. QED
    BY <2>1, <1>1
<1>5. evictable \in BOOLEAN
  <2>1. CASE w.evictable # Nil
    BY <2>1 DEF WriteOK
  <2>2. CASE w.evictable = Nil
    <3>1. (fresh /\ old.evictable) \in BOOLEAN
      BY <1>1
    <3>2. QED
      BY <2>2, <3>1
  <2>3. QED
    BY <2>1, <2>2
<1>6. Meta(m, k, w) = [expires |-> expires, stale_for |-> stale_for, evictable |-> evictable]
  BY DEF Meta, had, fresh, old
<1> HIDE DEF expires, stale_for, evictable
<1>7. QED
  BY <1>3, <1>4, <1>5, <1>6 DEF MetaOK

CapsOK(m) == Allows(Cardinality(Present(m)), m.bytes)

(* n is m with v stored under k.  Entries that had lapsed may be gone (r    *)
(* is what they leave), and so are those of V, evicted to make room.        *)
Wrote(m, n, k, v, r, V) ==
    /\ Lapsed(m, r)
    /\ V \subseteq Evictable(r) \ {k}
    /\ V # {} => /\ \A x \in Evictable(r) : ~PastExpiry(r.map[x], now)
                 /\ \E x \in V : ~Allows(Cardinality(Present(n)) + 1,
                                         n.bytes + Size(r.map[x].value))
    /\ \A y \in V, x \in Evictable(r) \ {k} : x \notin V => Before(m.order, y, x)
    /\ Sound(n) /\ CapsOK(n)
    /\ n.last_version = m.last_version + 1
    /\ n.map[k].value = v /\ n.map[k].version = n.last_version /\ IsFresh(n.map[k], now)
    /\ \A x \in Keys \ {k} : n.map[x] = IF x \in V THEN Nil ELSE r.map[x]

(* The evictions that were planned, and then the insertion. *)
LEMMA EvictAndInsert ==
    ASSUME NEW m, NEW r, Lapsed(m, r), NEW k \in Keys, NEW v \in Values, NEW meta, MetaOK(meta),
           meta.expires # Never => meta.expires > now, now \in Nat,
           Enough(r, k, Size(v)) # {},
           \/ Fits(r, k, Size(v), {})
           \/ \A x \in Evictable(r) : ~PastExpiry(r.map[x], now)
    PROVE  LET V == Victims(r, k, Size(v)) IN
           Wrote(m, InsertFresh(Without(r, V), k, v, meta), k, v, r, V)
<1> DEFINE size == Size(v)
           V == Victims(r, k, size)
           o == Without(r, V)
           n == InsertFresh(o, k, v, meta)
           left == Present(r) \ (V \cup {k})
<1>1. Sound(r) /\ r.last_version = m.last_version
      /\ \A x, y \in Keys : Before(r.order, x, y) => Before(m.order, x, y)
  BY DEF Lapsed, Less
<1>2. size \in Nat
  BY SizeNat
<1> HIDE DEF size, V
<1>3. /\ V \subseteq Evictable(r) \ {k}
      /\ Fits(r, k, size, V)
      /\ Fits(r, k, size, {}) => V = {}
      /\ V # {} => \E x \in V : ~Fits(r, k, size, V \ {x})
      /\ \A y \in V, x \in Evictable(r) \ {k} : x \notin V => Before(r.order, y, x)
  BY <1>1, <1>2, VictimsRight DEF size, V
<1>4. /\ Less(r, o)
      /\ \A x \in Keys : o.map[x] = IF x \in V THEN Nil ELSE r.map[x]
  BY <1>1, WithoutLess
<1> HIDE DEF o
<1>5. Sound(o) /\ o.last_version = m.last_version
  BY <1>1, <1>4 DEF Less
<1>6. /\ Sound(n)
      /\ Present(n) = Present(o) \cup {k}
      /\ n.bytes = Bytes(o, Present(o) \ {k}) + size
      /\ n.last_version = o.last_version + 1
      /\ n.map[k] = [value |-> v, version |-> o.last_version + 1, expires |-> meta.expires,
                     stale_for |-> meta.stale_for, evictable |-> meta.evictable]
      /\ \A x \in Keys \ {k} : n.map[x] = o.map[x]
  <2>1. Inserted(o, n, k, v, meta)
    BY <1>5, InsertSound
  <2> HIDE DEF n
  <2>2. QED
    BY <2>1 DEF size, Inserted
<1> HIDE DEF n
<1>7. n.map[k].value = v /\ n.map[k].version = n.last_version /\ IsFresh(n.map[k], now)
  <2>1. /\ n.map[k].value = v /\ n.map[k].version = n.last_version
        /\ n.map[k].expires = meta.expires
    BY <1>6
  <2>2. n.map[k] # Nil
    BY <1>6 DEF Present
  <2>3. ~PastExpiry(n.map[k], now)
    <3>1. CASE meta.expires = Never
      BY <3>1, <2>1 DEF PastExpiry
    <3>2. CASE meta.expires # Never
      <4>1. meta.expires \in Nat /\ meta.expires > now
        BY <3>2 DEF MetaOK, Instant
      <4>2. ~(now >= meta.expires)
        BY <4>1
      <4>3. QED
        BY <2>1, <4>2 DEF PastExpiry
    <3>3. QED
      BY <3>1, <3>2
  <2>4. QED
    BY <2>1, <2>2, <2>3 DEF IsFresh
<1>8. /\ left \in SUBSET Keys /\ k \in Keys \ left /\ IsFiniteSet(left)
      /\ Present(n) = left \cup {k} /\ Present(o) \ {k} = left
  <2>1. left \in SUBSET Keys
    BY DEF Present
  <2>2. IsFiniteSet(left)
    BY <2>1, BytesSum
  <2>3. Present(o) = Present(r) \ V
    BY <1>4 DEF Present
  <2>4. QED
    BY <2>1, <2>2, <2>3, <1>6
<1>9. n.bytes = Bytes(r, left) + size
  <2>1. \A x \in left : o.map[x] = r.map[x]
    BY <1>4, <1>8
  <2>2. Bytes(o, left) = Bytes(r, left)
    BY <2>1, <1>8, BytesSame
  <2>3. QED
    BY <2>2, <1>6, <1>8
<1>10. Cardinality(Present(n)) = Cardinality(left) + 1 /\ Cardinality(left) \in Nat
  BY <1>8, FS_AddElement, FS_CardinalityType
<1>11. CapsOK(n)
  <2>1. Allows(Cardinality(left) + 1, Bytes(r, left) + size)
    BY <1>1, <1>2, <1>3, FitsMeans
  <2>2. QED
    BY <2>1, <1>9, <1>10 DEF CapsOK
<1>12. ASSUME NEW x \in V, ~Fits(r, k, size, V \ {x})
       PROVE  ~Allows(Cardinality(Present(n)) + 1, n.bytes + Size(r.map[x].value))
  <2> DEFINE more == Present(r) \ ((V \ {x}) \cup {k})
  <2>1. more \in SUBSET Keys /\ ~Allows(Cardinality(more) + 1, Bytes(r, more) + size)
    BY <1>1, <1>2, <1>12, FitsMeans
  <2>2. more = left \cup {x} /\ x \in Keys \ left
    BY <1>3, <1>12 DEF Evictable, Present
  <2>3. Cardinality(more) = Cardinality(left) + 1
    BY <2>2, <1>8, FS_AddElement
  <2>4. Bytes(r, more) = Bytes(r, left) + Size(r.map[x].value)
    BY <2>2, <1>8, BytesAdd
  <2>5. Bytes(r, left) \in Nat /\ Size(r.map[x].value) \in Nat
    BY <1>8, BytesNat, SizeNat
  <2> HIDE DEF more
  <2>6. Bytes(r, more) + size = n.bytes + Size(r.map[x].value)
    BY <2>4, <2>5, <1>2, <1>9
  <2>7. QED
    BY <2>1, <2>3, <2>6, <1>10
<1>13. ASSUME V # {}
       PROVE  /\ \A x \in Evictable(r) : ~PastExpiry(r.map[x], now)
              /\ \E x \in V : ~Allows(Cardinality(Present(n)) + 1, n.bytes + Size(r.map[x].value))
  <2>1. ~Fits(r, k, size, {})
    BY <1>3, <1>13
  <2>2. \A x \in Evictable(r) : ~PastExpiry(r.map[x], now)
    BY <2>1 DEF size
  <2>3. QED
    BY <2>2, <1>3, <1>12, <1>13
<1>14. ASSUME NEW y \in V, NEW x \in Evictable(r) \ {k}, x \notin V
       PROVE  Before(m.order, y, x)
  <2>1. x \in Keys /\ y \in Keys
    BY <1>3 DEF Evictable, Present
  <2>2. QED
    BY <2>1, <1>1, <1>3, <1>14
<1>15. \A x \in Keys \ {k} : n.map[x] = IF x \in V THEN Nil ELSE r.map[x]
  BY <1>4, <1>6
<1>16. Wrote(m, n, k, v, r, V)
  BY <1>3, <1>5, <1>6, <1>7, <1>11, <1>13, <1>14, <1>15 DEF Wrote
<1>17. QED
  BY <1>16 DEF n, o, V, size

(* put of a value stores it or does not; either way the store stays sound. *)
LEMMA PutWrites ==
    ASSUME NEW m, Sound(m), now \in Nat, NEW k \in Keys, NEW v \in Values, NEW w, WriteOK(w)
    PROVE  \/ Lapsed(m, Put(m, k, v, w).m)
           \/ \E r, V : Wrote(m, Put(m, k, v, w).m, k, v, r, V)
<1> DEFINE s == Swept(m)
           meta == Meta(s, k, w)
           l == Live(s, k)
           size == Size(v)
           r == IF Fits(l, k, size, {}) THEN l ELSE DropExpired(l)
           V == Victims(r, k, size)
           n == InsertFresh(Without(r, V), k, v, meta)
<1>1. Lapsed(m, s)
  BY SweptLapsed
<1>2. Sound(s)
  BY <1>1 DEF Lapsed, Less
<1>3. MetaOK(meta) /\ (meta.expires # Never => meta.expires > now)
  BY <1>2, MetaFresh
<1>4. Lapsed(m, l)
  BY <1>1, <1>2, LiveLapsed, LapsedTwice
<1>5. Sound(l)
  BY <1>4 DEF Lapsed, Less
<1>6. /\ Lapsed(m, r)
      /\ \/ Fits(r, k, size, {})
         \/ \A x \in Evictable(r) : ~PastExpiry(r.map[x], now)
  <2>1. CASE Fits(l, k, size, {})
    BY <2>1, <1>4
  <2>2. CASE ~Fits(l, k, size, {})
    BY <2>2, <1>4, <1>5, DropExpiredLapsed, LapsedTwice
  <2>3. QED
    BY <2>1, <2>2
<1>7. v # Nil
  BY SentinelAssumption
<1>8. \/ Put(m, k, v, w).m = l
      \/ Put(m, k, v, w).m = r
      \/ Enough(r, k, size) # {} /\ Put(m, k, v, w).m = n
  BY <1>7 DEF Put, PutValue
<1> HIDE DEF meta, l, s
<1>9. Enough(r, k, size) # {} => Wrote(m, n, k, v, r, V)
  BY <1>3, <1>6, EvictAndInsert
<1> HIDE DEF r, V, n
<1>10. QED
  BY <1>4, <1>6, <1>8, <1>9

-----------------------------------------------------------------------------
(* Fewer entries meet the caps that more of them met. *)
LEMMA LessCaps ==
    ASSUME NEW m, NEW n, Sound(m), CapsOK(m), Less(m, n)
    PROVE  CapsOK(n)
<1>1. /\ Present(n) \in SUBSET Present(m) /\ Present(m) \in SUBSET Keys
      /\ Present(n) \in SUBSET Keys /\ Present(m) \ Present(n) \in SUBSET Keys
      /\ \A k \in Present(n) : n.map[k] = m.map[k]
  BY DEF Less, Present
<1>2. /\ IsFiniteSet(Present(m)) /\ Cardinality(Present(n)) <= Cardinality(Present(m))
      /\ Cardinality(Present(n)) \in Nat /\ Cardinality(Present(m)) \in Nat
  BY <1>1, FiniteAssumption, FS_Subset, FS_CardinalityType
<1>3. n.bytes = Bytes(m, Present(n))
  BY <1>1, BytesSame DEF Less, Sound
<1>4. m.bytes = Bytes(m, Present(n)) + Bytes(m, Present(m) \ Present(n))
  BY <1>1, BytesSplit DEF Sound
<1>5. Bytes(m, Present(n)) \in Nat /\ Bytes(m, Present(m) \ Present(n)) \in Nat
  BY <1>1, BytesNat
<1>6. n.bytes <= m.bytes /\ n.bytes \in Nat /\ m.bytes \in Nat
  BY <1>3, <1>4, <1>5
<1>7. QED
  BY <1>2, <1>6, LimitAssumption DEF CapsOK, Allows

LEMMA WroteAfter ==
    ASSUME NEW m, NEW l, NEW n, NEW k, NEW v, NEW r, NEW V,
           Lapsed(m, l), Wrote(l, n, k, v, r, V)
    PROVE  Wrote(m, n, k, v, r, V)
<1>1. Lapsed(m, r)
  BY LapsedTwice DEF Wrote
<1>2. ASSUME NEW y \in V, NEW x \in Evictable(r) \ {k}, x \notin V
      PROVE  Before(m.order, y, x)
  <2>1. x \in Keys /\ y \in Keys
    BY DEF Wrote, Evictable, Present
  <2>2. QED
    BY <2>1, <1>2 DEF Wrote, Lapsed, Less
<1>3. l.last_version = m.last_version
  BY DEF Lapsed, Less
<1>4. QED
  BY <1>1, <1>2, <1>3 DEF Wrote

(* The store after a step: it has the entries it had, but for some, and no  *)
(* new version; or a value was stored.                                      *)
Quiet(m, n) ==
    /\ Sound(n) /\ CapsOK(n)
    /\ n.last_version = m.last_version

LEMMA LapsedQuiet ==
    ASSUME NEW m, NEW n, Sound(m), CapsOK(m), Less(m, n)
    PROVE  Quiet(m, n)
  BY LessCaps DEF Quiet, Less

StoreInv ==
    /\ now \in Nat
    /\ Sound(inner) /\ CapsOK(inner)
    /\ snap \in [Clients -> Snapshot \cup {NoRead}]
    /\ VersionInv

(* A put of any value at all, into what is left of the store. *)
LEMMA PutOutcome ==
    ASSUME NEW m, Sound(m), CapsOK(m), NEW l, Lapsed(m, l), now \in Nat,
           NEW k \in Keys, NEW v \in Values \cup {Nil}, NEW w, WriteOK(w)
    PROVE  \/ Quiet(m, Put(l, k, v, w).m)
           \/ v # Nil /\ \E r, V : Wrote(m, Put(l, k, v, w).m, k, v, r, V)
<1>1. Sound(l) /\ Less(m, l)
  BY DEF Lapsed, Less
<1>2. CASE v = Nil
  <2>1. Put(l, k, v, w).m = Without(l, {k})
    BY <1>2 DEF Put
  <2>2. Less(m, Without(l, {k}))
    BY <1>1, WithoutLess, LessTwice
  <2>3. QED
    BY <2>1, <2>2, LapsedQuiet
<1>3. CASE v # Nil
  <2>1. v \in Values
    BY <1>3
  <2>2. \/ Lapsed(l, Put(l, k, v, w).m)
        \/ \E r, V : Wrote(l, Put(l, k, v, w).m, k, v, r, V)
    BY <1>1, <2>1, PutWrites
  <2>3. CASE Lapsed(l, Put(l, k, v, w).m)
    BY <2>3, LapsedTwice, LapsedQuiet DEF Lapsed
  <2>4. CASE \E r, V : Wrote(l, Put(l, k, v, w).m, k, v, r, V)
    BY <2>4, <1>3, WroteAfter
  <2>5. QED
    BY <2>2, <2>3, <2>4
<1>4. QED
  BY <1>2, <1>3

LEMMA StepOutcome ==
    ASSUME StoreInv, Next
    PROVE  \/ Quiet(inner, inner')
           \/ now' = now /\ \E k \in Keys, v \in Values : \E r, V : Wrote(inner, inner', k, v, r, V)
<1> USE DEF StoreInv
<1>l. ASSUME NEW k
      PROVE  Lapsed(inner, Live(inner, k)) /\ Less(inner, Live(inner, k))
             /\ Quiet(inner, Live(inner, k)) /\ Sound(Live(inner, k))
  BY LiveLapsed, LapsedQuiet DEF Lapsed, Less
<1>s. Lapsed(inner, inner) /\ Quiet(inner, inner)
  BY LapsedSame DEF Quiet
<1>1. CASE Tick
  BY <1>1, <1>s DEF Tick
<1>2. ASSUME NEW k \in Keys, Get(k)
      PROVE  Quiet(inner, inner')
  <2> DEFINE l == Live(inner, k)
  <2>1. Quiet(inner, l) /\ Sound(l)
    BY <1>l
  <2>2. inner' = Touch(l, k)
    BY <1>2 DEF Get
  <2> HIDE DEF l
  <2>3. /\ Sound(inner') /\ inner'.map = l.map /\ inner'.last_version = l.last_version
        /\ inner'.bytes = l.bytes
    BY <2>1, <2>2, TouchSound
  <2>4. QED
    BY <2>1, <2>3 DEF Quiet, CapsOK, Present
<1>3. ASSUME NEW k \in Keys, Peek(k)
      PROVE  Quiet(inner, inner')
  BY <1>3, <1>l DEF Peek
<1>4. ASSUME NEW k \in Keys, NEW w \in SetWrites, NEW v \in Values \cup {Nil}, Set(k, v, w)
      PROVE  \/ Quiet(inner, inner')
             \/ now' = now /\ v \in Values /\ \E r, V : Wrote(inner, inner', k, v, r, V)
  BY <1>4, <1>s, WritesOK, PutOutcome DEF Set
<1>5. ASSUME NEW k \in Keys, NEW w \in IncrWrites, NEW n \in {-1, 0, 1}, Incr(k, n, w)
      PROVE  \/ Quiet(inner, inner')
             \/ now' = now /\ \E v \in Values : \E r, V : Wrote(inner, inner', k, v, r, V)
  <2> DEFINE m == Live(inner, k)
             base == IF VisibleValue(m, k) = Nil THEN 0 ELSE VisibleValue(m, k)
  <2>1. CASE inner' = m
    BY <2>1, <1>l
  <2>2. CASE base + n \in 0 .. MaxNum /\ inner' = Put(m, k, base + n, w).m
    <3>1. base + n \in Values
      BY <2>2 DEF Values
    <3>2. WriteOK(w)
      BY WritesOK
    <3>3. Lapsed(inner, m)
      BY <1>l
    <3> HIDE DEF m, base
    <3>4. \/ Quiet(inner, inner')
          \/ \E r, V : Wrote(inner, inner', k, base + n, r, V)
      BY <2>2, <3>1, <3>2, <3>3, PutOutcome
    <3>5. QED
      BY <1>5, <3>1, <3>4 DEF Incr
  <2>3. QED
    BY <1>5, <2>1, <2>2 DEF Incr
<1>6. ASSUME NEW k \in Keys, NEW w \in FetchWrites, NEW v \in Values, FinishLoad(k, v, w)
      PROVE  \/ Quiet(inner, inner')
             \/ now' = now /\ \E r, V : Wrote(inner, inner', k, v, r, V)
  BY <1>6, <1>l, WritesOK, PutOutcome DEF FinishLoad
<1>7. ASSUME NEW k \in Keys, NEW c \in Clients, Read(c, k)
      PROVE  Quiet(inner, inner')
  BY <1>7, <1>l DEF Read
<1>8. ASSUME NEW c \in Clients, NEW w \in KeepWrites \cup SetWrites,
             NEW v \in Values \cup {Nil}, Swap(c, v, w)
      PROVE  \/ Quiet(inner, inner')
             \/ now' = now /\ \E k \in Keys, x \in Values : \E r, V : Wrote(inner, inner', k, x, r, V)
  <2> DEFINE k == snap[c].key
  <2>1. k \in Keys
    BY <1>8 DEF Swap, Snapshot
  <2>2. WriteOK(w)
    BY WritesOK
  <2>3. \/ inner' = Live(inner, k)
        \/ inner' = Put(Live(inner, k), k, v, w).m
    BY <1>8 DEF Swap
  <2>4. now' = now
    BY <1>8 DEF Swap
  <2> HIDE DEF k
  <2>5. QED
    BY <2>1, <2>2, <2>3, <2>4, <1>l, PutOutcome
<1>9. ASSUME NEW c \in Clients, TransformFails(c)
      PROVE  Quiet(inner, inner')
  BY <1>9, <1>s DEF TransformFails
<1>10. QED
  BY <1>1, <1>2, <1>3, <1>4, <1>5, <1>6, <1>7, <1>8, <1>9 DEF Next, Add

LEMMA StoreInvInit == Init => StoreInv
<1> SUFFICES ASSUME Init PROVE StoreInv
  OBVIOUS
<1>1. /\ inner.map = [k \in Keys |-> Nil] /\ inner.order = <<>> /\ inner.bytes = 0
      /\ inner.earliest = Never
  BY DEF Init
<1>2. inner \in Inner
  BY DEF Init, Inner, Instant
<1>3. Present(inner) = {} /\ Evictable(inner) = {}
  BY <1>1 DEF Present, Evictable
<1>4. Distinct(inner.order) /\ Listed(inner.order) = {}
  BY <1>1 DEF Distinct, Listed
<1>5. Bytes(inner, Present(inner)) = 0
  BY <1>3, BytesNat
<1>6. Sound(inner)
  BY <1>1, <1>2, <1>3, <1>4, <1>5 DEF Sound
<1>7. CapsOK(inner)
  BY <1>1, <1>3, LimitAssumption, FS_EmptySet DEF CapsOK, Allows
<1>8. QED
  BY <1>6, <1>7, VersionInvInit DEF Init, StoreInv

LEMMA StoreInvNext == StoreInv /\ [Next]_vars => StoreInv'
<1> SUFFICES ASSUME StoreInv, [Next]_vars PROVE StoreInv'
  OBVIOUS
<1>1. VersionInv'
  BY VersionInvNext DEF StoreInv
<1>2. (snap \in [Clients -> Snapshot \cup {NoRead}])'
  BY <1>1 DEF VersionInv, Named
<1>3. CASE UNCHANGED vars
  BY <1>1, <1>2, <1>3 DEF vars, StoreInv, Sound, CapsOK, Distinct, Listed, Evictable, Present,
                          Bytes, Allows
<1>4. CASE Next
  <2>1. now' \in Nat
    BY <1>4 DEF StoreInv, Next, Tick, Get, Peek, Set, Incr, FinishLoad, Read, Swap, Add,
                TransformFails
  <2> DEFINE n == inner'
  <2>2. Sound(n) /\ CapsOK(n)
    BY <1>4, StepOutcome DEF Quiet, Wrote
  <2>3. Sound(inner)' /\ CapsOK(inner)'
    BY <2>2 DEF Sound, CapsOK, Distinct, Listed, Evictable, Present, Bytes, Allows
  <2>4. QED
    BY <1>1, <1>2, <2>1, <2>3 DEF StoreInv
<1>5. QED
  BY <1>3, <1>4

LEMMA StoreInvAlways == Spec => []StoreInv
  BY StoreInvInit, StoreInvNext, PTL DEF Spec

LEMMA SoundAccounts ==
    ASSUME Sound(inner)
    PROVE  AccountsExact
<1> DEFINE order == inner.order
<1>1. order \in Seq(Keys) /\ Distinct(order) /\ Listed(order) = Evictable(inner)
      /\ inner.bytes = Bytes(inner, Present(inner))
  BY InnerFields DEF Sound
<1>2. DOMAIN order = 1 .. Len(order)
  BY <1>1
<1>3. Len(order) = Cardinality(Listed(order))
  BY <1>1, DistinctLength
<1>4. Evictable(inner) = {k \in Present(inner) : inner.map[k].evictable}
  BY DEF Evictable
<1>5. {order[i] : i \in DOMAIN order} = Listed(order)
  BY <1>2 DEF Listed
<1>6. QED
  BY <1>1, <1>3, <1>4, <1>5 DEF AccountsExact

(* The accounts the evictions are planned from are true in every state, and *)
(* the caps hold after every operation: order lists each evictable entry    *)
(* once, bytes is what the entries add up to, whatever mix of writes,       *)
(* expiries and evictions went before.                                      *)
THEOREM StoreSoundAlways == Spec => []StoreSound
<1>1. StoreInv => StoreSound
  <2> SUFFICES ASSUME StoreInv PROVE StoreSound
    OBVIOUS
  <2>1. TypeOK
    BY DEF StoreInv, Sound, TypeOK
  <2>2. AccountsExact
    BY SoundAccounts DEF StoreInv
  <2>3. CapsHold
    BY DEF StoreInv, CapsOK, CapsHold
  <2>4. QED
    BY <2>1, <2>2, <2>3 DEF StoreSound
<1>2. QED
  BY <1>1, StoreInvAlways, PTL

-----------------------------------------------------------------------------
(* A fresh entry that a write took away is one of its victims, and every    *)
(* victim was a fresh evictable entry.                                      *)
LEMMA EvictedVictim ==
    ASSUME StoreInv, NEW kw \in Keys, NEW v, NEW r, NEW V,
           Wrote(inner, inner', kw, v, r, V), NEW k \in Keys
    PROVE  /\ Evicted(k) => k \in V
           /\ k \in V => Evicted(k) /\ inner.map[k].evictable /\ r.map[k] = inner.map[k]
<1>1. inner'.map[kw] # Nil
  BY DEF Wrote, IsFresh
<1>2. ASSUME Evicted(k)
      PROVE  k \in V
  <2>1. IsFresh(inner.map[k], now) /\ inner'.map[k] = Nil /\ k # kw
    BY <1>1, <1>2 DEF Evicted
  <2>2. r.map[k] # Nil
    BY <2>1 DEF Wrote, Lapsed, IsFresh
  <2>3. QED
    BY <2>1, <2>2 DEF Wrote
<1>3. ASSUME k \in V
      PROVE  Evicted(k) /\ inner.map[k].evictable /\ r.map[k] = inner.map[k]
  <2>1. k \in Evictable(r) /\ k # kw
    BY <1>3 DEF Wrote
  <2>2. r.map[k] # Nil /\ r.map[k].evictable /\ ~PastExpiry(r.map[k], now)
    BY <1>3, <2>1 DEF Wrote, Evictable, Present
  <2>3. r.map[k] = inner.map[k]
    BY <2>2 DEF Wrote, Lapsed, Less
  <2>4. inner'.map[k] = Nil
    BY <1>3, <2>1 DEF Wrote
  <2>5. inner'.last_version # inner.last_version
    <3>1. inner.last_version \in Nat
      BY InnerFields DEF StoreInv, Sound
    <3>2. inner'.last_version = inner.last_version + 1
      BY DEF Wrote
    <3>3. QED
      BY <3>1, <3>2
  <2>6. QED
    BY <2>2, <2>3, <2>4, <2>5 DEF Evicted, IsFresh
<1>4. QED
  BY <1>2, <1>3

LEMMA EvictedWrote ==
    ASSUME StoreInv, [Next]_vars, NEW k \in Keys, Evicted(k)
    PROVE  now' = now /\ \E kw \in Keys, v \in Values : \E r, V : Wrote(inner, inner', kw, v, r, V)
<1>1. inner'.last_version # inner.last_version
  BY DEF Evicted
<1>2. ~Quiet(inner, inner') /\ Next
  BY <1>1 DEF Quiet, vars
<1>3. QED
  BY <1>2, StepOutcome

LEMMA ExpiredFirstStep ==
    ASSUME StoreInv, [Next]_vars, NEW k \in Keys, Evicted(k), NEW x \in Keys
    PROVE  ~(PastExpiry(inner'.map[x], now) /\ inner'.map[x].evictable)
<1>0. PICK kw \in Keys, v \in Values : \E r, V : Wrote(inner, inner', kw, v, r, V)
  BY EvictedWrote
<1>1. PICK r, V : Wrote(inner, inner', kw, v, r, V)
  BY <1>0
<1>2. V # {}
  BY <1>1, EvictedVictim
<1>3. CASE x = kw
  BY <1>1, <1>3 DEF Wrote, IsFresh
<1>4. CASE x # kw
  <2>1. inner'.map[x] \in {r.map[x], Nil}
    BY <1>1, <1>4 DEF Wrote
  <2>2. PastExpiry(r.map[x], now) => x \notin Evictable(r)
    BY <1>1, <1>2 DEF Wrote
  <2>3. QED
    BY <2>1, <2>2 DEF PastExpiry, Evictable, Present
<1>5. QED
  BY <1>3, <1>4

(* A live entry is evicted only once no expired evictable one is left: what *)
(* drop_expired relies on to skip its scan, earliest, is never too late.    *)
THEOREM ExpiredGoFirstAlways == Spec => ExpiredGoFirst
<1> DEFINE Body == \A k \in Keys : Evicted(k) =>
                       \A x \in Keys : ~(PastExpiry(inner'.map[x], now) /\ inner'.map[x].evictable)
<1>1. StoreInv /\ [Next]_vars => [Body]_vars
  BY ExpiredFirstStep
<1> HIDE DEF Body
<1>2. Spec => [][Body]_vars
  BY <1>1, StoreInvAlways, PTL DEF Spec
<1>3. QED
  BY <1>2 DEF Body, ExpiredGoFirst

LEMMA PlaceOf ==
    ASSUME Sound(inner), NEW i \in 1 .. Len(inner.order)
    PROVE  Place(inner.order[i]) = i
<1>1. inner.order \in Seq(Keys) /\ Distinct(inner.order)
  BY InnerFields DEF Sound
<1>2. DOMAIN inner.order = 1 .. Len(inner.order)
  BY <1>1
<1>3. \A j \in DOMAIN inner.order : inner.order[j] = inner.order[i] => j = i
  BY <1>1, <1>2 DEF Distinct
<1>4. QED
  BY <1>2, <1>3 DEF Place

LEMMA MustEvictStep ==
    ASSUME StoreInv, [Next]_vars, NEW k \in Keys, Evicted(k)
    PROVE  /\ inner.map[k].evictable
           /\ \A x \in Keys : /\ inner.map[x] # Nil /\ inner.map[x].evictable
                              /\ inner'.map[x] = inner.map[x]
                              => Place(k) < Place(x)
           /\ \E x \in Keys : /\ Evicted(x)
                              /\ ~Allows(Cardinality(Present(inner')) + 1,
                                         inner'.bytes + Size(inner.map[x].value))
<1>0. PICK kw \in Keys, v \in Values : \E r, V : Wrote(inner, inner', kw, v, r, V)
  BY EvictedWrote
<1>1. PICK r, V : Wrote(inner, inner', kw, v, r, V)
  BY <1>0
<1>2. k \in V /\ inner.map[k].evictable
  BY <1>1, EvictedVictim
<1>3. ASSUME NEW x \in Keys, inner.map[x] # Nil, inner.map[x].evictable,
             inner'.map[x] = inner.map[x]
      PROVE  Place(k) < Place(x)
  <2>1. x # kw
    <3>1. inner.map[x].version \in 1 .. inner.last_version
      BY <1>3 DEF StoreInv, VersionInv, Versioned, Present
    <3>2. inner'.map[kw].version = inner.last_version + 1 /\ inner.last_version \in Nat
      BY <1>1, InnerFields DEF Wrote, StoreInv, Sound
    <3>3. QED
      BY <3>1, <3>2, <1>3
  <2>2. x \notin V /\ r.map[x] = inner.map[x]
    BY <1>1, <1>3, <2>1 DEF Wrote
  <2>3. x \in Evictable(r) \ {kw}
    BY <1>3, <2>1, <2>2 DEF Evictable, Present
  <2>4. Before(inner.order, k, x)
    BY <1>1, <1>2, <2>2, <2>3 DEF Wrote
  <2>5. PICK i \in 1 .. Len(inner.order), j \in 1 .. Len(inner.order) :
           i < j /\ inner.order[i] = k /\ inner.order[j] = x
    BY <2>4 DEF Before
  <2>6. Place(k) = i /\ Place(x) = j
    BY <2>5, PlaceOf DEF StoreInv
  <2>7. QED
    BY <2>5, <2>6
<1>4. \E x \in Keys : /\ Evicted(x)
                      /\ ~Allows(Cardinality(Present(inner')) + 1,
                                 inner'.bytes + Size(inner.map[x].value))
  <2>1. PICK x \in V : ~Allows(Cardinality(Present(inner')) + 1,
                               inner'.bytes + Size(r.map[x].value))
    BY <1>1, <1>2 DEF Wrote
  <2>2. x \in Keys
    BY <1>1 DEF Wrote, Evictable, Present
  <2>3. Evicted(x) /\ r.map[x] = inner.map[x]
    BY <1>1, <2>2, EvictedVictim
  <2>4. QED
    BY <2>1, <2>2, <2>3
<1>5. QED
  BY <1>2, <1>3, <1>4

(* What a write evicts is evictable, was used less recently than anything   *)
(* evictable that stays, and the write would not have fitted had one more   *)
(* entry stayed: no more is evicted than the caps force.                    *)
THEOREM EvictsWhatItMustAlways == Spec => EvictsWhatItMust
<1> DEFINE Body == \A k \in Keys : Evicted(k) =>
        /\ inner.map[k].evictable
        /\ \A x \in Keys : /\ inner.map[x] # Nil /\ inner.map[x].evictable
                           /\ inner'.map[x] = inner.map[x]
                           => Place(k) < Place(x)
        /\ \E x \in Keys : /\ Evicted(x)
                           /\ ~Allows(Cardinality(Present(inner')) + 1,
                                      inner'.bytes + Size(inner.map[x].value))
<1>1. StoreInv /\ [Next]_vars => [Body]_vars
  BY MustEvictStep
<1> HIDE DEF Body
<1>2. Spec => [][Body]_vars
  BY <1>1, StoreInvAlways, PTL DEF Spec
<1>3. QED
  BY <1>2 DEF Body, EvictsWhatItMust

-----------------------------------------------------------------------------
(* The store as StateRegister sees it.  From m to n, at one instant, the    *)
(* fresh entries are the same; or k was given v and those of L were lost.   *)
Fresh(m, k) == IsFresh(m.map[k], now)

SameFresh(m, n, S) ==
    \A x \in S : /\ Fresh(n, x) <=> Fresh(m, x)
                 /\ Fresh(m, x) => n.map[x] = m.map[x]

Assigned(m, n, k, v, L) ==
    /\ L \subseteq Keys \ {k}
    /\ \A x \in L : ~Fresh(n, x) /\ (Fresh(m, x) => m.map[x].evictable)
    /\ SameFresh(m, n, Keys \ (L \cup {k}))
    /\ IF v = Nil
       THEN ~Fresh(n, k)
       ELSE /\ Fresh(n, k) /\ n.map[k].value = v
            /\ n.map[k].version = m.last_version + 1

LEMMA LapsedFresh ==
    ASSUME NEW m, NEW n, Lapsed(m, n)
    PROVE  SameFresh(m, n, Keys)
  BY DEF SameFresh, Lapsed, Less, Fresh, IsFresh

LEMMA SameFreshTwice ==
    ASSUME NEW m, NEW l, NEW n, NEW S, SameFresh(m, l, S), SameFresh(l, n, S)
    PROVE  SameFresh(m, n, S)
  BY DEF SameFresh

LEMMA PutAssigns ==
    ASSUME NEW m, Sound(m), NEW l, Lapsed(m, l), now \in Nat,
           NEW k \in Keys, NEW v \in Values \cup {Nil}, NEW w, WriteOK(w)
    PROVE  \/ SameFresh(m, Put(l, k, v, w).m, Keys)
           \/ \E L \in SUBSET Keys : Assigned(m, Put(l, k, v, w).m, k, v, L)
<1> DEFINE n == Put(l, k, v, w).m
<1>1. Sound(l) /\ SameFresh(m, l, Keys)
  BY LapsedFresh DEF Lapsed, Less
<1>2. CASE v = Nil
  <2>1. n = Without(l, {k})
    BY <1>2 DEF Put
  <2> HIDE DEF n
  <2>2. \A x \in Keys : n.map[x] = IF x \in {k} THEN Nil ELSE l.map[x]
    BY <1>1, <2>1, WithoutLess
  <2>3. ~Fresh(n, k) /\ SameFresh(m, n, Keys \ {k})
    BY <2>2, <1>1 DEF Fresh, IsFresh, SameFresh
  <2>4. Assigned(m, n, k, v, {})
    BY <2>3, <1>2 DEF Assigned
  <2>5. QED
    BY <2>4 DEF n
<1>3. CASE v # Nil
  <2>1. v \in Values
    BY <1>3
  <2>2. \/ Lapsed(l, n)
        \/ \E r, V : Wrote(l, n, k, v, r, V)
    BY <1>1, <2>1, PutWrites
  <2> HIDE DEF n
  <2>3. CASE Lapsed(l, n)
    BY <2>3, <1>1, LapsedFresh, SameFreshTwice DEF n
  <2>4. ASSUME NEW r, NEW V, Wrote(l, n, k, v, r, V)
        PROVE  Assigned(m, n, k, v, V)
    <3>1. Lapsed(m, r)
      BY <2>4, LapsedTwice DEF Wrote
    <3>2. SameFresh(m, r, Keys)
      BY <3>1, LapsedFresh
    <3>3. V \subseteq Evictable(r) \ {k} /\ V \subseteq Keys \ {k}
      BY <2>4 DEF Wrote, Evictable, Present
    <3>4. \A x \in Keys \ {k} : n.map[x] = IF x \in V THEN Nil ELSE r.map[x]
      BY <2>4 DEF Wrote
    <3>5. \A x \in V : ~Fresh(n, x) /\ (Fresh(m, x) => m.map[x].evictable)
      BY <3>2, <3>3, <3>4 DEF SameFresh, Fresh, IsFresh, Evictable
    <3>6. SameFresh(m, n, Keys \ (V \cup {k}))
      BY <3>2, <3>4 DEF SameFresh, Fresh
    <3>7. l.last_version = m.last_version
      BY DEF Lapsed, Less
    <3>8. /\ Fresh(n, k) /\ n.map[k].value = v
          /\ n.map[k].version = m.last_version + 1
      BY <2>4, <3>7 DEF Wrote, Fresh
    <3>9. QED
      BY <3>3, <3>5, <3>6, <3>8, <1>3 DEF Assigned
  <2>5. CASE \E r, V : Wrote(l, n, k, v, r, V)
    <3>1. PICK r, V : Wrote(l, n, k, v, r, V)
      BY <2>5
    <3>2. Assigned(m, n, k, v, V)
      BY <3>1, <2>4
    <3>3. V \in SUBSET Keys
      BY <3>2 DEF Assigned
    <3>4. QED
      BY <3>2, <3>3 DEF n
  <2>6. QED
    BY <2>2, <2>3, <2>5
<1>4. QED
  BY <1>2, <1>3

(* The variables of StateRegister, and what its Assign does to them. *)
reg == [k \in Keys |-> VisibleValue(inner, k)]
pinned == {k \in Keys : /\ IsFresh(inner.map[k], now)
                        /\ ~inner.map[k].evictable
                        /\ inner.map[k].expires = Never}
seen == [c \in Clients |-> IF snap[c] = NoRead THEN NoRead
                           ELSE [key |-> snap[c].key, value |-> snap[c].value]]
torn == {c \in Clients : /\ snap[c] # NoRead
                         /\ snap[c].version # 0
                         /\ VisibleVersion(inner, snap[c].key) # snap[c].version}
TornBy(S) == {c \in Clients : seen[c] # NoRead /\ seen[c].value # Nil /\ seen[c].key \in S}

Assigns(k, v, L) ==
    /\ L \cap (pinned \cup {k}) = {}
    /\ reg' = [x \in Keys |-> IF x = k THEN v ELSE IF x \in L THEN Nil ELSE reg[x]]
    /\ pinned' \in {pinned \ {k}} \cup (IF v = Nil THEN {} ELSE {pinned \cup {k}})

(* Primed, a store at an unchanged instant is read as it was unprimed. *)
LEMMA AtSameInstant ==
    ASSUME now' = now
    PROVE  /\ \A k : VisibleValue(inner, k)' = VisibleValue(inner', k)
           /\ \A k : VisibleVersion(inner, k)' = VisibleVersion(inner', k)
           /\ \A k : IsFresh(inner.map[k], now)' <=> Fresh(inner', k)
  BY DEF VisibleValue, VisibleVersion, IsFresh, PastExpiry, Fresh

(* What a client has seen: a version it can trust to name the value. *)
LEMMA SeenRead ==
    ASSUME StoreInv, NEW c \in Clients
    PROVE  /\ seen[c] = NoRead <=> snap[c] = NoRead
           /\ snap[c] # NoRead =>
                /\ seen[c].key = snap[c].key /\ seen[c].value = snap[c].value
                /\ snap[c].key \in Keys /\ snap[c].version \in Nat
                /\ snap[c].version <= inner.last_version
                /\ snap[c].version = 0 <=> snap[c].value = Nil
<1>1. CASE snap[c] = NoRead
  BY <1>1 DEF seen
<1>2. CASE snap[c] # NoRead
  <2>1. snap[c] \in Snapshot
    BY <1>2 DEF StoreInv
  <2>2. snap[c].key \in Keys /\ snap[c].value \in Values \cup {Nil} /\ snap[c].version \in Nat
    BY <2>1 DEF Snapshot
  <2>3. seen[c] = [key |-> snap[c].key, value |-> snap[c].value]
    BY <1>2 DEF seen
  <2>4. seen[c] \in [key : Keys, value : Values \cup {Nil}]
    BY <2>2, <2>3
  <2>5. seen[c] # NoRead
    BY <2>4, SentinelAssumption
  <2>6. snap[c].version <= inner.last_version /\ (snap[c].version = 0 <=> snap[c].value = Nil)
    BY <1>2 DEF StoreInv, VersionInv, Named
  <2>7. QED
    BY <1>2, <2>2, <2>3, <2>5, <2>6
<1>3. QED
  BY <1>1, <1>2

LEMMA SameFreshRegister ==
    ASSUME StoreInv, now' = now, SameFresh(inner, inner', Keys)
    PROVE  /\ reg' = reg /\ pinned' = pinned
           /\ \A k \in Keys : VisibleVersion(inner', k) = VisibleVersion(inner, k)
<1>1. \A k \in Keys : VisibleValue(inner', k) = VisibleValue(inner, k)
                      /\ VisibleVersion(inner', k) = VisibleVersion(inner, k)
  BY DEF SameFresh, Fresh, VisibleValue, VisibleVersion
<1>2. reg' = reg
  BY <1>1, AtSameInstant DEF reg
<1>3. pinned' = pinned
  BY AtSameInstant DEF pinned, SameFresh, Fresh
<1>4. QED
  BY <1>1, <1>2, <1>3, AtSameInstant

LEMMA AssignedRegister ==
    ASSUME StoreInv, now' = now, NEW k \in Keys, NEW v \in Values \cup {Nil}, NEW L \in SUBSET Keys,
           Assigned(inner, inner', k, v, L)
    PROVE  /\ Assigns(k, v, L)
           /\ \A c \in Clients : snap[c] # NoRead /\ snap[c].version # 0 =>
                 (VisibleVersion(inner', snap[c].key) # snap[c].version
                    <=> c \in torn \/ snap[c].key \in L \cup {k})
<1>1. ASSUME NEW x \in Keys
      PROVE  /\ x = k => VisibleValue(inner', x) = v
             /\ x \in L => VisibleValue(inner', x) = Nil /\ VisibleVersion(inner', x) = 0
             /\ x \notin L \cup {k} => /\ VisibleValue(inner', x) = VisibleValue(inner, x)
                                       /\ VisibleVersion(inner', x) = VisibleVersion(inner, x)
  BY DEF Assigned, SameFresh, Fresh, VisibleValue, VisibleVersion
<1>2. VisibleVersion(inner', k) \in {0, inner.last_version + 1}
  BY DEF Assigned, Fresh, VisibleVersion
<1>3. reg' = [x \in Keys |-> IF x = k THEN v ELSE IF x \in L THEN Nil ELSE reg[x]]
  BY <1>1, AtSameInstant DEF reg, Assigned
<1>4. L \cap (pinned \cup {k}) = {}
  BY DEF Assigned, pinned, Fresh
<1>5. pinned' \in {pinned \ {k}} \cup (IF v = Nil THEN {} ELSE {pinned \cup {k}})
  <2>1. \A x \in Keys \ {k} : x \in pinned' <=> x \in pinned
    BY <1>4, AtSameInstant DEF pinned, Assigned, SameFresh, Fresh
  <2>2. v = Nil => k \notin pinned'
    BY AtSameInstant DEF pinned, Assigned
  <2>3. pinned \subseteq Keys /\ pinned' \subseteq Keys
    BY DEF pinned
  <2>4. CASE k \in pinned'
    <3>1. pinned' = pinned \cup {k}
      BY <2>1, <2>3, <2>4
    <3>2. QED
      BY <2>2, <2>4, <3>1
  <2>5. CASE k \notin pinned'
    <3>1. pinned' = pinned \ {k}
      BY <2>1, <2>3, <2>5
    <3>2. QED
      BY <3>1
  <2>6. QED
    BY <2>4, <2>5
<1>6. ASSUME NEW c \in Clients, snap[c] # NoRead, snap[c].version # 0
      PROVE  VisibleVersion(inner', snap[c].key) # snap[c].version
               <=> c \in torn \/ snap[c].key \in L \cup {k}
  <2>1. /\ snap[c].key \in Keys /\ snap[c].version \in Nat
        /\ snap[c].version <= inner.last_version /\ inner.last_version \in Nat
    BY <1>6, SeenRead, InnerFields DEF StoreInv, Sound
  <2>2. c \in torn <=> VisibleVersion(inner, snap[c].key) # snap[c].version
    BY <1>6 DEF torn
  <2>3. CASE snap[c].key = k
    BY <2>1, <2>3, <1>2, <1>6
  <2>4. CASE snap[c].key \in L
    BY <2>1, <2>4, <1>1, <1>6
  <2>5. CASE snap[c].key \notin L \cup {k}
    BY <2>1, <2>2, <2>5, <1>1
  <2>6. QED
    BY <2>3, <2>4, <2>5
<1>7. QED
  BY <1>3, <1>4, <1>5, <1>6 DEF Assigns


LEMMA TornPrimed ==
    ASSUME now' = now
    PROVE  torn' = {c \in Clients : /\ snap'[c] # NoRead
                                    /\ snap'[c].version # 0
                                    /\ VisibleVersion(inner', snap'[c].key) # snap'[c].version}
  BY DEF torn, VisibleVersion, IsFresh, PastExpiry

LEMMA TornSeen ==
    ASSUME StoreInv, NEW c \in Clients, NEW S
    PROVE  c \in TornBy(S) <=> snap[c] # NoRead /\ snap[c].version # 0 /\ snap[c].key \in S
  BY SeenRead DEF TornBy

LEMMA TornSameFresh ==
    ASSUME StoreInv, now' = now, SameFresh(inner, inner', Keys),
           NEW c \in Clients, snap'[c] = snap[c]
    PROVE  c \in torn' <=> c \in torn
<1>1. CASE snap[c] = NoRead
  BY <1>1, TornPrimed DEF torn
<1>2. CASE snap[c] # NoRead
  <2>1. snap[c].key \in Keys
    BY <1>2, SeenRead
  <2>2. VisibleVersion(inner', snap[c].key) = VisibleVersion(inner, snap[c].key)
    BY <2>1, SameFreshRegister
  <2>3. QED
    BY <2>2, TornPrimed DEF torn
<1>3. QED
  BY <1>1, <1>2

LEMMA TornAssigned ==
    ASSUME StoreInv, now' = now, NEW k \in Keys, NEW v \in Values \cup {Nil}, NEW L \in SUBSET Keys,
           Assigned(inner, inner', k, v, L), NEW c \in Clients, snap'[c] = snap[c]
    PROVE  c \in torn' <=> c \in torn \cup TornBy(L \cup {k})
<1>1. CASE snap[c] = NoRead
  BY <1>1, TornPrimed, TornSeen DEF torn
<1>2. CASE snap[c] # NoRead
  <2>1. CASE snap[c].version = 0
    BY <2>1, TornPrimed, TornSeen DEF torn
  <2>2. CASE snap[c].version # 0
    <3>1. VisibleVersion(inner', snap[c].key) # snap[c].version
            <=> c \in torn \/ snap[c].key \in L \cup {k}
      BY <1>2, <2>2, AssignedRegister
    <3>2. QED
      BY <3>1, <1>2, <2>2, TornPrimed, TornSeen
  <2>3. QED
    BY <2>1, <2>2
<1>3. QED
  BY <1>1, <1>2

LEMMA TornDropped ==
    ASSUME StoreInv, now' = now, NEW c \in Clients, snap' = [snap EXCEPT ![c] = NoRead]
    PROVE  /\ c \notin torn'
           /\ seen' = [seen EXCEPT ![c] = NoRead]
           /\ \A d \in Clients \ {c} : snap'[d] = snap[d]
<1>1. snap = [d \in Clients |-> snap[d]]
  BY DEF StoreInv, VersionInv
<1>2. \A d \in Clients : snap'[d] = IF d = c THEN NoRead ELSE snap[d]
  BY <1>1
<1>3. c \notin torn'
  BY <1>2, TornPrimed
<1>4. seen' = [d \in Clients |-> IF d = c THEN NoRead ELSE seen[d]]
  BY <1>2 DEF seen
<1>5. seen = [d \in Clients |-> seen[d]]
  BY DEF seen
<1>6. QED
  BY <1>2, <1>3, <1>4, <1>5

(* One step of the store is one of the register, or none. *)
LEMMA StutterRegister ==
    ASSUME StoreInv, now' = now, SameFresh(inner, inner', Keys), snap' = snap
    PROVE  UNCHANGED Register!regVars
<1>1. reg' = reg /\ pinned' = pinned
  BY SameFreshRegister
<1>2. seen' = seen
  BY DEF seen
<1>3. torn' = torn
  <2>1. \A c \in Clients : c \in torn' <=> c \in torn
    BY TornSameFresh
  <2>2. torn \subseteq Clients /\ torn' \subseteq Clients
    BY DEF torn
  <2>3. QED
    BY <2>1, <2>2
<1>4. QED
  BY <1>1, <1>2, <1>3 DEF Register!regVars, reg, pinned, seen, torn

LEMMA WriteRegister ==
    ASSUME StoreInv, now' = now, NEW k \in Keys, NEW v \in Values \cup {Nil}, NEW L \in SUBSET Keys,
           Assigned(inner, inner', k, v, L), snap' = snap
    PROVE  Register!Write(k, v, L)
<1>1. Assigns(k, v, L)
  BY AssignedRegister
<1>2. seen' = seen
  BY DEF seen
<1>3. torn' = torn \cup TornBy(L \cup {k})
  <2>1. \A c \in Clients : c \in torn' <=> c \in torn \cup TornBy(L \cup {k})
    BY TornAssigned
  <2>2. torn \subseteq Clients /\ torn' \subseteq Clients /\ TornBy(L \cup {k}) \subseteq Clients
    BY DEF torn, TornBy
  <2>3. QED
    BY <2>1, <2>2
<1>4. QED
  BY <1>1, <1>2, <1>3
     DEF Register!Write, Register!Assign, Register!Torn, Assigns, TornBy, reg, pinned, seen, torn

LEMMA AbandonRegister ==
    ASSUME StoreInv, now' = now, SameFresh(inner, inner', Keys),
           NEW c \in Clients, snap[c] # NoRead, snap' = [snap EXCEPT ![c] = NoRead]
    PROVE  Register!Abandon(c)
<1>1. reg' = reg /\ pinned' = pinned
  BY SameFreshRegister
<1>2. c \notin torn' /\ seen' = [seen EXCEPT ![c] = NoRead]
  BY TornDropped
<1>3. torn' = torn \ {c}
  <2>1. \A d \in Clients \ {c} : d \in torn' <=> d \in torn
    BY TornSameFresh, TornDropped
  <2>2. torn \subseteq Clients /\ torn' \subseteq Clients
    BY DEF torn
  <2>3. QED
    BY <1>2, <2>1, <2>2
<1>4. seen[c] # NoRead
  BY SeenRead
<1>5. QED
  BY <1>1, <1>2, <1>3, <1>4 DEF Register!Abandon, reg, pinned, seen, torn

(* The version a client read still names the value it read. *)
LEMMA SeenStands ==
    ASSUME StoreInv, NEW c \in Clients, snap[c] # NoRead,
           VisibleVersion(inner, snap[c].key) = snap[c].version
    PROVE  c \notin torn /\ reg[snap[c].key] = snap[c].value
<1>1. c \notin torn
  BY DEF torn
<1>2. /\ snap[c].key \in Keys
      /\ snap[c].version = 0 <=> snap[c].value = Nil
  BY SeenRead
<1>3. reg[snap[c].key] = VisibleValue(inner, snap[c].key)
  BY <1>2 DEF reg
<1>4. CASE Fresh(inner, snap[c].key)
  <2>1. inner.map[snap[c].key] # Nil /\ inner.map[snap[c].key].version = snap[c].version
    BY <1>4 DEF Fresh, IsFresh, VisibleVersion
  <2>2. inner.map[snap[c].key].value = snap[c].value
    BY <2>1 DEF StoreInv, VersionInv, Named
  <2>3. QED
    BY <1>1, <1>3, <1>4, <2>2 DEF VisibleValue, Fresh
<1>5. CASE ~Fresh(inner, snap[c].key)
  BY <1>1, <1>2, <1>3, <1>5 DEF VisibleValue, VisibleVersion, Fresh
<1>6. QED
  BY <1>4, <1>5

LEMMA CommitRegister ==
    ASSUME StoreInv, now' = now, NEW c \in Clients, NEW v \in Values \cup {Nil}, NEW L \in SUBSET Keys,
           snap[c] # NoRead, VisibleVersion(inner, snap[c].key) = snap[c].version,
           Assigned(inner, inner', snap[c].key, v, L), snap' = [snap EXCEPT ![c] = NoRead]
    PROVE  Register!Commit(c, v, L)
<1> DEFINE k == seen[c].key
<1>1. /\ seen[c] # NoRead /\ k = snap[c].key /\ seen[c].value = snap[c].value
      /\ k \in Keys
  BY SeenRead
<1>2. c \notin torn /\ reg[k] = seen[c].value
  BY <1>1, SeenStands
<1>3. Assigned(inner, inner', k, v, L)
  BY <1>1
<1> HIDE DEF k
<1>4. Assigns(k, v, L)
  BY <1>1, <1>3, AssignedRegister
<1>5. c \notin torn' /\ seen' = [seen EXCEPT ![c] = NoRead]
      /\ \A d \in Clients \ {c} : snap'[d] = snap[d]
  BY TornDropped
<1>6. torn' = (torn \cup TornBy(L \cup {k})) \ {c}
  <2>1. \A d \in Clients \ {c} : d \in torn' <=> d \in torn \cup TornBy(L \cup {k})
    BY <1>1, <1>3, <1>5, TornAssigned
  <2>2. torn \subseteq Clients /\ torn' \subseteq Clients /\ TornBy(L \cup {k}) \subseteq Clients
    BY DEF torn, TornBy
  <2>3. QED
    BY <1>5, <2>1, <2>2
<1>7. QED
  BY <1>1, <1>2, <1>4, <1>5, <1>6
     DEF k, Register!Commit, Register!Assign, Register!Torn, Assigns, TornBy, reg, pinned, seen, torn


(* Time passes: what expires is lost. *)
LEMMA TickRegister ==
    ASSUME StoreInv, Tick
    PROVE  \E L \in SUBSET Keys : Register!Lose(L)
<1> DEFINE After(x) == IsFresh(inner.map[x], now + 1)
           L == {x \in Keys : Fresh(inner, x) /\ ~After(x)}
<1>1. now' = now + 1 /\ now \in Nat /\ inner' = inner /\ snap' = snap
  BY DEF Tick, StoreInv
<1>2. \A x \in Keys : inner.map[x] # Nil => inner.map[x].expires \in Instant
  <2>1. \A x \in Keys : inner.map[x] \in Entry \cup {Nil}
    BY InnerFields DEF StoreInv, Sound
  <2>2. QED
    BY <2>1 DEF Entry
<1>3. \A x \in Keys : After(x) => Fresh(inner, x)
  BY <1>1, <1>2 DEF Fresh, IsFresh, PastExpiry, Instant
<1>4. \A x \in Keys : Fresh(inner, x) /\ inner.map[x].expires = Never => After(x)
  BY DEF Fresh, IsFresh, PastExpiry
<1>5. \A x \in Keys : IsFresh(inner.map[x], now)' <=> After(x)
  BY <1>1 DEF IsFresh, PastExpiry
<1>6. \A x \in Keys : /\ VisibleValue(inner, x)' = IF x \in L THEN Nil ELSE VisibleValue(inner, x)
                      /\ VisibleVersion(inner, x)' = IF x \in L THEN 0 ELSE VisibleVersion(inner, x)
  <2>1. \A x \in Keys : /\ VisibleValue(inner, x)' = IF After(x) THEN inner.map[x].value ELSE Nil
                        /\ VisibleVersion(inner, x)' = IF After(x) THEN inner.map[x].version ELSE 0
    BY <1>1 DEF VisibleValue, VisibleVersion, IsFresh, PastExpiry
  <2>2. QED
    BY <2>1, <1>3 DEF VisibleValue, VisibleVersion, Fresh
<1> HIDE DEF After
<1>7. L \cap pinned = {} /\ pinned' = pinned
  BY <1>1, <1>3, <1>4, <1>5 DEF pinned, Fresh
<1>8. reg' = [x \in Keys |-> IF x \in L THEN Nil ELSE reg[x]]
  BY <1>6 DEF reg
<1>9. seen' = seen
  BY <1>1 DEF seen
<1>10. ASSUME NEW c \in Clients
       PROVE  c \in torn' <=> c \in torn \cup TornBy(L)
  <2>1. CASE snap[c] = NoRead
    BY <2>1, <1>1, TornSeen DEF torn
  <2>2. CASE snap[c] # NoRead
    <3>1. snap[c].key \in Keys
      BY <2>2, SeenRead
    <3>2. c \in torn' <=> /\ snap[c].version # 0
                          /\ (IF snap[c].key \in L THEN 0 ELSE VisibleVersion(inner, snap[c].key))
                               # snap[c].version
      BY <1>1, <1>6, <2>2, <3>1 DEF torn, VisibleVersion, IsFresh, PastExpiry
    <3>3. c \in TornBy(L) <=> snap[c].version # 0 /\ snap[c].key \in L
      BY <2>2, TornSeen
    <3>4. c \in torn <=> snap[c].version # 0 /\ VisibleVersion(inner, snap[c].key) # snap[c].version
      BY <2>2 DEF torn
    <3>5. QED
      BY <3>2, <3>3, <3>4
  <2>3. QED
    BY <2>1, <2>2
<1>11. torn' = torn \cup TornBy(L)
  <2>1. torn \subseteq Clients /\ torn' \subseteq Clients /\ TornBy(L) \subseteq Clients
    BY DEF torn, TornBy
  <2>2. QED
    BY <1>10, <2>1
<1>12. L \in SUBSET Keys
  OBVIOUS
<1> HIDE DEF L
<1>13. Register!Lose(L)
  BY <1>7, <1>8, <1>9, <1>11
     DEF Register!Lose, Register!Torn, TornBy, reg, pinned, seen, torn
<1>14. QED
  BY <1>12, <1>13 DEF Register!Lose

LEMMA ReadRegister ==
    ASSUME StoreInv, NEW c \in Clients, NEW k \in Keys, Read(c, k)
    PROVE  Register!Read(c, k)
<1> DEFINE m == Live(inner, k)
<1>1. /\ snap[c] = NoRead /\ inner' = m /\ now' = now
      /\ snap' = [snap EXCEPT ![c] =
            [key |-> k, value |-> VisibleValue(m, k), version |-> VisibleVersion(m, k)]]
  BY DEF Read
<1>2. Lapsed(inner, m)
  BY LiveLapsed DEF StoreInv
<1> HIDE DEF m
<1>3. SameFresh(inner, inner', Keys)
  BY <1>1, <1>2, LapsedFresh
<1>4. VisibleValue(m, k) = reg[k]
  BY <1>1, <1>3 DEF reg, SameFresh, Fresh, VisibleValue
<1>5. snap = [d \in Clients |-> snap[d]]
  BY DEF StoreInv, VersionInv
<1>6. \A d \in Clients \ {c} : snap'[d] = snap[d]
  BY <1>1, <1>5
<1>7. snap'[c] = [key |-> k, value |-> reg[k], version |-> VisibleVersion(m, k)]
  BY <1>1, <1>4, <1>5
<1>8. snap'[c] # NoRead
  <2>1. /\ VisibleValue(m, k) \in Values \cup {Nil}
        /\ VisibleVersion(m, k) \in Nat
    <3>1. m \in Inner
      BY <1>2 DEF Lapsed, Less, Sound
    <3>2. m.map[k] \in Entry \cup {Nil}
      BY <3>1, InnerFields
    <3>3. QED
      BY <3>2 DEF Entry, VisibleValue, VisibleVersion, IsFresh
  <2>2. snap'[c] \in Snapshot
    BY <2>1, <1>4, <1>7 DEF Snapshot
  <2>3. QED
    BY <2>2, SentinelAssumption
<1>9. seen' = [seen EXCEPT ![c] = [key |-> k, value |-> reg[k]]]
  <2>1. seen' = [d \in Clients |-> IF d = c THEN [key |-> k, value |-> reg[k]] ELSE seen[d]]
    <3>1. ASSUME NEW d \in Clients \ {c}
          PROVE  seen'[d] = seen[d]
      BY <1>6 DEF seen
    <3>2. seen'[c] = [key |-> k, value |-> reg[k]]
      BY <1>7, <1>8 DEF seen
    <3>3. seen' = [d \in Clients |-> seen'[d]]
      BY DEF seen
    <3>4. QED
      BY <3>1, <3>2, <3>3
  <2>2. seen = [d \in Clients |-> seen[d]]
    BY DEF seen
  <2>3. QED
    BY <2>1, <2>2
<1>10. reg' = reg /\ pinned' = pinned
  BY <1>1, <1>3, SameFreshRegister
<1>11. torn' = torn
  <2>1. \A d \in Clients \ {c} : d \in torn' <=> d \in torn
    BY <1>1, <1>3, <1>6, TornSameFresh
  <2>2. c \notin torn
    BY <1>1 DEF torn
  <2>3. c \notin torn'
    BY <1>1, <1>7, TornPrimed
  <2>4. torn \subseteq Clients /\ torn' \subseteq Clients
    BY DEF torn
  <2>5. QED
    BY <2>1, <2>2, <2>3, <2>4
<1>12. seen[c] = NoRead
  BY <1>1 DEF seen
<1>13. QED
  BY <1>9, <1>10, <1>11, <1>12 DEF Register!Read, reg, pinned, seen, torn


(* A put after which every client keeps what it read, and one that ends a   *)
(* compare-and-set whose version was still there.                           *)
LEMMA PutRegister ==
    ASSUME StoreInv, NEW l, Lapsed(inner, l), NEW k \in Keys, NEW v \in Values \cup {Nil},
           NEW w, WriteOK(w), now' = now, snap' = snap, inner' = Put(l, k, v, w).m
    PROVE  [Register!RegNext]_Register!regVars
<1>1. Sound(inner) /\ now \in Nat
  BY DEF StoreInv
<1>2. \/ SameFresh(inner, inner', Keys)
      \/ \E L \in SUBSET Keys : Assigned(inner, inner', k, v, L)
  BY <1>1, PutAssigns
<1>3. CASE SameFresh(inner, inner', Keys)
  BY <1>3, StutterRegister
<1>4. CASE \E L \in SUBSET Keys : Assigned(inner, inner', k, v, L)
  <2>1. PICK L \in SUBSET Keys : Assigned(inner, inner', k, v, L)
    BY <1>4
  <2>2. Register!Write(k, v, L)
    BY <2>1, WriteRegister
  <2>3. QED
    BY <2>2 DEF Register!RegNext
<1>5. QED
  BY <1>2, <1>3, <1>4

LEMMA SwapRegister ==
    ASSUME StoreInv, NEW c \in Clients, NEW v \in Values \cup {Nil}, NEW w, WriteOK(w),
           Swap(c, v, w)
    PROVE  Register!RegNext
<1> DEFINE k == snap[c].key
           m == Live(inner, k)
<1>1. /\ snap[c] # NoRead /\ now' = now /\ snap' = [snap EXCEPT ![c] = NoRead]
      /\ inner' = IF VisibleVersion(m, k) = snap[c].version THEN Put(m, k, v, w).m ELSE m
  BY DEF Swap
<1>2. Sound(inner) /\ now \in Nat /\ Lapsed(inner, m)
  BY LiveLapsed DEF StoreInv
<1>3. k \in Keys
  BY <1>1, SeenRead
<1> HIDE DEF m
<1>4. SameFresh(inner, m, Keys)
  BY <1>2, LapsedFresh
<1>5. CASE SameFresh(inner, inner', Keys)
  <2>1. Register!Abandon(c)
    BY <1>1, <1>5, AbandonRegister
  <2>2. QED
    BY <2>1 DEF Register!RegNext
<1>6. CASE VisibleVersion(m, k) = snap[c].version
  <2>1. VisibleVersion(inner, k) = snap[c].version
    BY <1>3, <1>4, <1>6 DEF SameFresh, Fresh, VisibleVersion
  <2>2. inner' = Put(m, k, v, w).m
    BY <1>1, <1>6
  <2>3. \/ SameFresh(inner, inner', Keys)
        \/ \E L \in SUBSET Keys : Assigned(inner, inner', k, v, L)
    BY <1>2, <1>3, <2>2, PutAssigns
  <2>4. CASE \E L \in SUBSET Keys : Assigned(inner, inner', k, v, L)
    <3>1. PICK L \in SUBSET Keys : Assigned(inner, inner', k, v, L)
      BY <2>4
    <3>2. Register!Commit(c, v, L)
      BY <1>1, <2>1, <3>1, CommitRegister
    <3>3. QED
      BY <3>2 DEF Register!RegNext
  <2>5. QED
    BY <1>5, <2>3, <2>4
<1>7. QED
  BY <1>1, <1>4, <1>5, <1>6

LEMMA StepRegister ==
    ASSUME StoreInv, Next
    PROVE  [Register!RegNext]_Register!regVars
<1>s. Lapsed(inner, inner)
  BY LapsedSame DEF StoreInv
<1>l. ASSUME NEW k
      PROVE  Lapsed(inner, Live(inner, k)) /\ SameFresh(inner, Live(inner, k), Keys)
  BY LiveLapsed, LapsedFresh DEF StoreInv
<1>1. CASE Tick
  <2>1. PICK L \in SUBSET Keys : Register!Lose(L)
    BY <1>1, TickRegister
  <2>2. QED
    BY <2>1 DEF Register!RegNext
<1>2. ASSUME NEW k \in Keys, Get(k)
      PROVE  [Register!RegNext]_Register!regVars
  <2>1. inner'.map = Live(inner, k).map
    BY <1>2, <1>l, TouchSound DEF Get, Lapsed, Less
  <2>2. SameFresh(inner, inner', Keys) /\ now' = now /\ snap' = snap
    BY <1>2, <1>l, <2>1 DEF Get, SameFresh, Fresh
  <2>3. QED
    BY <2>2, StutterRegister
<1>3. ASSUME NEW k \in Keys, Peek(k)
      PROVE  [Register!RegNext]_Register!regVars
  BY <1>3, <1>l, StutterRegister DEF Peek
<1>4. ASSUME NEW k \in Keys, NEW w \in SetWrites, NEW v \in Values \cup {Nil}, Set(k, v, w)
      PROVE  [Register!RegNext]_Register!regVars
  BY <1>4, <1>s, WritesOK, PutRegister DEF Set
<1>5. ASSUME NEW k \in Keys, NEW w \in IncrWrites, NEW n \in {-1, 0, 1}, Incr(k, n, w)
      PROVE  [Register!RegNext]_Register!regVars
  <2> DEFINE m == Live(inner, k)
             base == IF VisibleValue(m, k) = Nil THEN 0 ELSE VisibleValue(m, k)
  <2>1. now' = now /\ snap' = snap
    BY <1>5 DEF Incr
  <2>2. \/ inner' = m
        \/ base + n \in 0 .. MaxNum /\ inner' = Put(m, k, base + n, w).m
    BY <1>5 DEF Incr
  <2> DEFINE v == base + n
  <2>3. CASE inner' = m
    BY <1>l, <2>1, <2>3, StutterRegister
  <2>4. CASE v \in 0 .. MaxNum /\ inner' = Put(m, k, v, w).m
    <3> HIDE DEF v
    <3>1. v \in Values \cup {Nil}
      BY <2>4 DEF Values
    <3>2. QED
      BY <1>l, <2>1, <2>4, <3>1, WritesOK, PutRegister
  <2>5. QED
    BY <2>2, <2>3, <2>4
<1>6. ASSUME NEW k \in Keys, NEW w \in FetchWrites, NEW v \in Values, FinishLoad(k, v, w)
      PROVE  [Register!RegNext]_Register!regVars
  <2> DEFINE m == Live(inner, k)
  <2>1. now' = now /\ snap' = snap /\ (inner' = m \/ inner' = Put(m, k, v, w).m)
    BY <1>6 DEF FinishLoad
  <2>2. QED
    BY <1>l, <2>1, WritesOK, PutRegister, StutterRegister
<1>7. ASSUME NEW c \in Clients, NEW k \in Keys, Read(c, k)
      PROVE  Register!RegNext
  <2>1. Register!Read(c, k)
    BY <1>7, ReadRegister
  <2>2. QED
    BY <2>1 DEF Register!RegNext
<1>8. ASSUME NEW c \in Clients, NEW w \in KeepWrites, NEW v \in Values \cup {Nil}, Swap(c, v, w)
      PROVE  Register!RegNext
  BY <1>8, WritesOK, SwapRegister
<1>9. ASSUME NEW c \in Clients, NEW w \in SetWrites, NEW v \in Values \cup {Nil}, Add(c, v, w)
      PROVE  Register!RegNext
  BY <1>9, WritesOK, SwapRegister DEF Add
<1>10. ASSUME NEW c \in Clients, TransformFails(c)
       PROVE  Register!RegNext
  <2>1. SameFresh(inner, inner', Keys)
    BY <1>10, <1>s, LapsedFresh DEF TransformFails
  <2>2. Register!Abandon(c)
    BY <1>10, <2>1, AbandonRegister DEF TransformFails
  <2>3. QED
    BY <2>2 DEF Register!RegNext
<1>11. QED
  BY <1>1, <1>2, <1>3, <1>4, <1>5, <1>6, <1>7, <1>8, <1>9, <1>10 DEF Next

LEMMA InitRegister == Init => Register!RegInit
<1> SUFFICES ASSUME Init PROVE Register!RegInit
  OBVIOUS
<1>1. \A k \in Keys : inner.map[k] = Nil
  BY DEF Init
<1>2. \A c \in Clients : snap[c] = NoRead
  BY DEF Init
<1>3. reg = [k \in Keys |-> Nil] /\ pinned = {}
  BY <1>1 DEF reg, pinned, VisibleValue, IsFresh
<1>4. seen = [c \in Clients |-> NoRead] /\ torn = {}
  BY <1>2 DEF seen, torn
<1>5. QED
  BY <1>3, <1>4 DEF Register!RegInit, reg, pinned, seen, torn

(* Every operation of the store is one of StateRegister's, at one instant,  *)
(* whatever expires or is evicted in between: an update, cas or add stores  *)
(* over nothing but the very value it read, no matter how often its key was *)
(* written, dropped and written again meanwhile.                            *)
THEOREM StoreImplementsRegister == Spec => ImplementsRegister
<1>1. StoreInv /\ [Next]_vars => [Register!RegNext]_Register!regVars
  <2> SUFFICES ASSUME StoreInv, [Next]_vars
               PROVE  [Register!RegNext]_Register!regVars
    OBVIOUS
  <2>1. CASE Next
    BY <2>1, StepRegister
  <2>2. CASE UNCHANGED vars
    BY <2>2 DEF vars, Register!regVars, VisibleValue, VisibleVersion, IsFresh, PastExpiry
  <2>3. QED
    BY <2>1, <2>2
<1>2. QED
  BY <1>1, InitRegister, StoreInvAlways, PTL DEF Spec, ImplementsRegister, Register!RegSpec

=============================================================================
