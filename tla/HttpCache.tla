----------------------------- MODULE HttpCache -----------------------------
(***************************************************************************)
(* The response cache of lur.http (capabilities/http.rs): HttpCache, one   *)
(* per process and shared by the pool.  get, put and clear are each one    *)
(* step under its mutex.                                                   *)
(*                                                                         *)
(* An entry's tick is its place in order, oldest first.  A response counts *)
(* for its size.                                                           *)
(***************************************************************************)
EXTENDS Integers, Sequences, FiniteSets, FiniteSetsExt, SequencesExt, Listing

CONSTANTS
    Keys,                    \* digests of requests
    Nil,                     \* no entry
    Never,                   \* no instant
    max_entries, max_bytes,  \* 0 is unlimited
    SWEEP_EVERY,
    MaxNow                   \* bound: the last instant

VARIABLES
    inner,   \* CacheInner
    now      \* the clock

cacheVars == <<inner, now>>

ASSUME LimitAssumption ==
    max_entries \in Nat /\ max_bytes \in Nat /\ SWEEP_EVERY \in Nat /\ MaxNow \in Nat
ASSUME NeverAssumption == Never \notin Nat

Empty == [entries |-> [k \in Keys |-> Nil], order |-> <<>>, bytes |-> 0,
          last_sweep |-> Never, earliest |-> Never]

CacheInit == inner = Empty /\ now = 0

-----------------------------------------------------------------------------
(* An operator over m reads or changes a CacheInner under the lock, at the *)
(* instant t.                                                              *)

Held(m) == {k \in Keys : m.entries[k] # Nil}
IsLive(m, k, t) == m.entries[k] # Nil /\ m.entries[k].expires > t
Bytes(m, S) == SumOver([k \in S |-> m.entries[k].raw.size], S)

(* CacheInner::remove, of every key of S. *)
Removed(m, S) ==
    LET gone == S \cap Held(m) IN
    [m EXCEPT !.entries = [k \in Keys |-> IF k \in gone THEN Nil ELSE m.entries[k]],
              !.order = Unlisted(@, gone),
              !.bytes = @ - Bytes(m, gone)]

(* Skipped when nothing can have expired; then earliest is known again. *)
DropExpired(m, t) ==
    IF m.earliest = Never \/ m.earliest > t
    THEN m
    ELSE LET n == Removed(m, {k \in Held(m) : ~IsLive(m, k, t)}) IN
         [n EXCEPT !.earliest = IF Held(n) = {}
                                THEN Never
                                ELSE Min({n.entries[k].expires : k \in Held(n)})]

Over(m) ==
    \/ max_entries # 0 /\ Cardinality(Held(m)) > max_entries
    \/ max_bytes # 0 /\ m.bytes > max_bytes

(* get: an expired entry is dropped, a live one becomes the newest. *)
Looked(m, k, t) ==
    IF IsLive(m, k, t)
    THEN [m EXCEPT !.order = Append(Unlisted(@, {k}), k)]
    ELSE Removed(m, {k})

Found(m, k, t) == IF IsLive(m, k, t) THEN m.entries[k].raw ELSE Nil

(* duration_since is 0 for an instant in the future. *)
Swept(m, t) ==
    IF m.last_sweep = Never \/ t - m.last_sweep >= SWEEP_EVERY
    THEN [DropExpired(m, t) EXCEPT !.last_sweep = t]
    ELSE m

(* Mutant: earliest is set by the first entry and not lowered by a later one. *)
InsertedUnder(m, k, raw, e) ==
    LET n == Removed(m, {k}) IN
    [n EXCEPT !.entries[k] = [expires |-> e, raw |-> raw],
              !.order = Append(@, k),
              !.bytes = @ + raw.size,
              !.earliest = IF @ = Never THEN e ELSE @]

Inserted(m, k, raw, e) ==
    LET n == Removed(m, {k}) IN
    [n EXCEPT !.entries[k] = [expires |-> e, raw |-> raw],
              !.order = Append(@, k),
              !.bytes = @ + raw.size,
              !.earliest = IF @ = Never \/ e < @ THEN e ELSE @]

(* The loop that pops the oldest entry while a cap is exceeded. *)
Evicted(m) ==
    LET left(n) == Removed(m, {m.order[i] : i \in 1 .. n}) IN
    left(Min({n \in 0 .. Len(m.order) : ~Over(left(n)) \/ n = Len(m.order)}))

(* Mutant: the expired entries are not dropped first. *)
ShrunkBlindly(m, t) == IF Over(m) THEN Evicted(m) ELSE m

Shrunk(m, t) == IF Over(m) THEN Evicted(DropExpired(m, t)) ELSE m

(* put *)
Stored(m, k, raw, ttl, t) ==
    IF max_bytes # 0 /\ raw.size > max_bytes
    THEN m
    ELSE Shrunk(Inserted(Swept(m, t), k, raw, t + ttl), t)

(* clear: last_sweep is left alone. *)
Cleared(m) == [Empty EXCEPT !.last_sweep = m.last_sweep]

-----------------------------------------------------------------------------
(* The books of the cache agree after every operation: order lists each    *)
(* entry once, bytes is their size, the caps are met, and no entry expires *)
(* before earliest, by which the scan for expired ones is skipped          *)
(* (http.rs:291-302).                                                      *)
CacheExact ==
    /\ IsInjective(inner.order) /\ ToSet(inner.order) = Held(inner)
    /\ inner.bytes = Bytes(inner, Held(inner))
    /\ ~Over(inner)
    /\ \A k \in Held(inner) : inner.earliest # Never /\ inner.earliest <= inner.entries[k].expires
=============================================================================
