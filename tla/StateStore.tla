----------------------------- MODULE StateStore -----------------------------
(***************************************************************************)
(* The store behind lur.state (src/src/capabilities/state.rs): a map       *)
(* shared by every VM, versions for compare-and-set, expiry with a stale   *)
(* window for fetch, and caps met by dropping expired entries and then     *)
(* evicting the least recently used ones.                                  *)
(*                                                                         *)
(* Each operation is one step under the mutex.  update, cas and add take   *)
(* it twice, so a client keeps what it read in between.  An entry's size   *)
(* is that of its value, numbers are those f64 holds exactly, recency      *)
(* stamps are places in order, and the statistics are left out.            *)
(***************************************************************************)
EXTENDS Integers, Sequences, FiniteSets, FiniteSetsExt, Listing

CONSTANTS
    Keys,
    Clients,      \* calls of update, cas or add in progress
    MaxNum,       \* counters range over 0 .. MaxNum (an i64)
    Blob,         \* a value that is not an integer
    Nil,          \* no value, or no entry
    Never,        \* no instant
    NoRead,       \* a client between two calls
    NumSize, BlobSize,     \* size of an entry, by its value
    MaxEntries, MaxBytes,  \* Limits; 0 is unlimited
    SweepEvery,   \* SWEEP_EVERY
    Ttls, Stales, \* the ttl_ms and stale_ms given
    MaxVersion,   \* bound: writes in a behaviour
    MaxNow        \* bound: the last instant

VARIABLES
    inner,  \* Inner, but for the flights (SingleFlight)
    now,    \* the clock
    snap    \* what each client read

vars == <<inner, now, snap>>

Values == (0 .. MaxNum) \cup {Blob}
Instant == Nat \cup {Never}

(* stale_for = 0 stands for None: the window is empty either way. *)
Entry == [value : Values, version : Nat, expires : Instant,
          stale_for : Nat, evictable : BOOLEAN]

Inner == [map : [Keys -> Entry \cup {Nil}], order : Seq(Keys), bytes : Nat,
          last_version : Nat, last_sweep : Instant, earliest : Instant]

Snapshot == [key : Keys, value : Values \cup {Nil}, version : Nat]

ASSUME SentinelAssumption ==
    /\ Nil \notin Values /\ Nil \notin Entry
    /\ Never \notin Nat /\ NoRead \notin Snapshot
    /\ NoRead \notin [key : Keys, value : Values \cup {Nil}]
ASSUME SizeAssumption == NumSize \in Nat \ {0} /\ BlobSize \in Nat \ {0}
ASSUME LimitAssumption == MaxEntries \in Nat /\ MaxBytes \in Nat /\ SweepEvery \in Nat
ASSUME TtlAssumption == Ttls \subseteq Nat \ {0} /\ Stales \subseteq Nat \ {0}
ASSUME FiniteAssumption == IsFiniteSet(Keys)
ASSUME BoundAssumption == MaxNum \in Nat /\ MaxVersion \in Nat /\ MaxNow \in Nat

TypeOK ==
    /\ inner \in Inner
    /\ now \in Nat
    /\ snap \in [Clients -> Snapshot \cup {NoRead}]

Init ==
    /\ inner = [map |-> [k \in Keys |-> Nil], order |-> <<>>, bytes |-> 0,
                last_version |-> 0, last_sweep |-> Never, earliest |-> Never]
    /\ now = 0
    /\ snap = [c \in Clients |-> NoRead]

-----------------------------------------------------------------------------
(* Entries at the instant t.  An operator over m reads or changes an Inner *)
(* m under the lock.                                                       *)

Size(v) == IF v = Blob THEN BlobSize ELSE NumSize

PastExpiry(e, t) == e # Nil /\ e.expires # Never /\ t >= e.expires
IsFresh(e, t) == e # Nil /\ ~PastExpiry(e, t)
IsStale(e, t) == PastExpiry(e, t) /\ t < e.expires + e.stale_for
IsDead(e, t) == PastExpiry(e, t) /\ ~IsStale(e, t)

Present(m) == {k \in Keys : m.map[k] # Nil}
Bytes(m, S) == SumOver([k \in S |-> Size(m.map[k].value)], S)

(* Inner::remove, of every key of S. *)
Without(m, S) ==
    LET gone == S \cap Present(m) IN
    [m EXCEPT !.map = [k \in Keys |-> IF k \in gone THEN Nil ELSE m.map[k]],
              !.order = Unlisted(@, {k \in gone : m.map[k].evictable}),
              !.bytes = @ - Bytes(m, gone)]

DropDead(m) == Without(m, {k \in Keys : IsDead(m.map[k], now)})

(* Mutant: what expires at this very instant does not count. *)
DropExpiredLater(m) ==
    IF m.earliest = Never \/ m.earliest >= now
    THEN m
    ELSE LET n == Without(m, {k \in Keys :
                        /\ PastExpiry(m.map[k], now)
                        /\ m.map[k].evictable \/ IsDead(m.map[k], now)})
             ahead == {t \in {n.map[k].expires : k \in Present(n)} \ {Never} : t > now}
         IN  [n EXCEPT !.earliest = IF ahead = {} THEN Never ELSE Min(ahead)]

(* Only if something can have expired; then earliest is known again. *)
DropExpired(m) ==
    IF m.earliest = Never \/ m.earliest > now
    THEN m
    ELSE LET n == Without(m, {k \in Keys :
                        /\ PastExpiry(m.map[k], now)
                        /\ m.map[k].evictable \/ IsDead(m.map[k], now)})
             ahead == {t \in {n.map[k].expires : k \in Present(n)} \ {Never} : t > now}
         IN  [n EXCEPT !.earliest = IF ahead = {} THEN Never ELSE Min(ahead)]

(* live: a dead entry is removed on the way. *)
Live(m, k) == Without(m, {k} \cap {x \in Keys : IsDead(m.map[x], now)})

(* Mutant: whatever is read becomes evictable. *)
TouchAny(m, k) ==
    IF IsFresh(m.map[k], now)
    THEN [m EXCEPT !.order = Append(Unlisted(@, {k}), k)]
    ELSE m

Touch(m, k) ==
    IF IsFresh(m.map[k], now) /\ m.map[k].evictable
    THEN [m EXCEPT !.order = Append(Unlisted(@, {k}), k)]
    ELSE m

VisibleVersion(m, k) == IF IsFresh(m.map[k], now) THEN m.map[k].version ELSE 0
VisibleValue(m, k) == IF IsFresh(m.map[k], now) THEN m.map[k].value ELSE Nil

-----------------------------------------------------------------------------
(* put *)

Allows(entries, bytes) ==
    /\ MaxEntries = 0 \/ entries <= MaxEntries
    /\ MaxBytes = 0 \/ bytes <= MaxBytes

(* Would the write of size under k fit once the keys of gone are removed?  *)
Fits(m, k, size, gone) ==
    LET out == (gone \cup {k}) \cap Present(m) IN
    Allows(Cardinality(Present(m) \ out) + 1, m.bytes - Bytes(m, out) + size)

(* plan_evictions: for how many of the least recently used keys, other     *)
(* than k, to evict; every number that is enough.                          *)
Others(m, k) == Unlisted(m.order, {k})
Newest(m, k, n) ==  \* mutant: the other end
    {Others(m, k)[i] : i \in (Len(Others(m, k)) - n + 1) .. Len(Others(m, k))}
Oldest(m, k, n) == {Others(m, k)[i] : i \in 1 .. n}
Enough(m, k, size) ==
    {n \in 0 .. Len(Others(m, k)) : Fits(m, k, size, Oldest(m, k, n))}
Victims(m, k, size) == Oldest(m, k, Min(Enough(m, k, size)))

(* write_meta: what a write of w decides, after the fresh entry it         *)
(* replaces.  w.evictable is Nil when the flag is kept.                    *)
Meta(m, k, w) ==
    LET old == m.map[k]
        fresh == IsFresh(old, now)
        had == IF fresh THEN old.expires ELSE Never
        inherits == w.expiry = "keep" \/ (w.expiry = "unset" /\ had # Never)
        expires == CASE inherits -> had
                     [] w.expiry = "clear" -> Never
                     [] OTHER -> now + w.ttl
    IN  [expires   |-> expires,
         stale_for |-> IF expires = Never THEN 0
                       ELSE IF w.stale # 0 THEN w.stale
                       ELSE IF inherits /\ fresh THEN old.stale_for ELSE 0,
         evictable |-> IF w.evictable # Nil THEN w.evictable
                       ELSE fresh /\ old.evictable]

(* Mutant: versions are counted per key. *)
InsertPerKey(m, k, v, meta) ==
    LET n == Without(m, {k}) IN
    [n EXCEPT
        !.map[k] = [value |-> v,
                    version |-> IF m.map[k] = Nil THEN 1 ELSE m.map[k].version + 1,
                    expires |-> meta.expires, stale_for |-> meta.stale_for,
                    evictable |-> meta.evictable],
        !.last_version = @ + 1,
        !.order = IF meta.evictable THEN Append(@, k) ELSE @,
        !.bytes = @ + Size(v)]

InsertFresh(m, k, v, meta) ==
    LET n == Without(m, {k}) IN
    [n EXCEPT
        !.map[k] = [value |-> v, version |-> n.last_version + 1,
                    expires |-> meta.expires, stale_for |-> meta.stale_for,
                    evictable |-> meta.evictable],
        !.last_version = @ + 1,
        !.order = IF meta.evictable THEN Append(@, k) ELSE @,
        !.bytes = @ + Size(v),
        !.earliest = IF meta.expires = Never THEN @
                     ELSE IF @ = Never THEN meta.expires
                     ELSE Min({@, meta.expires})]

SweepDue(m) == m.last_sweep = Never \/ now - m.last_sweep >= SweepEvery
Swept(m) == IF SweepDue(m) THEN [DropDead(m) EXCEPT !.last_sweep = now] ELSE m

(* put of a value: the store after it, and whether it was stored.  The     *)
(* sweep, write_meta's removal of a dead k and drop_expired come before    *)
(* anything that can fail.                                                 *)
PutValue(m, k, v, w) ==
    LET s == Swept(m)
        meta == Meta(s, k, w)
        l == Live(s, k)
        size == Size(v)
        r == IF Fits(l, k, size, {}) THEN l ELSE DropExpired(l)
        stored(n) == [ok |-> TRUE, m |-> InsertFresh(n, k, v, meta)]
    IN  IF MaxBytes # 0 /\ size > MaxBytes THEN [ok |-> FALSE, m |-> l]
        ELSE IF Enough(r, k, size) = {} THEN [ok |-> FALSE, m |-> r]
        ELSE stored(Without(r, Victims(r, k, size)))

(* A delete neither sweeps nor fails. *)
Put(m, k, v, w) ==
    IF v = Nil THEN [ok |-> TRUE, m |-> Without(m, {k})] ELSE PutValue(m, k, v, w)

-----------------------------------------------------------------------------
(* The writes each operation asks for (write_opts, fetch_flight). *)

Writes(expiries, flags, stales) ==
    UNION {[expiry : {x}, ttl : IF x \in {"clear", "keep"} THEN {0} ELSE Ttls,
            evictable : flags, stale : stales] : x \in expiries}

SetWrites == Writes({"clear", "after"}, BOOLEAN, {0})
KeepWrites == Writes({"keep", "after"}, BOOLEAN \cup {Nil}, {0})
IncrWrites == Writes({"keep", "after", "unset"}, BOOLEAN \cup {Nil}, {0})
FetchWrites == Writes({"after"}, {TRUE}, Stales \cup {0})

Budget == inner.last_version < MaxVersion

-----------------------------------------------------------------------------
(* Operations. *)

Tick ==
    /\ now < MaxNow
    /\ now' = now + 1
    /\ UNCHANGED <<inner, snap>>

(* get, and the lookup of a fetch or of its fallback, that finds a fresh   *)
(* value; ttl, and those that find none.                                   *)
Get(k) ==
    /\ inner' = Touch(Live(inner, k), k)
    /\ UNCHANGED <<now, snap>>

Peek(k) ==
    /\ inner' = Live(inner, k)
    /\ UNCHANGED <<now, snap>>

Set(k, v, w) ==
    /\ Budget
    /\ inner' = Put(inner, k, v, w).m
    /\ UNCHANGED <<now, snap>>

(* incr and decr by n: not over a value that is no integer, nor out of the *)
(* range of counters.                                                      *)
Incr(k, n, w) ==
    LET m == Live(inner, k)
        old == VisibleValue(m, k)
        base == IF old = Nil THEN 0 ELSE old
    IN  /\ Budget
        /\ inner' = IF old = Blob \/ base + n \notin 0 .. MaxNum THEN m
                    ELSE Put(m, k, base + n, w).m
        /\ UNCHANGED <<now, snap>>

(* LeadGuard::finish with a value, and the compare_and_set at version 0 of *)
(* a loader run inline; a value that does not fit goes uncached.           *)
FinishLoad(k, v, w) ==
    LET m == Live(inner, k) IN
    /\ Budget
    /\ inner' = IF VisibleVersion(m, k) = 0 THEN Put(m, k, v, w).m ELSE m
    /\ UNCHANGED <<now, snap>>

(* The snapshot of update, or of cas or add when the value is the expected *)
(* one; when it is not, they return, as Peek does.                         *)
Read(c, k) ==
    LET m == Live(inner, k) IN
    /\ snap[c] = NoRead
    /\ inner' = m
    /\ snap' = [snap EXCEPT ![c] =
            [key |-> k, value |-> VisibleValue(m, k), version |-> VisibleVersion(m, k)]]
    /\ UNCHANGED now

(* Mutant: the second lock does not look at the version again. *)
SwapBlind(c, v, w) ==
    /\ Budget
    /\ snap[c] # NoRead
    /\ inner' = Put(inner, snap[c].key, v, w).m
    /\ snap' = [snap EXCEPT ![c] = NoRead]
    /\ UNCHANGED now

(* compare_and_set: cas and add then return, update reads again. *)
Swap(c, v, w) ==
    LET k == snap[c].key
        m == Live(inner, k)
    IN  /\ Budget
        /\ snap[c] # NoRead
        /\ inner' = IF VisibleVersion(m, k) = snap[c].version
                    THEN Put(m, k, v, w).m ELSE m
        /\ snap' = [snap EXCEPT ![c] = NoRead]
        /\ UNCHANGED now

(* add: a cas that expects no value, and resets the expiry. *)
Add(c, v, w) == snap[c] # NoRead /\ snap[c].value = Nil /\ Swap(c, v, w)

(* update's transform raises, or returns what cannot be stored. *)
TransformFails(c) ==
    /\ snap[c] # NoRead
    /\ snap' = [snap EXCEPT ![c] = NoRead]
    /\ UNCHANGED <<inner, now>>

Next ==
    \/ Tick
    \/ \E k \in Keys :
        \/ Get(k)
        \/ Peek(k)
        \/ \E w \in SetWrites, v \in Values \cup {Nil} : Set(k, v, w)
        \/ \E w \in IncrWrites, n \in {-1, 0, 1} : Incr(k, n, w)
        \/ \E w \in FetchWrites, v \in Values : FinishLoad(k, v, w)
        \/ \E c \in Clients : Read(c, k)
    \/ \E c \in Clients :
        \/ \E w \in KeepWrites, v \in Values \cup {Nil} : Swap(c, v, w)
        \/ \E w \in SetWrites, v \in Values \cup {Nil} : Add(c, v, w)
        \/ TransformFails(c)

Spec == Init /\ [][Next]_vars

-----------------------------------------------------------------------------
(* Properties. *)

(* order lists exactly the evictable entries, each once, and bytes is what *)
(* the entries add up to: what evictions are planned from is true.         *)
AccountsExact ==
    LET evictable == {k \in Present(inner) : inner.map[k].evictable} IN
    /\ {inner.order[i] : i \in DOMAIN inner.order} = evictable
    /\ Len(inner.order) = Cardinality(evictable)
    /\ inner.bytes = Bytes(inner, Present(inner))

(* The caps hold after every operation. *)
CapsHold == Allows(Cardinality(Present(inner)), inner.bytes)

(* What evictions are planned from is true, and they are enough. *)
StoreSound == TypeOK /\ AccountsExact /\ CapsHold

(* No ABA: an entry at the version a client read is the one it read, even  *)
(* if the key was deleted, evicted or expired and written again meanwhile. *)
VersionsName ==
    /\ \A k \in Present(inner) : inner.map[k].version \in 1 .. inner.last_version
    /\ \A c \in Clients : snap[c] # NoRead =>
        /\ snap[c].version <= inner.last_version
        /\ snap[c].version = 0 <=> snap[c].value = Nil
        /\ LET e == inner.map[snap[c].key] IN
            e # Nil /\ e.version = snap[c].version => e.value = snap[c].value

(* A write that was stored took the fresh entry of k away. *)
Evicted(k) ==
    /\ inner'.last_version # inner.last_version
    /\ IsFresh(inner.map[k], now)
    /\ inner'.map[k] = Nil

Place(k) == CHOOSE i \in DOMAIN inner.order : inner.order[i] = k

(* What is evicted is never a counter or another entry that is not         *)
(* evictable; it was used less recently than any evictable entry that      *)
(* stays, and the write would not have fitted had one more stayed.         *)
EvictsWhatItMust ==
    [][\A k \in Keys : Evicted(k) =>
        /\ inner.map[k].evictable
        /\ \A x \in Keys : /\ inner.map[x] # Nil /\ inner.map[x].evictable
                           /\ inner'.map[x] = inner.map[x]
                           => Place(k) < Place(x)
        /\ \E x \in Keys : /\ Evicted(x)
                           /\ ~Allows(Cardinality(Present(inner')) + 1,
                                      inner'.bytes + Size(inner.map[x].value))]_vars

(* A live entry is evicted only once no expired evictable one is left      *)
(* (drop_expired, which relies on earliest to know when to look).          *)
ExpiredGoFirst ==
    [][\A k \in Keys : Evicted(k) =>
        \A x \in Keys : ~(PastExpiry(inner'.map[x], now) /\ inner'.map[x].evictable)]_vars

(* Every operation is one of StateRegister's, at one instant: above all,   *)
(* an update, cas or add stores over nothing but the value it read.        *)
Register == INSTANCE StateRegister WITH
    reg <- [k \in Keys |-> VisibleValue(inner, k)],
    pinned <- {k \in Keys : /\ IsFresh(inner.map[k], now)
                            /\ ~inner.map[k].evictable
                            /\ inner.map[k].expires = Never},
    seen <- [c \in Clients |-> IF snap[c] = NoRead THEN NoRead
                               ELSE [key |-> snap[c].key, value |-> snap[c].value]],
    torn <- {c \in Clients : /\ snap[c] # NoRead
                             /\ snap[c].version # 0
                             /\ VisibleVersion(inner, snap[c].key) # snap[c].version}

ImplementsRegister == Register!RegSpec

=============================================================================
