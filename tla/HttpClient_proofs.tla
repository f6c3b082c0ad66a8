------------------------- MODULE HttpClient_proofs -------------------------
(***************************************************************************)
(* Proofs about HttpClient, for any URLs, credentials, hosts, addresses,   *)
(* policy, caps and number of calls.                                       *)
(***************************************************************************)
EXTENDS HttpClient, Listing_proofs, TLAPS

-----------------------------------------------------------------------------
(* The cache: whatever an operation does to the books, the entries it      *)
(* leaves are some of those there were, or the new one under its key.      *)

Heads == {"ok", "other"}

(* raw may be handed to any request with the key k until it expires.       *)
Belongs(k, raw) ==
    /\ raw \in Responses
    /\ k = <<raw.of.url, raw.of.user>>
    /\ raw.of.user # NoUser => raw.of.vary
    /\ raw.of.ttl \in Nat
    /\ Cacheable(raw) /\ raw.size <= max_body

EntryOK(k, e) ==
    /\ e = [expires |-> e.expires, raw |-> e.raw]
    /\ Belongs(k, e.raw)
    /\ e.expires = e.raw.at + e.raw.of.ttl

(* m is a record of CacheInner's fields whose entries are a function. *)
Shaped(m) ==
    /\ m = [entries |-> m.entries, order |-> m.order, bytes |-> m.bytes,
            last_sweep |-> m.last_sweep, earliest |-> m.earliest]
    /\ m.entries = [k \in Keys |-> m.entries[k]]

CacheOK(m) ==
    /\ Shaped(m)
    /\ \A k \in Keys : m.entries[k] = Nil \/ EntryOK(k, m.entries[k])

(* n is left of m. *)
LeftOf(m, n) ==
    /\ Shaped(n)
    /\ \A k \in Keys : n.entries[k] \in {m.entries[k], Nil}

LEMMA LeftOK ==
    ASSUME NEW m, NEW n, CacheOK(m), LeftOf(m, n)
    PROVE  CacheOK(n)
  BY DEF CacheOK, LeftOf

LEMMA LeftTwice ==
    ASSUME NEW m, NEW n, NEW o, LeftOf(m, n), LeftOf(n, o)
    PROVE  LeftOf(m, o)
  BY DEF LeftOf

LEMMA LeftAll ==
    ASSUME NEW m, Shaped(m)
    PROVE  LeftOf(m, m)
  BY DEF LeftOf

LEMMA RemovedLeft ==
    ASSUME NEW m, Shaped(m), NEW S
    PROVE  LeftOf(m, Removed(m, S))
<1> DEFINE gone == S \cap Held(m)
           entries == [k \in Keys |-> IF k \in gone THEN Nil ELSE m.entries[k]]
           order == Unlisted(m.order, gone)
           bytes == m.bytes - Bytes(m, gone)
<1>1. Removed(m, S) = [m EXCEPT !.entries = entries, !.order = order, !.bytes = bytes]
  BY DEF Removed
<1>2. entries = [k \in Keys |-> entries[k]] /\ \A k \in Keys : entries[k] \in {m.entries[k], Nil}
  OBVIOUS
<1> HIDE DEF entries, order, bytes
<1>3. Removed(m, S) = [entries |-> entries, order |-> order, bytes |-> bytes,
                       last_sweep |-> m.last_sweep, earliest |-> m.earliest]
  BY <1>1 DEF Shaped
<1>4. QED
  BY <1>2, <1>3 DEF LeftOf, Shaped

LEMMA DropExpiredLeft ==
    ASSUME NEW m, Shaped(m), NEW t
    PROVE  LeftOf(m, DropExpired(m, t))
<1> DEFINE n == Removed(m, {k \in Held(m) : ~IsLive(m, k, t)})
           earliest == IF Held(n) = {}
                       THEN Never
                       ELSE Min({n.entries[k].expires : k \in Held(n)})
<1>1. DropExpired(m, t) = m \/ DropExpired(m, t) = [n EXCEPT !.earliest = earliest]
  BY DEF DropExpired
<1>2. LeftOf(m, n)
  BY RemovedLeft
<1> HIDE DEF n, earliest
<1>3. [n EXCEPT !.earliest = earliest]
        = [entries |-> n.entries, order |-> n.order, bytes |-> n.bytes,
           last_sweep |-> n.last_sweep, earliest |-> earliest]
  BY <1>2 DEF LeftOf, Shaped
<1>4. LeftOf(m, [n EXCEPT !.earliest = earliest])
  BY <1>2, <1>3 DEF LeftOf, Shaped
<1>5. QED
  BY <1>1, <1>4, LeftAll

LEMMA LookedLeft ==
    ASSUME NEW m, Shaped(m), NEW k, NEW t
    PROVE  LeftOf(m, Looked(m, k, t))
<1> DEFINE order == Append(Unlisted(m.order, {k}), k)
<1>1. Looked(m, k, t) = Removed(m, {k}) \/ Looked(m, k, t) = [m EXCEPT !.order = order]
  BY DEF Looked
<1> HIDE DEF order
<1>2. [m EXCEPT !.order = order]
        = [entries |-> m.entries, order |-> order, bytes |-> m.bytes,
           last_sweep |-> m.last_sweep, earliest |-> m.earliest]
  BY DEF Shaped
<1>3. LeftOf(m, [m EXCEPT !.order = order])
  BY <1>2 DEF LeftOf, Shaped
<1>4. QED
  BY <1>1, <1>3, RemovedLeft

LEMMA SweptLeft ==
    ASSUME NEW m, Shaped(m), NEW t
    PROVE  LeftOf(m, Swept(m, t))
<1> DEFINE n == DropExpired(m, t)
<1>1. Swept(m, t) = m \/ Swept(m, t) = [n EXCEPT !.last_sweep = t]
  BY DEF Swept
<1>2. LeftOf(m, n)
  BY DropExpiredLeft
<1> HIDE DEF n
<1>3. [n EXCEPT !.last_sweep = t]
        = [entries |-> n.entries, order |-> n.order, bytes |-> n.bytes,
           last_sweep |-> t, earliest |-> n.earliest]
  BY <1>2 DEF LeftOf, Shaped
<1>4. LeftOf(m, [n EXCEPT !.last_sweep = t])
  BY <1>2, <1>3 DEF LeftOf, Shaped
<1>5. QED
  BY <1>1, <1>4, LeftAll

(* Shrunk removes entries whichever it picks. *)
LEMMA ShrunkLeft ==
    ASSUME NEW m, Shaped(m), NEW t
    PROVE  LeftOf(m, Shrunk(m, t))
<1> DEFINE n == DropExpired(m, t)
<1>1. LeftOf(m, n)
  BY DropExpiredLeft
<1>2. \A S : LeftOf(n, Removed(n, S))
  BY <1>1, RemovedLeft DEF LeftOf
<1>3. LeftOf(n, Evicted(n))
  BY <1>2 DEF Evicted
<1>4. QED
  BY <1>1, <1>3, LeftTwice, LeftAll DEF Shrunk

LEMMA InsertedOK ==
    ASSUME NEW m, CacheOK(m), NEW k \in Keys, NEW raw, NEW e,
           EntryOK(k, [expires |-> e, raw |-> raw])
    PROVE  CacheOK(Inserted(m, k, raw, e))
<1> DEFINE n == Removed(m, {k})
           entry == [expires |-> e, raw |-> raw]
           order == Append(n.order, k)
           bytes == n.bytes + raw.size
           earliest == IF n.earliest = Never \/ e < n.earliest THEN e ELSE n.earliest
           new == Inserted(m, k, raw, e)
<1>1. CacheOK(n)
  BY RemovedLeft, LeftOK DEF CacheOK
<1>2. new = [n EXCEPT !.entries[k] = entry, !.order = order, !.bytes = bytes,
                      !.earliest = earliest]
  BY DEF Inserted
<1>3. EntryOK(k, entry)
  OBVIOUS
<1> HIDE DEF n, entry, order, bytes, earliest, new
<1>4. new = [entries |-> [n.entries EXCEPT ![k] = entry], order |-> order, bytes |-> bytes,
             last_sweep |-> n.last_sweep, earliest |-> earliest]
  BY <1>1, <1>2 DEF CacheOK, Shaped
<1>5. new.entries = [n.entries EXCEPT ![k] = entry]
  BY <1>4
<1>6. Shaped(new)
  BY <1>1, <1>4, <1>5 DEF CacheOK, Shaped
<1>7. new.entries[k] = entry /\ \A x \in Keys \ {k} : new.entries[x] = n.entries[x]
  BY <1>1, <1>5 DEF CacheOK, Shaped
<1>8. CacheOK(new)
  BY <1>1, <1>3, <1>6, <1>7 DEF CacheOK
<1>9. QED
  BY <1>8 DEF new

LEMMA StoredOK ==
    ASSUME NEW m, CacheOK(m), NEW k \in Keys, NEW raw, NEW ttl, NEW t,
           EntryOK(k, [expires |-> t + ttl, raw |-> raw])
    PROVE  CacheOK(Stored(m, k, raw, ttl, t))
<1> DEFINE s == Swept(m, t)
           n == Inserted(s, k, raw, t + ttl)
<1>1. CacheOK(s)
  BY SweptLeft, LeftOK DEF CacheOK
<1>2. CacheOK(n)
  BY <1>1, InsertedOK
<1>3. CacheOK(Shrunk(n, t))
  BY <1>2, ShrunkLeft, LeftOK DEF CacheOK
<1>4. QED
  BY <1>3 DEF Stored

-----------------------------------------------------------------------------
(* The calls. *)

(* A slot is for the very request that asked for it, under a header the    *)
(* script named.                                                           *)
SlotOK(s) ==
    s = Nil \/ /\ s = [key |-> s.key, ttl |-> s.ttl, of |-> s.of]
               /\ s.of \in Requests
               /\ s.key = <<s.of.url, s.of.user>> /\ s.key \in Keys
               /\ s.of.user # NoUser => s.of.vary
               /\ s.ttl = s.of.ttl /\ s.ttl \in Nat \ {0}

(* Every hop was allowed, and the peer of one that is sent is not private. *)
TripOK(x) ==
    /\ x = [pc |-> x.pc, slot |-> x.slot, url |-> x.url, peer |-> x.peer, previous |-> x.previous]
    /\ x.pc \in {"dial", "sent"}
    /\ SlotOK(x.slot) /\ Allowed(x.url)
    /\ x.pc = "sent" => (allow_private_net \/ x.peer \notin Private)

BodyOK(x) ==
    /\ x = [pc |-> "body", slot |-> x.slot, raw |-> x.raw]
    /\ SlotOK(x.slot)
    /\ x.raw \in [head : Heads, size : 0 .. max_body]

PutOK(x) ==
    /\ x = [pc |-> "put", slot |-> x.slot, raw |-> x.raw]
    /\ x.slot # Nil /\ SlotOK(x.slot)
    /\ x.raw \in Responses /\ x.raw.of = x.slot.of
    /\ Cacheable(x.raw) /\ x.raw.size <= max_body

(* What a hit must be, which is what HitIsOwn says of it. *)
HitOK(o) ==
    /\ o.raw.of.url = o.of.url /\ o.raw.of.user = o.of.user
    /\ o.of.user # NoUser => (o.of.vary /\ o.raw.of.vary)
    /\ Cacheable(o.raw) /\ o.raw.size <= max_body
    /\ o.at < o.raw.at + o.raw.of.ttl

DoneOK(x) ==
    /\ x.pc = "done"
    /\ x.out = Nil \/ x.out = Fresh \/ HitOK(x.out)

CallOK(x) == x = Idle \/ TripOK(x) \/ BodyOK(x) \/ PutOK(x) \/ DoneOK(x)

ClientInv ==
    /\ now \in Nat
    /\ CacheOK(inner)
    /\ q = [c \in Calls |-> q[c]]
    /\ \A c \in Calls : CallOK(q[c])

LEMMA PcTold ==
    ASSUME NEW x, CallOK(x)
    PROVE  /\ x.pc \in {"dial", "sent"} => TripOK(x)
           /\ x.pc = "body" => BodyOK(x)
           /\ x.pc = "put" => PutOK(x)
           /\ x.pc = "done" => DoneOK(x)
<1>1. x = Idle => x.pc = "idle"
  BY DEF Idle
<1>2. (TripOK(x) => x.pc \in {"dial", "sent"}) /\ (DoneOK(x) => x.pc = "done")
  BY DEF TripOK, DoneOK
<1>3. BodyOK(x) => x.pc = "body"
  BY DEF BodyOK
<1>4. PutOK(x) => x.pc = "put"
  BY DEF PutOK
<1>5. QED
  BY <1>1, <1>2, <1>3, <1>4 DEF CallOK

LEMMA InitInv == HttpInit => ClientInv
<1> SUFFICES ASSUME HttpInit
             PROVE  ClientInv
  OBVIOUS
<1>1. inner = Empty /\ now = 0 /\ q = [c \in Calls |-> Idle]
  BY DEF HttpInit, CacheInit
<1>2. /\ Empty = [entries |-> Empty.entries, order |-> Empty.order, bytes |-> Empty.bytes,
                  last_sweep |-> Empty.last_sweep, earliest |-> Empty.earliest]
      /\ Empty.entries = [k \in Keys |-> Nil]
  BY DEF Empty
<1>3. CacheOK(Empty)
  BY <1>2 DEF CacheOK, Shaped
<1>4. QED
  BY <1>1, <1>3 DEF ClientInv, CallOK

(* A step of one call. *)
LEMMA OneCall ==
    ASSUME ClientInv, NEW c \in Calls, NEW x, CallOK(x), q' = [q EXCEPT ![c] = x],
           now' = now, CacheOK(inner')
    PROVE  ClientInv'
<1>1. q' = [d \in Calls |-> q'[d]]
  BY DEF ClientInv
<1>2. \A d \in Calls : q'[d] = IF d = c THEN x ELSE q[d]
  BY DEF ClientInv
<1>3. \A d \in Calls : CallOK(q'[d])
  BY <1>2 DEF ClientInv
<1>4. QED
  BY <1>1, <1>3 DEF ClientInv

LEMMA EndInv ==
    ASSUME ClientInv, NEW c \in Calls, NEW out, Ends(c, out),
           out = Nil \/ out = Fresh \/ HitOK(out),
           now' = now, CacheOK(inner')
    PROVE  ClientInv'
<1> DEFINE x == [pc |-> "done", out |-> out]
<1>1. x.pc = "done" /\ x.out = out
  OBVIOUS
<1> HIDE DEF x
<1>2. CallOK(x)
  BY <1>1 DEF DoneOK, CallOK
<1>3. q' = [q EXCEPT ![c] = x]
  BY DEF Ends, x
<1>4. QED
  BY <1>2, <1>3, OneCall

(* A request is asked for under the key it has in the cache. *)
LEMMA SlotCorrect ==
    ASSUME NEW r \in Requests
    PROVE  /\ SlotOK(SlotOf(r))
           /\ SlotOf(r) # Nil => SlotOf(r).key = <<r.url, r.user>> /\ (r.user # NoUser => r.vary)
<1>1. /\ r.url \in Urls /\ r.user \in Users /\ r.vary \in BOOLEAN
      /\ r.ttl \in Ttls \cup {Nil}
  BY DEF Requests
<1>2. CASE r.ttl = Nil \/ (r.user # NoUser /\ ~r.vary)
  BY <1>2 DEF SlotOf, SlotOK
<1>3. CASE ~(r.ttl = Nil \/ (r.user # NoUser /\ ~r.vary))
  <2>1. SlotOf(r) = [key |-> <<r.url, r.user>>, ttl |-> r.ttl, of |-> r]
    BY <1>3 DEF SlotOf
  <2>2. /\ SlotOf(r).key = <<r.url, r.user>> /\ SlotOf(r).ttl = r.ttl /\ SlotOf(r).of = r
        /\ SlotOf(r) = [key |-> SlotOf(r).key, ttl |-> SlotOf(r).ttl, of |-> SlotOf(r).of]
    BY <2>1
  <2>3. r.ttl \in Nat \ {0} /\ <<r.url, r.user>> \in Keys
    BY <1>1, <1>3, HttpAssumption, KeyAssumption
  <2>4. QED
    BY <1>3, <2>2, <2>3 DEF SlotOK
<1>4. QED
  BY <1>2, <1>3

LEMMA AskInv ==
    ASSUME ClientInv, NEW c \in Calls, NEW r \in Requests, Ask(c, r)
    PROVE  ClientInv'
<1> DEFINE slot == SlotOf(r)
           hit == IF slot = Nil THEN Nil ELSE Found(inner, slot.key, now)
<1>1. CASE ~Allowed(r.url) \/ (r.ttl # Nil /\ ~r.get)
  <2>1. Ends(c, Nil) /\ inner' = inner /\ now' = now
    BY <1>1 DEF Ask
  <2>2. QED
    BY <2>1, EndInv DEF ClientInv
<1>2. CASE ~(~Allowed(r.url) \/ (r.ttl # Nil /\ ~r.get))
  <2>1. /\ inner' = IF slot = Nil THEN inner ELSE Looked(inner, slot.key, now)
        /\ IF hit # Nil
           THEN Ends(c, [of |-> r, raw |-> hit, cached |-> TRUE, at |-> now])
           ELSE q' = [q EXCEPT ![c] = [pc |-> "dial", slot |-> slot,
                                       url |-> r.url, peer |-> Nil, previous |-> 0]]
        /\ now' = now
    BY <1>2 DEF Ask
  <2>2. CacheOK(inner')
    BY <2>1, LookedLeft, LeftOK DEF ClientInv, CacheOK
  <2>3. CASE hit # Nil
    <3> DEFINE o == [of |-> r, raw |-> hit, cached |-> TRUE, at |-> now]
    <3>1. slot # Nil /\ slot.key = <<r.url, r.user>> /\ slot.key \in Keys
      BY <2>3, SlotCorrect DEF SlotOK
    <3>2. /\ IsLive(inner, slot.key, now) /\ hit = inner.entries[slot.key].raw
      BY <2>3 DEF Found
    <3>3. EntryOK(slot.key, inner.entries[slot.key]) /\ inner.entries[slot.key].expires > now
      BY <3>1, <3>2 DEF IsLive, ClientInv, CacheOK
    <3>4. /\ Belongs(<<r.url, r.user>>, hit)
          /\ hit.at + hit.of.ttl > now
      BY <3>1, <3>2, <3>3 DEF EntryOK
    <3>5. /\ hit.of.url = r.url /\ hit.of.user = r.user
          /\ r.user # NoUser => r.vary /\ hit.of.vary
          /\ Cacheable(hit) /\ hit.size <= max_body
      BY <3>1, <3>4, SlotCorrect DEF Belongs
    <3>6. now < hit.at + hit.of.ttl
      BY <3>4 DEF ClientInv, Belongs, Responses, Heads
    <3>7. o.of = r /\ o.raw = hit /\ o.at = now
      OBVIOUS
    <3> HIDE DEF o, hit, slot
    <3>8. HitOK(o)
      BY <3>5, <3>6, <3>7 DEF HitOK
    <3>9. Ends(c, o)
      BY <2>1, <2>3 DEF o
    <3>10. QED
      BY <2>1, <2>2, <3>8, <3>9, EndInv
  <2>4. CASE hit = Nil
    <3> DEFINE x == [pc |-> "dial", slot |-> slot, url |-> r.url, peer |-> Nil, previous |-> 0]
    <3>1. q' = [q EXCEPT ![c] = x]
      BY <2>1, <2>4
    <3>2. SlotOK(slot) /\ Allowed(r.url)
      BY <1>2, SlotCorrect
    <3> HIDE DEF slot, hit
    <3>3. TripOK(x)
      BY <3>2 DEF TripOK
    <3> HIDE DEF x
    <3>4. QED
      BY <2>1, <2>2, <3>1, <3>3, OneCall DEF CallOK
  <2>5. QED
    BY <2>3, <2>4
<1>3. QED
  BY <1>1, <1>2

LEMMA TripFields ==
    ASSUME NEW x, TripOK(x), NEW pc \in {"dial", "sent"}, NEW u, NEW a, NEW n, Allowed(u),
           pc = "sent" => (allow_private_net \/ a \notin Private)
    PROVE  CallOK([pc |-> pc, slot |-> x.slot, url |-> u, peer |-> a, previous |-> n])
<1> DEFINE y == [pc |-> pc, slot |-> x.slot, url |-> u, peer |-> a, previous |-> n]
<1>1. TripOK(y)
  BY DEF TripOK
<1>2. QED
  BY <1>1 DEF CallOK

LEMMA TripSent ==
    ASSUME NEW x, TripOK(x), NEW a, NEW y, y = [x EXCEPT !.pc = "sent", !.peer = a]
    PROVE  y = [pc |-> "sent", slot |-> x.slot, url |-> x.url, peer |-> a, previous |-> x.previous]
  BY DEF TripOK

LEMMA TripTurned ==
    ASSUME NEW x, TripOK(x), NEW u, NEW n, NEW y,
           y = [x EXCEPT !.pc = "dial", !.url = u, !.previous = n]
    PROVE  y = [pc |-> "dial", slot |-> x.slot, url |-> u, peer |-> x.peer, previous |-> n]
  BY DEF TripOK

LEMMA DialInv ==
    ASSUME ClientInv, NEW c \in Calls, Dial(c)
    PROVE  ClientInv'
<1> DEFINE h == HostOf[q[c].url]
<1>1. TripOK(q[c]) /\ inner' = inner /\ now' = now /\ CacheOK(inner')
  BY PcTold DEF Dial, ClientInv, cacheVars
<1>2. ASSUME NEW a, allow_private_net \/ a \notin Private,
             q' = [q EXCEPT ![c] = [q[c] EXCEPT !.pc = "sent", !.peer = a]]
      PROVE  ClientInv'
  <2> DEFINE x == [pc |-> "sent", slot |-> q[c].slot, url |-> q[c].url, peer |-> a,
                   previous |-> q[c].previous]
  <2>1. [q[c] EXCEPT !.pc = "sent", !.peer = a] = x
    BY <1>1, TripSent
  <2>2. q' = [q EXCEPT ![c] = x]
    BY <1>2, <2>1 DEF ClientInv
  <2>3. CallOK(x)
    BY <1>1, <1>2, TripFields DEF TripOK
  <2> HIDE DEF x
  <2>4. QED
    BY <1>1, <2>2, <2>3, OneCall
<1>3. CASE h \in Literals
  <2>1. q' = [q EXCEPT ![c] = [q[c] EXCEPT !.pc = "sent", !.peer = AddressOf[h]]]
    BY <1>3 DEF Dial
  <2>2. allow_private_net \/ AddressOf[h] \notin Private
    BY <1>1, <1>3 DEF TripOK, Allowed
  <2>3. QED
    BY <1>2, <2>1, <2>2
<1>4. CASE h \notin Literals
  <2>1. PICK answer \in SUBSET Addresses :
            IF Kept(answer) = {}
            THEN Ends(c, Nil)
            ELSE \E a \in Kept(answer) :
                    q' = [q EXCEPT ![c] = [q[c] EXCEPT !.pc = "sent", !.peer = a]]
    BY <1>4 DEF Dial
  <2>2. CASE Kept(answer) = {}
    BY <1>1, <2>1, <2>2, EndInv
  <2>3. CASE Kept(answer) # {}
    <3>1. PICK a \in Kept(answer) :
              q' = [q EXCEPT ![c] = [q[c] EXCEPT !.pc = "sent", !.peer = a]]
      BY <2>1, <2>3
    <3>2. allow_private_net \/ a \notin Private
      BY DEF Kept
    <3>3. QED
      BY <1>2, <3>1, <3>2
  <2>4. QED
    BY <2>2, <2>3
<1>5. QED
  BY <1>3, <1>4

LEMMA RedirectedInv ==
    ASSUME ClientInv, NEW c \in Calls, NEW u, Redirected(c, u)
    PROVE  ClientInv'
<1>1. TripOK(q[c]) /\ inner' = inner /\ now' = now /\ CacheOK(inner')
  BY PcTold DEF Redirected, ClientInv, cacheVars
<1>2. CASE Ends(c, Nil)
  BY <1>1, <1>2, EndInv
<1>3. CASE /\ Allowed(u)
           /\ q' = [q EXCEPT ![c] = [q[c] EXCEPT !.pc = "dial", !.url = u, !.previous = @ + 1]]
  <2> DEFINE n == q[c].previous + 1
             x == [q[c] EXCEPT !.pc = "dial", !.url = u, !.previous = n]
  <2>1. q' = [q EXCEPT ![c] = x]
    BY <1>3
  <2> HIDE DEF n
  <2>2. x = [pc |-> "dial", slot |-> q[c].slot, url |-> u, peer |-> q[c].peer, previous |-> n]
    BY <1>1, TripTurned
  <2> HIDE DEF x
  <2>3. CallOK(x)
    BY <1>1, <1>3, <2>2, TripFields
  <2>4. QED
    BY <1>1, <2>1, <2>3, OneCall
<1>4. QED
  BY <1>2, <1>3 DEF Redirected

LEMMA AnsweredInv ==
    ASSUME ClientInv, NEW c \in Calls, NEW head \in Heads, NEW length, Answered(c, head, length)
    PROVE  ClientInv'
<1>1. TripOK(q[c]) /\ inner' = inner /\ now' = now /\ CacheOK(inner')
  BY PcTold DEF Answered, ClientInv, cacheVars
<1>2. CASE Ends(c, Nil)
  BY <1>1, <1>2, EndInv
<1>3. CASE q' = [q EXCEPT ![c] = [pc |-> "body", slot |-> q[c].slot,
                                  raw |-> [head |-> head, size |-> 0]]]
  <2> DEFINE raw == [head |-> head, size |-> 0]
             x == [pc |-> "body", slot |-> q[c].slot, raw |-> raw]
  <2>1. raw \in [head : Heads, size : 0 .. max_body]
    BY HttpAssumption
  <2> HIDE DEF raw
  <2>2. BodyOK(x)
    BY <1>1, <2>1 DEF TripOK, BodyOK
  <2>3. q' = [q EXCEPT ![c] = x]
    BY <1>3 DEF raw
  <2> HIDE DEF x
  <2>4. QED
    BY <1>1, <2>2, <2>3, OneCall DEF CallOK
<1>4. QED
  BY <1>2, <1>3 DEF Answered

LEMMA ChunkInv ==
    ASSUME ClientInv, NEW c \in Calls, NEW n \in Sizes, Chunk(c, n)
    PROVE  ClientInv'
<1>1. BodyOK(q[c]) /\ inner' = inner /\ now' = now /\ CacheOK(inner')
  BY PcTold DEF Chunk, ClientInv, cacheVars
<1>2. CASE q[c].raw.size + n > max_body
  BY <1>1, <1>2, EndInv DEF Chunk
<1>3. CASE ~(q[c].raw.size + n > max_body)
  <2> DEFINE raw == [q[c].raw EXCEPT !.size = @ + n]
             x == [pc |-> "body", slot |-> q[c].slot, raw |-> raw]
  <2>1. raw \in [head : Heads, size : 0 .. max_body]
    BY <1>1, <1>3, HttpAssumption DEF BodyOK
  <2>2. q' = [q EXCEPT ![c] = [q[c] EXCEPT !.raw = raw]]
    BY <1>3 DEF Chunk, ClientInv
  <2> HIDE DEF raw
  <2>3. [q[c] EXCEPT !.raw = raw] = x
    BY <1>1 DEF BodyOK
  <2>4. BodyOK(x)
    BY <1>1, <2>1 DEF BodyOK
  <2>5. q' = [q EXCEPT ![c] = x]
    BY <2>2, <2>3
  <2> HIDE DEF x
  <2>6. QED
    BY <1>1, <2>4, <2>5, OneCall DEF CallOK
<1>4. QED
  BY <1>2, <1>3

LEMMA BodyEndsInv ==
    ASSUME ClientInv, NEW c \in Calls, BodyEnds(c)
    PROVE  ClientInv'
<1>1. BodyOK(q[c]) /\ inner' = inner /\ now' = now /\ CacheOK(inner')
  BY PcTold DEF BodyEnds, ClientInv, cacheVars
<1>2. CASE ~(q[c].slot # Nil /\ Cacheable(q[c].raw))
  BY <1>1, <1>2, EndInv DEF BodyEnds
<1>3. CASE q[c].slot # Nil /\ Cacheable(q[c].raw)
  <2> DEFINE slot == q[c].slot
             raw == [head |-> q[c].raw.head, size |-> q[c].raw.size, of |-> slot.of, at |-> now]
             x == [pc |-> "put", slot |-> slot, raw |-> raw]
  <2>1. q' = [q EXCEPT ![c] = x]
    BY <1>3 DEF BodyEnds, ClientInv
  <2>2. SlotOK(slot) /\ slot.of \in Requests
    BY <1>1, <1>3 DEF BodyOK, SlotOK
  <2>3. /\ raw.head = q[c].raw.head /\ raw.size = q[c].raw.size
        /\ raw.of = slot.of
        /\ q[c].raw.head \in Heads /\ q[c].raw.size \in 0 .. max_body
    BY <1>1 DEF BodyOK
  <2>4. raw \in Responses
    BY <2>2, <2>3, HttpAssumption DEF Responses, Heads, ClientInv
  <2>5. Cacheable(raw) /\ raw.size <= max_body
    BY <1>3, <2>3, HttpAssumption DEF Cacheable
  <2> HIDE DEF raw
  <2>6. PutOK(x)
    BY <1>3, <2>2, <2>3, <2>4, <2>5 DEF PutOK
  <2> HIDE DEF x
  <2>7. QED
    BY <1>1, <2>1, <2>6, OneCall DEF CallOK
<1>4. QED
  BY <1>2, <1>3

LEMMA PutInv ==
    ASSUME ClientInv, NEW c \in Calls, Put(c)
    PROVE  ClientInv'
<1> DEFINE slot == q[c].slot
           raw == q[c].raw
           e == [expires |-> raw.at + slot.ttl, raw |-> raw]
<1>1. /\ PutOK(q[c]) /\ now' = now
      /\ inner' = Stored(inner, slot.key, raw, slot.ttl, raw.at)
      /\ Ends(c, Fresh)
  BY PcTold DEF Put, ClientInv
<1>2. /\ slot.key \in Keys /\ slot.key = <<raw.of.url, raw.of.user>>
      /\ raw.of.user # NoUser => raw.of.vary
      /\ slot.ttl = raw.of.ttl /\ slot.ttl \in Nat
      /\ raw \in Responses /\ Cacheable(raw) /\ raw.size <= max_body
  BY <1>1 DEF PutOK, SlotOK
<1>3. EntryOK(slot.key, e)
  <2>1. e = [expires |-> e.expires, raw |-> e.raw] /\ e.raw = raw /\ e.expires = raw.at + slot.ttl
    OBVIOUS
  <2> HIDE DEF e
  <2>2. QED
    BY <1>2, <2>1 DEF EntryOK, Belongs
<1>4. CacheOK(inner')
  BY <1>1, <1>2, <1>3, StoredOK DEF ClientInv
<1>5. QED
  BY <1>1, <1>4, EndInv

LEMMA ClearInv ==
    ASSUME ClientInv, Clear
    PROVE  ClientInv'
<1> DEFINE m == Cleared(inner)
<1>1. inner' = m /\ now' = now /\ q' = q
  BY DEF Clear
<1>2. /\ m = [entries |-> m.entries, order |-> m.order, bytes |-> m.bytes,
              last_sweep |-> m.last_sweep, earliest |-> m.earliest]
      /\ m.entries = [k \in Keys |-> Nil]
  BY DEF Cleared, Empty
<1>3. CacheOK(m)
  BY <1>2 DEF CacheOK, Shaped
<1>4. QED
  BY <1>1, <1>3 DEF ClientInv

LEMMA NextInv ==
    ASSUME ClientInv, [HttpNext]_httpVars
    PROVE  ClientInv'
<1>1. ASSUME NEW c \in Calls, CallStep(c)
      PROVE  ClientInv'
  <2>1. ASSUME Fails(c)
        PROVE  ClientInv'
    BY <2>1, EndInv DEF Fails, cacheVars, ClientInv
  <2>2. ASSUME NEW head \in {"ok", "other"}, NEW length, Answered(c, head, length)
        PROVE  ClientInv'
    BY <2>2, AnsweredInv DEF Heads
  <2>3. QED
    BY <1>1, <2>1, <2>2, AskInv, DialInv, RedirectedInv, ChunkInv, BodyEndsInv, PutInv DEF CallStep
<1>2. ASSUME Tick
      PROVE  ClientInv'
  BY <1>2 DEF Tick, ClientInv
<1>3. ASSUME UNCHANGED httpVars
      PROVE  ClientInv'
  BY <1>3 DEF httpVars, ClientInv
<1>4. QED
  BY <1>1, <1>2, <1>3, ClearInv DEF HttpNext

LEMMA ClientCorrect == HttpSpec => []ClientInv
<1>1. ClientInv /\ [HttpNext]_httpVars => ClientInv'
  BY NextInv
<1>2. QED
  BY <1>1, InitInv, PTL DEF HttpSpec

-----------------------------------------------------------------------------
(* No call is handed what was fetched for another URL or with another's    *)
(* credential, under a header only one of them named, or past its time:    *)
(* http.rs parse_cache, cache_key, HttpCache::get and put, across every    *)
(* await between the look-up and the store.                                *)
THEOREM HitsCorrect == HttpSpec => []HitIsOwn
<1>1. ClientInv => HitIsOwn
  <2> SUFFICES ASSUME ClientInv, NEW c \in Calls,
                      q[c].pc = "done", q[c].out # Nil, q[c].out.cached
               PROVE  HitOK(q[c].out)
    BY DEF HitIsOwn, HitOK
  <2>1. DoneOK(q[c])
    BY PcTold DEF ClientInv
  <2>2. Fresh.cached = FALSE
    BY DEF Fresh
  <2>3. QED
    BY <2>1, <2>2 DEF DoneOK
<1>2. QED
  BY <1>1, ClientCorrect, PTL

(* Every connection, on the first hop and after any redirects, is to a     *)
(* host and port of the allowlist, and to a private address only under     *)
(* --allow-private: http.rs url_allowed, build_client's redirect policy,   *)
(* SsrfResolver.                                                           *)
THEOREM HopsCorrect == HttpSpec => []EveryHopVetted
<1>1. ClientInv => EveryHopVetted
  BY PcTold DEF ClientInv, EveryHopVetted, TripOK, Allowed
<1>2. QED
  BY <1>1, ClientCorrect, PTL


-----------------------------------------------------------------------------
(* The books of the cache, and the bytes of a part of what it holds. *)
Weight(m) == [k \in Keys |-> m.entries[k].raw.size]

Exact(m) ==
    /\ CacheOK(m)
    /\ m.order \in Seq(Keys) /\ Distinct(m.order) /\ Listed(m.order) = Held(m)
    /\ m.bytes = Bytes(m, Held(m))
    /\ m.earliest \in Nat \cup {Never}
    /\ \A k \in Held(m) : m.earliest # Never /\ m.earliest <= m.entries[k].expires

LEMMA EntryTold ==
    ASSUME NEW m, CacheOK(m), NEW k \in Held(m)
    PROVE  /\ k \in Keys /\ EntryOK(k, m.entries[k])
           /\ m.entries[k].expires \in Nat /\ m.entries[k].raw.size \in Nat
           /\ m.entries[k].raw \in Responses
<1>1. k \in Keys /\ EntryOK(k, m.entries[k])
  BY DEF CacheOK, Held
<1>2. m.entries[k].raw \in Responses /\ m.entries[k].raw.of.ttl \in Nat
      /\ m.entries[k].expires = m.entries[k].raw.at + m.entries[k].raw.of.ttl
  BY <1>1 DEF EntryOK, Belongs
<1>3. m.entries[k].raw.size \in Nat /\ m.entries[k].raw.at \in Nat
  BY <1>2 DEF Responses
<1>4. QED
  BY <1>1, <1>2, <1>3

LEMMA BytesSum ==
    ASSUME NEW m, CacheOK(m), NEW S \in SUBSET Held(m), IsFiniteSet(S)
    PROVE  /\ Bytes(m, S) = SumOver(Weight(m), S)
           /\ Bytes(m, S) \in Nat
           /\ \A k \in S : Weight(m)[k] = m.entries[k].raw.size /\ Weight(m)[k] \in Nat
<1> DEFINE w == [k \in S |-> m.entries[k].raw.size]
<1>1. \A k \in S : Weight(m)[k] = m.entries[k].raw.size /\ Weight(m)[k] \in Nat
  BY EntryTold DEF Weight, Held
<1>2. \A k \in S : w[k] = Weight(m)[k]
  BY <1>1
<1>3. Bytes(m, S) = SumOver(w, S)
  BY DEF Bytes
<1> HIDE DEF w
<1>4. SumOver(w, S) = SumOver(Weight(m), S)
  BY <1>2, SumSame
<1>5. SumOver(Weight(m), S) \in Nat
  BY <1>1, SumNat
<1>6. QED
  BY <1>1, <1>3, <1>4, <1>5

LEMMA BytesSplit ==
    ASSUME NEW m, CacheOK(m), IsFiniteSet(Held(m)), NEW S \in SUBSET Held(m), NEW T \in SUBSET S
    PROVE  /\ Bytes(m, S) = Bytes(m, T) + Bytes(m, S \ T)
           /\ Bytes(m, S) \in Nat /\ Bytes(m, T) \in Nat /\ Bytes(m, S \ T) \in Nat
<1>1. T \in SUBSET Held(m) /\ S \ T \in SUBSET Held(m)
  OBVIOUS
<1>2. IsFiniteSet(S) /\ IsFiniteSet(T) /\ IsFiniteSet(S \ T)
  BY <1>1, FS_Subset
<1>3. /\ Bytes(m, S) = SumOver(Weight(m), S) /\ Bytes(m, S) \in Nat
      /\ Bytes(m, T) = SumOver(Weight(m), T) /\ Bytes(m, T) \in Nat
      /\ Bytes(m, S \ T) = SumOver(Weight(m), S \ T) /\ Bytes(m, S \ T) \in Nat
  BY <1>1, <1>2, BytesSum
<1>4. \A k \in S : Weight(m)[k] \in Nat
  BY <1>2, BytesSum
<1>5. SumOver(Weight(m), S) = SumOver(Weight(m), T) + SumOver(Weight(m), S \ T)
  BY <1>2, <1>4, SumSplit
<1>6. QED
  BY <1>3, <1>5

LEMMA BytesSame ==
    ASSUME NEW m, CacheOK(m), NEW n, NEW S \in SUBSET Held(m), IsFiniteSet(S),
           \A k \in S : n.entries[k] = m.entries[k]
    PROVE  Bytes(n, S) = Bytes(m, S)
<1> DEFINE w == [k \in S |-> n.entries[k].raw.size]
           v == [k \in S |-> m.entries[k].raw.size]
<1>1. w = v
  OBVIOUS
<1>2. Bytes(n, S) = SumOver(w, S) /\ Bytes(m, S) = SumOver(v, S)
  BY DEF Bytes
<1>3. QED
  BY <1>1, <1>2

LEMMA HeldFinite ==
    ASSUME NEW m, Exact(m)
    PROVE  /\ Held(m) \in SUBSET Keys /\ IsFiniteSet(Held(m))
           /\ Cardinality(Held(m)) \in Nat /\ m.bytes \in Nat
<1>1. IsFiniteSet(Held(m))
  BY DistinctLength DEF Exact
<1>2. m.bytes \in Nat
  BY <1>1, BytesSum DEF Exact
<1>3. QED
  BY <1>1, <1>2, FS_CardinalityType DEF Held

(* n is m without some of its entries, the others as they were, in order.  *)
Fewer(m, n) ==
    /\ Exact(n) /\ LeftOf(m, n)
    /\ \A x, y \in Keys : Before(n.order, x, y) => Before(m.order, x, y)

LEMMA FewerTwice ==
    ASSUME NEW m, NEW n, NEW o, Fewer(m, n), Fewer(n, o)
    PROVE  Fewer(m, o)
  BY LeftTwice DEF Fewer

LEMMA FewerSame ==
    ASSUME NEW m, Exact(m)
    PROVE  Fewer(m, m)
  BY LeftAll DEF Fewer, Exact, CacheOK

LEMMA FewerOver ==
    ASSUME NEW m, NEW n, Exact(m), Fewer(m, n), ~Over(m)
    PROVE  ~Over(n)
<1>1. Held(n) \in SUBSET Held(m)
  BY DEF Fewer, LeftOf, Held
<1>2. Cardinality(Held(n)) <= Cardinality(Held(m))
  BY <1>1, HeldFinite, FS_Subset
<1>3. Bytes(m, Held(n)) = Bytes(n, Held(n))
  <2>1. IsFiniteSet(Held(n)) /\ CacheOK(m)
    BY HeldFinite DEF Exact, Fewer
  <2>2. \A k \in Held(n) : n.entries[k] = m.entries[k]
    BY DEF Fewer, LeftOf, Held
  <2>3. QED
    BY <1>1, <2>1, <2>2, BytesSame
<1>4. Bytes(m, Held(n)) <= Bytes(m, Held(m))
  <2>1. CacheOK(m) /\ IsFiniteSet(Held(m)) /\ Held(m) \in SUBSET Held(m)
    BY HeldFinite DEF Exact
  <2>2. /\ Bytes(m, Held(m)) = Bytes(m, Held(n)) + Bytes(m, Held(m) \ Held(n))
        /\ Bytes(m, Held(m)) \in Nat /\ Bytes(m, Held(n)) \in Nat
        /\ Bytes(m, Held(m) \ Held(n)) \in Nat
    BY <1>1, <2>1, BytesSplit
  <2>3. QED
    BY <2>2
<1>5. n.bytes <= m.bytes
  BY <1>3, <1>4 DEF Fewer, Exact
<1>6. /\ Cardinality(Held(n)) \in Nat /\ Cardinality(Held(m)) \in Nat
      /\ n.bytes \in Nat /\ m.bytes \in Nat
  BY HeldFinite DEF Fewer
<1>7. QED
  BY <1>2, <1>5, <1>6, LimitAssumption DEF Over

Lacks(m, n, S) == \A k \in Keys : n.entries[k] = IF k \in S THEN Nil ELSE m.entries[k]

(* remove, of the keys of a set: the books stay exact. *)
LEMMA RemovedFewer ==
    ASSUME NEW m, Exact(m), NEW S
    PROVE  /\ Fewer(m, Removed(m, S))
           /\ Lacks(m, Removed(m, S), S)
           /\ Removed(m, S).earliest = m.earliest
           /\ Removed(m, S).order = Unlisted(m.order, S \cap Held(m))
<1> DEFINE gone == S \cap Held(m)
           entries == [k \in Keys |-> IF k \in gone THEN Nil ELSE m.entries[k]]
           order == Unlisted(m.order, gone)
           bytes == m.bytes - Bytes(m, gone)
           n == Removed(m, S)
<1>1. n = [m EXCEPT !.entries = entries, !.order = order, !.bytes = bytes]
  BY DEF Removed
<1>2. \A k \in Keys : entries[k] = IF k \in S THEN Nil ELSE m.entries[k]
  BY DEF Held
<1>3. LeftOf(m, n)
  BY RemovedLeft DEF Exact, CacheOK
<1>4. m.order \in Seq(Keys) /\ Distinct(m.order) /\ Listed(m.order) = Held(m)
  BY DEF Exact
<1> HIDE DEF entries, bytes, n
<1>5. n = [entries |-> entries, order |-> order, bytes |-> bytes,
           last_sweep |-> m.last_sweep, earliest |-> m.earliest]
  <2> HIDE DEF order
  <2> QED BY <1>1 DEF Exact, CacheOK, Shaped
<1>6. n.entries = entries /\ n.order = order /\ n.bytes = bytes /\ n.earliest = m.earliest
  <2> HIDE DEF order
  <2> QED BY <1>5
<1>7. Held(n) = Held(m) \ gone /\ gone \in SUBSET Held(m)
  BY <1>2, <1>6 DEF Held
<1>8. order \in Seq(Keys) /\ Distinct(order) /\ Listed(order) = Held(n)
  <2> HIDE DEF gone
  <2> QED BY <1>4, <1>7, UnlistedPicks, UnlistedDistinct, UnlistedElements
<1>9. CacheOK(n)
  BY <1>3, LeftOK DEF Exact
<1>10. bytes = Bytes(n, Held(n))
  <2>1. CacheOK(m) /\ IsFiniteSet(Held(m)) /\ Held(m) \in SUBSET Held(m)
    BY HeldFinite DEF Exact
  <2> HIDE DEF gone, order
  <2>s. gone \in SUBSET Held(m)
    BY <1>7
  <2>t. /\ Bytes(m, Held(m)) = Bytes(m, gone) + Bytes(m, Held(m) \ gone)
        /\ Bytes(m, gone) \in Nat /\ Bytes(m, Held(m) \ gone) \in Nat
    BY <2>s, <2>1, BytesSplit
  <2>2. /\ Bytes(m, Held(m)) = Bytes(m, gone) + Bytes(m, Held(n))
        /\ Bytes(m, gone) \in Nat /\ Bytes(m, Held(n)) \in Nat
    BY <1>7, <2>t
  <2>3. Held(n) \in SUBSET Held(m) /\ IsFiniteSet(Held(n))
    BY <1>7, <2>1, FS_Subset
  <2>4. \A k \in Held(n) : n.entries[k] = m.entries[k]
    BY <1>3 DEF LeftOf, Held
  <2>5. Bytes(n, Held(n)) = Bytes(m, Held(n))
    BY <2>1, <2>3, <2>4, BytesSame
  <2>6. m.bytes = Bytes(m, Held(m))
    BY DEF Exact
  <2>7. QED
    BY <2>2, <2>5, <2>6 DEF bytes
<1>11. \A k \in Held(n) : n.earliest # Never /\ n.earliest <= n.entries[k].expires
  BY <1>3, <1>6 DEF Exact, LeftOf, Held
<1>12. Exact(n)
  BY <1>6, <1>8, <1>9, <1>10, <1>11 DEF Exact
<1>13. \A x, y \in Keys : Before(n.order, x, y) => Before(m.order, x, y)
  BY <1>4, <1>6, BeforeUnlisted
<1>14. QED
  BY <1>2, <1>3, <1>6, <1>12, <1>13 DEF Fewer, Lacks, n


(* A change of the order or the instants alone. *)
LEMMA Rebooked ==
    ASSUME NEW m, Exact(m), NEW n, NEW order \in Seq(Keys), NEW l, NEW e \in Nat \cup {Never},
           n = [entries |-> m.entries, order |-> order, bytes |-> m.bytes,
                last_sweep |-> l, earliest |-> e],
           Distinct(order), Listed(order) = Held(m),
           \A k \in Held(m) : e # Never /\ e <= m.entries[k].expires
    PROVE  /\ Exact(n) /\ LeftOf(m, n)
           /\ Held(n) = Held(m) /\ n.entries = m.entries /\ n.order = order
           /\ n.bytes = m.bytes
<1>1. n.entries = m.entries /\ n.order = order /\ n.bytes = m.bytes /\ n.earliest = e
  OBVIOUS
<1>2. LeftOf(m, n)
  BY <1>1 DEF LeftOf, Exact, CacheOK, Shaped
<1>3. Held(n) = Held(m)
  BY <1>1 DEF Held
<1>4. CacheOK(n)
  BY <1>2, LeftOK DEF Exact
<1>5. Bytes(n, Held(n)) = Bytes(m, Held(m))
  BY <1>1, <1>3 DEF Bytes
<1>6. Exact(n)
  BY <1>1, <1>3, <1>4, <1>5 DEF Exact
<1>7. QED
  BY <1>1, <1>2, <1>3, <1>6

(* The scan that earliest lets one skip would have found nothing: after     *)
(* drop_expired exactly the live entries are left, whichever way it went.   *)
LEMMA DropExpiredFewer ==
    ASSUME NEW m, Exact(m), NEW t \in Nat
    PROVE  /\ Fewer(m, DropExpired(m, t))
           /\ \A k \in Keys : DropExpired(m, t).entries[k] =
                                 IF IsLive(m, k, t) THEN m.entries[k] ELSE Nil
<1> DEFINE S == {k \in Held(m) : ~IsLive(m, k, t)}
           n == Removed(m, S)
           E == {n.entries[k].expires : k \in Held(n)}
           e == IF Held(n) = {} THEN Never ELSE Min(E)
           o == [n EXCEPT !.earliest = e]
<1>1. CASE m.earliest = Never \/ m.earliest > t
  <2>1. DropExpired(m, t) = m
    BY <1>1 DEF DropExpired
  <2>2. ASSUME NEW k \in Keys
        PROVE  m.entries[k] = IF IsLive(m, k, t) THEN m.entries[k] ELSE Nil
    <3>1. CASE k \in Held(m)
      <4>1. m.earliest \in Nat /\ m.earliest <= m.entries[k].expires
            /\ m.entries[k].expires \in Nat
        BY <3>1, EntryTold DEF Exact
      <4>2. m.entries[k].expires > t
        BY <1>1, <4>1, NeverAssumption
      <4>3. QED
        BY <3>1, <4>2 DEF IsLive, Held
    <3>2. CASE k \notin Held(m)
      BY <3>2 DEF IsLive, Held
    <3>3. QED
      BY <3>1, <3>2
  <2>3. QED
    BY <2>1, <2>2, FewerSame
<1>2. CASE ~(m.earliest = Never \/ m.earliest > t)
  <2>1. DropExpired(m, t) = o
    BY <1>2 DEF DropExpired
  <2>2. Fewer(m, n)
    BY RemovedFewer
  <2>3. Lacks(m, n, S)
    BY RemovedFewer
  <2>4. \A k \in Keys : n.entries[k] = IF IsLive(m, k, t) THEN m.entries[k] ELSE Nil
    BY <2>3 DEF Lacks, Held, IsLive
  <2> HIDE DEF n, S
  <2>5. Exact(n)
    BY <2>2 DEF Fewer
  <2>6. \A k \in Held(n) : n.entries[k].expires \in Nat
    BY <2>5, EntryTold DEF Exact
  <2>7. e \in Nat \cup {Never} /\ \A k \in Held(n) : e # Never /\ e <= n.entries[k].expires
    <3>1. CASE Held(n) = {}
      BY <3>1
    <3>2. CASE Held(n) # {}
      <4>1. E \subseteq Nat /\ E # {}
        BY <2>6, <3>2
      <4>2. e = Min(E)
        BY <3>2
      <4>3. \A k \in Held(n) : n.entries[k].expires \in E
        OBVIOUS
      <4> HIDE DEF E, e
      <4>4. \E i \in E : \A j \in E : i <= j
        BY <4>1, LeastNumber
      <4>5. e \in E /\ \A j \in E : e <= j
        BY <4>2, <4>4 DEF Min
      <4>6. QED
        BY <4>1, <4>3, <4>5, NeverAssumption
    <3>3. QED
      BY <3>1, <3>2
  <2> HIDE DEF e, E
  <2>8. o = [entries |-> n.entries, order |-> n.order, bytes |-> n.bytes,
             last_sweep |-> n.last_sweep, earliest |-> e]
    BY <2>5 DEF Exact, CacheOK, Shaped
  <2> HIDE DEF o
  <2>9. n.order \in Seq(Keys) /\ Distinct(n.order) /\ Listed(n.order) = Held(n)
    BY <2>5 DEF Exact
  <2>10. Exact(o) /\ LeftOf(n, o) /\ o.entries = n.entries /\ o.order = n.order
    BY <2>5, <2>7, <2>8, <2>9, Rebooked
  <2>11. Fewer(n, o)
    BY <2>10 DEF Fewer
  <2>12. Fewer(m, o)
    BY <2>2, <2>11, FewerTwice
  <2>13. QED
    BY <2>1, <2>4, <2>10, <2>12
<1>3. QED
  BY <1>1, <1>2

LEMMA SweptFewer ==
    ASSUME NEW m, Exact(m), NEW t \in Nat
    PROVE  /\ Fewer(m, Swept(m, t))
           /\ \A k \in Keys : IsLive(m, k, t) => Swept(m, t).entries[k] = m.entries[k]
<1> DEFINE n == DropExpired(m, t)
           o == [n EXCEPT !.last_sweep = t]
<1>1. Fewer(m, n) /\ \A k \in Keys : IsLive(m, k, t) => n.entries[k] = m.entries[k]
  BY DropExpiredFewer
<1>2. Swept(m, t) = m \/ Swept(m, t) = o
  BY DEF Swept
<1> HIDE DEF n
<1>3. Exact(n)
  BY <1>1 DEF Fewer
<1>4. o = [entries |-> n.entries, order |-> n.order, bytes |-> n.bytes,
           last_sweep |-> t, earliest |-> n.earliest]
  BY <1>3 DEF Exact, CacheOK, Shaped
<1> HIDE DEF o
<1>5. /\ n.order \in Seq(Keys) /\ Distinct(n.order) /\ Listed(n.order) = Held(n)
      /\ n.earliest \in Nat \cup {Never}
      /\ \A k \in Held(n) : n.earliest # Never /\ n.earliest <= n.entries[k].expires
  BY <1>3 DEF Exact
<1>6. Exact(o) /\ LeftOf(n, o) /\ o.entries = n.entries /\ o.order = n.order
  BY <1>3, <1>4, <1>5, Rebooked
<1>7. Fewer(m, o)
  BY <1>1, <1>6, FewerTwice DEF Fewer
<1>8. QED
  BY <1>1, <1>2, <1>6, <1>7, FewerSame

LEMMA LookedExact ==
    ASSUME NEW m, Exact(m), ~Over(m), NEW k \in Keys, NEW t
    PROVE  /\ Exact(Looked(m, k, t)) /\ ~Over(Looked(m, k, t))
           /\ \A x \in Keys : IsLive(m, x, t) => Looked(m, k, t).entries[x] = m.entries[x]
<1> DEFINE rest == Unlisted(m.order, {k})
           order == Append(rest, k)
           n == [m EXCEPT !.order = order]
<1>1. CASE ~IsLive(m, k, t)
  <2>1. Looked(m, k, t) = Removed(m, {k})
    BY <1>1 DEF Looked
  <2>2. Fewer(m, Removed(m, {k}))
    BY RemovedFewer
  <2>3. Lacks(m, Removed(m, {k}), {k})
    BY RemovedFewer
  <2>4. QED
    BY <1>1, <2>1, <2>2, <2>3, FewerOver DEF Fewer, Lacks
<1>2. CASE IsLive(m, k, t)
  <2>1. Looked(m, k, t) = n
    BY <1>2 DEF Looked
  <2>2. k \in Held(m)
    BY <1>2 DEF IsLive, Held
  <2>3. rest \in Seq(Keys) /\ Distinct(rest) /\ Listed(rest) = Held(m) \ {k}
    BY UnlistedPicks, UnlistedDistinct, UnlistedElements DEF Exact
  <2> HIDE DEF rest
  <2>a. order \in Seq(Keys) /\ Listed(order) = Listed(rest) \cup {k}
        /\ (k \notin Listed(rest) => Distinct(order))
    BY <2>3, AppendListed
  <2>b. k \notin Listed(rest) /\ Listed(rest) \cup {k} = Held(m)
    BY <2>2, <2>3
  <2>4. order \in Seq(Keys) /\ Distinct(order) /\ Listed(order) = Held(m)
    BY <2>a, <2>b
  <2> HIDE DEF order
  <2>5. n = [entries |-> m.entries, order |-> order, bytes |-> m.bytes,
             last_sweep |-> m.last_sweep, earliest |-> m.earliest]
    BY DEF Exact, CacheOK, Shaped
  <2> HIDE DEF n
  <2>6. /\ m.earliest \in Nat \cup {Never}
        /\ \A x \in Held(m) : m.earliest # Never /\ m.earliest <= m.entries[x].expires
    BY DEF Exact
  <2>7. Exact(n) /\ Held(n) = Held(m) /\ n.entries = m.entries /\ n.bytes = m.bytes
    BY <2>4, <2>5, <2>6, Rebooked
  <2>8. ~Over(n)
    BY <2>7 DEF Over
  <2>9. QED
    BY <2>1, <2>7, <2>8
<1>3. QED
  BY <1>1, <1>2


(* The new response stands last; those that stay keep their order. *)
NewestLast(m, n, k) ==
    /\ Len(n.order) > 0 /\ n.order[Len(n.order)] = k
    /\ \A x \in Keys, y \in Keys \ {k} : Before(n.order, x, y) => Before(m.order, x, y)

LEMMA InsertedExact ==
    ASSUME NEW m, Exact(m), NEW k \in Keys, NEW raw \in Responses, NEW e \in Nat,
           EntryOK(k, [expires |-> e, raw |-> raw])
    PROVE  LET n == Inserted(m, k, raw, e) IN
           /\ Exact(n) /\ NewestLast(m, n, k)
           /\ n.entries[k] = [expires |-> e, raw |-> raw]
           /\ \A x \in Keys \ {k} : n.entries[x] = m.entries[x]
<1> DEFINE o == Removed(m, {k})
           entry == [expires |-> e, raw |-> raw]
           entries == [o.entries EXCEPT ![k] = entry]
           order == Append(o.order, k)
           bytes == o.bytes + raw.size
           earliest == IF o.earliest = Never \/ e < o.earliest THEN e ELSE o.earliest
           n == Inserted(m, k, raw, e)
<1>1. Fewer(m, o) /\ Lacks(m, o, {k})
  BY RemovedFewer
<1>2. n = [o EXCEPT !.entries[k] = entry, !.order = order, !.bytes = bytes,
                    !.earliest = earliest]
  BY DEF Inserted
<1>3. entry \in [expires : Nat, raw : Responses] /\ entry.expires = e /\ entry.raw = raw
  OBVIOUS
<1>4. entry # Nil
  BY <1>3, NilAssumption
<1>c. CacheOK(n)
  BY InsertedOK DEF Exact
<1> HIDE DEF o, entry
<1>5. Exact(o) /\ o.entries[k] = Nil /\ \A x \in Keys \ {k} : o.entries[x] = m.entries[x]
  BY <1>1 DEF Fewer, Lacks
<1>o. /\ o.order \in Seq(Keys) /\ Distinct(o.order) /\ Listed(o.order) = Held(o)
      /\ o.bytes = Bytes(o, Held(o)) /\ o.earliest \in Nat \cup {Never} /\ CacheOK(o)
      /\ \A x \in Held(o) : o.earliest # Never /\ o.earliest <= o.entries[x].expires
  BY <1>5 DEF Exact
<1>6. k \notin Listed(o.order)
  BY <1>5, <1>o DEF Held
<1>7. order \in Seq(Keys) /\ Listed(order) = Held(o) \cup {k} /\ Distinct(order)
  BY <1>6, <1>o, AppendListed
<1>8. Len(order) = Len(o.order) + 1 /\ order[Len(order)] = k /\ Len(o.order) \in Nat
      /\ \A i \in 1 .. Len(o.order) : order[i] = o.order[i]
  BY <1>o
<1>9. /\ earliest \in Nat /\ earliest <= e
      /\ o.earliest # Never => earliest <= o.earliest
  BY <1>o, NeverAssumption
<1> HIDE DEF entries, order, bytes, earliest, n
<1>10. n = [entries |-> entries, order |-> order, bytes |-> bytes,
            last_sweep |-> o.last_sweep, earliest |-> earliest]
  BY <1>2, <1>o DEF entries, CacheOK, Shaped
<1>11. n.entries = entries /\ n.order = order /\ n.bytes = bytes /\ n.earliest = earliest
  BY <1>10
<1>12. entries[k] = entry /\ \A x \in Keys \ {k} : entries[x] = o.entries[x]
  BY <1>o DEF entries, CacheOK, Shaped
<1>13. Held(n) = Held(o) \cup {k} /\ k \notin Held(o)
  BY <1>4, <1>5, <1>11, <1>12 DEF Held
<1>14. bytes = Bytes(n, Held(n))
  <2>1. IsFiniteSet(Held(o)) /\ Held(o) \in SUBSET Held(o)
    BY <1>5, HeldFinite
  <2>2. IsFiniteSet(Held(n)) /\ Held(n) \in SUBSET Held(n) /\ Held(o) \in SUBSET Held(n)
    BY <2>1, <1>13, FS_AddElement
  <2>3. /\ Bytes(n, Held(n)) = SumOver(Weight(n), Held(n))
        /\ \A x \in Held(n) : Weight(n)[x] = n.entries[x].raw.size /\ Weight(n)[x] \in Nat
    BY <2>2, <1>c, BytesSum
  <2>4. Bytes(n, Held(o)) = SumOver(Weight(n), Held(o)) /\ Bytes(n, Held(o)) \in Nat
    BY <2>1, <2>2, <1>c, BytesSum
  <2>5. SumOver(Weight(n), Held(o) \cup {k}) = Weight(n)[k] + SumOver(Weight(n), Held(o))
    BY <2>1, <2>3, <1>13, SumAdd
  <2>6. \A x \in Held(o) : n.entries[x] = o.entries[x]
    BY <1>11, <1>12, <1>13 DEF Held
  <2>7. Bytes(n, Held(o)) = Bytes(o, Held(o))
    BY <2>1, <2>6, <1>o, BytesSame
  <2>8. Weight(n)[k] = raw.size /\ raw.size \in Nat
    BY <2>3, <1>3, <1>11, <1>12, <1>13
  <2>9. Bytes(n, Held(n)) = raw.size + o.bytes /\ o.bytes \in Nat
    BY <2>3, <2>4, <2>5, <2>7, <2>8, <1>13, <1>o
  <2>10. QED
    BY <2>8, <2>9 DEF bytes
<1>15. \A x \in Held(n) : n.earliest # Never /\ n.earliest <= n.entries[x].expires
  <2>1. n.earliest # Never /\ n.earliest \in Nat
    BY <1>9, <1>11, NeverAssumption
  <2>2. n.entries[k].expires = e
    BY <1>3, <1>11, <1>12
  <2>3. ASSUME NEW x \in Held(o)
        PROVE  n.earliest <= n.entries[x].expires
    <3>1. n.entries[x] = o.entries[x]
      BY <1>11, <1>12, <1>13 DEF Held
    <3>2. o.earliest \in Nat /\ o.earliest <= o.entries[x].expires /\ o.entries[x].expires \in Nat
      BY <1>o, EntryTold
    <3>3. earliest <= o.earliest
      BY <1>9, <1>o
    <3>4. QED
      BY <3>1, <3>2, <3>3, <1>9, <1>11
  <2>4. QED
    BY <2>1, <2>2, <2>3, <1>9, <1>11, <1>13
<1>16. Exact(n)
  BY <1>7, <1>9, <1>11, <1>13, <1>14, <1>15, <1>c DEF Exact
<1>17. ASSUME NEW x \in Keys, NEW y \in Keys \ {k}, Before(n.order, x, y)
       PROVE  Before(m.order, x, y)
  <2>1. PICK i \in 1 .. Len(order), j \in 1 .. Len(order) : i < j /\ order[i] = x /\ order[j] = y
    BY <1>11, <1>17 DEF Before
  <2>2. j # Len(order)
    BY <2>1, <1>8, <1>17
  <2>3. i \in 1 .. Len(o.order) /\ j \in 1 .. Len(o.order)
    BY <2>1, <2>2, <1>8
  <2>4. Before(o.order, x, y)
    BY <2>1, <2>3, <1>8 DEF Before
  <2>5. QED
    BY <2>4, <1>1 DEF Fewer
<1>18. NewestLast(m, n, k)
  BY <1>8, <1>11, <1>17 DEF NewestLast
<1>19. QED
  BY <1>5, <1>11, <1>12, <1>16, <1>18 DEF n, entry

(* With one entry more, of a given size, the cache would be over its caps.  *)
OverBy(n, size) ==
    \/ max_entries # 0 /\ Cardinality(Held(n)) + 1 > max_entries
    \/ max_bytes # 0 /\ n.bytes + size > max_bytes

(* What the loop that pops the oldest entry takes away, V: it stops as soon *)
(* as the caps are met, so that keeping the last it popped would not do.    *)
Popped(m, n, V) ==
    /\ Fewer(m, n) /\ Lacks(m, n, V) /\ ~Over(n)
    /\ V \subseteq Held(m)
    /\ \A y \in V, x \in Held(n) : Before(m.order, y, x)
    /\ V # {} => \E y \in V :
          /\ \A z \in V \ {y} : Before(m.order, z, y)
          /\ OverBy(n, m.entries[y].raw.size)

LEMMA AllGone ==
    ASSUME NEW m, Exact(m), Held(m) = {}
    PROVE  ~Over(m)
<1>1. Cardinality(Held(m)) = 0
  BY FS_EmptySet
<1>2. m.bytes = Bytes(m, {})
  BY DEF Exact
<1>3. m.bytes = 0
  BY <1>2, SumEmpty DEF Bytes
<1>4. QED
  BY <1>1, <1>3, LimitAssumption DEF Over

(* The entry that stands at the end of V came last of them. *)
LEMMA OneMore ==
    ASSUME NEW m, Exact(m), NEW V \in SUBSET Held(m), NEW y \in V,
           Over(Removed(m, V \ {y}))
    PROVE  OverBy(Removed(m, V), m.entries[y].raw.size)
<1> DEFINE n == Removed(m, V)
           o == Removed(m, V \ {y})
<1>1. Fewer(m, n) /\ Lacks(m, n, V) /\ Fewer(m, o) /\ Lacks(m, o, V \ {y})
  BY RemovedFewer
<1>2. Over(o)
  OBVIOUS
<1> HIDE DEF n, o
<1>3. /\ Held(n) = Held(m) \ V /\ Held(o) = (Held(m) \ V) \cup {y}
      /\ Held(n) \in SUBSET Held(m) /\ Held(o) \in SUBSET Held(m) /\ y \notin Held(n)
      /\ y \in Held(m)
  BY <1>1 DEF Lacks, Held
<1>4. /\ IsFiniteSet(Held(n)) /\ IsFiniteSet(Held(o)) /\ CacheOK(m)
      /\ Cardinality(Held(n)) \in Nat
  BY <1>1, HeldFinite DEF Fewer, Exact
<1>5. Cardinality(Held(o)) = Cardinality(Held(n)) + 1
  BY <1>3, <1>4, FS_AddElement
<1>6. /\ \A k \in Held(n) : n.entries[k] = m.entries[k]
      /\ \A k \in Held(o) : o.entries[k] = m.entries[k]
  BY <1>1 DEF Fewer, LeftOf, Held
<1>7. n.bytes = Bytes(m, Held(n)) /\ o.bytes = Bytes(m, Held(o))
  <2>1. Bytes(n, Held(n)) = Bytes(m, Held(n)) /\ Bytes(o, Held(o)) = Bytes(m, Held(o))
    BY <1>3, <1>4, <1>6, BytesSame
  <2>2. n.bytes = Bytes(n, Held(n)) /\ o.bytes = Bytes(o, Held(o))
    BY <1>1 DEF Fewer, Exact
  <2>3. QED
    BY <2>1, <2>2
<1>8. o.bytes = n.bytes + m.entries[y].raw.size
  <2>1. /\ Bytes(m, Held(o)) = SumOver(Weight(m), Held(o))
        /\ \A k \in Held(o) : Weight(m)[k] = m.entries[k].raw.size /\ Weight(m)[k] \in Nat
    BY <1>3, <1>4, BytesSum
  <2>2. Bytes(m, Held(n)) = SumOver(Weight(m), Held(n)) /\ Bytes(m, Held(n)) \in Nat
    BY <1>3, <1>4, BytesSum
  <2>3. Held(o) = Held(n) \cup {y}
    BY <1>3
  <2>4. SumOver(Weight(m), Held(n) \cup {y}) = Weight(m)[y] + SumOver(Weight(m), Held(n))
    BY <2>1, <2>3, <1>3, <1>4, SumAdd
  <2>5. Weight(m)[y] = m.entries[y].raw.size /\ Weight(m)[y] \in Nat
    BY <2>1, <2>3
  <2>6. QED
    BY <2>1, <2>2, <2>3, <2>4, <2>5, <1>7
<1>9. OverBy(n, m.entries[y].raw.size)
  BY <1>2, <1>5, <1>8 DEF Over, OverBy
<1>10. QED
  BY <1>9 DEF n


LEMMA AloneFits ==
    ASSUME NEW m, Exact(m), NEW k, Held(m) = {k},
           max_bytes = 0 \/ m.entries[k].raw.size <= max_bytes
    PROVE  ~Over(m)
<1>1. Cardinality(Held(m)) = 1
  BY FS_Singleton
<1>2. IsFiniteSet({}) /\ k \notin {}
  BY FS_EmptySet
<1>3. CacheOK(m) /\ IsFiniteSet(Held(m)) /\ Held(m) \in SUBSET Held(m) /\ k \in Held(m)
  BY HeldFinite DEF Exact
<1>4. /\ Bytes(m, Held(m)) = SumOver(Weight(m), Held(m))
      /\ Weight(m)[k] = m.entries[k].raw.size /\ Weight(m)[k] \in Nat
  BY <1>3, BytesSum
<1>5. SumOver(Weight(m), {} \cup {k}) = Weight(m)[k] + SumOver(Weight(m), {})
  BY <1>2, <1>4, SumAdd
<1>6. {} \cup {k} = Held(m) /\ SumOver(Weight(m), {}) = 0
  BY SumEmpty
<1>7. m.bytes = m.entries[k].raw.size /\ m.entries[k].raw.size \in Nat
  BY <1>4, <1>5, <1>6 DEF Exact
<1>8. QED
  BY <1>1, <1>7, LimitAssumption DEF Over

LEMMA EvictedPopped ==
    ASSUME NEW m, Exact(m)
    PROVE  \E V : /\ Popped(m, Evicted(m), V)
                  /\ \A k \in V : m.order[Len(m.order)] = k =>
                        max_bytes # 0 /\ m.entries[k].raw.size > max_bytes
<1> DEFINE order == m.order
           len == Len(m.order)
           Prefix(n) == {m.order[i] : i \in 1 .. n}
           left(n) == Removed(m, Prefix(n))
           E == {n \in 0 .. len : ~Over(left(n)) \/ n = len}
           n0 == Min(E)
           V == Prefix(n0)
<1>1. /\ order \in Seq(Keys) /\ Distinct(order) /\ Listed(order) = Held(m) /\ len \in Nat
  BY DEF Exact
<1>2. Evicted(m) = left(n0)
  BY DEF Evicted
<1>3. E \subseteq Nat /\ len \in E
  BY <1>1
<1> HIDE DEF left
<1>4. n0 \in E /\ \A i \in E : n0 <= i
  <2> HIDE DEF E
  <2>1. \E i \in E : \A j \in E : i <= j
    BY <1>3, LeastNumber
  <2>2. QED
    BY <2>1 DEF Min
<1> HIDE DEF n0
<1>5. n0 \in 0 .. len /\ (~Over(left(n0)) \/ n0 = len)
  BY <1>4
<1>6. \A n : Fewer(m, left(n)) /\ Lacks(m, left(n), Prefix(n))
  <2> HIDE DEF Prefix
  <2> QED BY RemovedFewer DEF left
<1>7. Prefix(len) = Held(m)
  BY <1>1 DEF Listed
<1>8. ~Over(left(n0))
  <2>1. CASE n0 = len
    <3>1. Lacks(m, left(n0), Held(m))
      BY <1>6, <1>7, <2>1
    <3>2. Held(left(n0)) = {}
      BY <3>1 DEF Lacks, Held
    <3>3. QED
      BY <1>6, <3>2, AllGone DEF Fewer
  <2>2. QED
    BY <1>5, <2>1
<1>9. V \subseteq Held(m)
  BY <1>1, <1>5 DEF Listed
<1>10. ASSUME NEW y \in V, NEW x \in Held(m) \ V
       PROVE  Before(order, y, x)
  <2>1. PICK i \in 1 .. n0 : order[i] = y
    OBVIOUS
  <2>2. PICK j \in 1 .. len : order[j] = x
    BY <1>1 DEF Listed
  <2>3. ~(j \in 1 .. n0)
    BY <2>2, <1>10
  <2>4. i < j /\ i \in 1 .. len
    BY <2>1, <2>2, <2>3, <1>1, <1>5
  <2>5. QED
    BY <2>1, <2>2, <2>4 DEF Before
<1>11. Held(left(n0)) = Held(m) \ V
  BY <1>6 DEF Lacks, Held
<1>12. ASSUME V # {}
       PROVE  \E y \in V : /\ \A z \in V \ {y} : Before(order, z, y)
                           /\ OverBy(left(n0), m.entries[y].raw.size)
  <2> DEFINE y == order[n0]
  <2>1. n0 \in 1 .. len /\ n0 - 1 \in 0 .. len /\ n0 - 1 # len
    BY <1>1, <1>5, <1>12
  <2>2. n0 - 1 \notin E
    BY <1>4, <2>1
  <2>3. Over(left(n0 - 1))
    BY <2>1, <2>2
  <2>4. y \in V /\ V \ {y} = Prefix(n0 - 1)
    <3>1. \A j \in 1 .. n0 : order[j] = y => j = n0
      BY <1>1, <2>1 DEF Distinct
    <3>2. \A j \in 1 .. n0 : j # n0 <=> j \in 1 .. n0 - 1
      BY <2>1
    <3>3. 1 .. n0 - 1 \subseteq 1 .. n0 /\ n0 \in 1 .. n0
      BY <2>1
    <3>4. \A z : z \in V \ {y} <=> z \in Prefix(n0 - 1)
      BY <3>1, <3>2, <3>3
    <3>5. QED
      BY <3>3, <3>4
  <2>5. ASSUME NEW z \in V \ {y}
        PROVE  Before(order, z, y)
    <3>1. PICK i \in 1 .. n0 - 1 : order[i] = z
      BY <2>4
    <3>2. i < n0 /\ i \in 1 .. len /\ n0 \in 1 .. len
      BY <2>1, <3>1
    <3>3. QED
      BY <3>1, <3>2 DEF Before
  <2> HIDE DEF y, V
  <2>6. Over(Removed(m, V \ {y}))
    BY <2>3, <2>4 DEF left
  <2>7. V \in SUBSET Held(m) /\ y \in V
    BY <1>9, <2>4
  <2>8. OverBy(Removed(m, V), m.entries[y].raw.size)
    BY <2>6, <2>7, OneMore
  <2>9. Removed(m, V) = left(n0)
    BY DEF left, V
  <2>10. QED
    BY <2>5, <2>7, <2>8, <2>9
<1>13. ASSUME NEW k \in V, order[len] = k,
              ~(max_bytes # 0 /\ m.entries[k].raw.size > max_bytes)
       PROVE  FALSE
  <2>1. k \in Held(m) /\ m.entries[k].raw.size \in Nat
    BY <1>9, EntryTold DEF Exact
  <2>2. n0 \in 1 .. len /\ len \in 1 .. len /\ len - 1 \in 0 .. len
    BY <1>1, <1>5, <1>13
  <2>3. n0 = len
    <3>1. PICK i \in 1 .. n0 : order[i] = k
      BY <1>13
    <3>2. i = len
      BY <3>1, <2>2, <1>1, <1>13 DEF Distinct
    <3>3. QED
      BY <3>1, <3>2, <2>2
  <2>4. Held(m) \ Prefix(len - 1) = {k}
    <3>1. k \notin Prefix(len - 1)
      <4>1. \A i \in 1 .. len - 1 : i \in 1 .. len /\ i # len
        BY <2>2
      <4>2. QED
        BY <4>1, <2>2, <1>1, <1>13 DEF Distinct
    <3>2. ASSUME NEW x \in Held(m), x # k
          PROVE  x \in Prefix(len - 1)
      <4>1. PICK i \in 1 .. len : order[i] = x
        BY <1>1 DEF Listed
      <4>2. i # len
        BY <4>1, <3>2, <1>13
      <4>3. i \in 1 .. len - 1
        BY <4>1, <4>2, <2>2
      <4>4. QED
        BY <4>1, <4>3
    <3> HIDE DEF Prefix
    <3>3. QED
      BY <3>1, <3>2, <2>1
  <2>5. Held(left(len - 1)) = {k} /\ left(len - 1).entries[k] = m.entries[k]
    <3>1. Lacks(m, left(len - 1), Prefix(len - 1))
      BY <1>6
    <3> HIDE DEF Prefix
    <3>2. QED
      BY <2>4, <3>1 DEF Lacks, Held
  <2>6. Exact(left(len - 1))
    BY <1>6 DEF Fewer
  <2>7. max_bytes = 0 \/ m.entries[k].raw.size <= max_bytes
    BY <2>1, <1>13, LimitAssumption
  <2>8. ~Over(left(len - 1))
    BY <2>5, <2>6, <2>7, AloneFits
  <2>9. len - 1 \in E
    BY <2>2, <2>8
  <2>10. n0 <= len - 1
    BY <1>4, <2>9
  <2>11. QED
    BY <2>3, <2>10, <1>1
<1>14. Fewer(m, left(n0)) /\ Lacks(m, left(n0), V)
  BY <1>6
<1> HIDE DEF V
<1>15. Popped(m, left(n0), V)
  BY <1>8, <1>9, <1>10, <1>11, <1>12, <1>14 DEF Popped
<1>16. QED
  BY <1>2, <1>13, <1>15


(* n is m after the response of k was stored at the instant t, and V what   *)
(* was given up for room.                                                   *)
StoredBy(m, n, k, t, V) ==
    /\ Exact(n) /\ ~Over(n) /\ k \in Held(n) /\ V \subseteq Keys \ {k}
    /\ \A x \in Keys \ {k} : IsLive(m, x, t) /\ n.entries[x] = Nil => x \in V
    /\ \A y \in V : IsLive(m, y, t)
    /\ \A y \in V, x \in Held(n) \ {k} : Before(m.order, y, x)
    /\ V # {} => /\ \A x \in Held(n) : IsLive(n, x, t)
                 /\ \E y \in V : /\ n.entries[y] = Nil
                                 /\ \A z \in V \ {y} : Before(m.order, z, y)
                                 /\ OverBy(n, m.entries[y].raw.size)

LEMMA StoredOutcome ==
    ASSUME NEW m, Exact(m), ~Over(m), NEW k \in Keys, NEW raw \in Responses, NEW ttl \in Nat \ {0},
           NEW t \in Nat, EntryOK(k, [expires |-> t + ttl, raw |-> raw])
    PROVE  \/ Stored(m, k, raw, ttl, t) = m
           \/ \E V : StoredBy(m, Stored(m, k, raw, ttl, t), k, t, V)
<1> DEFINE s == Swept(m, t)
           e == t + ttl
           i == Inserted(s, k, raw, e)
           d == DropExpired(i, t)
           n == Stored(m, k, raw, ttl, t)
<1>1. CASE max_bytes # 0 /\ raw.size > max_bytes
  BY <1>1 DEF Stored
<1>2. CASE ~(max_bytes # 0 /\ raw.size > max_bytes)
  <2>1. n = IF Over(i) THEN Evicted(d) ELSE i
    BY <1>2 DEF Stored, Shrunk
  <2>2. Fewer(m, s) /\ \A x \in Keys : IsLive(m, x, t) => s.entries[x] = m.entries[x]
    BY SweptFewer
  <2> HIDE DEF s, n
  <2>3. e \in Nat /\ e > t /\ Exact(s)
    BY <2>2 DEF Fewer
  <2>e. EntryOK(k, [expires |-> e, raw |-> raw])
    OBVIOUS
  <2> HIDE DEF e
  <2>4. /\ Exact(i) /\ NewestLast(s, i, k)
        /\ i.entries[k] = [expires |-> e, raw |-> raw]
        /\ \A x \in Keys \ {k} : i.entries[x] = s.entries[x]
    BY <2>3, <2>e, InsertedExact
  <2>5. /\ Fewer(i, d)
        /\ \A x \in Keys : d.entries[x] = IF IsLive(i, x, t) THEN i.entries[x] ELSE Nil
    BY <2>4, DropExpiredFewer
  <2> HIDE DEF i, d
  <2>6. i.entries[k].expires = e /\ i.entries[k].raw = raw /\ i.entries[k] # Nil
    <3>1. [expires |-> e, raw |-> raw] \in [expires : Nat, raw : Responses]
      BY <2>3
    <3>2. QED
      BY <2>4, <3>1, NilAssumption
  <2>7. IsLive(i, k, t)
    BY <2>3, <2>6 DEF IsLive
  <2>8. \A x \in Keys \ {k} : i.entries[x] \in {m.entries[x], Nil}
                              /\ (IsLive(m, x, t) => i.entries[x] = m.entries[x])
    BY <2>2, <2>4 DEF Fewer, LeftOf
  <2>9. \A x \in Keys, y \in Keys \ {k} : Before(i.order, x, y) => Before(m.order, x, y)
    BY <2>2, <2>4 DEF Fewer, NewestLast
  <2>10. CASE ~Over(i)
    <3>1. n = i
      BY <2>1, <2>10
    <3>2. \A x \in Keys \ {k} : IsLive(m, x, t) => i.entries[x] # Nil
      BY <2>8 DEF IsLive
    <3>3. StoredBy(m, i, k, t, {})
      BY <2>4, <2>6, <2>10, <3>2 DEF StoredBy, Held
    <3>4. QED
      BY <3>1, <3>3 DEF n
  <2>11. CASE Over(i)
    <3>1. n = Evicted(d) /\ Exact(d)
      BY <2>1, <2>5, <2>11 DEF Fewer
    <3>2. PICK V : /\ Popped(d, n, V)
                   /\ \A x \in V : d.order[Len(d.order)] = x =>
                         max_bytes # 0 /\ d.entries[x].raw.size > max_bytes
      BY <3>1, EvictedPopped
    <3>3. d.entries[k] = i.entries[k] /\ k \in Held(d)
      BY <2>5, <2>6, <2>7 DEF Held
    <3>4. d.order[Len(d.order)] = k
      <4>1. /\ d.order \in Seq(Keys) /\ Listed(d.order) = Held(d) /\ Len(d.order) \in Nat
        BY <3>1 DEF Exact
      <4>2. PICK p \in 1 .. Len(d.order) : d.order[p] = k
        BY <3>3, <4>1 DEF Listed
      <4>3. CASE p = Len(d.order)
        BY <4>2, <4>3
      <4>4. CASE p # Len(d.order)
        <5> DEFINE y == d.order[Len(d.order)]
        <5>1. p < Len(d.order) /\ Len(d.order) \in 1 .. Len(d.order) /\ y \in Keys
          BY <4>1, <4>2, <4>4
        <5>2. Before(d.order, k, y)
          BY <4>2, <5>1 DEF Before
        <5>3. Before(i.order, k, y)
          BY <2>5, <5>1, <5>2 DEF Fewer
        <5> HIDE DEF y
        <5>4. PICK a \in 1 .. Len(i.order), b \in 1 .. Len(i.order) :
                 a < b /\ i.order[a] = k /\ i.order[b] = y
          BY <5>3 DEF Before
        <5>5. Len(i.order) \in Nat /\ Distinct(i.order) /\ i.order[Len(i.order)] = k
          BY <2>4 DEF Exact, NewestLast
        <5>6. a # Len(i.order) /\ Len(i.order) \in 1 .. Len(i.order)
          BY <5>4, <5>5
        <5>7. QED
          BY <5>4, <5>5, <5>6 DEF Distinct
      <4>5. QED
        BY <4>3, <4>4
    <3>5. k \notin V
      <4>1. d.entries[k].raw.size = raw.size
        BY <3>3, <2>6
      <4>2. QED
        BY <3>2, <3>4, <4>1, <1>2
    <3>6. V \subseteq Held(d) /\ Lacks(d, n, V) /\ Fewer(d, n) /\ ~Over(n)
      BY <3>2 DEF Popped
    <3>7. V \subseteq Keys \ {k} /\ k \in Held(n) /\ Exact(n)
      BY <3>3, <3>5, <3>6 DEF Held, Lacks, Fewer
    <3>8. \A x \in Held(d) \ {k} : /\ x \in Keys
                                   /\ IsLive(m, x, t) /\ d.entries[x] = m.entries[x]
      BY <2>5, <2>8 DEF Held, IsLive
    <3>9. \A x \in Keys \ {k} : IsLive(m, x, t) /\ n.entries[x] = Nil => x \in V
      <4>1. ASSUME NEW x \in Keys \ {k}, IsLive(m, x, t), n.entries[x] = Nil
            PROVE  x \in V
        <5>1. d.entries[x] = m.entries[x] /\ m.entries[x] # Nil
          BY <2>5, <2>8, <4>1 DEF IsLive
        <5>2. QED
          BY <5>1, <4>1, <3>6 DEF Lacks
      <4>2. QED
        BY <4>1
    <3>10. \A x \in Held(n) : x \in Held(d) /\ n.entries[x] = d.entries[x] /\ IsLive(n, x, t)
      BY <3>6, <2>5 DEF Lacks, Held, IsLive
    <3>11. \A y \in Held(d), x \in Held(d) \ {k} : Before(d.order, y, x) => Before(m.order, y, x)
      BY <2>5, <2>9 DEF Fewer, Held
    <3>12. \A y \in V, x \in Held(n) \ {k} : Before(m.order, y, x)
      BY <3>2, <3>6, <3>10, <3>11 DEF Popped
    <3>13. ASSUME V # {}
           PROVE  \E y \in V : /\ n.entries[y] = Nil
                               /\ \A z \in V \ {y} : Before(m.order, z, y)
                               /\ OverBy(n, m.entries[y].raw.size)
      <4>1. PICK y \in V : /\ \A z \in V \ {y} : Before(d.order, z, y)
                           /\ OverBy(n, d.entries[y].raw.size)
        BY <3>2, <3>13 DEF Popped
      <4>2. y \in Held(d) \ {k} /\ n.entries[y] = Nil
        BY <3>6, <3>7 DEF Lacks
      <4>3. \A z \in V \ {y} : Before(m.order, z, y)
        BY <3>6, <3>11, <4>1, <4>2
      <4>4. QED
        BY <4>1, <4>2, <4>3, <3>8
    <3>14. \A y \in V : IsLive(m, y, t)
      BY <3>6, <3>7, <3>8
    <3>15. StoredBy(m, n, k, t, V)
      BY <3>6, <3>7, <3>9, <3>10, <3>12, <3>13, <3>14 DEF StoredBy
    <3>16. QED
      BY <3>15 DEF n
  <2>12. QED
    BY <2>10, <2>11
<1>3. QED
  BY <1>1, <1>2

-----------------------------------------------------------------------------
(* The cache in the steps of the client: its books are exact, and a response *)
(* to be stored came no later than now.                                      *)
CacheInv ==
    /\ ClientInv /\ Exact(inner) /\ ~Over(inner)
    /\ \A c \in Calls : q[c].pc = "put" => q[c].raw.at <= now

LEMMA ExactEmpty ==
    ASSUME NEW m, CacheOK(m), m.entries = [k \in Keys |-> Nil], m.order = <<>>, m.bytes = 0,
           m.earliest = Never
    PROVE  Exact(m) /\ ~Over(m)
<1>1. Held(m) = {}
  BY DEF Held
<1>2. m.order \in Seq(Keys) /\ Listed(m.order) = {} /\ Distinct(m.order)
  BY DEF Listed, Distinct
<1>3. Bytes(m, {}) = 0
  BY SumEmpty DEF Bytes
<1>4. Exact(m)
  BY <1>1, <1>2, <1>3 DEF Exact
<1>5. QED
  BY <1>1, <1>4, AllGone

LEMMA CacheInvInit == HttpInit => CacheInv
<1> SUFFICES ASSUME HttpInit PROVE CacheInv
  OBVIOUS
<1>1. ClientInv
  BY InitInv
<1>2. inner = Empty /\ \A c \in Calls : q[c].pc = "idle"
  BY DEF HttpInit, CacheInit, Idle
<1>3. /\ Empty.entries = [k \in Keys |-> Nil] /\ Empty.order = <<>> /\ Empty.bytes = 0
      /\ Empty.earliest = Never
  BY DEF Empty
<1>4. Exact(inner) /\ ~Over(inner)
  <2> HIDE DEF Empty
  <2> QED BY <1>1, <1>2, <1>3, ExactEmpty DEF ClientInv
<1>5. QED
  BY <1>1, <1>2, <1>4 DEF CacheInv

(* What a step does to the cache. *)
LEMMA PutOutcome ==
    ASSUME CacheInv, NEW c \in Calls, Put(c)
    PROVE  /\ q[c].raw.at \in Nat /\ q[c].raw.at <= now /\ q'[c].pc = "done"
           /\ q[c].pc = "put" /\ q[c].slot.key \in Keys
           /\ \/ inner' = inner
              \/ \E V : StoredBy(inner, inner', q[c].slot.key, q[c].raw.at, V)
<1> DEFINE slot == q[c].slot
           raw == q[c].raw
           e == [expires |-> raw.at + slot.ttl, raw |-> raw]
<1>1. /\ PutOK(q[c]) /\ q[c].pc = "put"
      /\ inner' = Stored(inner, slot.key, raw, slot.ttl, raw.at)
      /\ q' = [q EXCEPT ![c] = [pc |-> "done", out |-> Fresh]]
  BY PcTold DEF Put, Ends, CacheInv, ClientInv
<1>2. /\ slot.key \in Keys /\ slot.key = <<raw.of.url, raw.of.user>>
      /\ raw.of.user # NoUser => raw.of.vary
      /\ slot.ttl = raw.of.ttl /\ slot.ttl \in Nat \ {0} /\ slot.of \in Requests /\ raw.of = slot.of
      /\ raw \in Responses /\ Cacheable(raw) /\ raw.size <= max_body
  BY <1>1 DEF PutOK, SlotOK
<1>3. EntryOK(slot.key, e)
  <2>1. e = [expires |-> e.expires, raw |-> e.raw] /\ e.raw = raw /\ e.expires = raw.at + slot.ttl
    OBVIOUS
  <2> HIDE DEF e
  <2>2. QED
    BY <1>2, <2>1 DEF EntryOK, Belongs
<1>4. raw.at \in Nat /\ raw.at <= now
  BY <1>1, <1>2 DEF Responses, CacheInv
<1>5. q'[c].pc = "done"
  BY <1>1 DEF CacheInv, ClientInv
<1>6. \/ inner' = inner
      \/ \E V : StoredBy(inner, inner', slot.key, raw.at, V)
  BY <1>1, <1>2, <1>3, <1>4, StoredOutcome DEF CacheInv
<1>7. QED
  BY <1>1, <1>2, <1>4, <1>5, <1>6


LEMMA CallTurned ==
    ASSUME ClientInv, NEW c \in Calls, CallStep(c)
    PROVE  \E x : /\ q' = [q EXCEPT ![c] = x]
                  /\ x.pc # "put" \/ x.raw.at = now
<1>1. \A out : Ends(c, out) => \E x : /\ q' = [q EXCEPT ![c] = x]
                                      /\ x.pc # "put" \/ x.raw.at = now
  <2> SUFFICES ASSUME NEW out, Ends(c, out)
               PROVE  \E x : /\ q' = [q EXCEPT ![c] = x]
                             /\ x.pc # "put" \/ x.raw.at = now
    OBVIOUS
  <2> DEFINE x == [pc |-> "done", out |-> out]
  <2>1. q' = [q EXCEPT ![c] = x] /\ x.pc # "put"
    BY DEF Ends
  <2> HIDE DEF x
  <2>2. QED
    BY <2>1
<1>2. ASSUME NEW r, Ask(c, r)
      PROVE  \E x : /\ q' = [q EXCEPT ![c] = x]
                    /\ x.pc # "put" \/ x.raw.at = now
  <2> DEFINE y == [pc |-> "dial", slot |-> SlotOf(r), url |-> r.url, peer |-> Nil, previous |-> 0]
  <2>1. (\E out : Ends(c, out)) \/ q' = [q EXCEPT ![c] = y]
    BY <1>2 DEF Ask
  <2>2. y.pc # "put"
    OBVIOUS
  <2> HIDE DEF y
  <2>3. QED
    BY <2>1, <2>2, <1>1
<1>3. ASSUME Dial(c) \/ \E u : Redirected(c, u)
      PROVE  \E x : /\ q' = [q EXCEPT ![c] = x]
                    /\ x.pc # "put" \/ x.raw.at = now
  <2>1. TripOK(q[c])
    BY <1>3, PcTold DEF Dial, Redirected, ClientInv
  <2>2. (\E out : Ends(c, out)) \/ \E x : q' = [q EXCEPT ![c] = x] /\ x.pc # "put"
    <3>1. ASSUME Dial(c)
          PROVE  \/ \E out : Ends(c, out)
                 \/ \E a : q' = [q EXCEPT ![c] = [q[c] EXCEPT !.pc = "sent", !.peer = a]]
      BY <3>1 DEF Dial
    <3>2. ASSUME NEW u, Redirected(c, u)
          PROVE  \/ \E out : Ends(c, out)
                 \/ \E n : q' = [q EXCEPT ![c] = [q[c] EXCEPT !.pc = "dial", !.url = u, !.previous = n]]
      <4>1. \/ Ends(c, Nil)
            \/ q' = [q EXCEPT ![c] = [q[c] EXCEPT !.pc = "dial", !.url = u, !.previous = @ + 1]]
        BY <3>2 DEF Redirected
      <4>2. [q[c] EXCEPT !.pc = "dial", !.url = u, !.previous = @ + 1]
              = [q[c] EXCEPT !.pc = "dial", !.url = u, !.previous = q[c].previous + 1]
        BY <2>1 DEF TripOK
      <4>3. QED
        BY <4>1, <4>2
    <3>3. ASSUME NEW a, q' = [q EXCEPT ![c] = [q[c] EXCEPT !.pc = "sent", !.peer = a]]
          PROVE  \E x : q' = [q EXCEPT ![c] = x] /\ x.pc # "put"
      <4> DEFINE y == [q[c] EXCEPT !.pc = "sent", !.peer = a]
      <4>1. y.pc # "put" /\ q' = [q EXCEPT ![c] = y]
        BY <2>1, <3>3 DEF TripOK
      <4> HIDE DEF y
      <4>2. QED
        BY <4>1
    <3>4. ASSUME NEW u, NEW n,
                 q' = [q EXCEPT ![c] = [q[c] EXCEPT !.pc = "dial", !.url = u, !.previous = n]]
          PROVE  \E x : q' = [q EXCEPT ![c] = x] /\ x.pc # "put"
      <4> DEFINE y == [q[c] EXCEPT !.pc = "dial", !.url = u, !.previous = n]
      <4>1. y.pc # "put" /\ q' = [q EXCEPT ![c] = y]
        BY <2>1, <3>4 DEF TripOK
      <4> HIDE DEF y
      <4>2. QED
        BY <4>1
    <3>5. QED
      BY <3>1, <3>2, <3>3, <3>4, <1>3
  <2>3. QED
    BY <2>2, <1>1
<1>4. ASSUME NEW head, NEW length, Answered(c, head, length)
      PROVE  \E x : /\ q' = [q EXCEPT ![c] = x]
                    /\ x.pc # "put" \/ x.raw.at = now
  <2> DEFINE y == [pc |-> "body", slot |-> q[c].slot, raw |-> [head |-> head, size |-> 0]]
  <2>1. Ends(c, Nil) \/ q' = [q EXCEPT ![c] = y]
    BY <1>4 DEF Answered
  <2>2. y.pc # "put"
    OBVIOUS
  <2> HIDE DEF y
  <2>3. QED
    BY <2>1, <2>2, <1>1
<1>5. ASSUME NEW n, Chunk(c, n)
      PROVE  \E x : /\ q' = [q EXCEPT ![c] = x]
                    /\ x.pc # "put" \/ x.raw.at = now
  <2>1. BodyOK(q[c])
    BY <1>5, PcTold DEF Chunk, ClientInv
  <2> DEFINE raw == [q[c].raw EXCEPT !.size = @ + n]
             y == [q[c] EXCEPT !.raw = raw]
  <2>2. Ends(c, Nil) \/ q' = [q EXCEPT ![c] = y]
    BY <1>5 DEF Chunk, ClientInv
  <2> HIDE DEF raw
  <2>3. y.pc = "body"
    BY <2>1 DEF BodyOK
  <2> HIDE DEF y
  <2>4. QED
    BY <2>2, <2>3, <1>1
<1>6. ASSUME BodyEnds(c)
      PROVE  \E x : /\ q' = [q EXCEPT ![c] = x]
                    /\ x.pc # "put" \/ x.raw.at = now
  <2> DEFINE raw == [head |-> q[c].raw.head, size |-> q[c].raw.size,
                     of |-> q[c].slot.of, at |-> now]
             y == [pc |-> "put", slot |-> q[c].slot, raw |-> raw]
  <2>1. Ends(c, Fresh) \/ q' = [q EXCEPT ![c] = y]
    BY <1>6 DEF BodyEnds, ClientInv
  <2>2. y.raw.at = now
    OBVIOUS
  <2> HIDE DEF y
  <2>3. QED
    BY <2>1, <2>2, <1>1
<1>7. ASSUME Put(c) \/ Fails(c)
      PROVE  \E x : /\ q' = [q EXCEPT ![c] = x]
                    /\ x.pc # "put" \/ x.raw.at = now
  BY <1>1, <1>7 DEF Put, Fails
<1>8. QED
  BY <1>2, <1>3, <1>4, <1>5, <1>6, <1>7 DEF CallStep

(* What a step does to the cache: a look-up, a store, a clear, or nothing. *)
LEMMA CacheStep ==
    ASSUME CacheInv, [HttpNext]_httpVars
    PROVE  \/ inner' = inner
           \/ \E k \in Keys : inner' = Looked(inner, k, now)
           \/ \E c \in Calls : Put(c)
           \/ inner' = Cleared(inner)
<1>1. ASSUME NEW c \in Calls, NEW r \in Requests, Ask(c, r)
      PROVE  inner' = inner \/ \E k \in Keys : inner' = Looked(inner, k, now)
  <2>1. SlotOf(r) # Nil => SlotOf(r).key \in Keys
    BY SlotCorrect DEF SlotOK
  <2>2. inner' = inner \/ (SlotOf(r) # Nil /\ inner' = Looked(inner, SlotOf(r).key, now))
    BY <1>1 DEF Ask
  <2>3. QED
    BY <2>1, <2>2
<1>2. ASSUME NEW c \in Calls, CallStep(c), ~Put(c), ~\E r \in Requests : Ask(c, r)
      PROVE  inner' = inner
  BY <1>2 DEF CallStep, Dial, Redirected, Answered, Chunk, BodyEnds, Fails, cacheVars
<1>3. QED
  BY <1>1, <1>2 DEF HttpNext, Clear, Tick, httpVars

LEMMA ClearedExact ==
    ASSUME CacheInv, inner' = Cleared(inner), ClientInv'
    PROVE  Exact(inner') /\ ~Over(inner') /\ inner'.bytes = 0
<1> DEFINE m == Cleared(inner)
<1>1. /\ m.entries = [k \in Keys |-> Nil] /\ m.order = <<>> /\ m.bytes = 0
      /\ m.earliest = Never
  BY DEF Cleared, Empty
<1>2. CacheOK(m)
  BY DEF ClientInv, CacheOK, Shaped, EntryOK, Belongs, Cacheable
<1> HIDE DEF m
<1>3. QED
  BY <1>1, <1>2, ExactEmpty DEF m

LEMMA CacheInvNext == CacheInv /\ [HttpNext]_httpVars => CacheInv'
<1> SUFFICES ASSUME CacheInv, [HttpNext]_httpVars
             PROVE  CacheInv'
  OBVIOUS
<1>1. ClientInv'
  BY NextInv DEF CacheInv
<1>2. Exact(inner') /\ ~Over(inner')
  <2>1. CASE inner' = inner
    BY <2>1 DEF CacheInv
  <2>2. ASSUME NEW k \in Keys, inner' = Looked(inner, k, now)
        PROVE  Exact(inner') /\ ~Over(inner')
    BY <2>2, LookedExact DEF CacheInv
  <2>3. ASSUME NEW c \in Calls, Put(c)
        PROVE  Exact(inner') /\ ~Over(inner')
    BY <2>3, PutOutcome DEF StoredBy, CacheInv
  <2>4. CASE inner' = Cleared(inner)
    BY <2>4, <1>1, ClearedExact
  <2>5. QED
    BY <2>1, <2>2, <2>3, <2>4, CacheStep
<1>3. now \in Nat /\ now' \in Nat /\ now <= now'
  <2>1. now' = now \/ now' = now + 1
    BY DEF HttpNext, CallStep, Ask, Dial, Redirected, Answered, Chunk, BodyEnds, Put, Fails,
           Clear, Tick, httpVars, cacheVars
  <2>2. QED
    BY <2>1 DEF CacheInv, ClientInv
<1>4. ASSUME NEW d \in Calls, q'[d].pc = "put"
      PROVE  q'[d].raw.at <= now'
  <2>1. CASE q'[d] = q[d]
    <3>1. q[d].raw.at <= now /\ q[d].raw.at \in Nat
      BY <2>1, <1>4, PcTold DEF CacheInv, ClientInv, PutOK, Responses
    <3>2. QED
      BY <3>1, <2>1, <1>3
  <2>2. ASSUME NEW c \in Calls, CallStep(c)
        PROVE  q'[d] = q[d] \/ q'[d].raw.at = now
    <3>1. PICK x : q' = [q EXCEPT ![c] = x] /\ (x.pc # "put" \/ x.raw.at = now)
      BY <2>2, CallTurned DEF CacheInv
    <3>2. QED
      BY <3>1, <1>4 DEF CacheInv, ClientInv
  <2>3. CASE q'[d].raw.at = now
    BY <2>3, <1>3
  <2>4. QED
    BY <2>1, <2>2, <2>3 DEF HttpNext, Clear, Tick, httpVars
<1>5. Exact(inner)' /\ (~Over(inner))'
  BY <1>2 DEF Exact, Over, Held, Bytes, CacheOK, Shaped, EntryOK, Belongs, Cacheable, Distinct, Listed
<1>6. QED
  BY <1>1, <1>4, <1>5 DEF CacheInv

LEMMA CacheInvAlways == HttpSpec => []CacheInv
  BY CacheInvInit, CacheInvNext, PTL DEF HttpSpec

(* The books of the cache agree after every operation, whatever calls are   *)
(* under way: order lists each entry once, bytes is what they add up to, the *)
(* caps are met, and nothing expires before earliest: http.rs HttpCache.    *)
THEOREM CacheExactAlways == HttpSpec => []CacheExact
<1>1. CacheInv => CacheExact
  <2> SUFFICES ASSUME CacheInv PROVE CacheExact
    OBVIOUS
  <2> DEFINE order == inner.order
  <2>1. /\ order \in Seq(Keys) /\ Distinct(order) /\ Listed(order) = Held(inner)
        /\ inner.bytes = Bytes(inner, Held(inner)) /\ ~Over(inner)
        /\ \A k \in Held(inner) : inner.earliest # Never /\ inner.earliest <= inner.entries[k].expires
    BY DEF CacheInv, Exact
  <2>2. DOMAIN order = 1 .. Len(order)
    BY <2>1
  <2>3. IsInjective(order) /\ ToSet(order) = Held(inner)
    BY <2>1, <2>2 DEF IsInjective, ToSet, Distinct, Listed
  <2>4. QED
    BY <2>1, <2>3 DEF CacheExact
<1>2. QED
  BY <1>1, CacheInvAlways, PTL

LEMMA RankOf ==
    ASSUME NEW m, Exact(m), NEW x, NEW y, Before(m.order, x, y)
    PROVE  Rank(m, x) < Rank(m, y) /\ Rank(m, x) \in Nat /\ Rank(m, y) \in Nat
<1>1. m.order \in Seq(Keys) /\ Distinct(m.order)
  BY DEF Exact
<1>2. DOMAIN m.order = 1 .. Len(m.order)
  BY <1>1
<1>3. PICK i \in 1 .. Len(m.order), j \in 1 .. Len(m.order) :
         i < j /\ m.order[i] = x /\ m.order[j] = y
  BY DEF Before
<1>4. \A a \in DOMAIN m.order : (m.order[a] = x => a = i) /\ (m.order[a] = y => a = j)
  BY <1>1, <1>2, <1>3 DEF Distinct
<1>5. Rank(m, x) = i /\ Rank(m, y) = j
  BY <1>2, <1>3, <1>4 DEF Rank
<1>6. QED
  BY <1>3, <1>5

(* One entry that is good at this instant went, and not by clear. *)
GivenUp(k) == IsLive(inner, k, now) /\ inner'.entries[k] = Nil /\ inner'.bytes # 0

LEMMA GivenUpByPut ==
    ASSUME CacheInv, [HttpNext]_httpVars, NEW k \in Keys, GivenUp(k)
    PROVE  \E c \in Calls : Put(c)
<1>1. inner.entries[k] # Nil /\ inner'.entries[k] = Nil /\ inner'.bytes # 0
  BY DEF GivenUp, IsLive
<1>2. inner' # inner
  BY <1>1
<1>3. ASSUME NEW x \in Keys, inner' = Looked(inner, x, now)
      PROVE  FALSE
  <2>1. Looked(inner, x, now).entries[k] = inner.entries[k]
    BY LookedExact DEF GivenUp, CacheInv
  <2>2. QED
    BY <1>1, <1>3, <2>1
<1>4. ASSUME inner' = Cleared(inner)
      PROVE  FALSE
  BY <1>1, <1>4, ClearedExact, NextInv DEF CacheInv
<1>5. QED
  BY <1>2, <1>3, <1>4, CacheStep

LEMMA OldestStep ==
    ASSUME CacheInv, [HttpNext]_httpVars, NEW k \in Keys, GivenUp(k)
    PROVE  \E c \in Calls :
              LET kept == Held(inner')
                  raw == inner.entries[k].raw IN
              /\ q[c].pc = "put" /\ q'[c].pc = "done"
              /\ q[c].slot.key \in kept
              /\ \A x \in kept : IsLive(inner', x, q[c].raw.at)
              /\ \A x \in kept \ {q[c].slot.key} : Rank(inner, k) < Rank(inner, x)
              /\ (\A x \in Held(inner) \ (kept \cup {k}) :
                     IsLive(inner, x, q[c].raw.at) => Rank(inner, x) < Rank(inner, k)) =>
                    \/ max_entries # 0 /\ Cardinality(kept) + 1 > max_entries
                    \/ max_bytes # 0 /\ inner'.bytes + raw.size > max_bytes
<1>1. PICK c \in Calls : Put(c)
  BY GivenUpByPut
<1> DEFINE kept == Held(inner')
           t == q[c].raw.at
           kw == q[c].slot.key
<1>2. /\ t \in Nat /\ t <= now /\ q'[c].pc = "done" /\ q[c].pc = "put" /\ kw \in Keys
      /\ inner' = inner \/ \E V : StoredBy(inner, inner', kw, t, V)
  BY <1>1, PutOutcome
<1>3. inner.entries[k] # Nil /\ inner'.entries[k] = Nil /\ k \in Held(inner)
  BY DEF GivenUp, IsLive, Held
<1>4. PICK V : StoredBy(inner, inner', kw, t, V)
  BY <1>2, <1>3
<1> HIDE DEF t, kw
<1>5. IsLive(inner, k, t)
  <2>1. inner.entries[k].expires \in Nat /\ inner.entries[k].expires > now /\ now \in Nat
    BY <1>3, EntryTold DEF GivenUp, IsLive, CacheInv, ClientInv
  <2>2. QED
    BY <2>1, <1>2, <1>3 DEF IsLive
<1>6. k # kw /\ kw \in kept
  BY <1>3, <1>4 DEF StoredBy, Held
<1>7. k \in V
  BY <1>3, <1>4, <1>5, <1>6 DEF StoredBy
<1>8. Exact(inner)
  BY DEF CacheInv
<1>9. \A x \in kept : IsLive(inner', x, t)
  BY <1>4, <1>7 DEF StoredBy
<1>10. \A x \in kept \ {kw} : Rank(inner, k) < Rank(inner, x)
  BY <1>4, <1>7, <1>8, RankOf DEF StoredBy
<1>11. ASSUME \A x \in Held(inner) \ (kept \cup {k}) :
                 IsLive(inner, x, t) => Rank(inner, x) < Rank(inner, k)
       PROVE  OverBy(inner', inner.entries[k].raw.size)
  <2>1. PICK y \in V : /\ inner'.entries[y] = Nil
                       /\ \A z \in V \ {y} : Before(inner.order, z, y)
                       /\ OverBy(inner', inner.entries[y].raw.size)
    BY <1>4, <1>7 DEF StoredBy
  <2>2. CASE y = k
    BY <2>1, <2>2
  <2>3. CASE y # k
    <3>1. Before(inner.order, k, y)
      BY <2>1, <2>3, <1>7
    <3>2. Rank(inner, k) < Rank(inner, y) /\ Rank(inner, k) \in Nat /\ Rank(inner, y) \in Nat
      BY <3>1, <1>8, RankOf
    <3>3. IsLive(inner, y, t) /\ y \in Keys
      BY <1>4 DEF StoredBy
    <3>4. y \in Held(inner) \ (kept \cup {k})
      BY <2>1, <2>3, <3>3 DEF IsLive, Held
    <3>5. Rank(inner, y) < Rank(inner, k)
      BY <3>3, <3>4, <1>11
    <3>6. QED
      BY <3>2, <3>5
  <2>4. QED
    BY <2>2, <2>3
<1>12. QED
  BY <1>2, <1>6, <1>9, <1>10, <1>11 DEF OverBy, kw, t

(* An entry that is still good is given up only for room, to the response   *)
(* of one call: nothing expired is left, all that is kept was used after it, *)
(* and with one entry more the cache would be over its caps.                *)
THEOREM OldestGoFirstAlways == HttpSpec => OldestGoFirst
<1> DEFINE Body == \A k \in Keys : GivenUp(k) =>
              \E c \in Calls :
                  LET kept == Held(inner')
                      raw == inner.entries[k].raw IN
                  /\ q[c].pc = "put" /\ q'[c].pc = "done"
                  /\ q[c].slot.key \in kept
                  /\ \A x \in kept : IsLive(inner', x, q[c].raw.at)
                  /\ \A x \in kept \ {q[c].slot.key} : Rank(inner, k) < Rank(inner, x)
                  /\ (\A x \in Held(inner) \ (kept \cup {k}) :
                         IsLive(inner, x, q[c].raw.at) => Rank(inner, x) < Rank(inner, k)) =>
                        \/ max_entries # 0 /\ Cardinality(kept) + 1 > max_entries
                        \/ max_bytes # 0 /\ inner'.bytes + raw.size > max_bytes
<1>1. CacheInv /\ [HttpNext]_httpVars => [Body]_httpVars
  BY OldestStep
<1> HIDE DEF Body
<1>2. HttpSpec => [][Body]_httpVars
  BY <1>1, CacheInvAlways, PTL DEF HttpSpec
<1>3. QED
  BY <1>2 DEF Body, GivenUp, OldestGoFirst

=============================================================================
