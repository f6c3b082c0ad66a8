----------------------------- MODULE HttpClient -----------------------------
(***************************************************************************)
(* lur.http (capabilities/http.rs): calls of a process that share its      *)
(* response cache and its policy.  A call checks its URL, looks in the     *)
(* cache, follows the server's redirects hop by hop, reads the body under  *)
(* max_body, and stores what may be stored.                                *)
(*                                                                         *)
(* A request is what the key digests: its URL and the credential header it *)
(* carries (NoUser: none).  The server, the resolver and the length of a   *)
(* body are choices of the environment.                                    *)
(***************************************************************************)
EXTENDS HttpCache

CONSTANTS
    Calls,                \* places of calls, each used again and again
    Urls, NoUser, Users,  \* Users are the values of a credential header, NoUser among them
    Hosts, Ports,
    HostOf, PortOf,       \* the host and the port of each URL
    Literals,             \* the hosts that are IP literals
    Addresses, Private,   \* addresses, and those is_private_ip refuses
    AddressOf,            \* the address an IP literal is
    net_allow,            \* the allowlist: rules of a host and a port
    Wild,                  \* "*", or no port
    allow_private_net,
    max_body, MAX_REDIRECTS,
    Ttls,                 \* the values of opts.cache.ttl_ms
    Sizes                 \* the sizes a chunk may have

VARIABLE q  \* the calls

httpVars == <<inner, now, q>>

ASSUME KeyAssumption == Keys = Urls \X Users /\ NoUser \in Users
ASSUME HttpAssumption ==
    /\ max_body \in Nat /\ MAX_REDIRECTS \in Nat /\ Ttls \subseteq Nat \ {0} /\ Sizes \subseteq Nat
    /\ allow_private_net \in BOOLEAN /\ Private \subseteq Addresses
    /\ HostOf \in [Urls -> Hosts] /\ PortOf \in [Urls -> Ports]
    /\ AddressOf \in [Literals -> Addresses]
    /\ Wild \notin Hosts /\ Wild \notin Ports

Idle == [pc |-> "idle"]

HttpInit == CacheInit /\ q = [c \in Calls |-> Idle]

-----------------------------------------------------------------------------
(* Mutant: a credential header does not keep a request from the cache. *)
SlotOfAnyone(r) == IF r.ttl = Nil THEN Nil ELSE [key |-> <<r.url, NoUser>>, ttl |-> r.ttl, of |-> r]

(* parse_cache and cache_key: no slot without opts.cache, nor when a       *)
(* credential header is not named in vary.                                 *)
SlotOf(r) ==
    IF r.ttl = Nil \/ (r.user # NoUser /\ ~r.vary)
    THEN Nil
    ELSE [key |-> <<r.url, r.user>>, ttl |-> r.ttl, of |-> r]

(* allows_net: a rule names a host and a port, or leaves either open. *)
AllowsNet(u) ==
    \E rule \in net_allow : rule.host \in {Wild, HostOf[u]} /\ rule.port \in {Wild, PortOf[u]}

(* Mutant: an IP literal is left to the resolver, which never sees it. *)
AllowedByName(u) == AllowsNet(u)

(* url_allowed: the only check of an IP literal's address. *)
Allowed(u) ==
    /\ AllowsNet(u)
    /\ HostOf[u] \in Literals => (allow_private_net \/ AddressOf[HostOf[u]] \notin Private)

(* SsrfResolver::resolve: the addresses kept of an answer. *)
Kept(answer) == IF allow_private_net THEN answer ELSE answer \ Private

(* cacheable: a 2xx response that sets no cookie *)
Cacheable(raw) == raw.head = "ok"

Fresh == [cached |-> FALSE]

Ends(c, out) == q' = [q EXCEPT ![c] = [pc |-> "done", out |-> out]]

(* build_request, then the lookup. *)
Ask(c, r) ==
    /\ q[c].pc \in {"idle", "done"}
    /\ IF ~Allowed(r.url) \/ (r.ttl # Nil /\ ~r.get)
       THEN Ends(c, Nil) /\ UNCHANGED inner
       ELSE LET slot == SlotOf(r)
                hit == IF slot = Nil THEN Nil ELSE Found(inner, slot.key, now) IN
            /\ inner' = IF slot = Nil THEN inner ELSE Looked(inner, slot.key, now)
            /\ IF hit # Nil
               THEN Ends(c, [of |-> r, raw |-> hit, cached |-> TRUE, at |-> now])
               ELSE q' = [q EXCEPT ![c] = [pc |-> "dial", slot |-> slot,
                                           url |-> r.url, peer |-> Nil, previous |-> 0]]
    /\ UNCHANGED now

(* The connector dials a literal itself and asks the resolver for a name. *)
Dial(c) ==
    /\ q[c].pc = "dial"
    /\ LET h == HostOf[q[c].url]
           connect(a) == q' = [q EXCEPT ![c] = [q[c] EXCEPT !.pc = "sent", !.peer = a]] IN
       IF h \in Literals
       THEN connect(AddressOf[h])
       ELSE \E answer \in SUBSET Addresses :
               IF Kept(answer) = {}
               THEN Ends(c, Nil)
               ELSE \E a \in Kept(answer) : connect(a)
    /\ UNCHANGED cacheVars

(* The custom redirect policy of build_client; previous counts the URLs    *)
(* requested so far, the first one included.                               *)
Redirected(c, u) ==
    /\ q[c].pc = "sent"
    /\ IF q[c].previous + 1 >= MAX_REDIRECTS \/ ~Allowed(u)
       THEN Ends(c, Nil)
       ELSE q' = [q EXCEPT ![c] = [q[c] EXCEPT !.pc = "dial", !.url = u, !.previous = @ + 1]]
    /\ UNCHANGED cacheVars

(* The head of the response; length is its Content-Length, or Nil. *)
Answered(c, head, length) ==
    /\ q[c].pc = "sent"
    /\ IF length # Nil /\ length > max_body
       THEN Ends(c, Nil)
       ELSE q' = [q EXCEPT ![c] =
                     [pc |-> "body", slot |-> q[c].slot, raw |-> [head |-> head, size |-> 0]]]
    /\ UNCHANGED cacheVars

(* One turn of read_response's loop. *)
Chunk(c, n) ==
    /\ q[c].pc = "body"
    /\ IF q[c].raw.size + n > max_body
       THEN Ends(c, Nil)
       ELSE q' = [q EXCEPT ![c].raw.size = @ + n]
    /\ UNCHANGED cacheVars

(* The end of the body.  put reads the clock before it takes the lock. *)
BodyEnds(c) ==
    /\ q[c].pc = "body"
    /\ IF q[c].slot # Nil /\ Cacheable(q[c].raw)
       THEN q' = [q EXCEPT ![c] = 
                     [pc |-> "put", slot |-> @.slot,
                      raw |-> [head |-> @.raw.head, size |-> @.raw.size,
                               of |-> @.slot.of, at |-> now]]]
       ELSE Ends(c, Fresh)
    /\ UNCHANGED cacheVars

Put(c) ==
    /\ q[c].pc = "put"
    /\ inner' = Stored(inner, q[c].slot.key, q[c].raw, q[c].slot.ttl, q[c].raw.at)
    /\ Ends(c, Fresh)
    /\ UNCHANGED now

(* An error on the wire, opts.timeout, or the end of the run. *)
Fails(c) ==
    /\ q[c].pc \in {"dial", "sent", "body"}
    /\ Ends(c, Nil)
    /\ UNCHANGED cacheVars

(* lur.http.cache_clear *)
Clear == inner # Cleared(inner) /\ inner' = Cleared(inner) /\ UNCHANGED <<now, q>>

Tick == now < MaxNow /\ now' = now + 1 /\ UNCHANGED <<inner, q>>

(* vary: the credential header the request carries is in opts.cache.vary. *)
Requests == {r \in [url : Urls, user : Users, vary : BOOLEAN, get : BOOLEAN, ttl : Ttls \cup {Nil}] :
                r.user = NoUser => ~r.vary}

(* What the cache keeps of a response: of is the request, at when it came. *)
Responses == [head : {"ok", "other"}, size : Nat, of : Requests, at : Nat]

ASSUME NilAssumption == Nil \notin [expires : Nat, raw : Responses]

CallStep(c) ==
    \/ \E r \in Requests : Ask(c, r)
    \/ Dial(c)
    \/ \E u \in Urls : Redirected(c, u)
    \/ \E head \in {"ok", "other"}, length \in Sizes \cup {Nil} :
          Answered(c, head, length)
    \/ \E n \in Sizes : Chunk(c, n)
    \/ BodyEnds(c) \/ Put(c) \/ Fails(c)

HttpNext == (\E c \in Calls : CallStep(c)) \/ Clear \/ Tick

HttpSpec == HttpInit /\ [][HttpNext]_httpVars

-----------------------------------------------------------------------------
(* What a call is handed from the cache was fetched for the same URL and   *)
(* the same credential, under a header both scripts named, set no cookie,  *)
(* and is no older than its fetch allowed (http.rs:41-45, 576-610).        *)
HitIsOwn ==
    \A c \in Calls :
        (q[c].pc = "done" /\ q[c].out # Nil /\ q[c].out.cached) =>
            LET r == q[c].out.of
                raw == q[c].out.raw IN
            /\ raw.of.url = r.url /\ raw.of.user = r.user
            /\ r.user # NoUser => (r.vary /\ raw.of.vary)
            /\ Cacheable(raw) /\ raw.size <= max_body
            /\ q[c].out.at < raw.at + raw.of.ttl

(* The client connects only to a host of the allowlist, and to a private   *)
(* address only if the policy grants it, whichever hop led there and       *)
(* whether it was named or written as an address (http.rs:189-271).        *)
EveryHopVetted ==
    \A c \in Calls :
        q[c].pc = "sent" => /\ AllowsNet(q[c].url)
                            /\ allow_private_net \/ q[c].peer \notin Private

Rank(m, k) == CHOOSE i \in DOMAIN m.order : m.order[i] = k

(* An entry that is still good when the storing call reads the clock is    *)
(* given up only for room: no expired entry is left, everything kept was   *)
(* used after it, the new response is kept, and with one entry more the    *)
(* cache would be over (http.rs:339-345).  Only clear drops others.        *)
OldestGoFirst ==
    [][\A k \in Keys :
          (IsLive(inner, k, now) /\ inner'.entries[k] = Nil /\ inner'.bytes # 0) =>
              \E c \in Calls :
                  LET kept == Held(inner')
                      raw == inner.entries[k].raw IN
                  /\ q[c].pc = "put" /\ q'[c].pc = "done"
                  /\ q[c].slot.key \in kept
                  /\ \A x \in kept : IsLive(inner', x, q[c].raw.at)
                  /\ \A x \in kept \ {q[c].slot.key} : Rank(inner, k) < Rank(inner, x)
                  /\ (\A x \in Held(inner) \ (kept \cup {k}) :
                         IsLive(inner, x, q[c].raw.at) => Rank(inner, x) < Rank(inner, k)) =>
                        \/ max_entries # 0 /\ Cardinality(kept) + 1 > max_entries
                        \/ max_bytes # 0 /\ inner'.bytes + raw.size > max_bytes]_httpVars
=============================================================================
