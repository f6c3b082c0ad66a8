--------------------------- MODULE StateRegister ---------------------------
(***************************************************************************)
(* What lur.state promises about the value of a key, with no versions,     *)
(* clocks, sizes or recency: each operation reads and writes it in one     *)
(* indivisible step, a compare-and-set commits only on the very value its  *)
(* caller read, and only a value that is evictable or expires disappears   *)
(* on its own.  StateStore implements it.                                  *)
(***************************************************************************)
CONSTANTS Keys, Values, Clients,
          Nil,      \* no value
          NoRead    \* no compare-and-set in progress

VARIABLES
    reg,     \* [Keys -> Values \cup {Nil}]
    pinned,  \* keys whose value stays until it is written
    seen,    \* what each client read, between its read and its commit
    torn     \* clients whose key was written or lost since they read a value

regVars == <<reg, pinned, seen, torn>>

RegInit ==
    /\ reg = [k \in Keys |-> Nil]
    /\ pinned = {}
    /\ seen = [c \in Clients |-> NoRead]
    /\ torn = {}

Torn(S) == {c \in Clients : /\ seen[c] # NoRead
                            /\ seen[c].value # Nil
                            /\ seen[c].key \in S}

(* k gets v, and the values of L are lost to make room. *)
Assign(k, v, L) ==
    /\ L \cap (pinned \cup {k}) = {}
    /\ reg' = [x \in Keys |-> IF x = k THEN v ELSE IF x \in L THEN Nil ELSE reg[x]]
    /\ pinned' \in {pinned \ {k}} \cup (IF v = Nil THEN {} ELSE {pinned \cup {k}})

Write(k, v, L) ==
    /\ Assign(k, v, L)
    /\ torn' = torn \cup Torn(L \cup {k})
    /\ UNCHANGED seen

Lose(L) ==
    /\ L \cap pinned = {}
    /\ reg' = [x \in Keys |-> IF x \in L THEN Nil ELSE reg[x]]
    /\ torn' = torn \cup Torn(L)
    /\ UNCHANGED <<pinned, seen>>

Read(c, k) ==
    /\ seen[c] = NoRead
    /\ seen' = [seen EXCEPT ![c] = [key |-> k, value |-> reg[k]]]
    /\ UNCHANGED <<reg, pinned, torn>>

Commit(c, v, L) ==
    /\ seen[c] # NoRead /\ c \notin torn
    /\ reg[seen[c].key] = seen[c].value
    /\ Assign(seen[c].key, v, L)
    /\ seen' = [seen EXCEPT ![c] = NoRead]
    /\ torn' = (torn \cup Torn(L \cup {seen[c].key})) \ {c}

Abandon(c) ==
    /\ seen[c] # NoRead
    /\ seen' = [seen EXCEPT ![c] = NoRead]
    /\ torn' = torn \ {c}
    /\ UNCHANGED <<reg, pinned>>

RegNext ==
    \/ \E L \in SUBSET Keys :
        \/ Lose(L)
        \/ \E v \in Values \cup {Nil} :
            \/ \E k \in Keys : Write(k, v, L)
            \/ \E c \in Clients : Commit(c, v, L)
    \/ \E c \in Clients : Abandon(c) \/ \E k \in Keys : Read(c, k)

RegSpec == RegInit /\ [][RegNext]_regVars
=============================================================================
