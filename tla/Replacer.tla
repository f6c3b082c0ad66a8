------------------------------ MODULE Replacer ------------------------------
(***************************************************************************)
(* lur.text.replacer (capabilities/text.rs).  A node of the byte trie is   *)
(* the string that leads to it; a replacement is the number of its pair.   *)
(***************************************************************************)
EXTENDS Integers, Sequences, FiniteSets

NoPair == 0

Least(S) == CHOOSE x \in S : \A y \in S : x <= y
StartsWith(text, s) == Len(s) <= Len(text) /\ SubSeq(text, 1, Len(s)) = s

(* Builder::add, for every pair: the nodes, the first pair that ends at a  *)
(* node and the smallest pair at or below it.                              *)
Nodes(olds) ==
    {<<>>} \cup UNION {{SubSeq(olds[i], 1, n) : n \in 1 .. Len(olds[i])} : i \in DOMAIN olds}

Trie(olds) ==
    LET here(s) == {i \in DOMAIN olds : olds[i] = s}
        below(s) == {i \in DOMAIN olds : StartsWith(olds[i], s)} IN
    [s \in Nodes(olds) |->
        [pair |-> IF here(s) = {} THEN NoPair ELSE Least(here(s)),
         min_pair |-> IF below(s) = {} THEN Len(olds) + 1 ELSE Least(below(s))]]

(* Mutant: the descent stops at the first match. *)
StopsAtMatch(trie, mode, node, best) == best # NoPair

(* Nothing deeper can be listed earlier than the best pair so far. *)
Pruned(trie, mode, node, best) ==
    mode = "first" /\ best # NoPair /\ trie[node].min_pair >= best

(* lookup: from the root along the text, as deep as the trie goes.         *)
Best(trie, mode, node, skip_empty, best) ==
    LET p == trie[node].pair IN
    IF p = NoPair \/ (node = <<>> /\ skip_empty)
    THEN best
    ELSE IF mode = "longest" \/ best = NoPair \/ p < best THEN p ELSE best

Deeper(trie, mode, node, skip_empty, prior) ==
    IF ~prior.goes \/ node \notin DOMAIN trie
    THEN [best |-> prior.best, goes |-> FALSE]
    ELSE LET best == Best(trie, mode, node, skip_empty, prior.best) IN
         [best |-> best, goes |-> ~Pruned(trie, mode, node, best)]

Descend(trie, mode, text, skip_empty) ==
    LET at[n \in 0 .. Len(text)] ==
            Deeper(trie, mode, SubSeq(text, 1, n), skip_empty,
                   IF n = 0 THEN [best |-> NoPair, goes |-> TRUE] ELSE at[n - 1]) IN
    at[Len(text)].best

(* replace: i is the place in text, last the end of what is copied, and an *)
(* empty match is not taken twice at one place.  The budget and the        *)
(* deadline are left out.                                                  *)
Rest(text, i) == SubSeq(text, i + 1, Len(text))
Copied(text, last, i) == SubSeq(text, last + 1, i)

Turn(trie, olds, news, mode, text, s) ==
    LET p == Descend(trie, mode, Rest(text, s.i), s.empty)
        i == s.i + Len(olds[p]) IN
    IF s.i > Len(text)
    THEN s
    ELSE IF p = NoPair
    THEN [i |-> s.i + 1, last |-> s.last, empty |-> FALSE, out |-> s.out]
    ELSE [i |-> i, last |-> i, empty |-> Len(olds[p]) = 0,
          out |-> s.out \o Copied(text, s.last, s.i) \o news[p]]

Replaced(trie, olds, news, mode, text) ==
    LET after[n \in 0 .. 2 * Len(text) + 2] ==
            IF n = 0
            THEN [i |-> 0, last |-> 0, empty |-> FALSE, out |-> <<>>]
            ELSE Turn(trie, olds, news, mode, text, after[n - 1])
        end == after[2 * Len(text) + 2] IN
    end.out \o Copied(text, end.last, Len(text))

-----------------------------------------------------------------------------
(* What the README promises, without a trie: at each place the first       *)
(* listed pair (or the longest) of those that begin there is taken, the    *)
(* text goes on after it, and no empty match follows an empty one.         *)
Chosen(olds, mode, text, skip_empty) ==
    LET able == {i \in DOMAIN olds : StartsWith(text, olds[i]) /\ ~(skip_empty /\ olds[i] = <<>>)}
        long == {i \in able : \A j \in able : Len(olds[j]) <= Len(olds[i])} IN
    IF able = {} THEN NoPair ELSE Least(IF mode = "longest" THEN long ELSE able)

IsEmptyMatch(olds, p) == p # NoPair /\ olds[p] = <<>>

(* What the last n characters become: an empty match, if that is taken, is *)
(* put before what is matched or copied at its place.                      *)
Pass(olds, news, mode, text) ==
    LET from[n \in 0 .. Len(text)] ==
            LET rest == Rest(text, Len(text) - n)
                p == Chosen(olds, mode, rest, FALSE)
                q == IF IsEmptyMatch(olds, p) THEN Chosen(olds, mode, rest, TRUE) ELSE p IN
            (IF IsEmptyMatch(olds, p) THEN news[p] ELSE <<>>)
            \o (IF q # NoPair
                THEN news[q] \o from[n - Len(olds[q])]
                ELSE IF n = 0 THEN <<>> ELSE <<rest[1]>> \o from[n - 1]) IN
    from[Len(text)]

(* The trie with its pruning and the loop with its two marks replace what  *)
(* the definition above does, for either mode (text.rs:181-258).           *)
InOnePass(olds, news, mode, text) ==
    Replaced(Trie(olds), olds, news, mode, text) = Pass(olds, news, mode, text)
=============================================================================
