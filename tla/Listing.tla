------------------------------- MODULE Listing -------------------------------
(***************************************************************************)
(* What the stores and the queues of the program are planned from: a list  *)
(* without some of its elements, and what the elements of a set add up to. *)
(***************************************************************************)
EXTENDS Integers, Sequences, FiniteSets, Functions

(* list without the elements of S, the others in their order. *)
Unlisted(list, S) ==
    LET kept[i \in 0 .. Len(list)] ==
            IF i = 0
            THEN <<>>
            ELSE IF list[i] \in S THEN kept[i - 1] ELSE Append(kept[i - 1], list[i])
    IN  kept[Len(list)]

(* The sum of w[x] for every x of S. *)
SumOver(w, S) == FoldFunctionOnSet(+, 0, w, S)
=============================================================================
