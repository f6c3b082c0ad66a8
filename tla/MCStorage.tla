----------------------------- MODULE MCStorage -----------------------------
(* The storage modules on small instances. *)
EXTENDS DbTx, TLC

CONSTANTS v1, c1, c2, b1

Symmetry == Permutations({c1, c2})

CallVms == (c1 :> v1) @@ (c2 :> v1)

MCOps == {Op("set", b1, Nil, 0, 1, FALSE),
          Op("add", b1, Nil, 0, 0, FALSE),
          Op("incr", Nil, Nil, 1, 1, TRUE),
          Op("update", Nil, Nil, 0, 0, FALSE)}
=============================================================================
