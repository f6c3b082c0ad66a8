------------------------------ MODULE MCServe -------------------------------
(***************************************************************************)
(* Serve on a small instance: one VM that connections and the runs of the  *)
(* jobs compete for.  Which run is which makes no difference to safety.    *)
(***************************************************************************)
EXTENDS Serve, TLC

Symmetry == Permutations(Runs)
=============================================================================
