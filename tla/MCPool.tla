------------------------------- MODULE MCPool -------------------------------
(***************************************************************************)
(* Pool on a small instance: one run more than there are VMs, so that the  *)
(* queue is used.  Which VM is which, and which run, makes no difference.  *)
(***************************************************************************)
EXTENDS Pool, TLC

Symmetry == Permutations(Vms) \cup Permutations(Runs)
=============================================================================
