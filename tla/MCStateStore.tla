---------------------------- MODULE MCStateStore ----------------------------
(***************************************************************************)
(* StateStore on small instances, with caps to meet and a client that      *)
(* races on what it read.                                                  *)
(***************************************************************************)
EXTENDS StateStore, TLC

Symmetry == Permutations(Keys) \cup Permutations(Clients)
=============================================================================
