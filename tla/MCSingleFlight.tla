--------------------------- MODULE MCSingleFlight ---------------------------
(***************************************************************************)
(* SingleFlight on small instances.  Spec is checked with one key and all  *)
(* the ways a call can lose its run; NestSpec with two keys and enough     *)
(* calls for a cycle of waits across two VMs, leaving out what only ends   *)
(* runs.                                                                   *)
(***************************************************************************)
EXTENDS SingleFlight, TLC

Symmetry == Permutations(Keys) \cup Permutations(Vms) \cup Permutations(Frames)

NestInit ==
    /\ cell = [k \in Keys |-> "missing"]
    /\ flights = [k \in Keys |-> NoFlight]
    /\ next_flight = 0
    /\ leads = [v \in Vms |-> [all |-> 0, nested |-> 0, depth |-> 0]]
    /\ running = Vms
    /\ frames = [c \in Frames |-> Idle]

NestNext ==
    \E c \in Frames :
        \/ \E v \in Vms, k \in Keys : Call(c, v, k)
        \/ \E p \in Frames, k \in Keys : CallInside(c, p, k)
        \/ Join(c)
        \/ Wake(c)
        \/ \E stores \in BOOLEAN : LoaderEnds(c, stores)
        \/ Drop(c)
        \/ Kill(c)
        \/ Collect(c)

NestSpec == NestInit /\ [][NestNext]_vars
=============================================================================
