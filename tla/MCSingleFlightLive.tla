------------------------- MODULE MCSingleFlightLive -------------------------
(***************************************************************************)
(* Liveness of SingleFlight under two workloads.  "coroutines": calls of   *)
(* one key from either VM, with runs that start and end and coroutines     *)
(* that return or park.  "nested": four calls on two keys, among them one  *)
(* from inside another's loader, so that calls of two VMs wait for one     *)
(* another; this is the least with a waiter that no run's end frees.       *)
(***************************************************************************)
EXTENDS MCSingleFlight

CONSTANTS k1, k2, v1, v2, c1, c2, c3, c4

VARIABLE workload

LiveInit ==
    \/ workload = "coroutines" /\ Init
    \/ workload = "nested" /\ NestInit

Joins(c) == frames[c] # Idle /\ frames[c].pc = "join"

(* Bound: flights of "coroutines". *)
Few == next_flight + Cardinality({c \in Frames : Joins(c) \/ Waiting(c)}) < 2

Coroutines ==
    \/ Few /\ Call(c1, v1, k1)
    \/ Few /\ \E v \in Vms : Call(c2, v, k1)
    \/ \E c \in {c1, c2} :
        \/ \E p \in {c1, c2} : Few /\ CallInside(c, p, k1)
        \/ LoaderEnds(c, TRUE)
        \/ ResumeParked(c)
    \/ \E v \in Vms : StartRun(v) \/ Resume(v) \/ ResumeReturns(v)
    \/ \E to \in {"written", "missing"} : CellChanges(k1, to)

(* Here no loader has a value to store: every call misses. *)
Nested ==
    \/ Call(c1, v1, k1)
    \/ \E k \in Keys : Call(c2, v1, k)
    \/ Call(c3, v2, k2)
    \/ \E p \in Frames, k \in Keys : CallInside(c4, p, k)

LiveNext ==
    /\ \/ workload = "coroutines" /\ Coroutines
       \/ workload = "nested" /\ Nested
       \/ \E c \in Frames :
            \/ Join(c)
            \/ Wake(c)
            \/ LoaderEnds(c, FALSE)
            \/ Drop(c)
            \/ Kill(c)
            \/ Collect(c)
       \/ \E v \in Vms : EndRun(v)
    /\ UNCHANGED workload

LiveSpec == LiveInit /\ [][LiveNext]_<<vars, workload>> /\ Fairness
=============================================================================
