---------------------------- MODULE Serve_proofs ----------------------------
(***************************************************************************)
(* Proofs about Pool, for any number of VMs and runs, any time limits,     *)
(* texts and clock, and about Serve, for any jobs, and whatever happens in *)
(* the pool.                                                               *)
(***************************************************************************)
EXTENDS Serve, TLAPS, FiniteSetTheorems

-----------------------------------------------------------------------------
(* Types *)

(* The queue holds runs that wait, each once. *)
QueueInv ==
    /\ \A i \in DOMAIN waiters : At(waiters[i], "queued")
    /\ \A i, j \in DOMAIN waiters : waiters[i] = waiters[j] => i = j

(* A run on a VM has it alone, and a VM is missing only for a run. *)
VmsOut ==
    /\ \A r \in Runs : HasVm(r) => runs[r].vm \in Vms \ available
    /\ \A r, s \in Runs : HasVm(r) /\ HasVm(s) /\ runs[r].vm = runs[s].vm => r = s
    /\ \A v \in Vms \ available : \E r \in Runs : HasVm(r) /\ runs[r].vm = v

LEMMA NoRunType == NoRun \in Run
<1>1. (CHOOSE k \in Kinds : TRUE) \in Kinds
  BY SomeKind
<1>2. QED
  BY <1>1 DEF NoRun, Run, Instant

(* What the steps of a run write in its record. *)
LEMMA Fields ==
    ASSUME NEW run \in Run
    PROVE  /\ \A pc \in {"granted", "returning", "done", "classified", "running", "ended"} :
                [run EXCEPT !.pc = pc] \in Run
           /\ \A v \in Vms : [run EXCEPT !.pc = "held", !.vm = v] \in Run
           /\ [run EXCEPT !.pc = "returning", !.vm = NoVm] \in Run
           /\ \A at \in Instant : [run EXCEPT !.pc = "running", !.at = at] \in Run
           /\ \A x \in Texts : [run EXCEPT !.raised = @ \cup {x}] \in Run
           /\ \A o \in ErrorText \cup {"values", "elapsed"} :
                [run EXCEPT !.pc = "ended", !.outcome = o] \in Run
           /\ \A a \in Texts \cup {"none", "values", "error", "timeout"} :
                [run EXCEPT !.pc = "classified", !.answer = a] \in Run
           /\ \A pc \in {"granted", "queued"}, k \in Kinds :
                [run EXCEPT !.kind = k, !.pc = pc] \in Run
  BY DEF Run

LEMMA VmFields ==
    ASSUME NEW m \in Vm
    PROVE  /\ \A at \in Instant : [m EXCEPT !.deadline = at] \in Vm
           /\ \A b \in BOOLEAN : [m EXCEPT !.in_request = b, !.pending = NoText] \in Vm
           /\ \A x \in Texts : [m EXCEPT !.pending = x] \in Vm
           /\ [deadline |-> Never, in_request |-> FALSE, pending |-> NoText] \in Vm
  BY DEF Vm, Instant

LEMMA ReleasedType ==
    ASSUME TypeOK, NEW fr \in [Runs -> Run], Released(fr, waiters)
    PROVE  waiters' \in Seq(Runs) /\ permits' \in Nat /\ runs' \in [Runs -> Run]
<1>1. CASE waiters = <<>>
  BY <1>1 DEF Released, TypeOK
<1>2. CASE waiters # <<>>
  <2>1. Head(waiters) \in Runs /\ Tail(waiters) \in Seq(Runs)
    BY <1>2 DEF TypeOK
  <2>2. runs' = [fr EXCEPT ![Head(waiters)].pc = "granted"]
    BY <1>2 DEF Released
  <2>3. runs' \in [Runs -> Run]
    BY <2>1, <2>2, Fields
  <2>4. QED
    BY <1>2, <2>1, <2>3 DEF Released, TypeOK
<1>3. QED
  BY <1>1, <1>2

LEMMA TypeStep ==
    ASSUME TypeOK, VmsOut, [Next]_vars
    PROVE  TypeOK'
<1> USE DEF TypeOK
<1> USE NoRunType
<1>1. CASE Tick
  BY <1>1 DEF Tick
<1>2. ASSUME NEW r \in Runs, NEW k \in Kinds, Arrive(r, k) PROVE TypeOK'
  <2>1. runs' \in [Runs -> Run]
    BY <1>2, Fields DEF Arrive
  <2>2. permits' \in Nat /\ waiters' \in Seq(Runs)
    BY <1>2 DEF Arrive
  <2>3. QED
    BY <1>2, <2>1, <2>2 DEF Arrive
<1>3. ASSUME NEW r \in Runs, Checkout(r) PROVE TypeOK'
  <2>1. PICK v \in available : runs' = [runs EXCEPT ![r].pc = "held", ![r].vm = v]
                                /\ available' = available \ {v}
    BY <1>3 DEF Checkout
  <2>2. runs' \in [Runs -> Run]
    BY <2>1, Fields
  <2>3. QED
    BY <1>3, <2>1, <2>2 DEF Checkout
<1>4. ASSUME NEW r \in Runs, NEW t \in Timeouts, Start(r, t) PROVE TypeOK'
  <2> DEFINE at == IF t = 0 THEN Never ELSE now + t
             armed == Armed(runs[r].vm, r)
  <2>1. at \in Instant
    BY LimitsAreTimes DEF Instant
  <2>2. runs[r].vm \in Vms
    BY <1>4 DEF Start, VmsOut, HasVm, At
  <2>3. armed \in Vm
    BY <2>2, VmFields DEF Armed
  <2> HIDE DEF at, armed
  <2>4. runs' \in [Runs -> Run]
    <3>1. runs' = [runs EXCEPT ![r].pc = "running", ![r].at = at]
      BY <1>4 DEF Start, at
    <3>2. QED
      BY <2>1, <3>1, Fields
  <2>5. vm' \in [Vms -> Vm]
    <3>1. vm' = [vm EXCEPT ![runs[r].vm] = [armed EXCEPT !.deadline = at]]
      BY <1>4 DEF Start, at, armed
    <3>2. QED
      BY <2>1, <2>3, <3>1, VmFields
  <2>6. QED
    BY <1>4, <2>4, <2>5 DEF Start
<1>5. ASSUME NEW r \in Runs, NEW armed \in BOOLEAN, StartFails(r, armed) PROVE TypeOK'
  <2>1. Armed(runs[r].vm, r) \in Vm \/ runs[r].vm \notin Vms
    BY VmFields DEF Armed
  <2>2. vm' \in [Vms -> Vm]
    BY <1>5, <2>1 DEF StartFails
  <2>3. runs' \in [Runs -> Run]
    BY <1>5, Fields DEF StartFails
  <2>4. QED
    BY <1>5, <2>2, <2>3 DEF StartFails
<1>6. ASSUME NEW r \in Runs, NEW x \in Texts, Abort(r, x) PROVE TypeOK'
  <2>1. runs' \in [Runs -> Run]
    BY <1>6, Fields DEF Abort
  <2>2. vm' \in [Vms -> Vm]
    BY <1>6, VmFields DEF Abort
  <2>3. QED
    BY <1>6, <2>1, <2>2 DEF Abort
<1>7. ASSUME NEW r \in Runs, NEW o \in ErrorText \cup {"values", "elapsed"}, Ends(r, o)
      PROVE  TypeOK'
  <2>1. vm' \in [Vms -> Vm]
    BY <1>7, VmFields DEF Ends, Disarmed, Instant
  <2>2. runs' \in [Runs -> Run]
    BY <1>7, Fields DEF Ends
  <2>3. QED
    BY <1>7, <2>1, <2>2 DEF Ends
<1>8. ASSUME NEW r \in Runs, Classify(r) PROVE TypeOK'
  <2> DEFINE answer == ClassifyOutcome(runs[r].outcome, runs[r].at, vm[runs[r].vm].pending)
  <2>1. vm' \in [Vms -> Vm]
    BY <1>8, VmFields DEF Classify
  <2>2. runs[r].vm \in Vms
    BY <1>8 DEF Classify, VmsOut, HasVm, At
  <2>3. vm[runs[r].vm].pending \in Texts \cup {NoText}
    BY <2>2 DEF Vm
  <2>4. runs[r].outcome \in ErrorText \cup {"none", "values", "elapsed"}
    BY DEF Run
  <2>5. answer \in Texts \cup {"none", "values", "error", "timeout"}
    <3> DEFINE pending == vm[runs[r].vm].pending
               outcome == runs[r].outcome
    <3> HIDE DEF pending, outcome
    <3>1. pending = outcome => outcome \in Texts \/ outcome \in {"none", "values", "elapsed"}
      BY <2>3, <2>4, TextsDiffer DEF ErrorText, pending, outcome
    <3>2. QED
      BY <3>1, <2>3, <2>4 DEF ClassifyOutcome, pending, outcome
  <2> HIDE DEF answer
  <2>6. runs' = [runs EXCEPT ![r].pc = "classified", ![r].answer = answer]
    BY <1>8 DEF Classify, answer
  <2>7. runs' \in [Runs -> Run]
    BY <2>5, <2>6, Fields
  <2>8. QED
    BY <1>8, <2>1, <2>7 DEF Classify
<1>9. ASSUME NEW r \in Runs, CheckIn(r) PROVE TypeOK'
  <2>1. runs[r].vm \in Vms
    BY <1>9 DEF CheckIn, VmsOut, HasVm, At
  <2>2. QED
    BY <1>9, <2>1, Fields DEF CheckIn
<1>10. ASSUME NEW r \in Runs, Release(r) PROVE TypeOK'
  <2>1. [runs EXCEPT ![r].pc = "done"] \in [Runs -> Run]
    BY Fields
  <2>2. QED
    BY <1>10, <2>1, ReleasedType DEF Release
<1>11. ASSUME NEW r \in Runs, Forget(r) PROVE TypeOK'
  BY <1>11 DEF Forget
<1>12. ASSUME NEW r \in Runs, LeaveQueue(r) PROVE TypeOK'
  <2>1. PICK i \in DOMAIN waiters :
            waiters' = SubSeq(waiters, 1, i - 1) \o SubSeq(waiters, i + 1, Len(waiters))
    BY <1>12 DEF LeaveQueue
  <2>2. waiters' \in Seq(Runs)
    BY <2>1
  <2>3. QED
    BY <1>12, <2>2 DEF LeaveQueue
<1>13. ASSUME NEW r \in Runs, LeaveGranted(r) PROVE TypeOK'
  <2>1. [runs EXCEPT ![r] = NoRun] \in [Runs -> Run]
    OBVIOUS
  <2>2. QED
    BY <1>13, <2>1, ReleasedType DEF LeaveGranted
<1>14. ASSUME NEW r \in Runs, LeaveRunning(r) PROVE TypeOK'
  <2>1. vm' \in [Vms -> Vm]
    BY <1>14, VmFields DEF LeaveRunning, Disarmed, Instant
  <2>2. runs' \in [Runs -> Run]
    BY <1>14, Fields DEF LeaveRunning
  <2>3. QED
    BY <1>14, <2>1, <2>2 DEF LeaveRunning
<1>15. CASE UNCHANGED vars
  BY <1>15 DEF vars
<1>16. QED
  BY <1>1, <1>2, <1>3, <1>4, <1>5, <1>6, <1>7, <1>8, <1>9, <1>10, <1>11, <1>12, <1>13,
     <1>14, <1>15
     DEF Next, Step, Return, Raise, Interrupt, Elapse, Unforced, Leave, Panic, ErrorText

-----------------------------------------------------------------------------
(* Permits and VMs *)

Holders == {r \in Runs : HasPermit(r)}
OnVm == {r \in Runs : HasVm(r)}

SemInv == permits + Cardinality(Holders) = Cardinality(Vms)

PoolInv == TypeOK /\ QueueInv /\ VmsOut /\ SemInv

(* The steps that move neither a permit nor a VM. *)
Quiet ==
    /\ UNCHANGED <<available, permits, waiters>>
    /\ \A r \in Runs :
        /\ HasPermit(r)' <=> HasPermit(r)
        /\ HasVm(r)' <=> HasVm(r)
        /\ HasVm(r) => runs'[r].vm = runs[r].vm
        /\ At(r, "queued")' <=> At(r, "queued")

LEMMA QuietSteps ==
    ASSUME TypeOK,
           \/ Tick \/ UNCHANGED vars
           \/ \E r \in Runs :
                \/ \E t \in Timeouts : Start(r, t)
                \/ \E armed \in BOOLEAN : StartFails(r, armed)
                \/ \E x \in Texts : Abort(r, x)
                \/ \E o : Ends(r, o)
                \/ Classify(r) \/ Forget(r) \/ LeaveRunning(r)
    PROVE  Quiet
<1> USE DEF TypeOK, Quiet, HasPermit, HasVm, At
<1>1. CASE Tick \/ UNCHANGED vars
  BY <1>1 DEF Tick, vars
<1>2. ASSUME NEW r \in Runs, NEW t \in Timeouts, Start(r, t) PROVE Quiet
  BY <1>2 DEF Start
<1>3. ASSUME NEW r \in Runs, NEW armed \in BOOLEAN, StartFails(r, armed) PROVE Quiet
  BY <1>3 DEF StartFails
<1>4. ASSUME NEW r \in Runs, NEW x \in Texts, Abort(r, x) PROVE Quiet
  BY <1>4 DEF Abort
<1>5. ASSUME NEW r \in Runs, NEW o, Ends(r, o) PROVE Quiet
  BY <1>5 DEF Ends
<1>6. ASSUME NEW r \in Runs, Classify(r) PROVE Quiet
  BY <1>6 DEF Classify
<1>7. ASSUME NEW r \in Runs, Forget(r) PROVE Quiet
  BY <1>7 DEF Forget, NoRun
<1>8. ASSUME NEW r \in Runs, LeaveRunning(r) PROVE Quiet
  BY <1>8 DEF LeaveRunning
<1>9. QED
  BY <1>1, <1>2, <1>3, <1>4, <1>5, <1>6, <1>7, <1>8

(* The steps that do. *)
LEMMA PoolSteps ==
    ASSUME TypeOK, [Next]_vars
    PROVE  \/ Quiet
           \/ \E r \in Runs :
                \/ \E k \in Kinds : Arrive(r, k)
                \/ Checkout(r) \/ CheckIn(r) \/ Release(r)
                \/ LeaveQueue(r) \/ LeaveGranted(r)
  BY QuietSteps DEF Next, Step, Return, Raise, Interrupt, Elapse, Unforced, Leave, Panic

LEMMA HoldersCount ==
    ASSUME TypeOK
    PROVE  /\ IsFiniteSet(Holders)
           /\ Cardinality(Holders) \in Nat
           /\ \A r \in Runs :
                /\ Cardinality(Holders \cup {r}) =
                        IF r \in Holders THEN Cardinality(Holders) ELSE Cardinality(Holders) + 1
                /\ Cardinality(Holders \ {r}) =
                        IF r \in Holders THEN Cardinality(Holders) - 1 ELSE Cardinality(Holders)
<1>1. IsFiniteSet(Holders)
  BY FinitePool, FS_Subset DEF Holders
<1>2. QED
  BY <1>1, FS_CardinalityType, FS_AddElement, FS_RemoveElement

LEMMA SameVms ==
    ASSUME VmsOut, UNCHANGED available,
           \A r \in Runs : /\ HasVm(r)' <=> HasVm(r)
                           /\ HasVm(r) => runs'[r].vm = runs[r].vm
    PROVE  VmsOut'
<1>1. \A r \in Runs : HasVm(r)' => runs'[r].vm = runs[r].vm
  OBVIOUS
<1>2. (\A r \in Runs : HasVm(r) => runs[r].vm \in Vms \ available)'
  BY <1>1 DEF VmsOut
<1>3. (\A r, s \in Runs : HasVm(r) /\ HasVm(s) /\ runs[r].vm = runs[s].vm => r = s)'
  BY <1>1 DEF VmsOut
<1>4. (\A v \in Vms \ available : \E r \in Runs : HasVm(r) /\ runs[r].vm = v)'
  BY <1>1 DEF VmsOut
<1>5. QED
  BY <1>2, <1>3, <1>4 DEF VmsOut

(* A permit that r gives up is the semaphore's or the first waiter's. *)
LEMMA Handover ==
    ASSUME PoolInv, NEW r \in Runs, r \in Holders, ~HasVm(r),
           NEW fr \in [Runs -> Run], fr[r].pc \in {"idle", "done"},
           \A s \in Runs \ {r} : fr[s] = runs[s],
           Released(fr, waiters), UNCHANGED available, TypeOK'
    PROVE  PoolInv'
<1> USE DEF PoolInv
<1>1. CASE waiters = <<>>
  <2>1. runs' = fr /\ permits' = permits + 1 /\ waiters' = waiters
    BY <1>1 DEF Released
  <2>2. Holders' = Holders \ {r}
    BY <2>1 DEF Holders, HasPermit
  <2>3. SemInv'
    <3>1. Cardinality(Holders \ {r}) = Cardinality(Holders) - 1
      BY HoldersCount
    <3>2. permits \in Nat /\ Cardinality(Holders) \in Nat /\ SemInv
      BY HoldersCount DEF TypeOK
    <3>3. QED
      BY <2>1, <2>2, <3>1, <3>2 DEF SemInv
  <2>4. VmsOut'
    BY <2>1 DEF VmsOut, HasVm
  <2>5. QueueInv'
    BY <1>1, <2>1 DEF QueueInv
  <2>6. QED
    BY <2>3, <2>4, <2>5
<1>2. CASE waiters # <<>>
  <2> DEFINE w == Head(waiters)
  <2>1. /\ w \in Runs /\ runs[w].pc = "queued"
        /\ 1 \in DOMAIN waiters /\ w = waiters[1]
    BY <1>2 DEF QueueInv, TypeOK, At
  <2>2. runs[r].pc # "queued" /\ w # r
    BY <2>1 DEF Holders, HasPermit
  <2>3. /\ runs' = [fr EXCEPT ![w].pc = "granted"]
        /\ permits' = permits /\ waiters' = Tail(waiters)
    BY <1>2 DEF Released
  <2>4. \A i \in DOMAIN waiters' : /\ waiters'[i] = waiters[i + 1]
                                   /\ i + 1 \in DOMAIN waiters /\ i + 1 # 1 /\ i \in Nat
    BY <1>2, <2>3 DEF TypeOK
  <2>5. \A i \in DOMAIN waiters : waiters[i] \in Runs
    BY DEF TypeOK
  <2>6. \A i \in DOMAIN waiters' : waiters'[i] \in Runs \ {w, r}
    BY <2>1, <2>2, <2>4, <2>5 DEF QueueInv, At
  <2> HIDE DEF w
  <2>7. \A s \in Runs \ {r, w} : runs'[s] = runs[s]
    BY <2>3
  <2>8. fr[w] = runs[w] /\ runs[w] \in Run
    BY <2>1, <2>2 DEF TypeOK
  <2>9. runs'[w].pc = "granted"
    <3>1. runs'[w] = [fr[w] EXCEPT !.pc = "granted"]
      BY <2>1, <2>3
    <3>2. QED
      BY <2>8, <3>1 DEF Run
  <2>10. runs'[r] = fr[r]
    BY <2>2, <2>3
  <2>11. Holders' = (Holders \ {r}) \cup {w} /\ w \notin Holders \ {r}
    BY <2>1, <2>7, <2>9, <2>10 DEF Holders, HasPermit
  <2>12. SemInv'
    <3>1. /\ IsFiniteSet(Holders \ {r})
          /\ Cardinality(Holders \ {r}) = Cardinality(Holders) - 1
      BY HoldersCount, FS_RemoveElement
    <3>2. Cardinality((Holders \ {r}) \cup {w}) = Cardinality(Holders \ {r}) + 1
      BY <2>11, <3>1, FS_AddElement
    <3>3. QED
      BY <2>3, <2>11, <3>1, <3>2, HoldersCount DEF SemInv
  <2>13. QueueInv'
    <3>1. \A i \in DOMAIN waiters' : runs'[waiters'[i]].pc = "queued"
      BY <2>4, <2>6, <2>7 DEF QueueInv, At
    <3>2. \A i, j \in DOMAIN waiters' : waiters'[i] = waiters'[j] => i = j
      BY <2>4 DEF QueueInv
    <3>3. QED
      BY <3>1, <3>2 DEF QueueInv, At
  <2>14. \A s \in Runs : /\ HasVm(s)' <=> HasVm(s)
                         /\ HasVm(s) => runs'[s].vm = runs[s].vm
    BY <2>1, <2>7, <2>9, <2>10 DEF HasVm
  <2>15. VmsOut'
    BY <2>14, SameVms
  <2>16. QED
    BY <2>12, <2>13, <2>15
<1>3. QED
  BY <1>1, <1>2

LEMMA PoolStep ==
    ASSUME PoolInv, [Next]_vars
    PROVE  PoolInv'
<1> USE DEF PoolInv
<1>1. TypeOK'
  BY TypeStep
<1>2. CASE Quiet
  <2>1. Holders' = Holders
    BY <1>2 DEF Quiet, Holders
  <2>2. SemInv'
    BY <1>2, <2>1 DEF SemInv, Quiet
  <2>3. QueueInv'
    <3>1. \A i \in DOMAIN waiters : waiters[i] \in Runs
      BY DEF TypeOK
    <3>2. QED
      BY <1>2, <3>1 DEF QueueInv, Quiet
  <2>4. VmsOut'
    BY <1>2, SameVms DEF Quiet
  <2>5. QED
    BY <1>1, <2>2, <2>3, <2>4
<1>3. ASSUME NEW r \in Runs, NEW k \in Kinds, Arrive(r, k) PROVE PoolInv'
  <2> DEFINE pc == IF permits > 0 THEN "granted" ELSE "queued"
  <2>1. /\ runs[r].pc = "idle" /\ available' = available
        /\ runs' = [runs EXCEPT ![r] = [NoRun EXCEPT !.kind = k, !.pc = pc]]
    BY <1>3 DEF Arrive, At
  <2>2. runs'[r].pc = pc /\ \A s \in Runs \ {r} : runs'[s] = runs[s]
    BY <2>1, NoRunType DEF TypeOK, Run
  <2>3. VmsOut'
    <3>1. \A s \in Runs : /\ HasVm(s)' <=> HasVm(s)
                          /\ HasVm(s) => runs'[s].vm = runs[s].vm
      BY <2>1, <2>2 DEF HasVm
    <3>2. QED
      BY <2>1, <3>1, SameVms
  <2>4. \A i \in DOMAIN waiters : waiters[i] \in Runs /\ waiters[i] # r /\ i \in 1 .. Len(waiters)
    BY <2>1 DEF QueueInv, TypeOK, At
  <2>5. CASE permits > 0
    <3>1. permits' = permits - 1 /\ waiters' = waiters
      BY <1>3, <2>5 DEF Arrive
    <3>2. Holders' = Holders \cup {r} /\ r \notin Holders
      BY <2>1, <2>2, <2>5 DEF Holders, HasPermit
    <3>3. SemInv'
      <4>1. /\ Cardinality(Holders \cup {r}) = Cardinality(Holders) + 1
            /\ Cardinality(Holders) \in Nat
        BY <3>2, HoldersCount
      <4>2. permits \in Nat /\ permits + Cardinality(Holders) = Cardinality(Vms)
        BY DEF TypeOK, SemInv
      <4>3. permits' + Cardinality(Holders') = Cardinality(Vms)
        BY <3>1, <3>2, <4>1, <4>2
      <4>4. QED
        BY <4>3 DEF SemInv
    <3>4. QueueInv'
      BY <2>2, <2>4, <2>5, <3>1 DEF QueueInv, At
    <3>5. QED
      BY <1>1, <2>3, <3>3, <3>4
  <2>6. CASE ~(permits > 0)
    <3>1. permits' = permits /\ waiters' = Append(waiters, r)
      BY <1>3, <2>6 DEF Arrive
    <3>2. Holders' = Holders
      BY <2>1, <2>2, <2>6 DEF Holders, HasPermit
    <3>3. SemInv'
      BY <3>1, <3>2 DEF SemInv
    <3>4. \A i \in DOMAIN waiters' :
            \/ i \in DOMAIN waiters /\ waiters'[i] = waiters[i]
            \/ i = Len(waiters) + 1 /\ waiters'[i] = r
      BY <3>1 DEF TypeOK
    <3>5. (\A i \in DOMAIN waiters : At(waiters[i], "queued"))'
      BY <2>2, <2>4, <2>6, <3>4 DEF QueueInv, At
    <3>6. (\A i, j \in DOMAIN waiters : waiters[i] = waiters[j] => i = j)'
      BY <2>4, <3>4 DEF QueueInv
    <3>7. QED
      BY <1>1, <2>3, <3>3, <3>5, <3>6 DEF QueueInv
  <2>7. QED
    BY <2>5, <2>6
<1>4. ASSUME NEW r \in Runs, Checkout(r) PROVE PoolInv'
  <2>1. PICK v \in available : /\ available' = available \ {v}
                              /\ runs' = [runs EXCEPT ![r].pc = "held", ![r].vm = v]
    BY <1>4 DEF Checkout
  <2>2. runs[r].pc = "granted" /\ UNCHANGED <<permits, waiters>>
    BY <1>4 DEF Checkout, At
  <2>3. /\ runs'[r].pc = "held" /\ runs'[r].vm = v
        /\ \A s \in Runs \ {r} : runs'[s] = runs[s]
    BY <2>1 DEF TypeOK, Run
  <2>4. Holders' = Holders
    BY <2>2, <2>3 DEF Holders, HasPermit
  <2>5. SemInv'
    BY <2>2, <2>4 DEF SemInv
  <2>6. \A i \in DOMAIN waiters : waiters[i] \in Runs \ {r}
    BY <2>2 DEF QueueInv, TypeOK, At
  <2>7. QueueInv'
    BY <2>2, <2>3, <2>6 DEF QueueInv, At
  <2>8. VmsOut'
    <3>1. v \in Vms /\ ~HasVm(r) /\ HasVm(r)' /\ runs'[r].vm = v
      BY <2>2, <2>3 DEF TypeOK, HasVm
    <3>2. \A s \in Runs \ {r} : (HasVm(s)' <=> HasVm(s)) /\ runs'[s].vm = runs[s].vm
      BY <2>3 DEF HasVm
    <3>3. v \in available /\ available' = available \ {v}
      BY <2>1
    <3>4. \A s \in Runs \ {r} : HasVm(s) => runs[s].vm \in Vms \ available
      BY DEF VmsOut
    <3>5. (\A s \in Runs : HasVm(s) => runs[s].vm \in Vms \ available)'
      BY <3>1, <3>2, <3>3, <3>4
    <3>6. (\A s, t \in Runs : HasVm(s) /\ HasVm(t) /\ runs[s].vm = runs[t].vm => s = t)'
      <4>1. \A s, t \in Runs \ {r} :
                HasVm(s) /\ HasVm(t) /\ runs[s].vm = runs[t].vm => s = t
        BY DEF VmsOut
      <4>2. QED
        BY <3>1, <3>2, <3>3, <3>4, <4>1
    <3>7. (\A u \in Vms \ available : \E s \in Runs : HasVm(s) /\ runs[s].vm = u)'
      <4>1. \A u \in Vms \ available : \E s \in Runs \ {r} : HasVm(s) /\ runs[s].vm = u
        BY <3>1 DEF VmsOut
      <4>2. QED
        BY <3>1, <3>2, <3>3, <4>1
    <3>8. QED
      BY <3>5, <3>6, <3>7 DEF VmsOut
  <2>9. QED
    BY <1>1, <2>5, <2>7, <2>8
<1>5. ASSUME NEW r \in Runs, CheckIn(r) PROVE PoolInv'
  <2>1. /\ runs[r].pc = "classified" /\ UNCHANGED <<permits, waiters>>
        /\ available' = available \cup {runs[r].vm}
        /\ runs' = [runs EXCEPT ![r].pc = "returning", ![r].vm = NoVm]
    BY <1>5 DEF CheckIn, At
  <2>2. runs'[r].pc = "returning" /\ \A s \in Runs \ {r} : runs'[s] = runs[s]
    BY <2>1 DEF TypeOK, Run
  <2>3. Holders' = Holders
    BY <2>1, <2>2 DEF Holders, HasPermit
  <2>4. SemInv'
    BY <2>1, <2>3 DEF SemInv
  <2>5. \A i \in DOMAIN waiters : waiters[i] \in Runs \ {r}
    BY <2>1 DEF QueueInv, TypeOK, At
  <2>6. QueueInv'
    BY <2>1, <2>2, <2>5 DEF QueueInv, At
  <2>7. VmsOut'
    <3>1. HasVm(r) /\ ~HasVm(r)'
      BY <2>1, <2>2 DEF HasVm
    <3>2. \A s \in Runs \ {r} : (HasVm(s)' <=> HasVm(s)) /\ runs'[s].vm = runs[s].vm
      BY <2>2 DEF HasVm
    <3>3. (\A s \in Runs : HasVm(s) => runs[s].vm \in Vms \ available)'
      <4>1. available' = available \cup {runs[r].vm}
        BY <2>1
      <4>2. \A s \in Runs \ {r} :
                HasVm(s) => runs[s].vm \in Vms \ available /\ runs[s].vm # runs[r].vm
        BY <3>1 DEF VmsOut
      <4>3. QED
        BY <3>1, <3>2, <4>1, <4>2
    <3>4. (\A s, t \in Runs : HasVm(s) /\ HasVm(t) /\ runs[s].vm = runs[t].vm => s = t)'
      BY <3>1, <3>2 DEF VmsOut
    <3>5. (\A u \in Vms \ available : \E s \in Runs : HasVm(s) /\ runs[s].vm = u)'
      BY <2>1, <3>1, <3>2 DEF VmsOut
    <3>6. QED
      BY <3>3, <3>4, <3>5 DEF VmsOut
  <2>8. QED
    BY <1>1, <2>4, <2>6, <2>7
<1>6. ASSUME NEW r \in Runs, Release(r) PROVE PoolInv'
  <2> DEFINE fr == [runs EXCEPT ![r].pc = "done"]
  <2>1. fr \in [Runs -> Run]
    BY Fields DEF TypeOK
  <2>2. fr[r].pc = "done" /\ \A s \in Runs \ {r} : fr[s] = runs[s]
    BY DEF TypeOK, Run
  <2>3. r \in Holders /\ ~HasVm(r) /\ Released(fr, waiters) /\ UNCHANGED available
    BY <1>6 DEF Release, Holders, HasPermit, HasVm, At
  <2> HIDE DEF fr
  <2>4. QED
    BY <1>1, <2>1, <2>2, <2>3, Handover
<1>7. ASSUME NEW r \in Runs, LeaveGranted(r) PROVE PoolInv'
  <2> DEFINE fr == [runs EXCEPT ![r] = NoRun]
  <2>1. fr \in [Runs -> Run] /\ fr[r].pc = "idle" /\ \A s \in Runs \ {r} : fr[s] = runs[s]
    BY NoRunType DEF TypeOK, NoRun
  <2>2. r \in Holders /\ ~HasVm(r) /\ Released(fr, waiters) /\ UNCHANGED available
    BY <1>7 DEF LeaveGranted, Holders, HasPermit, HasVm, At
  <2> HIDE DEF fr
  <2>3. QED
    BY <1>1, <2>1, <2>2, Handover
<1>8. ASSUME NEW r \in Runs, LeaveQueue(r) PROVE PoolInv'
  <2>1. PICK i \in DOMAIN waiters :
            /\ waiters[i] = r
            /\ waiters' = SubSeq(waiters, 1, i - 1) \o SubSeq(waiters, i + 1, Len(waiters))
    BY <1>8 DEF LeaveQueue
  <2>2. /\ runs[r].pc = "queued" /\ runs'[r].pc = "idle" /\ UNCHANGED <<available, permits>>
        /\ \A s \in Runs \ {r} : runs'[s] = runs[s]
    BY <1>8 DEF LeaveQueue, TypeOK, NoRun, At
  <2>3. Holders' = Holders
    BY <2>2 DEF Holders, HasPermit
  <2>4. SemInv'
    BY <2>2, <2>3 DEF SemInv
  <2>5. VmsOut'
    <3>1. \A s \in Runs : /\ HasVm(s)' <=> HasVm(s)
                          /\ HasVm(s) => runs'[s].vm = runs[s].vm
      BY <2>2 DEF HasVm
    <3>2. QED
      BY <2>2, <3>1, SameVms
  <2> DEFINE old(j) == IF j < i THEN j ELSE j + 1
  <2>6. /\ waiters \in Seq(Runs) /\ i \in 1 .. Len(waiters)
        /\ DOMAIN waiters = 1 .. Len(waiters)
    BY DEF TypeOK
  <2>7. \A j \in DOMAIN waiters' : /\ j \in Nat /\ old(j) \in DOMAIN waiters \ {i}
                                   /\ waiters'[j] = waiters[old(j)]
    <3> DEFINE front == SubSeq(waiters, 1, i - 1)
               back == SubSeq(waiters, i + 1, Len(waiters))
    <3>1. /\ front \in Seq(Runs) /\ Len(front) = i - 1
          /\ \A j \in 1 .. i - 1 : front[j] = waiters[j]
      BY <2>6
    <3>2. /\ back \in Seq(Runs) /\ Len(back) = Len(waiters) - i
          /\ \A j \in 1 .. Len(waiters) - i : back[j] = waiters[j + i]
      BY <2>6
    <3>3. waiters' = front \o back
      BY <2>1
    <3> HIDE DEF front, back
    <3>4. /\ DOMAIN waiters' = 1 .. Len(waiters) - 1
          /\ \A j \in 1 .. Len(waiters) - 1 :
                waiters'[j] = IF j < i THEN front[j] ELSE back[j - (i - 1)]
      <4>1. /\ DOMAIN (front \o back) = 1 .. Len(front) + Len(back)
            /\ \A j \in 1 .. Len(front) + Len(back) : (front \o back)[j] =
                    IF j <= Len(front) THEN front[j] ELSE back[j - Len(front)]
        BY <3>1, <3>2
      <4>2. Len(front) + Len(back) = Len(waiters) - 1
        BY <2>6, <3>1, <3>2
      <4>3. \A j \in 1 .. Len(waiters) - 1 : j <= i - 1 <=> j < i
        BY <2>6
      <4>4. QED
        BY <3>1, <3>3, <4>1, <4>2, <4>3
    <3>5. \A j \in 1 .. Len(waiters) - 1 : waiters'[j] = waiters[old(j)]
      <4>1. ASSUME NEW j \in 1 .. Len(waiters) - 1 PROVE waiters'[j] = waiters[old(j)]
        <5>1. CASE j < i
          BY <2>6, <3>1, <3>4, <5>1
        <5>2. CASE ~(j < i)
          <6>1. j - (i - 1) \in 1 .. Len(waiters) - i /\ (j - (i - 1)) + i = j + 1
            BY <2>6, <5>2
          <6>2. back[j - (i - 1)] = waiters[j + 1]
            BY <3>2, <6>1
          <6>3. QED
            BY <3>4, <5>2, <6>2
        <5>3. QED
          BY <5>1, <5>2
      <4>2. QED
        BY <4>1
    <3>6. QED
      BY <2>6, <3>4, <3>5
  <2>8. \A j \in DOMAIN waiters' : waiters'[j] \in Runs \ {r}
    <3>1. \A l \in DOMAIN waiters \ {i} : waiters[l] \in Runs \ {r}
      BY <2>1, <2>6 DEF QueueInv
    <3>2. ASSUME NEW j \in DOMAIN waiters' PROVE waiters'[j] \in Runs \ {r}
      <4>1. old(j) \in DOMAIN waiters \ {i} /\ waiters'[j] = waiters[old(j)]
        BY <2>7
      <4> DEFINE l == old(j)
      <4> HIDE DEF l
      <4>2. l \in DOMAIN waiters \ {i} /\ waiters'[j] = waiters[l]
        BY <4>1 DEF l
      <4>3. QED
        BY <3>1, <4>2
    <3>3. QED
      BY <3>2
  <2>9. (\A j \in DOMAIN waiters : At(waiters[j], "queued"))'
    BY <2>2, <2>7, <2>8 DEF QueueInv, At
  <2>10. (\A j, l \in DOMAIN waiters : waiters[j] = waiters[l] => j = l)'
    <3>1. \A j, l \in DOMAIN waiters' : waiters'[j] = waiters'[l] => old(j) = old(l)
      BY <2>7 DEF QueueInv
    <3>2. \A j, l \in Nat : old(j) = old(l) => j = l
      BY <2>6
    <3>3. QED
      BY <2>7, <3>1, <3>2
  <2>11. QED
    BY <1>1, <2>4, <2>5, <2>9, <2>10 DEF QueueInv
<1>9. QED
  BY <1>2, <1>3, <1>4, <1>5, <1>6, <1>7, <1>8, PoolSteps

LEMMA PoolStart == Init => PoolInv
<1> SUFFICES ASSUME Init PROVE PoolInv
  OBVIOUS
<1>1. TypeOK
  BY NoRunType, FinitePool, FS_CardinalityType DEF Init, TypeOK, Vm, Instant
<1>2. \A r \in Runs : runs[r].pc = "idle"
  BY DEF Init, NoRun
<1>3. Holders = {}
  BY <1>2 DEF Holders, HasPermit
<1>4. SemInv
  BY <1>3, FinitePool, FS_CardinalityType, FS_EmptySet DEF Init, SemInv
<1>5. VmsOut /\ QueueInv
  BY <1>2 DEF Init, VmsOut, HasVm, QueueInv
<1>6. QED
  BY <1>1, <1>4, <1>5 DEF PoolInv

LEMMA PoolInvariant == Spec => []PoolInv
<1>1. PoolInv /\ [Next]_vars => PoolInv'
  BY PoolStep
<1>2. QED
  BY PoolStart, <1>1, PTL DEF Spec

(* Every variable keeps its type; in particular the permits never drop     *)
(* below zero.                                                             *)
THEOREM TypeCorrect == Spec => []TypeOK
<1>1. PoolInv => TypeOK
  BY DEF PoolInv
<1>2. QED
  BY PoolInvariant, <1>1, PTL

(* Permits and VMs add up in every state, whichever runs arrive, end or    *)
(* are left by their clients.                                              *)
THEOREM Conserved == Spec => []PoolConserved
<1>1. PoolInv => PoolConserved
  BY DEF PoolInv, SemInv, VmsOut, PoolConserved, Holders
<1>2. QED
  BY PoolInvariant, <1>1, PTL

(* The expect in checkout never fails: the runs that have a permit and no  *)
(* VM yet are no more than the VMs in the pool.                            *)
THEOREM CheckoutFinds == Spec => []PermitFindsVm
<1>1. ASSUME PoolInv PROVE PermitFindsVm
  <2> DEFINE granted == {r \in Runs : At(r, "granted")}
             f == [r \in OnVm |-> runs[r].vm]
             out == Vms \ available
  <2>1. IsFiniteSet(granted) /\ IsFiniteSet(OnVm) /\ IsFiniteSet(Vms) /\ IsFiniteSet(out)
    BY FinitePool, FS_Subset DEF OnVm
  <2>2. f \in Surjection(OnVm, out)
    <3>1. f \in [OnVm -> out]
      BY <1>1 DEF PoolInv, VmsOut, OnVm
    <3>2. \A v \in out : \E r \in OnVm : f[r] = v
      BY <1>1 DEF PoolInv, VmsOut, OnVm
    <3>3. QED
      BY <3>1, <3>2 DEF Surjection
  <2>3. Cardinality(out) <= Cardinality(OnVm)
    BY <2>1, <2>2, FS_Surjection
  <2>4. Cardinality(out) = Cardinality(Vms) - Cardinality(available)
    <3>1. Vms \cap available = available
      BY <1>1 DEF PoolInv, TypeOK
    <3>2. QED
      BY <2>1, <3>1, FS_Difference
  <2>5. Cardinality(granted \cup OnVm) = Cardinality(granted) + Cardinality(OnVm)
    <3>1. granted \cap OnVm = {}
      BY DEF OnVm, HasVm, At
    <3> HIDE DEF granted
    <3>2. Cardinality(granted \cap OnVm) = 0
      BY <3>1, FS_EmptySet, Zenon
    <3>3. Cardinality(granted \cup OnVm) =
            Cardinality(granted) + Cardinality(OnVm) - Cardinality(granted \cap OnVm)
      BY <2>1, FS_Union
    <3>4. Cardinality(granted) \in Nat /\ Cardinality(OnVm) \in Nat
      BY <2>1, FS_CardinalityType
    <3>5. QED
      BY <3>2, <3>3, <3>4
  <2>6. Cardinality(granted \cup OnVm) <= Cardinality(Holders)
    <3>1. granted \cup OnVm \subseteq Holders
      BY DEF Holders, OnVm, HasPermit, HasVm, At
    <3>2. QED
      BY <1>1, <3>1, HoldersCount, FS_Subset DEF PoolInv
  <2>7. /\ Cardinality(granted) \in Nat /\ Cardinality(OnVm) \in Nat
        /\ Cardinality(Holders) \in Nat /\ Cardinality(Vms) \in Nat
        /\ Cardinality(out) \in Nat /\ Cardinality(available) \in Nat
        /\ Cardinality(granted \cup OnVm) \in Nat
    <3>1. IsFiniteSet(available) /\ IsFiniteSet(granted \cup OnVm)
      BY <1>1, <2>1, FS_Subset, FS_Union DEF PoolInv, TypeOK
    <3>2. QED
      BY <1>1, <2>1, <3>1, FS_CardinalityType, HoldersCount DEF PoolInv
  <2>8. Cardinality(Holders) <= Cardinality(Vms)
    BY <1>1, <2>7 DEF PoolInv, SemInv, TypeOK
  <2>9. Cardinality(granted) <= Cardinality(available)
    BY <2>3, <2>4, <2>5, <2>6, <2>7, <2>8
  <2>10. QED
    BY <2>9 DEF PermitFindsVm
<1>2. QED
  BY PoolInvariant, <1>1, PTL

(* A permit is a VM: none is lost, and checkout finds the one it is for. *)
THEOREM PermitsSound == Spec => []PoolSound
<1>1. TypeOK /\ PoolConserved /\ PermitFindsVm => PoolSound
  BY DEF PoolSound
<1>2. QED
  BY <1>1, TypeCorrect, Conserved, CheckoutFinds, PTL

-----------------------------------------------------------------------------
(* What a VM holds of its run *)

(* Of the run r: the deadline and the abort slot of its VM are its own,    *)
(* and what it is told is what happened.                                   *)
RunInv(r) ==
    LET m == vm[runs[r].vm] IN
    /\ At(r, "running") => /\ m.deadline = runs[r].at
                           /\ m.in_request => runs[r].kind = "request"
    /\ /\ At(r, "running") \/ At(r, "ended")
       /\ m.pending # NoText
       => m.pending \in runs[r].raised /\ runs[r].kind = "request"
    /\ runs[r].pc \in {"idle", "queued", "granted", "held", "running"} =>
        runs[r].outcome = "none"
    /\ runs[r].pc \in {"idle", "queued", "granted", "held", "running", "ended"} =>
        runs[r].answer = "none"
    /\ At(r, "ended") /\ runs[r].outcome = Interrupted =>
        runs[r].at # Never /\ now >= runs[r].at
    /\ runs[r].outcome = Interrupted => runs[r].answer \in {"none", "timeout"}
    /\ runs[r].answer \in Texts =>
        runs[r].kind = "request" /\ runs[r].answer \in runs[r].raised

ArmInv == PoolInv /\ DeadlineIsTheRuns /\ \A r \in Runs : RunInv(r)

LEMMA OwnVm ==
    ASSUME PoolInv, NEW r \in Runs, HasVm(r)
    PROVE  /\ runs[r].vm \in Vms
           /\ \A s \in Runs \ {r} : HasVm(s) => runs[s].vm # runs[r].vm
  BY DEF PoolInv, VmsOut

(* A run that a step leaves alone, and its VM with it. *)
LEMMA RunKept ==
    ASSUME TypeOK, NEW r \in Runs, RunInv(r), runs'[r] = runs[r], now' \in Nat, now' >= now,
           HasVm(r) => vm'[runs[r].vm] = vm[runs[r].vm]
    PROVE  RunInv(r)'
<1>1. runs[r].at \in Nat \cup {Never} /\ now \in Nat
  BY DEF TypeOK, Run, Instant
<1>2. QED
  BY <1>1 DEF RunInv, At, HasVm

(* A step of r, on its own VM if on any. *)
LEMMA OthersKept ==
    ASSUME PoolInv, NEW r \in Runs, \A s \in Runs : RunInv(s),
           \A s \in Runs \ {r} : runs'[s] = runs[s],
           \A v \in Vms : vm'[v] = vm[v] \/ (HasVm(r) /\ v = runs[r].vm), UNCHANGED now
    PROVE  \A s \in Runs \ {r} : RunInv(s)'
<1> SUFFICES ASSUME NEW s \in Runs \ {r} PROVE RunInv(s)'
  OBVIOUS
<1>1. HasVm(s) => vm'[runs[s].vm] = vm[runs[s].vm]
  BY OwnVm
<1>2. TypeOK /\ now' \in Nat /\ now' >= now
  BY DEF PoolInv, TypeOK
<1>3. QED
  BY <1>1, <1>2, RunKept

(* No deadline is set, and those of the runs that stop are cleared. *)
LEMMA DeadlinesKept ==
    ASSUME DeadlineIsTheRuns,
           \A v \in Vms : vm'[v].deadline \in {Never, vm[v].deadline},
           \A s \in Runs : At(s, "running") /\ runs[s].vm \in Vms =>
                \/ vm'[runs[s].vm].deadline = Never
                \/ runs'[s].pc = "running" /\ runs'[s].vm = runs[s].vm /\ runs'[s].at = runs[s].at
    PROVE  DeadlineIsTheRuns'
<1> SUFFICES ASSUME NEW v \in Vms, vm'[v].deadline # Never
             PROVE  \E r \in Runs : /\ runs'[r].pc = "running" /\ runs'[r].vm = v
                                    /\ runs'[r].at = vm'[v].deadline
  BY DEF DeadlineIsTheRuns, At
<1>1. vm'[v].deadline = vm[v].deadline
  OBVIOUS
<1>2. PICK r \in Runs : At(r, "running") /\ runs[r].vm = v /\ runs[r].at = vm[v].deadline
  BY <1>1 DEF DeadlineIsTheRuns
<1>3. QED
  BY <1>1, <1>2

(* A permit handed over changes the run that has it, and the first waiter, *)
(* whose record stays fresh.                                               *)
LEMMA ReleasedArm ==
    ASSUME ArmInv, NEW r \in Runs, ~At(r, "running"), ~At(r, "queued"),
           NEW fr \in [Runs -> Run], \A s \in Runs \ {r} : fr[s] = runs[s],
           /\ fr[r].pc \in {"idle", "done"}
           /\ fr[r].pc = "idle" => fr[r].outcome = "none" /\ fr[r].answer = "none"
           /\ fr[r].outcome = Interrupted => fr[r].answer \in {"none", "timeout"}
           /\ fr[r].answer \in Texts => fr[r].kind = "request" /\ fr[r].answer \in fr[r].raised,
           Released(fr, waiters), UNCHANGED <<available, vm, now>>
    PROVE  DeadlineIsTheRuns' /\ \A s \in Runs : RunInv(s)'
<1>1. TypeOK /\ QueueInv /\ PoolInv
  BY DEF ArmInv, PoolInv
<1>2. ASSUME NEW s \in Runs
      PROVE  \/ s = r /\ runs'[s] = fr[s]
             \/ s # r /\ runs'[s] = runs[s]
             \/ s # r /\ At(s, "queued") /\ runs'[s] = [runs[s] EXCEPT !.pc = "granted"]
  <2>1. CASE waiters = <<>>
    BY <2>1 DEF Released
  <2>2. CASE waiters # <<>>
    <3>1. Head(waiters) \in Runs /\ At(Head(waiters), "queued")
      BY <1>1, <2>2 DEF TypeOK, QueueInv
    <3>2. runs' = [fr EXCEPT ![Head(waiters)].pc = "granted"]
      BY <2>2 DEF Released
    <3> DEFINE w == Head(waiters)
    <3> HIDE DEF w
    <3>3. w \in Runs /\ At(w, "queued") /\ w # r /\ runs' = [fr EXCEPT ![w].pc = "granted"]
      BY <3>1, <3>2 DEF w
    <3>4. CASE s = w
      BY <3>3, <3>4
    <3>5. CASE s # w
      BY <3>3, <3>5
    <3>6. QED
      BY <3>4, <3>5
  <2>3. QED
    BY <2>1, <2>2
<1>3. \A s \in Runs : At(s, "running") => runs'[s] = runs[s]
  BY <1>2 DEF At
<1>4. DeadlineIsTheRuns'
  <2>1. DeadlineIsTheRuns
    BY DEF ArmInv
  <2>2. QED
    BY <1>3, <2>1, DeadlinesKept DEF At
<1>5. ASSUME NEW s \in Runs PROVE RunInv(s)'
  <2>1. RunInv(s) /\ now \in Nat /\ runs[s] \in Run
    BY <1>1 DEF ArmInv, TypeOK
  <2>2. CASE runs'[s] = runs[s]
    BY <1>1, <2>1, <2>2, RunKept
  <2>3. CASE s = r /\ runs'[s] = fr[s]
    BY <2>3 DEF RunInv, At
  <2>4. CASE At(s, "queued") /\ runs'[s] = [runs[s] EXCEPT !.pc = "granted"]
    <3>1. /\ runs'[s].pc = "granted"
          /\ runs'[s].outcome = "none" /\ runs'[s].answer = "none"
      BY <2>1, <2>4 DEF RunInv, Run, At
    <3>2. QED
      BY <3>1, TextsDiffer DEF RunInv, At
  <2>5. QED
    BY <1>2, <2>2, <2>3, <2>4
<1>6. QED
  BY <1>4, <1>5

LEMMA ArmStep ==
    ASSUME ArmInv, [Next]_vars
    PROVE  ArmInv'
<1>1. PoolInv' /\ PoolInv /\ TypeOK /\ DeadlineIsTheRuns /\ \A r \in Runs : RunInv(r)
  BY PoolStep DEF ArmInv, PoolInv
<1>2. \A r \in Runs : runs[r] \in Run /\ (HasVm(r) => runs[r].vm \in Vms /\ vm[runs[r].vm] \in Vm)
  BY <1>1, OwnVm DEF TypeOK
<1> DEFINE Others(r) == \A s \in Runs \ {r} : runs'[s] = runs[s]
           Done == DeadlineIsTheRuns' /\ \A r \in Runs : RunInv(r)'
<1>3. ASSUME Tick \/ UNCHANGED vars PROVE Done
  <2>1. runs' = runs /\ vm' = vm /\ now' \in Nat /\ now' >= now
    BY <1>1, <1>3 DEF Tick, vars, TypeOK
  <2>2. \A r \in Runs : RunInv(r)'
    BY <1>1, <2>1, RunKept
  <2>3. DeadlineIsTheRuns'
    BY <1>1, <2>1, DeadlinesKept DEF At
  <2>4. QED
    BY <2>2, <2>3
<1>4. ASSUME NEW r \in Runs, NEW k \in Kinds, Arrive(r, k) PROVE Done
  <2>1. /\ Others(r) /\ UNCHANGED <<vm, now>> /\ runs[r].pc = "idle"
        /\ runs'[r].pc \in {"granted", "queued"}
        /\ runs'[r].outcome = "none" /\ runs'[r].answer = "none"
    BY <1>1, <1>4 DEF Arrive, TypeOK, NoRun, At
  <2>2. RunInv(r)'
    BY <2>1, TextsDiffer DEF RunInv, At
  <2>3. \A s \in Runs : RunInv(s)'
    BY <1>1, <2>1, <2>2, OthersKept
  <2>4. DeadlineIsTheRuns'
    BY <1>1, <2>1, DeadlinesKept DEF At
  <2>5. QED
    BY <2>3, <2>4
<1>5. ASSUME NEW r \in Runs, Checkout(r) PROVE Done
  <2>1. PICK v : runs' = [runs EXCEPT ![r].pc = "held", ![r].vm = v]
    BY <1>5 DEF Checkout
  <2>2. /\ Others(r) /\ UNCHANGED <<vm, now>> /\ runs[r].pc = "granted"
        /\ runs'[r].pc = "held"
        /\ runs'[r].outcome = runs[r].outcome /\ runs'[r].answer = runs[r].answer
    BY <1>1, <1>2, <1>5, <2>1 DEF Checkout, TypeOK, Run, At
  <2>3. RunInv(r)'
    BY <1>1, <2>2, TextsDiffer DEF RunInv, At
  <2>4. \A s \in Runs : RunInv(s)'
    BY <1>1, <2>2, <2>3, OthersKept
  <2>5. DeadlineIsTheRuns'
    BY <1>1, <2>2, DeadlinesKept DEF At
  <2>6. QED
    BY <2>4, <2>5
<1>6. ASSUME NEW r \in Runs, NEW t \in Timeouts, Start(r, t) PROVE Done
  <2> DEFINE v == runs[r].vm
             at == IF t = 0 THEN Never ELSE now + t
  <2>1. /\ Others(r) /\ now' = now /\ runs[r].pc = "held" /\ HasVm(r)
        /\ runs'[r] = [runs[r] EXCEPT !.pc = "running", !.at = at]
        /\ vm' = [vm EXCEPT ![v] = [Armed(v, r) EXCEPT !.deadline = at]]
    BY <1>1, <1>6 DEF Start, TypeOK, At, HasVm
  <2> HIDE DEF at
  <2>2. /\ runs'[r].pc = "running" /\ runs'[r].at = at /\ runs'[r].vm = v
        /\ runs'[r].kind = runs[r].kind
        /\ runs'[r].outcome = runs[r].outcome /\ runs'[r].answer = runs[r].answer
    BY <1>2, <2>1 DEF Run
  <2>3. v \in Vms /\ vm[v] \in Vm
    BY <1>2, <2>1
  <2>4. vm'[v] = [deadline |-> at, in_request |-> runs[r].kind = "request", pending |-> NoText]
    BY <1>1, <2>1, <2>3 DEF Armed, Vm, TypeOK
  <2>5. \A u \in Vms \ {v} : vm'[u] = vm[u]
    BY <1>1, <2>1 DEF TypeOK
  <2>6. RunInv(r)'
    <3>1. vm'[v].deadline = at /\ vm'[v].pending = NoText
      BY <2>4
    <3>2. vm'[v].in_request => runs[r].kind = "request"
      <4>1. vm'[v].in_request = (runs[r].kind = "request")
        BY <2>4
      <4>2. QED
        BY <4>1, Zenon
    <3>3. runs[r].outcome = "none" /\ runs[r].answer = "none"
      BY <1>1, <2>1 DEF RunInv
    <3>4. QED
      BY <2>2, <3>1, <3>2, <3>3, TextsDiffer DEF RunInv, At
  <2>7. \A s \in Runs : RunInv(s)'
    BY <1>1, <2>1, <2>5, <2>6, OthersKept
  <2>8. DeadlineIsTheRuns'
    <3> SUFFICES ASSUME NEW u \in Vms, vm'[u].deadline # Never
                 PROVE  \E s \in Runs : /\ runs'[s].pc = "running" /\ runs'[s].vm = u
                                        /\ runs'[s].at = vm'[u].deadline
      BY DEF DeadlineIsTheRuns, At
    <3>1. CASE u = v
      BY <2>2, <2>4, <3>1
    <3>2. CASE u # v
      <4>1. PICK s \in Runs : At(s, "running") /\ runs[s].vm = u /\ runs[s].at = vm[u].deadline
        BY <1>1, <2>5, <3>2 DEF DeadlineIsTheRuns
      <4>2. s # r
        BY <2>1, <4>1 DEF At
      <4>3. QED
        BY <2>1, <2>5, <3>2, <4>1, <4>2 DEF At
    <3>3. QED
      BY <3>1, <3>2
  <2>9. QED
    BY <2>7, <2>8
<1>7. ASSUME NEW r \in Runs, NEW armed \in BOOLEAN, StartFails(r, armed) PROVE Done
  <2> DEFINE v == runs[r].vm
  <2>1. /\ Others(r) /\ now' = now /\ runs[r].pc = "held" /\ HasVm(r)
        /\ runs'[r] = [runs[r] EXCEPT !.pc = "classified", !.answer = "error"]
        /\ vm' = vm \/ vm' = [vm EXCEPT ![v] = Armed(v, r)]
    BY <1>1, <1>7 DEF StartFails, TypeOK, At, HasVm
  <2>2. /\ runs'[r].pc = "classified" /\ runs'[r].answer = "error"
        /\ runs'[r].outcome = runs[r].outcome
    BY <1>2, <2>1 DEF Run
  <2>3. /\ \A u \in Vms \ {v} : vm'[u] = vm[u]
        /\ v \in Vms => vm'[v].deadline = vm[v].deadline
    <3>1. CASE vm' = vm
      BY <3>1
    <3>2. CASE vm' = [vm EXCEPT ![v] = Armed(v, r)]
      <4>1. v \in Vms /\ vm[v] \in Vm /\ vm \in [Vms -> Vm]
        BY <1>1, <1>2, <2>1 DEF TypeOK
      <4>2. Armed(v, r).deadline = vm[v].deadline
        BY <4>1 DEF Armed, Vm
      <4>3. QED
        BY <3>2, <4>1, <4>2
    <3>3. QED
      BY <2>1, <3>1, <3>2
  <2>4. RunInv(r)'
    BY <1>1, <2>1, <2>2, TextsDiffer DEF RunInv, At
  <2>5. \A s \in Runs : RunInv(s)'
    BY <1>1, <2>1, <2>3, <2>4, OthersKept
  <2>6. DeadlineIsTheRuns'
    BY <1>1, <2>1, <2>3, DeadlinesKept DEF At
  <2>7. QED
    BY <2>5, <2>6
<1>8. ASSUME NEW r \in Runs, NEW x \in Texts, Abort(r, x) PROVE Done
  <2> DEFINE v == runs[r].vm
  <2>1. /\ Others(r) /\ now' = now /\ At(r, "running") /\ HasVm(r)
        /\ vm[v].in_request
        /\ runs'[r] = [runs[r] EXCEPT !.raised = @ \cup {x}]
        /\ vm' = [vm EXCEPT ![v].pending = x]
    BY <1>1, <1>8 DEF Abort, TypeOK, At, HasVm
  <2>2. /\ runs'[r].pc = "running" /\ runs'[r].vm = v /\ runs'[r].at = runs[r].at
        /\ runs'[r].kind = runs[r].kind /\ runs'[r].raised = runs[r].raised \cup {x}
        /\ runs'[r].outcome = runs[r].outcome /\ runs'[r].answer = runs[r].answer
    BY <1>2, <2>1 DEF Run, At
  <2>3. /\ \A u \in Vms \ {v} : vm'[u] = vm[u]
        /\ v \in Vms /\ vm'[v].deadline = vm[v].deadline
        /\ vm'[v].in_request = vm[v].in_request /\ vm'[v].pending = x
    BY <1>1, <1>2, <2>1 DEF TypeOK, Vm
  <2>4. RunInv(r)'
    BY <1>1, <2>1, <2>2, <2>3, TextsDiffer DEF RunInv, At
  <2>5. \A s \in Runs : RunInv(s)'
    BY <1>1, <2>1, <2>3, <2>4, OthersKept
  <2>6. DeadlineIsTheRuns'
    BY <1>1, <2>1, <2>2, <2>3, DeadlinesKept DEF At
  <2>7. QED
    BY <2>5, <2>6
<1>9. ASSUME NEW r \in Runs, NEW o \in ErrorText \cup {"values", "elapsed"}, Ends(r, o),
             o = Interrupted => runs[r].at # Never /\ now >= runs[r].at
      PROVE  Done
  <2> DEFINE v == runs[r].vm
  <2>1. /\ Others(r) /\ now' = now /\ At(r, "running") /\ HasVm(r)
        /\ runs'[r] = [runs[r] EXCEPT !.pc = "ended", !.outcome = o]
        /\ vm' = [vm EXCEPT ![v].deadline = Never]
    BY <1>1, <1>9 DEF Ends, Disarmed, TypeOK, At, HasVm
  <2>2. /\ runs'[r].pc = "ended" /\ runs'[r].vm = v /\ runs'[r].at = runs[r].at
        /\ runs'[r].kind = runs[r].kind /\ runs'[r].raised = runs[r].raised
        /\ runs'[r].outcome = o /\ runs'[r].answer = runs[r].answer
    BY <1>2, <2>1 DEF Run
  <2>3. /\ \A u \in Vms \ {v} : vm'[u] = vm[u]
        /\ v \in Vms /\ vm'[v].deadline = Never /\ vm'[v].pending = vm[v].pending
    BY <1>1, <1>2, <2>1 DEF TypeOK, Vm
  <2>4. RunInv(r)'
    BY <1>1, <1>9, <2>1, <2>2, <2>3, TextsDiffer DEF RunInv, At
  <2>5. \A s \in Runs : RunInv(s)'
    BY <1>1, <2>1, <2>3, <2>4, OthersKept
  <2>6. DeadlineIsTheRuns'
    BY <1>1, <2>1, <2>3, DeadlinesKept DEF At
  <2>7. QED
    BY <2>5, <2>6
<1>10. ASSUME NEW r \in Runs, Classify(r) PROVE Done
  <2> DEFINE v == runs[r].vm
             answer == ClassifyOutcome(runs[r].outcome, runs[r].at, vm[v].pending)
  <2>1. /\ Others(r) /\ now' = now /\ At(r, "ended") /\ HasVm(r)
        /\ runs'[r] = [runs[r] EXCEPT !.pc = "classified", !.answer = answer]
        /\ vm' = [vm EXCEPT ![v] = [deadline |-> Never, in_request |-> FALSE,
                                    pending |-> NoText]]
    BY <1>1, <1>10 DEF Classify, TypeOK, At, HasVm
  <2>2. runs[r].outcome = Interrupted => answer = "timeout"
    BY <1>1, <2>1, TextsDiffer DEF RunInv, ClassifyOutcome
  <2>3. answer \in Texts => answer = vm[v].pending
    BY TextsDiffer DEF ClassifyOutcome
  <2> HIDE DEF answer
  <2>4. /\ runs'[r].pc = "classified" /\ runs'[r].answer = answer
        /\ runs'[r].kind = runs[r].kind /\ runs'[r].raised = runs[r].raised
        /\ runs'[r].outcome = runs[r].outcome
    BY <1>2, <2>1 DEF Run
  <2>5. /\ \A u \in Vms \ {v} : vm'[u] = vm[u]
        /\ v \in Vms /\ vm'[v].deadline = Never
    BY <1>1, <1>2, <2>1 DEF TypeOK
  <2>6. answer \in Texts => runs[r].kind = "request" /\ answer \in runs[r].raised
    BY <1>1, <2>1, <2>3, TextsDiffer DEF RunInv
  <2>7. RunInv(r)'
    BY <2>2, <2>4, <2>6 DEF RunInv, At
  <2>8. \A s \in Runs : RunInv(s)'
    BY <1>1, <2>1, <2>5, <2>7, OthersKept
  <2>9. DeadlineIsTheRuns'
    BY <1>1, <2>1, <2>5, DeadlinesKept DEF At
  <2>10. QED
    BY <2>8, <2>9
<1>11. ASSUME NEW r \in Runs, CheckIn(r) PROVE Done
  <2>1. /\ Others(r) /\ UNCHANGED <<vm, now>> /\ At(r, "classified")
        /\ runs'[r] = [runs[r] EXCEPT !.pc = "returning", !.vm = NoVm]
    BY <1>1, <1>11 DEF CheckIn, TypeOK, At
  <2>2. /\ runs'[r].pc = "returning"
        /\ runs'[r].kind = runs[r].kind /\ runs'[r].raised = runs[r].raised
        /\ runs'[r].outcome = runs[r].outcome /\ runs'[r].answer = runs[r].answer
    BY <1>2, <2>1 DEF Run
  <2>3. RunInv(r)'
    BY <1>1, <2>2 DEF RunInv, At
  <2>4. \A s \in Runs : RunInv(s)'
    BY <1>1, <2>1, <2>3, OthersKept
  <2>5. DeadlineIsTheRuns'
    BY <1>1, <2>1, DeadlinesKept DEF At
  <2>6. QED
    BY <2>4, <2>5
<1>12. ASSUME NEW r \in Runs, Release(r) PROVE Done
  <2> DEFINE fr == [runs EXCEPT ![r].pc = "done"]
  <2>1. fr \in [Runs -> Run] /\ \A s \in Runs \ {r} : fr[s] = runs[s]
    BY <1>1, Fields DEF TypeOK
  <2>2. /\ fr[r].pc = "done"
        /\ fr[r].kind = runs[r].kind /\ fr[r].raised = runs[r].raised
        /\ fr[r].outcome = runs[r].outcome /\ fr[r].answer = runs[r].answer
    BY <1>1, <1>2 DEF TypeOK, Run
  <2>3. /\ At(r, "returning") /\ Released(fr, waiters) /\ UNCHANGED <<available, vm, now>>
    BY <1>12 DEF Release
  <2> HIDE DEF fr
  <2>4. /\ fr[r].outcome = Interrupted => fr[r].answer \in {"none", "timeout"}
        /\ fr[r].answer \in Texts => fr[r].kind = "request" /\ fr[r].answer \in fr[r].raised
    BY <1>1, <2>2 DEF RunInv
  <2>5. ~At(r, "running") /\ ~At(r, "queued")
    BY <2>3 DEF At
  <2>6. QED
    BY <2>1, <2>2, <2>3, <2>4, <2>5, ReleasedArm
<1>13. ASSUME NEW r \in Runs, Forget(r) \/ LeaveQueue(r) PROVE Done
  <2>1. /\ Others(r) /\ UNCHANGED <<vm, now>> /\ ~At(r, "running")
        /\ runs'[r].pc = "idle" /\ runs'[r].outcome = "none" /\ runs'[r].answer = "none"
    BY <1>1, <1>13 DEF Forget, LeaveQueue, TypeOK, NoRun, At
  <2>2. RunInv(r)'
    BY <2>1, TextsDiffer DEF RunInv, At
  <2>3. \A s \in Runs : RunInv(s)'
    BY <1>1, <2>1, <2>2, OthersKept
  <2>4. DeadlineIsTheRuns'
    BY <1>1, <2>1, DeadlinesKept DEF At
  <2>5. QED
    BY <2>3, <2>4
<1>14. ASSUME NEW r \in Runs, LeaveGranted(r) PROVE Done
  <2> DEFINE fr == [runs EXCEPT ![r] = NoRun]
  <2>1. fr \in [Runs -> Run] /\ \A s \in Runs \ {r} : fr[s] = runs[s]
    BY <1>1, NoRunType DEF TypeOK
  <2>2. fr[r].pc = "idle" /\ fr[r].outcome = "none" /\ fr[r].answer = "none"
    BY <1>1 DEF TypeOK, NoRun
  <2>3. At(r, "granted") /\ Released(fr, waiters) /\ UNCHANGED <<available, vm, now>>
    BY <1>14 DEF LeaveGranted
  <2> HIDE DEF fr
  <2>4. ~At(r, "running") /\ ~At(r, "queued")
    BY <2>3 DEF At
  <2>5. QED
    BY <2>1, <2>2, <2>3, <2>4, TextsDiffer, ReleasedArm
<1>15. ASSUME NEW r \in Runs, LeaveRunning(r) PROVE Done
  <2> DEFINE v == runs[r].vm
  <2>1. /\ Others(r) /\ now' = now /\ At(r, "running") /\ HasVm(r)
        /\ runs'[r] = [runs[r] EXCEPT !.pc = "classified"]
        /\ vm' = [vm EXCEPT ![v].deadline = Never]
    BY <1>1, <1>15 DEF LeaveRunning, Disarmed, TypeOK, At, HasVm
  <2>2. /\ runs'[r].pc = "classified"
        /\ runs'[r].outcome = runs[r].outcome /\ runs'[r].answer = runs[r].answer
    BY <1>2, <2>1 DEF Run
  <2>3. /\ \A u \in Vms \ {v} : vm'[u] = vm[u]
        /\ v \in Vms /\ vm'[v].deadline = Never
    BY <1>1, <1>2, <2>1 DEF TypeOK, Vm
  <2>4. RunInv(r)'
    BY <1>1, <2>1, <2>2, TextsDiffer DEF RunInv, At
  <2>5. \A s \in Runs : RunInv(s)'
    BY <1>1, <2>1, <2>3, <2>4, OthersKept
  <2>6. DeadlineIsTheRuns'
    BY <1>1, <2>1, <2>3, DeadlinesKept DEF At
  <2>7. QED
    BY <2>5, <2>6
<1>16. ASSUME NEW r \in Runs, Return(r) \/ Interrupt(r) \/ Elapse(r) \/
                              \E x \in Texts \cup {Other} : Raise(r, x)
       PROVE  Done
  <2>1. CASE Interrupt(r)
    <3>1. At(r, "running") /\ vm[runs[r].vm].deadline = runs[r].at
      BY <1>1, <2>1 DEF Interrupt, RunInv
    <3>2. runs[r].at # Never /\ now >= runs[r].at /\ Ends(r, Interrupted)
      BY <2>1, <3>1 DEF Interrupt
    <3>3. QED
      BY <1>9, <3>2 DEF ErrorText
  <2>2. CASE Return(r)
    BY <1>9, <2>2, TextsDiffer DEF Return
  <2>3. CASE Elapse(r)
    BY <1>9, <2>3, TextsDiffer DEF Elapse
  <2>4. ASSUME NEW x \in Texts \cup {Other}, Raise(r, x) PROVE Done
    <3>1. x \in ErrorText /\ x # Interrupted /\ Ends(r, x)
      BY <2>4, TextsDiffer DEF Raise, ErrorText
    <3>2. QED
      BY <1>9, <3>1
  <2>5. QED
    BY <1>16, <2>1, <2>2, <2>3, <2>4
<1> HIDE DEF Done
<1>17. Done
  BY <1>3, <1>4, <1>5, <1>6, <1>7, <1>8, <1>10, <1>11, <1>12, <1>13, <1>14, <1>15, <1>16
     DEF Next, Step, Unforced, Leave, Panic
<1>18. QED
  BY <1>1, <1>17 DEF ArmInv, Done

LEMMA ArmInvariant == Spec => []ArmInv
<1>1. Init => ArmInv
  <2> SUFFICES ASSUME Init PROVE ArmInv
    OBVIOUS
  <2>1. \A r \in Runs : runs[r].pc = "idle" /\ runs[r].outcome = "none" /\ runs[r].answer = "none"
    BY DEF Init, NoRun
  <2>2. \A r \in Runs : RunInv(r)
    BY <2>1, TextsDiffer DEF RunInv, At
  <2>3. DeadlineIsTheRuns
    BY DEF Init, DeadlineIsTheRuns
  <2>4. QED
    BY <2>2, <2>3, PoolStart DEF ArmInv
<1>2. ArmInv /\ [Next]_vars => ArmInv'
  BY ArmStep
<1>3. QED
  BY <1>1, <1>2, PTL DEF Spec

(* The interrupt of a VM is never armed but for the run on it. *)
THEOREM DeadlinesCorrect == Spec => []DeadlineIsTheRuns
<1>1. ArmInv => DeadlineIsTheRuns
  BY DEF ArmInv
<1>2. QED
  BY ArmInvariant, <1>1, PTL

(* A run that its deadline interrupted is answered as a timeout. *)
THEOREM TimeoutsCorrect == Spec => []InterruptIsTimeout
<1>1. ArmInv => InterruptIsTimeout
  BY DEF ArmInv, RunInv, InterruptIsTimeout
<1>2. QED
  BY ArmInvariant, <1>1, PTL

(* No abort reaches a run that did not raise it, or a cron run. *)
THEOREM AbortsCorrect == Spec => []AbortIsOwn
<1>1. ArmInv => AbortIsOwn
  BY DEF ArmInv, RunInv, AbortIsOwn
<1>2. QED
  BY ArmInvariant, <1>1, PTL

-----------------------------------------------------------------------------
(* The jobs and the drain *)

(* The runs of a job without overlap are one or none, and its flag tells   *)
(* which, unless a panic left it up.                                       *)
JobInv ==
    /\ task \in [Runs -> Jobs \cup {Conn, NoTask}]
    /\ in_flight \in [Jobs -> BOOLEAN]
    /\ jammed \in SUBSET (Jobs \ Overlap)
    /\ \A j \in Jobs \ Overlap :
        /\ \A r \in Runs : task[r] = j => in_flight[j] /\ j \notin jammed
        /\ in_flight[j] => j \in jammed \/ \E r \in Runs : task[r] = j
        /\ j \in jammed => in_flight[j]
        /\ \A r, s \in Runs : task[r] = j /\ task[s] = j => r = s

(* The tasks that the drain owes are there, and are not of a tracker that  *)
(* was waited for.                                                         *)
DrainInv ==
    /\ waited \subseteq {"connections", "crons"}
    /\ \A r \in owed : r \in Runs /\ task[r] # NoTask
    /\ "connections" \in waited => \A r \in owed : task[r] # Conn
    /\ "crons" \in waited => \A r \in owed : task[r] \notin Jobs
    /\ server = "accepting" => waited = {}
    /\ server = "drained" => owed = {}

ServeInv == JobInv /\ DrainInv

LEMMA ServeStart == ServeInit => ServeInv
  BY JobAssumption, TaskAssumption DEF ServeInit, ServeInv, JobInv, DrainInv

(* A task that goes takes what it owes along. *)
LEMMA GoneDrain ==
    ASSUME ServeInv, NEW r \in Runs, Gone(r)
    PROVE  DrainInv'
<1>1. task' = [task EXCEPT ![r] = NoTask] /\ owed' = owed \ {r}
      /\ waited' = waited /\ server' = server
  BY DEF Gone
<1>2. \A s \in owed' : s \in owed /\ task'[s] = task[s]
  BY <1>1 DEF ServeInv, DrainInv, JobInv
<1>3. QED
  BY <1>1, <1>2 DEF ServeInv, DrainInv

(* A task that comes is not owed. *)
LEMMA SpawnedDrain ==
    ASSUME ServeInv, NEW r \in Runs, NEW t \in Jobs \cup {Conn}, Spawned(r, t),
           UNCHANGED mainVars
    PROVE  DrainInv'
<1>1. task[r] = NoTask /\ task' = [task EXCEPT ![r] = t]
      /\ owed' = owed /\ waited' = waited /\ server' = server
  BY DEF Spawned, mainVars
<1>2. \A s \in owed' : s \in owed /\ task'[s] = task[s]
  BY <1>1 DEF ServeInv, DrainInv, JobInv
<1>3. QED
  BY <1>1, <1>2 DEF ServeInv, DrainInv

LEMMA ServeStep ==
    ASSUME ServeInv, [ServeNext]_serveVars
    PROVE  ServeInv'
<1> USE DEF ServeInv
<1>1. ASSUME UNCHANGED <<task, in_flight, jammed, mainVars>> PROVE ServeInv'
  BY <1>1 DEF JobInv, DrainInv, mainVars
<1>2. ASSUME NEW r \in Runs, Accept(r) PROVE ServeInv'
  <2>1. /\ task[r] = NoTask /\ task' = [task EXCEPT ![r] = Conn]
        /\ in_flight' = in_flight /\ jammed' = jammed
    BY <1>2 DEF Accept, Spawned, loopVars
  <2>2. JobInv'
    BY <2>1, JobAssumption DEF JobInv
  <2>3. DrainInv'
    BY <1>2, SpawnedDrain DEF Accept
  <2>4. QED
    BY <2>2, <2>3
<1>3. ASSUME NEW r \in Runs, Gone(r), task[r] \notin Jobs, UNCHANGED loopVars PROVE ServeInv'
  <2>1. /\ task' = [task EXCEPT ![r] = NoTask]
        /\ in_flight' = in_flight /\ jammed' = jammed
    BY <1>3 DEF Gone, loopVars
  <2>2. JobInv'
    BY <1>3, <2>1, JobAssumption DEF JobInv
  <2>3. QED
    BY <1>3, <2>2, GoneDrain
<1>4. ASSUME NEW j \in Jobs, NEW r \in Runs, Fire(j, r) PROVE ServeInv'
  <2>1. /\ task[r] = NoTask /\ task' = [task EXCEPT ![r] = j]
        /\ in_flight' = [in_flight EXCEPT ![j] = j \notin Overlap]
        /\ j \in Overlap \/ ~in_flight[j]
        /\ jammed' = jammed
    BY <1>4 DEF Fire, Spawned
  <2>2. (j \notin Overlap) \in BOOLEAN
    OBVIOUS
  <2>3. JobInv'
    <3>1. task' \in [Runs -> Jobs \cup {Conn, NoTask}]
      BY <2>1 DEF JobInv
    <3>2. in_flight' \in [Jobs -> BOOLEAN]
      BY <2>1 DEF JobInv
    <3>3. ASSUME NEW i \in Jobs \ Overlap
          PROVE  /\ \A s \in Runs : task'[s] = i => in_flight'[i] /\ i \notin jammed
                 /\ in_flight'[i] => i \in jammed \/ \E s \in Runs : task'[s] = i
                 /\ i \in jammed => in_flight'[i]
                 /\ \A s, t \in Runs : task'[s] = i /\ task'[t] = i => s = t
      <4>1. CASE i = j
        <5>1. ~in_flight[i] /\ i \notin jammed /\ \A s \in Runs : task[s] # i
          BY <2>1, <3>3, <4>1 DEF JobInv
        <5>2. in_flight'[i]
          BY <2>1, <4>1 DEF JobInv
        <5>3. task'[r] = i /\ \A s \in Runs \ {r} : task'[s] # i
          BY <2>1, <4>1, <5>1 DEF JobInv
        <5>4. QED
          BY <5>1, <5>2, <5>3
      <4>2. CASE i # j
        <5>1. in_flight'[i] = in_flight[i]
          BY <2>1, <4>2 DEF JobInv
        <5>2. task[r] # i /\ \A s \in Runs : task'[s] = i <=> task[s] = i
          BY <2>1, <4>2, JobAssumption DEF JobInv
        <5>3. QED
          BY <3>3, <5>1, <5>2 DEF JobInv
      <4>3. QED
        BY <4>1, <4>2
    <3>4. QED
      BY <2>1, <3>1, <3>2, <3>3 DEF JobInv
  <2>4. DrainInv'
    BY <1>4, SpawnedDrain DEF Fire
  <2>5. QED
    BY <2>3, <2>4
<1>5. ASSUME NEW r \in Runs, CronEnds(r) \/ CronUnwinds(r) PROVE ServeInv'
  <2> DEFINE j == task[r]
  <2>1. j \in Jobs /\ Gone(r) /\ task' = [task EXCEPT ![r] = NoTask]
    BY <1>5 DEF CronEnds, CronUnwinds, Gone
  <2>2. \/ in_flight' = [in_flight EXCEPT ![j] = FALSE] /\ jammed' = jammed
        \/ in_flight' = in_flight /\ jammed' = jammed \cup ({j} \ Overlap)
    BY <1>5 DEF CronEnds, CronUnwinds
  <2>3. /\ task' \in [Runs -> Jobs \cup {Conn, NoTask}] /\ in_flight' \in [Jobs -> BOOLEAN]
        /\ jammed' \in SUBSET (Jobs \ Overlap)
    BY <2>1, <2>2 DEF JobInv
  <2>4. ASSUME NEW i \in Jobs \ Overlap
        PROVE  /\ \A s \in Runs : task'[s] = i => in_flight'[i] /\ i \notin jammed'
               /\ in_flight'[i] => i \in jammed' \/ \E s \in Runs : task'[s] = i
               /\ i \in jammed' => in_flight'[i]
               /\ \A s, t \in Runs : task'[s] = i /\ task'[t] = i => s = t
    <3>1. CASE i = j
      <4>1. in_flight[i] /\ i \notin jammed /\ \A s \in Runs : task'[s] # i
        BY <2>1, <2>4, <3>1, JobAssumption DEF JobInv
      <4>2. in_flight'[i] <=> i \in jammed'
        BY <2>1, <2>2, <2>4, <3>1, <4>1 DEF JobInv
      <4>3. QED
        BY <4>1, <4>2
    <3>2. CASE i # j
      <4>1. /\ in_flight'[i] = in_flight[i] /\ (i \in jammed' <=> i \in jammed)
            /\ \A s \in Runs : task'[s] = i <=> task[s] = i
        BY <2>1, <2>2, <3>2, JobAssumption DEF JobInv
      <4>2. QED
        BY <2>4, <4>1 DEF JobInv
    <3>3. QED
      BY <3>1, <3>2
  <2>5. JobInv'
    BY <2>3, <2>4 DEF JobInv
  <2>6. QED
    BY <2>1, <2>5, GoneDrain
<1>6. ASSUME UNCHANGED <<loopVars, task>>,
             Signal \/ AcceptFails \/ Drain \/ Returns \/
                \E what \in {"connections", "crons"} : Waited(what)
      PROVE  ServeInv'
  <2>1. JobInv'
    BY <1>6 DEF JobInv, loopVars
  <2> SUFFICES DrainInv'
    BY <2>1
  <2>2. CASE Signal \/ AcceptFails
    BY <1>6, <2>2 DEF DrainInv, Signal, AcceptFails
  <2>3. CASE Drain
    <3>1. /\ server' = "draining" /\ task' = task /\ waited' = waited
          /\ owed' = {r \in Runs : task[r] # NoTask} /\ server = "accepting"
      BY <2>3 DEF Drain
    <3>2. QED
      BY <3>1 DEF DrainInv
  <2>4. ASSUME NEW what \in {"connections", "crons"}, Waited(what) PROVE DrainInv'
    <3>1. /\ server = "draining" /\ server' = server /\ owed' = owed /\ task' = task
          /\ waited' = waited \cup {what} /\ Tasks(what) = {}
      BY <2>4 DEF Waited
    <3>2. CASE what = "connections"
      <4>1. \A r \in Runs : task[r] # Conn
        BY <3>1, <3>2 DEF Tasks
      <4>2. QED
        BY <3>1, <3>2, <4>1 DEF DrainInv
    <3>3. CASE what = "crons"
      <4>1. \A r \in Runs : task[r] \notin Jobs
        BY <3>1, <3>3 DEF Tasks
      <4>2. QED
        BY <3>1, <3>3, <4>1 DEF DrainInv
    <3>4. QED
      BY <3>2, <3>3
  <2>5. CASE Returns
    <3>1. /\ owed' = owed /\ task' = task /\ waited' = waited
          /\ \/ server' = "cut short"
             \/ server' = "drained" /\ waited = {"connections", "crons"}
      BY <2>5 DEF Returns
    <3>2. waited = {"connections", "crons"} => owed = {}
      BY DEF DrainInv, JobInv
    <3>3. QED
      BY <3>1, <3>2 DEF DrainInv
  <2>6. QED
    BY <1>6, <2>2, <2>3, <2>4, <2>5
<1>7. CASE UNCHANGED serveVars
  BY <1>1, <1>7 DEF serveVars, loopVars, mainVars
<1>8. ASSUME NEW j \in Jobs, LoopStep(j) PROVE ServeInv'
  BY <1>1, <1>4, <1>8 DEF LoopStep, Wake, Stop, Look, Skip
<1>9. ASSUME NEW r \in Runs, RunStep(r) PROVE ServeInv'
  <2>1. CASE Respond(r)
    <3>1. task[r] \notin Jobs
      BY <2>1, JobAssumption DEF Respond
    <3>2. QED
      BY <1>1, <1>3, <2>1, <3>1 DEF Respond, loopVars
  <2>2. CASE CronEnds(r) \/ CronUnwinds(r)
    BY <1>5, <2>2
  <2>3. CASE RunCron(r)
    BY <1>1, <2>3 DEF RunCron, loopVars
  <2>4. CASE UNCHANGED <<loopVars, task, mainVars>>
    BY <1>1, <2>4 DEF loopVars
  <2>5. QED
    BY <1>9, <2>1, <2>2, <2>3, <2>4 DEF RunStep
<1>10. ASSUME NEW r \in Runs, Request(r) PROVE ServeInv'
  BY <1>1, <1>10 DEF Request, loopVars
<1>11. ASSUME NEW r \in Runs, Close(r) \/ ClientLeaves(r) PROVE ServeInv'
  <2>1. task[r] \notin Jobs /\ (Gone(r) \/ UNCHANGED <<task, mainVars>>) /\ UNCHANGED loopVars
    BY <1>11, JobAssumption DEF Close, ClientLeaves
  <2>2. QED
    BY <1>1, <1>3, <2>1 DEF loopVars
<1>12. CASE UNCHANGED <<loopVars, task, mainVars>>
  BY <1>1, <1>12 DEF loopVars
<1>13. CASE Signal \/ AcceptFails \/ Drain \/ Returns \/
              \E what \in {"connections", "crons"} : Waited(what)
  BY <1>6, <1>13 DEF Signal, AcceptFails, Drain, Returns, Waited
<1>14. QED
  BY <1>2, <1>7, <1>8, <1>9, <1>10, <1>11, <1>12, <1>13 DEF ServeNext

LEMMA ServeInvariant == ServeSpec => []ServeInv
<1>1. ServeInv /\ [ServeNext]_serveVars => ServeInv'
  BY ServeStep
<1>2. QED
  BY ServeStart, <1>1, PTL DEF ServeSpec

(* Two runs of a job without overlap are never there at once. *)
THEOREM JobsSingle == ServeSpec => []NoOverlap
<1>1. ASSUME ServeInv PROVE NoOverlap
  <2> SUFFICES ASSUME NEW j \in Jobs \ Overlap PROVE Cardinality(RunsOf(j)) <= 1
    BY DEF NoOverlap
  <2>1. CASE RunsOf(j) = {}
    BY <2>1, FS_EmptySet
  <2>2. CASE RunsOf(j) # {}
    <3>1. PICK r \in RunsOf(j) : TRUE
      BY <2>2
    <3>2. RunsOf(j) = {r}
      BY <1>1, <3>1 DEF RunsOf, ServeInv, JobInv
    <3>3. QED
      BY <3>2, FS_EmptySet, FS_AddElement
  <2>3. QED
    BY <2>1, <2>2
<1>2. QED
  BY ServeInvariant, <1>1, PTL

(* The flag that makes a tick be skipped is never left up by a run but one *)
(* that panicked, and never down beside one.                               *)
THEOREM FlagsCorrect == ServeSpec => []InFlightExact
<1>1. ServeInv => InFlightExact
  BY DEF ServeInv, JobInv, InFlightExact, RunsOf
<1>2. QED
  BY ServeInvariant, <1>1, PTL

(* The loops and the server are always in one of their states. *)
LoopsTyped ==
    /\ loops \in [Jobs -> {"sleeping", "woken", "checked", "stopped"}]
    /\ signalled \in BOOLEAN
    /\ server \in {"accepting", "draining", "drained", "cut short", "failed"}

LEMMA LoopsTypedStep ==
    ASSUME LoopsTyped, [ServeNext]_serveVars
    PROVE  LoopsTyped'
<1>1. CASE UNCHANGED mainVars /\ (UNCHANGED loops \/ \E j \in Jobs, pc \in {"sleeping", "woken", "checked", "stopped"} : LoopTo(j, pc))
  BY <1>1 DEF LoopsTyped, mainVars, LoopTo
<1>2. ASSUME NEW j \in Jobs, LoopStep(j) PROVE LoopsTyped'
  BY <1>1, <1>2 DEF LoopStep, Wake, Stop, Look, Skip, Fire
<1>3. CASE UNCHANGED <<loops, signalled, server>>
  BY <1>3 DEF LoopsTyped
<1>4. ASSUME NEW r \in Runs, RunStep(r) PROVE LoopsTyped'
  BY <1>3, <1>4 DEF RunStep, RunCron, CronEnds, CronUnwinds, Respond, Gone, loopVars, mainVars
<1>5. ASSUME NEW r \in Runs, Accept(r) \/ Request(r) \/ Close(r) \/ ClientLeaves(r)
      PROVE  LoopsTyped'
  BY <1>3, <1>5 DEF Accept, Request, Close, ClientLeaves, Gone, loopVars, mainVars
<1>6. CASE UNCHANGED <<loopVars, task, mainVars>>
  BY <1>3, <1>6 DEF loopVars, mainVars
<1>7. CASE Signal \/ AcceptFails \/ Drain \/ Returns \/
              \E what \in {"connections", "crons"} : Waited(what)
  BY <1>7 DEF LoopsTyped, Signal, AcceptFails, Drain, Returns, Waited, loopVars
<1>8. CASE UNCHANGED serveVars
  BY <1>3, <1>8 DEF serveVars, loopVars, mainVars
<1>9. QED
  BY <1>2, <1>4, <1>5, <1>6, <1>7, <1>8 DEF ServeNext

(* The flag of a job and its runs agree: up with its one run, down without *)
(* one, and up for good, with no run ever again, once a run panicked.      *)
THEOREM JobsCorrect == ServeSpec => []JobsSound
<1>1. ServeInit => LoopsTyped
  BY DEF ServeInit, LoopsTyped
<1>2. LoopsTyped /\ [ServeNext]_serveVars => LoopsTyped'
  BY LoopsTypedStep
<1>3. ServeSpec => []LoopsTyped
  BY <1>1, <1>2, PTL DEF ServeSpec
<1>4. LoopsTyped /\ ServeInv => ServeTypeOK
  BY DEF LoopsTyped, ServeInv, JobInv, DrainInv, ServeTypeOK
<1>5. ServeTypeOK /\ NoOverlap /\ InFlightExact => JobsSound
  BY DEF JobsSound
<1>6. QED
  BY <1>3, <1>4, <1>5, ServeInvariant, JobsSingle, FlagsCorrect, PTL

(* A drain that is not cut short leaves nothing of what was there when it  *)
(* began.                                                                  *)
THEOREM DrainCorrect == ServeSpec => []DrainWaits
<1>1. ServeInv => DrainWaits
  BY DEF ServeInv, DrainInv, DrainWaits
<1>2. QED
  BY ServeInvariant, <1>1, PTL

LEMMA LoopsMove ==
    ASSUME DOMAIN loops = Jobs, [ServeNext]_serveVars
    PROVE  /\ DOMAIN loops' = Jobs
           /\ \A j \in Jobs : signalled /\ loops[j] # "checked" => loops'[j] # "checked"
<1>1. CASE loops' = loops
  BY <1>1
<1>2. ASSUME NEW i \in Jobs, LoopStep(i)
      PROVE  /\ DOMAIN loops' = Jobs
             /\ \A j \in Jobs : signalled /\ loops[j] # "checked" => loops'[j] # "checked"
  <2>1. CASE Look(i)
    <3>1. /\ loops' = [loops EXCEPT ![i] = loops'[i]]
          /\ signalled => loops'[i] = "stopped"
      BY <2>1 DEF Look, LoopTo
    <3>2. QED
      BY <3>1
  <2>2. CASE ~Look(i)
    <3>1. PICK pc \in {"woken", "stopped", "sleeping"} : loops' = [loops EXCEPT ![i] = pc]
      BY <1>2, <2>2 DEF LoopStep, Wake, Stop, Skip, Fire, LoopTo
    <3>2. QED
      BY <3>1
  <2>3. QED
    BY <2>1, <2>2
<1>3. loops' = loops \/ \E i \in Jobs : LoopStep(i)
  BY DEF ServeNext, serveVars, loopVars, RunStep, RunCron, CronEnds, CronUnwinds, Respond, Accept,
         Request, Close, ClientLeaves, Signal, AcceptFails, Drain, Waited, Returns
<1>4. QED
  BY <1>1, <1>2, <1>3

(* Once the signal is sent, a loop that is not past its second look does   *)
(* not get past it.                                                        *)
THEOREM SchedulingCorrect == ServeSpec => SchedulingStops
<1>1. ServeInit => DOMAIN loops = Jobs
  BY DEF ServeInit
<1>2. DOMAIN loops = Jobs /\ [ServeNext]_serveVars => (DOMAIN loops = Jobs)'
  BY LoopsMove
<1>3. DOMAIN loops = Jobs /\ [ServeNext]_serveVars =>
        [\A j \in Jobs : signalled /\ loops[j] # "checked" => loops'[j] # "checked"]_serveVars
  BY LoopsMove
<1>4. QED
  BY <1>1, <1>2, <1>3, PTL DEF ServeSpec, SchedulingStops
=============================================================================
