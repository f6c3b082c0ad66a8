-------------------------------- MODULE Pool --------------------------------
(***************************************************************************)
(* The VM pool of lur serve and the life of a run on it (src/src/serve.rs, *)
(* runtime.rs): wait for a permit, take a VM, arm it, call the handler     *)
(* under the deadline, classify how it ended, hand the VM back.            *)
(*                                                                         *)
(* A run is an HTTP request past routing, or a cron job's.  A client may   *)
(* leave at any await, and what follows is then skipped, guards aside.     *)
(* Scripts raise errors of a few texts; an abort is known by its text, as  *)
(* in the code.  Which of the available VMs is taken makes no difference.  *)
(***************************************************************************)
EXTENDS Integers, Sequences, FiniteSets

CONSTANTS
    Vms,
    Runs,         \* requests and cron runs in progress or answered
    Kinds,        \* the kinds of runs: "request", "cron"
    Timeouts,     \* the time limits; 0 is none
    Texts,        \* messages of lur.serve.abort
    Other,        \* the text of any other error
    Interrupted,  \* the text of the deadline's error
    Never,        \* no instant
    NoText,       \* no abort pending
    NoVm,
    MaxNow        \* bound: the last instant

VARIABLES
    available,  \* Pool::available
    permits,    \* Pool::permits
    waiters,    \* runs in the semaphore's queue
    vm,         \* what the server keeps for each VM
    runs,
    now         \* the clock

vars == <<available, permits, waiters, vm, runs, now>>

Instant == Nat \cup {Never}
ErrorText == Texts \cup {Other, Interrupted}

(* The deadline of the interrupt, and AbortState. *)
Vm == [deadline : Instant, in_request : BOOLEAN, pending : Texts \cup {NoText}]

(* outcome is what with_timeout gave: values, an error's text, or nothing  *)
(* in time.  answer is what the caller gets, an abort's text standing for  *)
(* its response.  raised holds the aborts the run's script raised.         *)
Run == [pc      : {"idle", "queued", "granted", "held", "running", "ended",
                   "classified", "returning", "done"},
        kind    : Kinds,
        vm      : Vms \cup {NoVm},
        at      : Instant,
        raised  : SUBSET Texts,
        outcome : ErrorText \cup {"none", "values", "elapsed"},
        answer  : Texts \cup {"none", "values", "error", "timeout"}]

ASSUME FinitePool == IsFiniteSet(Vms) /\ IsFiniteSet(Runs)
ASSUME SomeVm == Vms # {} /\ NoVm \notin Vms
ASSUME SomeKind == Kinds # {}
ASSUME NeverLate == Never \notin Nat
ASSUME LimitsAreTimes == Timeouts \subseteq Nat
ASSUME TextsDiffer ==
    /\ Texts \cap {Other, Interrupted, "none", "values", "error", "timeout", "elapsed"} = {}
    /\ NoText \notin Texts \cup {Other, Interrupted}
    /\ Interrupted \notin {Other, "none", "values", "elapsed"}

TypeOK ==
    /\ available \in SUBSET Vms
    /\ permits \in Nat
    /\ waiters \in Seq(Runs)
    /\ vm \in [Vms -> Vm]
    /\ runs \in [Runs -> Run]
    /\ now \in Nat

NoRun == [pc |-> "idle", kind |-> CHOOSE k \in Kinds : TRUE, vm |-> NoVm,
          at |-> Never, raised |-> {}, outcome |-> "none", answer |-> "none"]

Init ==
    /\ available = Vms
    /\ permits = Cardinality(Vms)
    /\ waiters = <<>>
    /\ vm = [v \in Vms |-> [deadline |-> Never, in_request |-> FALSE, pending |-> NoText]]
    /\ runs = [r \in Runs |-> NoRun]
    /\ now = 0

At(r, pc) == runs[r].pc = pc
HasPermit(r) == runs[r].pc \in {"granted", "held", "running", "ended",
                                "classified", "returning"}
HasVm(r) == runs[r].pc \in {"held", "running", "ended", "classified"}

-----------------------------------------------------------------------------
(* Checkout *)

(* A permit goes to the first waiter, or back to the semaphore; fr is the  *)
(* runs after the rest of the step, ws the waiters.                        *)
Released(fr, ws) ==
    /\ waiters' = IF ws = <<>> THEN ws ELSE Tail(ws)
    /\ permits' = IF ws = <<>> THEN permits + 1 ELSE permits
    /\ runs' = IF ws = <<>> THEN fr ELSE [fr EXCEPT ![Head(ws)].pc = "granted"]

Arrive(r, k) ==
    /\ At(r, "idle")
    /\ runs' = [runs EXCEPT ![r] = [NoRun EXCEPT
                    !.kind = k, !.pc = IF permits > 0 THEN "granted" ELSE "queued"]]
    /\ permits' = IF permits > 0 THEN permits - 1 ELSE permits
    /\ waiters' = IF permits > 0 THEN waiters ELSE Append(waiters, r)
    /\ UNCHANGED <<available, vm, now>>

(* The pop after the permit: nothing keeps other threads still between. *)
Checkout(r) ==
    /\ At(r, "granted")
    /\ \E v \in available :
        /\ available' = available \ {v}
        /\ runs' = [runs EXCEPT ![r].pc = "held", ![r].vm = v]
    /\ UNCHANGED <<permits, waiters, vm, now>>

-----------------------------------------------------------------------------
(* call_handler *)

(* Mutant: what an earlier run left stays. *)
ArmedKeeping(v, r) == [vm[v] EXCEPT !.in_request = (runs[r].kind = "request")]

(* arm_vm. *)
Armed(v, r) ==
    [vm[v] EXCEPT !.in_request = (runs[r].kind = "request"), !.pending = NoText]

Start(r, timeout) ==
    LET v == runs[r].vm
        at == IF timeout = 0 THEN Never ELSE now + timeout
    IN  /\ At(r, "held")
        /\ vm' = [vm EXCEPT ![v] = [Armed(v, r) EXCEPT !.deadline = at]]
        /\ runs' = [runs EXCEPT ![r].pc = "running", ![r].at = at]
        /\ UNCHANGED <<available, permits, waiters, now>>

(* No memory for a request's table (armed is FALSE) or for the fresh       *)
(* environment: the call never starts.                                     *)
StartFails(r, armed) ==
    LET v == runs[r].vm IN
    /\ At(r, "held")
    /\ armed \/ runs[r].kind = "request"
    /\ vm' = IF armed THEN [vm EXCEPT ![v] = Armed(v, r)] ELSE vm
    /\ runs' = [runs EXCEPT ![r].pc = "classified", ![r].answer = "error"]
    /\ UNCHANGED <<available, permits, waiters, now>>

(* lur.serve.abort; where there is no request to abort it is an error like *)
(* any other.                                                              *)
Abort(r, x) ==
    LET v == runs[r].vm IN
    /\ At(r, "running")
    /\ vm[v].in_request
    /\ vm' = [vm EXCEPT ![v].pending = x]
    /\ runs' = [runs EXCEPT ![r].raised = @ \cup {x}]
    /\ UNCHANGED <<available, permits, waiters, now>>

(* with_timeout ends: the deadline is cleared before the call is dropped   *)
(* and its flights end (SingleFlight's EndRun).                            *)
Disarmed(v) == [vm EXCEPT ![v].deadline = Never]

Ends(r, outcome) ==
    /\ At(r, "running")
    /\ vm' = Disarmed(runs[r].vm)
    /\ runs' = [runs EXCEPT ![r].pc = "ended", ![r].outcome = outcome]
    /\ UNCHANGED <<available, permits, waiters, now>>

Return(r) == Ends(r, "values")

(* An error nobody caught.  Any text, also that of an abort another run or *)
(* this one raised, which the script may keep.                             *)
Raise(r, x) == Ends(r, x)

(* The interrupt, which is the VM's, not the run's; a script that catches  *)
(* it may go on, and meet it again.                                        *)
Interrupt(r) ==
    /\ At(r, "running")
    /\ vm[runs[r].vm].deadline # Never /\ now >= vm[runs[r].vm].deadline
    /\ Ends(r, Interrupted)

(* The timer of a parked call. *)
Elapse(r) ==
    /\ runs[r].at # Never /\ now >= runs[r].at
    /\ Ends(r, "elapsed")

(* Mutant: at the deadline is not past it. *)
ClassifyLater(outcome, at, pending) ==
    CASE outcome = "elapsed" -> "timeout"
      [] outcome = "values" -> "values"
      [] OTHER -> IF at # Never /\ now > at THEN "timeout"
                  ELSE IF pending = outcome THEN pending ELSE "error"

(* classify_outcome: past the deadline, whatever error is a timeout; an    *)
(* abort is the pending one, if the text is its message.                   *)
ClassifyOutcome(outcome, at, pending) ==
    CASE outcome = "elapsed" -> "timeout"
      [] outcome = "values" -> "values"
      [] OTHER -> IF at # Never /\ now >= at THEN "timeout"
                  ELSE IF pending = outcome THEN pending ELSE "error"

(* The tail of call_handler. *)
Classify(r) ==
    LET v == runs[r].vm IN
    /\ At(r, "ended")
    /\ vm' = [vm EXCEPT ![v] = [deadline |-> Never, in_request |-> FALSE,
                                pending |-> NoText]]
    /\ runs' = [runs EXCEPT ![r].pc = "classified",
            ![r].answer = ClassifyOutcome(runs[r].outcome, runs[r].at, vm[v].pending)]
    /\ UNCHANGED <<available, permits, waiters, now>>

-----------------------------------------------------------------------------
(* The way back *)

(* CheckedOut's drop pushes the VM, and its permit is released after. *)
CheckIn(r) ==
    /\ At(r, "classified")
    /\ available' = available \cup {runs[r].vm}
    /\ runs' = [runs EXCEPT ![r].pc = "returning", ![r].vm = NoVm]
    /\ UNCHANGED <<permits, waiters, vm, now>>

Release(r) ==
    /\ At(r, "returning")
    /\ Released([runs EXCEPT ![r].pc = "done"], waiters)
    /\ UNCHANGED <<available, vm, now>>

Forget(r) ==
    /\ At(r, "done")
    /\ runs' = [runs EXCEPT ![r] = NoRun]
    /\ UNCHANGED <<available, permits, waiters, vm, now>>

(* The client leaves.  In the queue, or with a permit it has not seen; or  *)
(* while the handler runs: the guards of with_timeout and CheckedOut drop, *)
(* and the tail of call_handler never comes.                               *)
LeaveQueue(r) ==
    /\ At(r, "queued")
    /\ \E i \in DOMAIN waiters :
        /\ waiters[i] = r
        /\ waiters' = SubSeq(waiters, 1, i - 1) \o SubSeq(waiters, i + 1, Len(waiters))
    /\ runs' = [runs EXCEPT ![r] = NoRun]
    /\ UNCHANGED <<available, permits, vm, now>>

LeaveGranted(r) ==
    /\ At(r, "granted")
    /\ Released([runs EXCEPT ![r] = NoRun], waiters)
    /\ UNCHANGED <<available, vm, now>>

(* Mutants: the deadline, or the VM, is handed back in the tail only. *)
LeaveArmed(r) ==
    /\ At(r, "running")
    /\ runs' = [runs EXCEPT ![r].pc = "classified"]
    /\ UNCHANGED <<available, permits, waiters, vm, now>>
LeaveWithVm(r) ==
    /\ At(r, "running")
    /\ vm' = Disarmed(runs[r].vm)
    /\ runs' = [runs EXCEPT ![r].pc = "returning", ![r].vm = NoVm]
    /\ UNCHANGED <<available, permits, waiters, now>>

LeaveRunning(r) ==
    /\ At(r, "running")
    /\ vm' = Disarmed(runs[r].vm)
    /\ runs' = [runs EXCEPT ![r].pc = "classified"]
    /\ UNCHANGED <<available, permits, waiters, now>>

Leave(r) ==
    /\ runs[r].kind = "request"
    /\ LeaveQueue(r) \/ LeaveGranted(r) \/ LeaveRunning(r)

(* A panic inside the handler unwinds its task, a connection's or a job's, *)
(* and drops the same guards.                                              *)
Panic(r) == LeaveRunning(r)

Tick ==
    /\ now < MaxNow
    /\ now' = now + 1
    /\ UNCHANGED <<available, permits, waiters, vm, runs>>

(* What its client, its script or a fault may do to it, and need not. *)
Unforced(r) == Leave(r) \/ Panic(r) \/ \E x \in Texts : Abort(r, x)

(* What a run does once it is in, of itself. *)
Step(r) ==
    \/ Checkout(r)
    \/ \E t \in Timeouts : Start(r, t)
    \/ \E armed \in BOOLEAN : StartFails(r, armed)
    \/ Return(r)
    \/ \E x \in Texts \cup {Other} : Raise(r, x)
    \/ Interrupt(r)
    \/ Elapse(r)
    \/ Classify(r)
    \/ CheckIn(r)
    \/ Release(r)

Next ==
    \/ Tick
    \/ \E r \in Runs :
        \/ \E k \in Kinds : Arrive(r, k)
        \/ Step(r)
        \/ Unforced(r)
        \/ Forget(r)

Spec == Init /\ [][Next]_vars

-----------------------------------------------------------------------------
(* Properties. *)

(* Every permit and every VM is somewhere, once: in the semaphore or the   *)
(* pool, or with one run, whoever left and when.                           *)
PoolConserved ==
    /\ permits + Cardinality({r \in Runs : HasPermit(r)}) = Cardinality(Vms)
    /\ \A r \in Runs : HasVm(r) => runs[r].vm \in Vms \ available
    /\ \A r, s \in Runs : HasVm(r) /\ HasVm(s) /\ runs[r].vm = runs[s].vm => r = s
    /\ \A v \in Vms \ available : \E r \in Runs : HasVm(r) /\ runs[r].vm = v

(* checkout's expect, "a permit guarantees an available VM", never fails,  *)
(* however many runs pop at once.                                          *)
PermitFindsVm ==
    Cardinality({r \in Runs : At(r, "granted")}) <= Cardinality(available)

(* A permit is a VM, as checkout takes it to be. *)
PoolSound == TypeOK /\ PoolConserved /\ PermitFindsVm

(* A VM has a deadline only while a run with that time limit is on it: no  *)
(* interrupt reaches an idle VM or a later run.                            *)
DeadlineIsTheRuns ==
    \A v \in Vms : vm[v].deadline # Never =>
        \E r \in Runs : At(r, "running") /\ runs[r].vm = v /\ runs[r].at = vm[v].deadline

(* A run that the interrupt ended is a timeout to its caller, never an     *)
(* error of the script.                                                    *)
InterruptIsTimeout ==
    \A r \in Runs : runs[r].outcome = Interrupted => runs[r].answer \in {"none", "timeout"}

(* An abort is answered only to a request whose own script raised it: none *)
(* is left over for the next run of the VM, and no cron run is aborted.    *)
AbortIsOwn ==
    \A r \in Runs : runs[r].answer \in Texts =>
        runs[r].kind = "request" /\ runs[r].answer \in runs[r].raised

=============================================================================
