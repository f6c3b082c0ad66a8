---------------------------- MODULE SingleFlight ----------------------------
(***************************************************************************)
(* lur.state.fetch across a pool of VMs (src/src/capabilities/state.rs,    *)
(* state/resume.rs): concurrent misses on a key run one loader, its        *)
(* outcome is shared with the waiters, and a leader that ends without one  *)
(* hands off.  Calls nest: a loader may itself fetch, so waiting can close *)
(* a cycle, which the wait edges recorded on the flights must prevent.     *)
(*                                                                         *)
(* A frame is one fetch call in progress.  The entries of the store are    *)
(* reduced to what join and finish see of a key (StateStore has the        *)
(* entries): "missing" reads as version 0 (absent, stale or dead);         *)
(* "loaded" and "written" are fresh values, of a loader and of any other   *)
(* operation.                                                              *)
(***************************************************************************)
EXTENDS Naturals, FiniteSets

CONSTANTS
    Keys,        \* the keys fetched
    Vms,         \* the pooled VMs
    Frames,      \* fetch calls that may be in progress at once
    MaxFlights,  \* bound: flights started in a behaviour (see Budget)
    MaxDepth,    \* bound: nested coroutine.resume calls on one VM
    NoFlight,    \* no loader in flight for a key
    Idle         \* no fetch call in this slot

VARIABLES
    cell,        \* [Keys -> Cell]: the entry, as fetch sees it
    flights,     \* Inner::flights
    next_flight, \* Inner::next_flight
    leads,       \* each VM's VmLeads
    running,     \* VMs with a request or a cron run on them
    frames       \* the fetch calls in progress

vars == <<cell, flights, next_flight, leads, running, frames>>

FreshCell == {"loaded", "written"}
Cell == FreshCell \cup {"missing"}

Flight == [id : Nat, owner : Vms, depth : Nat, waits : [Keys -> Nat]]

VmLeads == [all : Nat, nested : Nat, depth : Nat]

(* What a waiter finds in the channel: the leader's outcome (a value, an   *)
(* error or a rejection: the waiter returns all the same), or that it      *)
(* closed without one.                                                     *)
Box == {"none", "outcome", "closed"}

(* id is the flight led ("load") or subscribed to ("wait"); chain holds    *)
(* <<key, id>> of every flight whose loader the call runs inside; within,  *)
(* the frames of those loaders.  run is "on" while the run polls the call, *)
(* "parked" once the resume it ran in returned, "dead" when only a garbage *)
(* collection can still drop its guards.                                   *)
Frame == [pc     : {"join", "wait", "load", "inline"},
          run    : {"on", "parked", "dead"},
          vm     : Vms,
          key    : Keys,
          depth  : Nat,
          id     : Nat,
          chain  : SUBSET (Keys \X Nat),
          within : SUBSET Frames,
          box    : Box]

ASSUME SentinelAssumption == NoFlight \notin Flight /\ Idle \notin Frame
ASSUME FiniteAssumption == IsFiniteSet(Keys) /\ IsFiniteSet(Frames)
ASSUME BoundAssumption == MaxFlights \in Nat /\ MaxDepth \in Nat

TypeOK ==
    /\ cell \in [Keys -> Cell]
    /\ flights \in [Keys -> Flight \cup {NoFlight}]
    /\ next_flight \in Nat
    /\ leads \in [Vms -> VmLeads]
    /\ running \in SUBSET Vms
    /\ frames \in [Frames -> Frame \cup {Idle}]

Init ==
    /\ cell = [k \in Keys |-> "missing"]
    /\ flights = [k \in Keys |-> NoFlight]
    /\ next_flight = 0
    /\ leads = [v \in Vms |-> [all |-> 0, nested |-> 0, depth |-> 0]]
    /\ running = {}
    /\ frames = [c \in Frames |-> Idle]

-----------------------------------------------------------------------------
(* The flight table. *)

Fresh(k) == cell[k] \in FreshCell
Led(k) == flights[k] # NoFlight

(* k still has the flight that chain says it had. *)
SameLead(k, chain) == Led(k) /\ <<k, flights[k].id>> \in chain

EdgeUp(chain, key) ==
    [k \in Keys |-> IF SameLead(k, chain)
                    THEN [flights[k] EXCEPT !.waits[key] = @ + 1]
                    ELSE flights[k]]

EdgeDown(chain, key) ==
    [k \in Keys |-> IF SameLead(k, chain) /\ flights[k].waits[key] > 0
                    THEN [flights[k] EXCEPT !.waits[key] = @ - 1]
                    ELSE flights[k]]

(* A set of keys that the wait edges never leave. *)
ClosedUnderWaits(S) ==
    \A k \in S : Led(k) => \A q \in Keys : flights[k].waits[q] > 0 => q \in S

(* Mutants: the search stops at the first key; there is none.              *)
WaitsForDirectly(key, chain) == \E link \in chain : link[1] = key
WaitsForNothing(key, chain) == FALSE

(* The search of waits_for: from key along the edges, is a key of chain    *)
(* reached?  It is iff every set that holds key and is closed under the    *)
(* edges meets the chain.                                                  *)
WaitsFor(key, chain) ==
    \A S \in SUBSET Keys :
        key \in S /\ ClosedUnderWaits(S) => \E link \in chain : link[1] \in S

(* The flights of the keys in S leave the table, each with its owner's     *)
(* counts, and their channels give box to the subscribers.                 *)
OwnedBy(v) == {k \in Keys : Led(k) /\ flights[k].owner = v}
NestedOf(v) == {k \in OwnedBy(v) : flights[k].depth > 0}

FlightsWithout(S) == [k \in Keys |-> IF k \in S THEN NoFlight ELSE flights[k]]

(* Mutant: a hand-off leaves the nested count alone. *)
LeadsWithoutNested(S) ==
    [v \in Vms |-> [leads[v] EXCEPT !.all = @ - Cardinality(S \cap OwnedBy(v))]]
LeadsWithout(S) ==
    [v \in Vms |-> [leads[v] EXCEPT
        !.all = @ - Cardinality(S \cap OwnedBy(v)),
        !.nested = @ - Cardinality(S \cap NestedOf(v))]]

Subscribed(x, S) ==
    /\ frames[x] # Idle
    /\ frames[x].pc = "wait"
    /\ \E k \in S : frames[x].key = k /\ frames[x].id = flights[k].id

Notified(S, box) ==
    [x \in Frames |-> IF Subscribed(x, S) THEN [frames[x] EXCEPT !.box = box]
                                          ELSE frames[x]]

(* Mutant: the key's flight, whoever leads it now. *)
TakeFlightOfKey(c) ==
    {k \in Keys : k = frames[c].key /\ frames[c].pc = "load" /\ Led(k)}

(* take_flight: the flight c leads, if it is still in the table. *)
TakeFlight(c) ==
    {k \in Keys : /\ k = frames[c].key
                  /\ frames[c].pc = "load"
                  /\ Led(k)
                  /\ flights[k].id = frames[c].id}

(* The flights of v that began at resume depth d or deeper. *)
StartedAt(v, d) == {k \in OwnedBy(v) : flights[k].depth >= d}

-----------------------------------------------------------------------------
(* Which call the VM's thread may run. *)

On(c) == frames[c] # Idle /\ frames[c].run = "on"

(* lookup and join (and a woken waiter's next join) follow each other with *)
(* no await: nothing else of the VM runs in between.                       *)
Joining(v) == \E c \in Frames : On(c) /\ frames[c].vm = v /\ frames[c].pc = "join"

(* A resume is a synchronous call: while it runs, only calls made inside   *)
(* it make progress on the VM.                                             *)
AtDepth(c) ==
    /\ On(c)
    /\ frames[c].vm \in running
    /\ frames[c].depth = leads[frames[c].vm].depth

Turn(c) == AtDepth(c) /\ ~Joining(frames[c].vm)

(* The calls c's loader is awaiting. *)
Inside(c) == {d \in Frames : On(d) /\ c \in frames[d].within}

(* c's slot becomes free; fr is the frames after the rest of the step. *)
Ended(fr, c) ==
    [x \in Frames |-> IF x = c THEN Idle
                      ELSE IF fr[x] = Idle THEN Idle
                      ELSE [fr[x] EXCEPT !.within = @ \ {c}]]

(* The calls in S can only be collected from now on. *)
Doomed(fr, S) ==
    [x \in Frames |-> IF x \in S THEN [fr[x] EXCEPT !.run = "dead"] ELSE fr[x]]

-----------------------------------------------------------------------------
(* fetch *)

NewFrame(v, k, chain, within) ==
    [pc |-> "join", run |-> "on", vm |-> v, key |-> k,
     depth |-> leads[v].depth, id |-> 0, chain |-> chain, within |-> within,
     box |-> "none"]

(* Bound: every call may still lead once, and flights stay below           *)
(* MaxFlights.                                                             *)
Budget ==
    next_flight + Cardinality({c \in Frames : /\ frames[c] # Idle
                                              /\ frames[c].pc \in {"join", "wait"}})
        < MaxFlights

(* fetch_flight's lookup found no fresh value; the call is not made from   *)
(* inside a loader.                                                        *)
Call(c, v, k) ==
    /\ frames[c] = Idle /\ Budget
    /\ v \in running /\ ~Joining(v)
    /\ ~Fresh(k)
    /\ frames' = [frames EXCEPT ![c] = NewFrame(v, k, {}, {})]
    /\ UNCHANGED <<cell, flights, next_flight, leads, running>>

(* The same from inside the loader of p, or from a lur.async task or a     *)
(* coroutine the loader started: the task-local LEADING gives the chain,   *)
(* which a loader run inline does not extend.                              *)
LoaderChain(p) ==
    frames[p].chain \cup
        (IF frames[p].pc = "load" THEN {<<frames[p].key, frames[p].id>>} ELSE {})

CallInside(c, p, k) ==
    /\ frames[c] = Idle /\ Budget
    /\ On(p) /\ frames[p].pc \in {"load", "inline"}
    /\ frames[p].vm \in running /\ ~Joining(frames[p].vm)
    /\ frames[p].depth <= leads[frames[p].vm].depth
    /\ ~Fresh(k)
    /\ frames' = [frames EXCEPT ![c] =
            NewFrame(frames[p].vm, k, LoaderChain(p), frames[p].within \cup {p})]
    /\ UNCHANGED <<cell, flights, next_flight, leads, running>>

AtJoin(c) == AtDepth(c) /\ frames[c].pc = "join"

(* A leader stored the value between the lookup and the join. *)
JoinHit(c) ==
    /\ AtJoin(c)
    /\ Fresh(frames[c].key)
    /\ frames' = Ended(frames, c)
    /\ UNCHANGED <<cell, flights, next_flight, leads, running>>

JoinLead(c) ==
    LET k == frames[c].key
        v == frames[c].vm
        id == next_flight + 1
    IN  /\ AtJoin(c)
        /\ ~Fresh(k) /\ ~Led(k)
        /\ next_flight' = id
        /\ leads' = [leads EXCEPT ![v].all = @ + 1,
                                  ![v].nested = IF leads[v].depth > 0 THEN @ + 1 ELSE @]
        /\ flights' = [flights EXCEPT ![k] =
                [id |-> id, owner |-> v, depth |-> leads[v].depth,
                 waits |-> [q \in Keys |-> 0]]]
        /\ frames' = [frames EXCEPT ![c].pc = "load", ![c].id = id]
        /\ UNCHANGED <<cell, running>>

(* Subscribe; a call inside a loader also records its wait edges, unless   *)
(* the wait would end up waiting on itself.                                *)
JoinWait(c) ==
    LET k == frames[c].key
        chain == frames[c].chain
    IN  /\ AtJoin(c)
        /\ ~Fresh(k) /\ Led(k)
        /\ chain = {} \/ ~WaitsFor(k, chain)
        /\ flights' = EdgeUp(chain, k)
        /\ frames' = [frames EXCEPT ![c].pc = "wait", ![c].id = flights[k].id,
                                    ![c].box = "none"]
        /\ UNCHANGED <<cell, next_flight, leads, running>>

JoinInline(c) ==
    LET k == frames[c].key IN
    /\ AtJoin(c)
    /\ ~Fresh(k) /\ Led(k)
    /\ frames[c].chain # {} /\ WaitsFor(k, frames[c].chain)
    /\ frames' = [frames EXCEPT ![c].pc = "inline", ![c].id = 0]
    /\ UNCHANGED <<cell, flights, next_flight, leads, running>>

(* The waiter wakes: it shares the outcome, or joins again when the        *)
(* channel closed without one.  Its WaitGuard goes either way.             *)
Wake(c) ==
    /\ Turn(c)
    /\ frames[c].pc = "wait" /\ frames[c].box # "none"
    /\ flights' = EdgeDown(frames[c].chain, frames[c].key)
    /\ frames' = IF frames[c].box = "closed"
                 THEN [frames EXCEPT ![c].pc = "join", ![c].id = 0, ![c].box = "none"]
                 ELSE Ended(frames, c)
    /\ UNCHANGED <<cell, next_flight, leads, running>>

(* Mutant: the loaded value is stored over whatever is there. *)
StoreLoadedOver(k) == cell' = [cell EXCEPT ![k] = "loaded"]

(* A loaded value is stored only over version 0: a write that landed while *)
(* the loader ran wins.                                                    *)
StoreLoaded(k) == cell' = IF Fresh(k) THEN cell ELSE [cell EXCEPT ![k] = "loaded"]

(* The loader ends with an outcome.  It stores a value that fits; nil, one *)
(* too big, a non-primitive and an error store nothing.  finish stores,    *)
(* publishes and removes the flight under one lock.                        *)
LoaderEnds(c, stores) ==
    /\ Turn(c)
    /\ frames[c].pc \in {"load", "inline"}
    /\ Inside(c) = {}
    /\ IF stores THEN StoreLoaded(frames[c].key) ELSE UNCHANGED cell
    /\ flights' = FlightsWithout(TakeFlight(c))
    /\ leads' = LeadsWithout(TakeFlight(c))
    /\ frames' = Ended(Notified(TakeFlight(c), "outcome"), c)
    /\ UNCHANGED <<next_flight, running>>

(* The guards of c drop: an unfinished LeadGuard hands off, a WaitGuard    *)
(* takes its edges away.                                                   *)
GuardsDrop(c, fr) ==
    /\ flights' = IF frames[c].pc = "wait"
                  THEN EdgeDown(frames[c].chain, frames[c].key)
                  ELSE FlightsWithout(TakeFlight(c))
    /\ leads' = LeadsWithout(TakeFlight(c))
    /\ frames' = Ended(fr, c)

(* The call is cancelled (a deadline, a lost race, a client gone) or its   *)
(* loader hit the deadline.  Calls its loader was awaiting sit on a Lua    *)
(* thread that is garbage now.                                             *)
Drop(c) ==
    /\ Turn(c)
    /\ frames[c].pc # "join"
    /\ GuardsDrop(c, Doomed(Notified(TakeFlight(c), "closed"), Inside(c)))
    /\ UNCHANGED <<cell, next_flight, running>>

(* A memory error or the deadline kills the Lua thread inside mlua's poll  *)
(* loop: the guards are garbage.                                           *)
Kill(c) ==
    /\ Turn(c)
    /\ frames[c].pc # "join"
    /\ frames' = Doomed(frames, Inside(c) \cup {c})
    /\ UNCHANGED <<cell, flights, next_flight, leads, running>>

(* A garbage collection drops the guards of a call nobody can run. *)
Collect(c) ==
    /\ frames[c] # Idle /\ frames[c].run \in {"parked", "dead"}
    /\ GuardsDrop(c, Notified(TakeFlight(c), "closed"))
    /\ UNCHANGED <<cell, next_flight, running>>

-----------------------------------------------------------------------------
(* coroutine.resume and the runs of a VM *)

(* run_counted, up to lua_resume. *)
Resume(v) ==
    /\ v \in running /\ ~Joining(v)
    /\ leads[v].depth < MaxDepth
    /\ leads' = [leads EXCEPT ![v].depth = @ + 1]
    /\ UNCHANGED <<cell, flights, next_flight, running, frames>>

(* run_counted after lua_resume, and resumed: what began inside is handed  *)
(* off, since nobody runs its coroutine now.                               *)
ResumeReturns(v) ==
    LET d == leads[v].depth
        S == IF leads[v].nested # 0 THEN StartedAt(v, d) ELSE {}
        parked == {c \in Frames : On(c) /\ frames[c].vm = v /\ frames[c].depth >= d}
        fr == Notified(S, "closed")
    IN  /\ v \in running /\ ~Joining(v)
        /\ d > 0
        /\ flights' = FlightsWithout(S)
        /\ leads' = [LeadsWithout(S) EXCEPT ![v].depth = d - 1]
        /\ frames' = [x \in Frames |-> IF x \in parked THEN [fr[x] EXCEPT !.run = "parked"]
                                                       ELSE fr[x]]
        /\ UNCHANGED <<cell, next_flight, running>>

(* The script resumes a coroutine it kept, so a parked call runs on, in    *)
(* this run or a later one.                                                *)
ResumeParked(c) ==
    /\ frames[c] # Idle /\ frames[c].run = "parked"
    /\ frames[c].vm \in running /\ ~Joining(frames[c].vm)
    /\ leads[frames[c].vm].depth > 0
    /\ frames' = [frames EXCEPT ![c].run = "on", ![c].depth = leads[frames[c].vm].depth]
    /\ UNCHANGED <<cell, flights, next_flight, leads, running>>

StartRun(v) ==
    /\ v \notin running
    /\ running' = running \cup {v}
    /\ UNCHANGED <<cell, flights, next_flight, leads, frames>>

(* end_run, after a run on v ended however it did. *)
EndRun(v) ==
    LET S == IF leads[v].all # 0 THEN StartedAt(v, 0) ELSE {}
        left == {c \in Frames : On(c) /\ frames[c].vm = v}
    IN  /\ v \in running /\ ~Joining(v)
        /\ running' = running \ {v}
        /\ flights' = FlightsWithout(S)
        /\ leads' = [LeadsWithout(S) EXCEPT ![v].depth = 0]
        /\ frames' = Doomed(Notified(S, "closed"), left)
        /\ UNCHANGED <<cell, next_flight>>

(* Everything else that happens to an entry: another operation writes it,  *)
(* or deletes it, it expires or is evicted.                                *)
CellChanges(k, to) ==
    /\ cell' = [cell EXCEPT ![k] = to]
    /\ UNCHANGED <<flights, next_flight, leads, running, frames>>

Next ==
    \/ \E c \in Frames :
        \/ \E v \in Vms, k \in Keys : Call(c, v, k)
        \/ \E p \in Frames, k \in Keys : CallInside(c, p, k)
        \/ JoinHit(c)
        \/ JoinLead(c)
        \/ JoinWait(c)
        \/ JoinInline(c)
        \/ Wake(c)
        \/ \E stores \in BOOLEAN : LoaderEnds(c, stores)
        \/ Drop(c)
        \/ Kill(c)
        \/ Collect(c)
        \/ ResumeParked(c)
    \/ \E v \in Vms : Resume(v) \/ ResumeReturns(v) \/ StartRun(v) \/ EndRun(v)
    \/ \E k \in Keys, to \in {"written", "missing"} : CellChanges(k, to)

Spec == Init /\ [][Next]_vars

-----------------------------------------------------------------------------
(* Fairness.  The executor polls a woken call again and again until it     *)
(* moves; a loader ends, and so does a coroutine, by itself or by its      *)
(* deadline; a caller waiting on a dead leader of its own VM collects      *)
(* garbage (wait_same_vm); a run with nothing left to poll ends.  No run   *)
(* is assumed to end while a call of it still waits, nor a VM to collect   *)
(* garbage by itself.                                                      *)
Join(c) == JoinHit(c) \/ JoinLead(c) \/ JoinWait(c) \/ JoinInline(c)

(* A call on v waits on a leader of v, and so runs full collections. *)
Collecting(v) ==
    \E w \in Frames : /\ On(w) /\ frames[w].pc = "wait" /\ frames[w].vm = v
                     /\ Led(frames[w].key) /\ flights[frames[w].key].owner = v

WaitSameVm(c) == Collect(c) /\ frames[c].run = "dead" /\ Collecting(frames[c].vm)

QuietEnd(v) == EndRun(v) /\ \A c \in Frames : On(c) => frames[c].vm # v

(* At any moment only one of these can be next for a call. *)
Moves(c) == Wake(c) \/ (\E stores \in BOOLEAN : LoaderEnds(c, stores)) \/ WaitSameVm(c)

Fairness ==
    /\ \A c \in Frames : WF_vars(Join(c)) /\ SF_vars(Moves(c))
    /\ \A v \in Vms : SF_vars(ResumeReturns(v)) /\ SF_vars(QuietEnd(v))

-----------------------------------------------------------------------------
(* Properties. *)

Waiting(c) == frames[c] # Idle /\ frames[c].pc = "wait"

(* The edges waits_for walks. *)
Recorded(k, q) == Led(k) /\ flights[k].waits[q] > 0

(* The recorded wait edges never close a cycle: no set of keys has every   *)
(* one of its flights waiting on a flight of the set (join and waits_for   *)
(* refuse the wait that would close it).                                   *)
NoCircularWait ==
    \A S \in SUBSET Keys :
        (\A k \in S : \E q \in S : Recorded(k, q)) => S = {}

(* k's loader cannot go on before a call inside it, waiting on q, wakes. *)
BlockedOn(k, q) ==
    \E c \in Frames : /\ Waiting(c) /\ frames[c].key = q /\ frames[c].box = "none"
                      /\ SameLead(k, frames[c].chain)

(* No flights wait on each other, whatever VMs lead them: the promise that *)
(* a fetch never deadlocks, in terms of the calls that really wait.        *)
NoDeadlock ==
    \A S \in SUBSET Keys :
        (\A k \in S : Led(k) /\ \E q \in S : BlockedOn(k, q)) => S = {}

(* The count on an edge is the number of WaitGuards that hold it, across   *)
(* hand-offs that replace the flight under a guard and guards that outlive *)
(* their call.                                                             *)
EdgeHolders(k, q) ==
    {c \in Frames : Waiting(c) /\ frames[c].key = q /\ SameLead(k, frames[c].chain)}

EdgesExact ==
    \A k, q \in Keys : Led(k) => flights[k].waits[q] = Cardinality(EdgeHolders(k, q))

(* Nothing a call of fetch waits for waits for it: the edges are what the  *)
(* calls hold, and neither they nor the calls ever close a cycle.          *)
WaitsSound == EdgesExact /\ NoCircularWait /\ NoDeadlock

(* VmLeads counts exactly the flights of its VM, so that the checks for    *)
(* zero in end_run and resumed never skip a flight.                        *)
LeadCountsExact ==
    \A v \in Vms : /\ leads[v].all = Cardinality(OwnedBy(v))
                   /\ leads[v].nested = Cardinality(NestedOf(v))

(* Nobody waits on a channel whose sender is gone: while a waiter has seen *)
(* nothing, the flight it subscribed to is the one in the table.           *)
WaiterHasFlight ==
    \A c \in Frames : Waiting(c) /\ frames[c].box = "none" =>
        Led(frames[c].key) /\ flights[frames[c].key].id = frames[c].id

(* No flight outlives its run or its resume: it is led on a VM that is     *)
(* running, by a call that is polled, or that is garbage of this very run; *)
(* never by one the script parked.                                         *)
FlightHasLeader ==
    \A k \in Keys : Led(k) =>
        /\ flights[k].owner \in running
        /\ \E c \in Frames : /\ frames[c] # Idle
                             /\ frames[c].pc = "load"
                             /\ frames[c].key = k
                             /\ frames[c].id = flights[k].id
                             /\ frames[c].vm = flights[k].owner
                             /\ frames[c].run # "parked"

(* Single flight: two calls of a run's own tasks (not resumed out of a     *)
(* coroutine) never run the loader of one key at once as leaders.          *)
OneLoaderPerKey ==
    \A c, d \in Frames :
        /\ On(c) /\ On(d) /\ frames[c].pc = "load" /\ frames[d].pc = "load"
        /\ frames[c].depth = 0 /\ frames[d].depth = 0
        /\ frames[c].key = frames[d].key
        => c = d

(* The table of flights is what the calls on it take it for, whoever was   *)
(* cancelled, killed, parked or handed off.                                *)
FlightsSound == TypeOK /\ WaiterHasFlight /\ FlightHasLeader /\ OneLoaderPerKey

(* A flight ends only when its own leader ends, is parked or dies: a stray *)
(* guard of an earlier leader never removes a successor's flight.          *)
OnlyItsLeaderEndsAFlight ==
    [][\A k \in Keys :
        Led(k) /\ (flights'[k] = NoFlight \/ flights'[k].id # flights[k].id) =>
            \E c \in Frames : /\ frames[c] # Idle
                              /\ frames[c].pc = "load"
                              /\ frames[c].id = flights[k].id
                              /\ frames'[c] = Idle \/ frames'[c].run # "on"]_vars

(* A value another operation wrote while a loader ran is never replaced by *)
(* the loader's.                                                           *)
WrittenWins ==
    [][\A k \in Keys : cell[k] = "written" /\ frames' # frames => cell'[k] = "written"]_vars

(* A loader starts only for a key that has nothing fresh, although its     *)
(* caller looked before it joined and others loaded in between: of all who *)
(* missed one value, one loads it.                                         *)
LoadsAreNeeded ==
    [][\A c \in Frames :
        /\ frames'[c] # Idle /\ frames'[c].pc \in {"load", "inline"}
        /\ frames[c] = Idle \/ frames[c].pc \notin {"load", "inline"}
        => ~Fresh(frames'[c].key)]_vars

(* What a leader may not do to others: end their flights, overwrite what   *)
(* they wrote, or load again what they loaded.                             *)
LeadersKeepOff == OnlyItsLeaderEndsAFlight /\ WrittenWins /\ LoadsAreNeeded

(* The gap the source describes (state.rs:26-32): the leader of k is       *)
(* garbage, and nobody on its VM waits for that VM.                        *)
Garbage(k) ==
    /\ Led(k) /\ ~Collecting(flights[k].owner)
    /\ \E c \in Frames : frames[c] # Idle /\ frames[c].run = "dead" /\ k \in TakeFlight(c)

(* Who waits on k waits for such a leader, directly or along the loaders   *)
(* that wait in turn.                                                      *)
BehindGarbage(k) ==
    \A S \in SUBSET Keys :
        k \in S /\ (\A p \in S, q \in Keys : BlockedOn(p, q) => q \in S)
        => \E p \in S : Garbage(p)

(* A waiting call the run still polls wakes, whoever was cancelled, killed *)
(* or parked: only behind the garbage of another VM can it wait for ever.  *)
WaitersWake ==
    \A c \in Frames :
        <>[](Waiting(c) /\ On(c)) => <>[](Waiting(c) /\ BehindGarbage(frames[c].key))
=============================================================================
