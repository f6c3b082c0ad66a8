------------------------------- MODULE Serve --------------------------------
(***************************************************************************)
(* lur serve around its pool (src/src/serve.rs): connections, one loop per *)
(* cron job, and the graceful shutdown.  Every run of Pool belongs to a    *)
(* spawned task: a connection, which carries requests one after another,   *)
(* or one firing of a job.                                                 *)
(*                                                                         *)
(* The process exits when serve returns: nothing happens after.            *)
(***************************************************************************)
EXTENDS Pool

CONSTANTS
    Jobs,     \* cron jobs
    Overlap,  \* those with overlap = true
    Conn,     \* the task of a connection
    NoTask

VARIABLES
    loops,      \* where each cron_loop is
    in_flight,  \* [Jobs -> BOOLEAN]
    jammed,     \* jobs without overlap that a panic left behind (a history)
    task,       \* [Runs -> Jobs \cup {Conn, NoTask}]
    signalled,  \* the watch channel's value
    server,     \* what serve does
    waited,     \* what of its join is over
    owed        \* tasks that were there when it began to drain (a history)

loopVars == <<loops, in_flight, jammed>>
mainVars == <<signalled, server, waited, owed>>
serveVars == <<vars, loopVars, task, mainVars>>

ASSUME JobAssumption == Overlap \subseteq Jobs /\ Jobs \cap {Conn, NoTask} = {}
ASSUME TaskAssumption == Conn # NoTask

ServeTypeOK ==
    /\ loops \in [Jobs -> {"sleeping", "woken", "checked", "stopped"}]
    /\ in_flight \in [Jobs -> BOOLEAN]
    /\ jammed \in SUBSET (Jobs \ Overlap)
    /\ task \in [Runs -> Jobs \cup {Conn, NoTask}]
    /\ signalled \in BOOLEAN
    /\ server \in {"accepting", "draining", "drained", "cut short", "failed"}
    /\ waited \in SUBSET {"connections", "crons"}
    /\ owed \subseteq {r \in Runs : task[r] # NoTask}

ServeInit ==
    /\ Init
    /\ loops = [j \in Jobs |-> "sleeping"]
    /\ in_flight = [j \in Jobs |-> FALSE] /\ jammed = {}
    /\ task = [r \in Runs |-> NoTask]
    /\ signalled = FALSE /\ server = "accepting" /\ waited = {} /\ owed = {}

Spawned(r, t) == task[r] = NoTask /\ task' = [task EXCEPT ![r] = t]
Gone(r) == /\ task' = [task EXCEPT ![r] = NoTask]
           /\ owed' = owed \ {r}
           /\ UNCHANGED <<signalled, server, waited>>

-----------------------------------------------------------------------------
(* Connections *)

Accept(r) ==
    /\ server = "accepting"
    /\ Spawned(r, Conn)
    /\ UNCHANGED <<vars, loopVars, mainVars>>

Request(r) ==
    /\ task[r] = Conn
    /\ Arrive(r, "request")
    /\ UNCHANGED <<loopVars, task, mainVars>>

(* The client leaves, and the connection with it: at once, or once the     *)
(* guards of its handler have dropped (Respond).                           *)
ClientLeaves(r) ==
    /\ task[r] = Conn
    /\ Leave(r)
    /\ IF At(r, "running") THEN UNCHANGED <<task, mainVars>> ELSE Gone(r)
    /\ UNCHANGED loopVars

(* The response is out.  The graceful shutdown ends keep-alive, and so do  *)
(* a client that left and a panic, which leave nothing to answer.          *)
Respond(r) ==
    /\ task[r] = Conn
    /\ Forget(r)
    /\ IF server = "accepting" /\ runs[r].answer # "none"
       THEN UNCHANGED <<task, mainVars>>
       ELSE Gone(r)
    /\ UNCHANGED loopVars

Close(r) ==
    /\ task[r] = Conn
    /\ At(r, "idle")
    /\ Gone(r)
    /\ UNCHANGED <<vars, loopVars>>

-----------------------------------------------------------------------------
(* cron_loop *)

LoopAt(j, pc) == loops[j] = pc
LoopTo(j, pc) == loops' = [loops EXCEPT ![j] = pc]

(* The timer's branch of the select. *)
Wake(j) ==
    /\ LoopAt(j, "sleeping") /\ LoopTo(j, "woken")
    /\ UNCHANGED <<vars, in_flight, jammed, task, mainVars>>

(* The other branch, or no fire is left. *)
Stop(j) ==
    /\ LoopAt(j, "sleeping") /\ LoopTo(j, "stopped")
    /\ UNCHANGED <<vars, in_flight, jammed, task, mainVars>>

(* The shutdown may have raced the timer. *)
Look(j) ==
    /\ LoopAt(j, "woken")
    /\ LoopTo(j, IF signalled THEN "stopped" ELSE "checked")
    /\ UNCHANGED <<vars, in_flight, jammed, task, mainVars>>

(* The previous run is still in flight. *)
Skip(j) ==
    /\ LoopAt(j, "checked")
    /\ j \notin Overlap /\ in_flight[j]
    /\ LoopTo(j, "sleeping")
    /\ UNCHANGED <<vars, in_flight, jammed, task, mainVars>>

(* Mutant: the flag is not looked at. *)
FireBlind(j, r) ==
    /\ LoopAt(j, "checked")
    /\ Spawned(r, j)
    /\ in_flight' = [in_flight EXCEPT ![j] = j \notin Overlap]
    /\ LoopTo(j, "sleeping")
    /\ UNCHANGED <<vars, jammed, mainVars>>

Fire(j, r) ==
    /\ LoopAt(j, "checked")
    /\ j \in Overlap \/ ~in_flight[j]
    /\ Spawned(r, j)
    /\ in_flight' = [in_flight EXCEPT ![j] = j \notin Overlap]
    /\ LoopTo(j, "sleeping")
    /\ UNCHANGED <<vars, jammed, mainVars>>

(* run_cron's run, on the task just spawned. *)
RunCron(r) ==
    /\ task[r] \in Jobs
    /\ At(r, "idle")
    /\ Arrive(r, "cron")
    /\ UNCHANGED <<loopVars, task, mainVars>>

(* Mutant: only a run that went well lowers the flag. *)
CronEndsWell(r) ==
    /\ task[r] \in Jobs
    /\ runs[r].answer # "none"
    /\ Forget(r)
    /\ in_flight' = IF runs[r].answer = "values" THEN [in_flight EXCEPT ![task[r]] = FALSE]
                    ELSE in_flight
    /\ Gone(r)
    /\ UNCHANGED <<loops, jammed>>

(* run_cron returned, however the handler ended. *)
CronEnds(r) ==
    /\ task[r] \in Jobs
    /\ runs[r].answer # "none"
    /\ Forget(r)
    /\ in_flight' = [in_flight EXCEPT ![task[r]] = FALSE]
    /\ Gone(r)
    /\ UNCHANGED <<loops, jammed>>

(* It panicked, which skips the store after it: the flag stays as it is.   *)
CronUnwinds(r) ==
    /\ task[r] \in Jobs
    /\ runs[r].answer = "none"
    /\ Forget(r)
    /\ jammed' = jammed \cup ({task[r]} \ Overlap)
    /\ Gone(r)
    /\ UNCHANGED <<loops, in_flight>>

-----------------------------------------------------------------------------
(* serve *)

Signal ==
    /\ ~signalled
    /\ signalled' = TRUE
    /\ UNCHANGED <<vars, loopVars, task, server, waited, owed>>

(* accept_until returns the listener's error, and serve with it. *)
AcceptFails ==
    /\ server = "accepting"
    /\ server' = "failed"
    /\ UNCHANGED <<vars, loopVars, task, signalled, waited, owed>>

(* accept_until returns, and crons is closed. *)
Drain ==
    /\ signalled /\ server = "accepting"
    /\ server' = "draining"
    /\ owed' = {r \in Runs : task[r] # NoTask}
    /\ UNCHANGED <<vars, loopVars, task, signalled, waited>>

(* The two halves of the join.  A tracker that was empty once is done with *)
(* for good, whatever is spawned on it later.                              *)
Tasks(what) ==
    {r \in Runs : IF what = "connections" THEN task[r] = Conn ELSE task[r] \in Jobs}

Waited(what) ==
    /\ server = "draining" /\ what \notin waited
    /\ Tasks(what) = {}
    /\ waited' = waited \cup {what}
    /\ UNCHANGED <<vars, loopVars, task, signalled, server, owed>>

(* Mutant: whichever is over first. *)
ReturnsEarly ==
    /\ server = "draining"
    /\ \/ waited # {} /\ server' = "drained"
       \/ server' = "cut short"
    /\ UNCHANGED <<vars, loopVars, task, signalled, waited, owed>>

(* Both are over, or the grace period is. *)
Returns ==
    /\ server = "draining"
    /\ \/ waited = {"connections", "crons"} /\ server' = "drained"
       \/ server' = "cut short"
    /\ UNCHANGED <<vars, loopVars, task, signalled, waited, owed>>

Returned == server \in {"drained", "cut short", "failed"}

LoopStep(j) ==
    \/ Wake(j)
    \/ Stop(j)
    \/ Look(j)
    \/ Skip(j)
    \/ \E r \in Runs : Fire(j, r)

RunStep(r) ==
    \/ Step(r) /\ UNCHANGED <<loopVars, task, mainVars>>
    \/ RunCron(r)
    \/ CronEnds(r)
    \/ CronUnwinds(r)
    \/ Respond(r)

ServeNext ==
    /\ ~Returned
    /\ \/ \E j \in Jobs : LoopStep(j)
       \/ \E r \in Runs :
            \/ RunStep(r)
            \/ Accept(r)
            \/ Request(r)
            \/ Close(r)
            \/ ClientLeaves(r)
            \/ /\ Panic(r) \/ \E x \in Texts : Abort(r, x)
               /\ UNCHANGED <<loopVars, task, mainVars>>
       \/ Tick /\ UNCHANGED <<loopVars, task, mainVars>>
       \/ Signal
       \/ AcceptFails
       \/ Drain
       \/ \E what \in {"connections", "crons"} : Waited(what)
       \/ Returns

ServeSpec == ServeInit /\ [][ServeNext]_serveVars

(* The executor polls the runs that are ready, and each ends, by its time  *)
(* limit if not before.  Neither a signal nor a timer nor a client has to  *)
(* come.                                                                   *)
ServeFairness == \A r \in Runs : WF_serveVars(~Returned /\ RunStep(r))

FairServeSpec == ServeSpec /\ ServeFairness

-----------------------------------------------------------------------------
(* Properties. *)

RunsOf(j) == {r \in Runs : task[r] = j}

(* Runs of a job without overlap never overlap, however late one of them   *)
(* gets a VM.                                                              *)
NoOverlap == \A j \in Jobs \ Overlap : Cardinality(RunsOf(j)) <= 1

(* The flag is up exactly while there is a run to lower it; but after a    *)
(* panic it is up for good, and there is never a run again.                *)
InFlightExact ==
    \A j \in Jobs \ Overlap :
        /\ in_flight[j] <=> RunsOf(j) # {} \/ j \in jammed
        /\ j \in jammed => RunsOf(j) = {}

(* The flag and the runs it stands for agree, however a run ends, a panic  *)
(* excepted.                                                               *)
JobsSound == ServeTypeOK /\ NoOverlap /\ InFlightExact

(* A shutdown that is not cut short has waited for every connection and    *)
(* every run there was when it began to drain.                             *)
DrainWaits == server = "drained" => owed = {}

(* Once the signal is sent, no loop gets as far as firing but one that was *)
(* there already, even if its timer goes off along with the signal.        *)
SchedulingStops ==
    [][\A j \in Jobs : signalled /\ loops[j] # "checked" => loops'[j] # "checked"]_serveVars

(* A job that was skipped has a run that ends, in whatever way, and its    *)
(* flag comes down; only a panic keeps it up.                              *)
JobRunsAgain == \A j \in Jobs : in_flight[j] ~> (~in_flight[j] \/ j \in jammed \/ Returned)

(* A run in the queue gets a VM, if its client stays. *)
QueueMoves == \A r \in Runs : At(r, "queued") ~> (~At(r, "queued") \/ Returned)

=============================================================================
