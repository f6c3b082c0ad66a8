----------------------------- MODULE AsyncDrive -----------------------------
(***************************************************************************)
(* The combinators of lur.async on one VM (capabilities/async_ops.rs),     *)
(* with the permits they share and the slot that carries a raised table    *)
(* across them (capabilities/raise.rs).                                    *)
(*                                                                         *)
(* A call of all, settled, race, any or map drives its tasks through a     *)
(* window of futures; a task may itself call a combinator, and is then     *)
(* the parent of that call.  A task ends with a value, with a string error *)
(* or with an error table; the script may also render a table it caught,   *)
(* which fills the slot.  order is a history of what is due for the ends   *)
(* of a call's tasks; what the call returns is compared with it.           *)
(***************************************************************************)
EXTENDS Integers, Sequences, FiniteSets, SequencesExt, FiniteSetsExt, Listing

CONSTANTS
    MaxCalls,         \* bound: the calls, numbered as they are made
    Main,             \* the script, which calls outside any task
    Nil,              \* no result yet, no table in the slot
    Held,             \* an error table that the script caught and keeps
    max_concurrency,  \* permits of the VM, Nil if it has no cap
    MaxTasks,         \* bound: the tasks of a call
    MaxLimit          \* bound: opts.limit of map

VARIABLES
    call,   \* the calls
    task,   \* where each task of each call is
    queue,  \* tasks waiting for a permit, in the order they asked
    slot,   \* Flattened: the table whose __tostring ran last
    rendered  \* Held was rendered, and no task failed since (a history)

asyncVars == <<call, task, queue, slot, rendered>>

Calls == 1 .. MaxCalls
Kinds == {"all", "settled", "race", "any", "map", "map_drop"}
Indices == 1 .. MaxTasks
Tasks == Calls \X Indices

ASSUME AsyncAssumption ==
    /\ MaxCalls \in Nat /\ MaxTasks \in Nat /\ MaxLimit \in Nat \ {0} /\ Main \notin Tasks
    /\ Nil \notin Tasks \cup {Held}
    /\ max_concurrency = Nil \/ max_concurrency \in Nat \ {0}

(* How a task ends: an error is a table, named after the task that raised  *)
(* it, or a string.  All errors have one text, which tables and strings    *)
(* may share.                                                              *)
Value == [ok |-> TRUE]
Error(table) == [ok |-> FALSE, table |-> table]
Failed == Error(Nil)
Errors == {Error(x) : x \in Tasks \cup {Held, Nil}}
Ends == Errors \cup {Value}

Fresh == [pc |-> "fresh"]

AsyncInit ==
    /\ call = [c \in Calls |-> Fresh]
    /\ task = [t \in Tasks |-> "none"]
    /\ queue = <<>> /\ slot = Nil /\ rendered = FALSE

-----------------------------------------------------------------------------
Alive == {"pending", "waiting", "running", "nested"}
InFlight(c) == {i \in Indices : task[<<c, i>>] \in Alive}

Capped == max_concurrency # Nil
Holders == {t \in Tasks : task[t] \in {"running", "nested"}}
Free == ~Capped \/ Cardinality(Holders) < max_concurrency

(* A call is made while its parent runs, so it is dropped with it: the set *)
(* of calls S holds whatever its own tasks called.                         *)
ClosedBelow(S) ==
    \A e \in Calls : (call[e].pc = "driving" /\ call[e].parent \in S \X Indices) => e \in S

(* Mutant: the futures of nested calls are left behind. *)
JustThisCall(c) == {c}

(* A call and those below it: made by its tasks, or by theirs. *)
Under(c) ==
    LET closed == {S \in SUBSET Calls : c \in S /\ ClosedBelow(S)} IN
    {d \in Calls : \A S \in closed : d \in S}

(* A future that ends or is dropped gives its permit to the first in       *)
(* queue, which may go to several when several are dropped.                *)
Handed(t, waiters) ==
    LET held == Cardinality({x \in Tasks : t[x] \in {"running", "nested"}})
        n == IF ~Capped THEN 0 ELSE Min({max_concurrency - held, Len(waiters)})
        lucky == {waiters[i] : i \in 1 .. n} IN
    /\ task' = [x \in Tasks |-> IF x \in lucky THEN "running" ELSE t[x]]
    /\ queue' = SubSeq(waiters, n + 1, Len(waiters))

(* Mutant: opts.limit is taken for the permits of a map, not for less. *)
WindowOfPermits(k, asked) == IF Capped THEN max_concurrency ELSE asked

(* The most futures alive at once. *)
Window(k, asked) == IF Capped THEN Min({asked, max_concurrency}) ELSE asked

(* What an earlier call returned is not looked at again. *)
Forgotten == [d \in Calls |-> IF call[d].pc = "returned" THEN [pc |-> "over"] ELSE call[d]]

(* Who may call: the script, or a running task of another call. *)
MayCall(c, p) ==
    /\ call[c] = Fresh /\ \A d \in 1 .. c - 1 : call[d] # Fresh
    /\ p = Main => \A d \in Calls : call[d].pc # "driving"
    /\ p # Main => task[p] = "running" /\ call[p[1]].pc = "driving"
    /\ \A d \in Calls : call[d].pc = "driving" => call[d].parent # p

Start(c, p, k, n, limit) ==
    /\ MayCall(c, p)
    /\ IF n = 0
       THEN /\ call' = [Forgotten EXCEPT ![c] =
                           [pc |-> "returned", kind |-> k, n |-> 0, order |-> <<>>,
                            result |-> IF k \in {"race", "any"} THEN Failed ELSE <<>>]]
            /\ UNCHANGED task
       ELSE LET asked == IF k \in {"map", "map_drop"} THEN limit ELSE n
                w == Window(k, asked) IN
            /\ call' = [Forgotten EXCEPT ![c] =
                           [pc |-> "driving", kind |-> k, n |-> n, limit |-> asked, parent |-> p,
                            next |-> Min({w, n}) + 1, order |-> <<>>,
                            slots |-> [i \in 1 .. n |-> Nil]]]
            /\ task' = [t \in Tasks |->
                           IF t[1] = c /\ t[2] <= Min({w, n})
                           THEN "pending"
                           ELSE IF t = p THEN "nested" ELSE task[t]]
    /\ UNCHANGED <<queue, slot, rendered>>

(* The first poll of a future: acquire_owned, in turn. *)
Poll(t) ==
    /\ task[t] = "pending"
    /\ IF ~Capped \/ (Free /\ queue = <<>>)
       THEN task' = [task EXCEPT ![t] = "running"] /\ UNCHANGED queue
       ELSE task' = [task EXCEPT ![t] = "waiting"] /\ queue' = Append(queue, t)
    /\ UNCHANGED <<call, slot, rendered>>

-----------------------------------------------------------------------------
(* Mutant: any reads the text of an error and leaves the slot as it is. *)
TakenBut(k, s) == IF k \in {"any", "map_drop"} THEN s ELSE Nil

(* recover always empties the slot; any and a map that drops errors call   *)
(* it for that alone.                                                      *)
Taken(k, s) == Nil

(* fail: an error is a table again if the slot holds one of its text.      *)
Recovered(s, e) == IF ~e.ok /\ s # Nil THEN Error(s) ELSE e

(* What a caller is owed for an end: the value, the string, or the very    *)
(* table that was raised.  A string after a table of the same text that    *)
(* the script rendered may come back as that table, but not twice          *)
(* (raise.rs:58-65, ARCHITECTURE.md:683-687).                              *)
Due(end) == IF end = Failed /\ rendered THEN Error(Held) ELSE end

(* on_result keeps a result at its own place. *)
Slotted(slots, i, e) == [slots EXCEPT ![i] = e]

(* Whether on_result breaks: race at once, any at a value, all and map at  *)
(* an error.                                                               *)
Breaks(k, e) ==
    \/ k = "race"
    \/ k = "any" /\ e.ok
    \/ k \in {"all", "map"} /\ ~e.ok

(* A map that drops errors keeps what its tasks returned. *)
Kept(results) == Unlisted(results, [i : Indices, v : Errors])

(* What a call returns once every task has ended. *)
Gathered(k, slots) ==
    CASE k = "any" -> Failed
      [] k = "map_drop" -> Kept(slots)
      [] OTHER -> slots

(* A call returns: what is left of it is dropped with every call below it. *)
(* A parent runs on.                                                       *)
Returns(c, order, result, t) ==
    \E gone \in {Under(c)} :
    LET p == call[c].parent IN
    /\ call' = [d \in Calls |->
                  IF d = c
                  THEN [pc |-> "returned", kind |-> call[c].kind, n |-> call[c].n,
                        order |-> order, result |-> result]
                  ELSE IF d \in gone THEN [pc |-> "over"] ELSE call[d]]
    /\ Handed([x \in Tasks |->
                 IF x[1] \in gone
                 THEN "none"
                 ELSE IF x = p THEN "running" ELSE t[x]],
              Unlisted(queue, gone \X Indices))

(* Mutant: the last task of the queue is not started. *)
RefillsBut(c) == call[c].next < call[c].n

Refills(c) == call[c].next <= call[c].n

(* A task ends, and drive has its result before anything else runs.  An    *)
(* error table is rendered as the task's thread fails, which puts it in    *)
(* the slot.                                                               *)
Settle(c, i, end) ==
    /\ call[c].pc = "driving" /\ task[<<c, i>>] = "running"
    /\ LET k == call[c].kind
           filled == IF end = Error(<<c, i>>) THEN <<c, i>> ELSE slot
           got == IF end.ok THEN end ELSE Recovered(filled, end)
           order == Append(call[c].order, [i |-> i, v |-> Due(end)])
           slots == Slotted(call[c].slots, i, [i |-> i, v |-> got])
           ended == [task EXCEPT ![<<c, i>>] = "ended"]
           n == call[c].n IN
       /\ slot' = IF end.ok THEN slot ELSE Taken(k, filled)
       /\ rendered' = (rendered /\ end.ok)
       /\ IF Breaks(k, got)
          THEN Returns(c, order, got, ended)
          ELSE IF Len(order) = n
          THEN Returns(c, order, Gathered(k, slots), ended)
          ELSE /\ call' = [call EXCEPT ![c] = [call[c] EXCEPT !.order = order, !.slots = slots,
                                                   !.next = IF Refills(c) THEN @ + 1 ELSE @]]
               /\ Handed([x \in Tasks |->
                             IF Refills(c) /\ x = <<c, call[c].next>> THEN "pending" ELSE ended[x]],
                         queue)

(* __tostring of a table the script caught: by tostring or print, or as a  *)
(* loader or a transform fails with it and the caller catches that.  A     *)
(* table of another text (Nil) takes Held's place, and recovers nothing.   *)
Render(s) ==
    /\ (\A c \in Calls : call[c].pc # "driving") \/ \E t \in Tasks : task[t] = "running"
    /\ slot' = s /\ rendered' = (s = Held)
    /\ UNCHANGED <<call, task, queue>>

(* The end of the run, or a deadline: everything is dropped, and the slot  *)
(* is reset (EndRun).                                                      *)
Cancel ==
    /\ \E c \in Calls : call[c].pc = "driving"
    /\ call' = [c \in Calls |-> IF call[c].pc = "driving" THEN [pc |-> "over"] ELSE call[c]]
    /\ task' = [t \in Tasks |-> "none"]
    /\ queue' = <<>> /\ slot' = Nil /\ rendered' = FALSE

Begin ==
    \E c \in Calls, p \in Tasks \cup {Main} :
        /\ MayCall(c, p)
        /\ \E k \in Kinds, n \in 0 .. MaxTasks, l \in 1 .. MaxLimit : Start(c, p, k, n, l)
Progress(t) == Poll(t) \/ \E end \in {Value, Failed, Error(t)} : Settle(t[1], t[2], end)

AsyncNext ==
    \/ Begin
    \/ \E t \in Tasks : Progress(t)
    \/ \E s \in {Held, Nil} : Render(s)
    \/ Cancel

AsyncSpec == AsyncInit /\ [][AsyncNext]_asyncVars

(* The executor does not stop while a future can be polled or a task can   *)
(* end: a script that does not end is stopped by its deadline.             *)
FairAsyncSpec == AsyncSpec /\ WF_asyncVars(\E t \in Tasks : Progress(t))

-----------------------------------------------------------------------------
(* What the combinators promise of what is due, in the order of the ends   *)
(* (async_ops.rs:1-17): all and map stop at the first error, race at the   *)
(* first end, any at the first value; otherwise every task has ended once, *)
(* and the results are in the order of the tasks, not of their ends.       *)
Promised(k, n, order) ==
    LET first == Len(order)
        before == SubSeq(order, 1, first - 1)
        place(i) == CHOOSE j \in 1 .. first : order[j].i = i
        complete == {order[j].i : j \in 1 .. first} = 1 .. n /\ first = n
        listed == [i \in 1 .. n |-> order[place(i)]] IN
    CASE k = "race" -> IF n = 0 THEN {Failed} ELSE {order[first].v}
      [] k = "any" -> IF n > 0 /\ order[first].v.ok
                      THEN {Value}
                      ELSE IF complete THEN {Failed} ELSE {}
      [] k \in {"all", "map"} /\ n > 0 /\ ~order[first].v.ok ->
            IF \A j \in 1 .. Len(before) : before[j].v.ok THEN {order[first].v} ELSE {}
      [] k = "map_drop" -> IF complete THEN {Kept(listed)} ELSE {}
      [] OTHER -> IF complete THEN {listed} ELSE {}

(* Every call that returns returns what is promised of it, and an error    *)
(* arrives as what was raised: a table as that table and no sibling's, a   *)
(* string as a string even after a task raised a table of the same text.   *)
(* Only a table the script itself rendered may stand for a string, once,   *)
(* and never after another failure (raise.rs:58-65).                       *)
ReturnsPromised ==
    \A c \in Calls :
        call[c].pc = "returned" => call[c].result \in Promised(call[c].kind, call[c].n, call[c].order)

(* A task is alive only under a call that is being driven, and that call   *)
(* under a task that waits for it: nothing runs on after a combinator      *)
(* settled early (async_ops.rs:3-5).                                       *)
NothingLeftBehind ==
    /\ \A t \in Tasks : task[t] \in Alive => call[t[1]].pc = "driving"
    /\ \A c \in Calls : (call[c].pc = "driving" /\ call[c].parent # Main) => task[call[c].parent] = "nested"

(* Never more tasks run than the VM has permits, nor more of a map's       *)
(* futures are alive than its limit; and no permit is idle while a task   *)
(* waits for one (async_ops.rs:88-97, 118-131).                            *)
PermitsExact ==
    /\ Capped => Cardinality(Holders) <= max_concurrency
    /\ \A c \in Calls : call[c].pc = "driving" => Cardinality(InFlight(c)) <= call[c].limit
    /\ queue # <<>> => Cardinality(Holders) = max_concurrency
    /\ ToSet(queue) = {t \in Tasks : task[t] = "waiting"} /\ IsInjective(queue)

(* Every permit is held by a task that waits for its own call, and every   *)
(* task of those calls waits for a permit: nesting at the cap.             *)
Starved == Capped /\ Cardinality(Holders) = max_concurrency /\ \A t \in Holders : task[t] = "nested"

(* Every call settles, unless nesting has taken every permit.  (Calls are  *)
(* finitely many: each settles iff none is driven in the end.)             *)
Driving == \E c \in Calls : call[c].pc = "driving"
CallsSettle == Driving ~> (~Driving \/ Starved)
=============================================================================
