# lur: specifications and proofs

`lur` runs sandboxed Luau scripts, one-shot or as a server (`lur serve`) that spreads HTTP requests
and cron jobs over a pool of VMs. This directory holds TLA+ models of its concurrent core, of its
storage and HTTP client, and of the sequential algorithms whose results a script relies on, with the
TLC configurations that check them and TLAPS proofs. Paths are relative to the repository (`src/...`
is the crate; `capabilities/...` and the like are under `src/src/`); module names are files of this
directory.

- [Inventory](#inventory): the parts of the system, their state, operations and interactions
- [The modules](#the-modules): what is modelled, and how it corresponds to the code
- [The runs](#the-runs): what each shows, its bounds, the fairness it assumes
- [The proofs](#the-proofs)
- [Where the code and its comments disagree](#where-the-code-and-its-comments-disagree)
- [What is not modelled](#what-is-not-modelled) and [the plan](#the-plan)

## Inventory

| Component | State | Operations | Shared with | What makes it correct |
| --- | --- | --- | --- | --- |
| `lur.state` store (`capabilities/state.rs`) | one `Mutex<Inner>` for the whole pool: map of entries, recency index, byte count, last version, `earliest`, last sweep | `get set incr decr add cas update ttl`, the lookup and store of `fetch` | every VM of the pool, on several threads | the books agree, the caps hold, eviction is least-recently-used and touches nothing it may not, a compare-and-set never loses a write |
| `lur.state.fetch` (`state.rs`, `state/resume.rs`) | flight table, wait edges, per-VM `VmLeads`, a `watch` channel per flight, guards, a task-local chain | lookup, join (hit, lead, wait, inline), finish, guard drops, wake, end of a resume and of a run | store, runs, coroutines, the garbage collector | one loader per key, nobody waits for ever, no circular wait, no flight outlives its run |
| Runs and timeouts (`runtime.rs`) | a deadline cell per VM, three drop guards, the interrupt | `with_timeout`, `reclaim`, `check_deadline` | every run | one ending per run, in the order clear deadline, drop the call, end the flights |
| VM pool and dispatch (`serve.rs`) | queue of VMs, semaphore | check out, arm, call the handler, hand back | requests, cron | a permit always finds a VM, nothing of a run reaches the next on that VM |
| Error tables, `lur.serve.abort` (`capabilities/raise.rs`, `capabilities/serve.rs`) | abort slot and remembered error per VM | raise, recover, flatten | `lur.async`, the pool | an abort is not lost and not taken for another's |
| Cron and shutdown (`serve.rs`) | an `in_flight` flag per job, a watch channel, a task tracker, a tracker of connections | tick, skip, run, signal, drain, grace period | pool | runs of a job never overlap, a shutdown drains what it says |
| `lur.async` (`capabilities/async_ops.rs`) | a window of tasks, one semaphore per VM, results | `all settled race any map` | every capability that awaits | the limit holds, results keep their order, losers are cancelled |
| `lur.kv` (`capabilities/kv.rs`) | the flag `InUpdate` per VM, restored by a `KvUpdateGuard` | `get set delete add cas incr decr expire ttl update` | storage | update is atomic, its transform cannot re-enter |
| Storage (`capabilities/storage/`) | a pool opened on first use, a purge clock, rows | single statements with retries, a transaction for update | SQLite, Postgres | two updates never both commit over one snapshot, expired rows are invisible |
| `lur.db` (`capabilities/db.rs`) | one transaction handle | exec, query, tx | storage | roll back on error or cancellation, a used handle is inert |
| HTTP client and its cache (`capabilities/http.rs`, `policy.rs`) | LRU of responses under two caps, with expiry | request, redirects, lookup, insert | policy | caps hold, no expired answer, every hop is checked |
| Request bodies and validated input (`serve.rs`) | a cursor and a flag per request | `body read read(n) json form valid_query valid_params valid_body` | validation | each byte once, never a part for the whole |
| Router (`serve.rs`) | patterns fixed at start | register, match | dispatch | one most specific route for a request |
| Text replacer (`capabilities/text.rs`) | a trie per replacer | build, replace | - | first or longest match, as a naive search would give |
| Validation (`capabilities/validate.rs`) | the issues of one call | constructors, `try`, `parse` | - | every fault told once up to the limit, a result that meets its schema |
| Parsers, encoders, time, crypto | none | conversions | - | what they compute |
| Files, environment, arguments, stdio, log, CLI, config, docs, diagnostics | none that outlives a call | I/O, parsing, rendering | policy | - |

Where it is hard. The VMs of the pool run on several threads and share the store, its flights, the
response cache and the database; inside one VM many Lua threads (coroutines, `lur.async` tasks)
interleave at every await, but a `coroutine.resume` is a synchronous call during which nothing else
of that VM runs. A run can end in seven ways (return, error, deadline by interrupt, deadline by
timer, client gone, abort, panic), and a memory error or a deadline can kill a Lua thread so that
its Rust guards are only dropped at a garbage collection. Any await is a place where a call can be
cancelled: of what it began then only the drops of its guards run, a statement that was sent may
still take effect, and a transaction is rolled back later. The only thing that outlives the process
is the database, and what a crash leaves there is the backend's promise, not this code's: there is
no recovery to model. `PROJECT.json` lists each hazard at its line, with the properties that cover
it.

## The modules

```
StateRegister                abstract: what lur.state promises of a key's value
    ^  refinement (PROPERTY ImplementsRegister)
StateStore  <- MCStateStore  the store, one step per lock section
    ^  StateStore_proofs
SingleFlight <- MCSingleFlight, MCSingleFlightLive
    ^                        fetch over the pool, with coroutines and ends of runs
    ^  SingleFlight_proofs
Pool <- MCPool               the VM pool and the life of a run on it
    ^  EXTENDS
Serve <- MCServe             connections, cron loops and the shutdown around it
    ^  Serve_proofs (of both)
KvRows                       what each lur.kv statement does to a row, on both backends
    ^  EXTENDS
KvStore                      the calls of lur.kv over one database
    ^  EXTENDS
DbTx <- MCStorage            lur.db and its transactions beside them
    ^  Storage_proofs
HttpCache                    the response cache
    ^  EXTENDS
HttpClient <- MCHttp         calls of lur.http, hop by hop, through the cache
    ^  HttpClient_proofs
AsyncDrive <- MCAsync        the combinators of lur.async on one VM
    ^  AsyncDrive_proofs
Router, Replacer, Request, Validate, Addresses, SqlValues, KvRows
    ^  EXTENDS
Algorithms                   sequential algorithms, case by case
    ^  Pure_proofs
MCPure                       bounded cases for all of them
Listing                      a list without some elements, the sum over a set: used by StateStore,
                             HttpCache, AsyncDrive, Request and Validate
    ^  Listing_proofs        what lists and sums are, and the induction the proofs use
```

### StateStore (`capabilities/state.rs`, `Inner` and `StateStore`)

`inner` is `Inner`, but for the flights; `now` is the clock; `snap[c]` is what a call of `update`,
`cas` or `add` read under its first lock and holds until its second (`StateStore::snapshot`, then
`compare_and_set`). Every other operation is a single lock section and a single action.

| Action | Code |
| --- | --- |
| `Get`, `Peek` | `get`, `lookup` of `fetch`; `ttl`, and look-ups that find nothing: `live`, then `touch` of a fresh entry |
| `Set`, `Incr` | `set`; `incr`/`decr` with its refusals |
| `Read`, `Swap`, `Add`, `TransformFails` | the two halves of `update`, `cas` and `add`, and the ways there is no second half |
| `FinishLoad` | the store in `LeadGuard::finish`, and the compare-and-set at version 0 of an inline loader |
| `Tick` | the clock |

The operators below them are `Inner`'s methods, in the code's order: `Without` (remove), `DropDead`,
`DropExpired` (guarded by the cached bound `earliest`), `Live`, `Touch`, `Swept`, `Meta`
(write_meta), `Fits` (over), `Victims` (plan_evictions), `InsertFresh`, and `PutValue` (put), which
returns the store also when the write raises `Full`: what the sweep and `drop_expired` removed by
then is gone.

Abstractions. A value is an integer or a blob and a size is a function of it, so the key's share of
an entry's size is left out; recency stamps are places in the sequence `order`; hits and misses are
not counted; integers are those an `f64` holds exactly, and the `i64` range of `incr` is
`0..MaxNum`, so that both of its ends are met; a stale window of 0 stands for none.

### StateRegister

A key has a value or none; each operation reads and writes it in one indivisible step; a commit
requires that the client's key still has the value it read, and that no write or loss came between a
read of a value and its commit (`torn`); `pinned` keys (neither evictable nor expiring) do not
disappear on their own. The mapping (`StateStore!Register`) makes the fresh value of a key the
register; expiry is then a `Lose` at a `Tick`, an eviction a loss that goes with a `Write` or a
`Commit`.

A read of *no* value is deliberately different: version 0 stands for absent, stale and dead alike,
so a key that was written and lost again between a read of nothing and its commit does not stop the
commit. That is what the code does (`Inner::version`), and no caller can tell.

### SingleFlight (`state.rs` from `Inner::flights` on, `state/resume.rs`, `runtime.rs` `with_timeout`/`reclaim`)

`cell[k]` is what `join` and `finish` see of an entry; `flights`, `next_flight`, `leads` are the
code's; `running` holds the VMs with a run on them; `frames` are the fetch calls in progress. A
frame has the program point in `fetch_flight` (`join`, `wait`, `load`, `inline`), the flight it
leads or subscribed to, the chain of flights whose loaders it runs inside (the task-local
`LEADING`), what its channel holds (`box`), and whether its Lua thread is polled (`on`), parked in a
coroutine, or `dead` - reachable for the garbage collector only.

| Action | Code |
| --- | --- |
| `Call`, `CallInside` | `fetch_flight` up to a lookup that misses; a call in a loader inherits the chain |
| `JoinHit`, `JoinLead`, `JoinWait`, `JoinInline` | the arms of `StateStore::join`: second look, new flight, subscription with wait edges, refusal of a wait that closes a cycle |
| `Wake` | the waiter returns the outcome, or joins again after a hand-off; its `WaitGuard` drops |
| `LoaderEnds` | `load`, `finish`/`publish_loaded`/`publish_failure`: compare-and-set at version 0, publish, remove, under one lock |
| `Drop` | cancellation: `Drop for LeadGuard`, `Drop for WaitGuard`; the calls inside become garbage |
| `Kill`, `Collect` | a Lua thread killed inside the poll loop, and the collection that drops its guards |
| `Resume`, `ResumeReturns`, `ResumeParked` | `run_counted` and `VmFlights::resumed`: the depth, and the hand-off of flights begun inside |
| `StartRun`, `EndRun` | a run on a pooled VM and `end_run` |
| `CellChanges` | every other operation on the entry: StateStore has them one by one |

`waits_for` is a depth-first search; the model says what it decides, by sets of keys that are closed
under the wait edges, which is also the form in which the proof can use it. The lookup and the join
of a call (and of a woken waiter) have no await between them: `Joining` keeps the rest of the VM
still there, and nothing else of other VMs.

### Pool (`serve.rs`, `runtime.rs` `with_timeout`, `capabilities/serve.rs` `abort`)

`available` and `permits` are the pool's; `waiters` is the semaphore's queue, which is tokio's and
first come, first served; `vm[v]` is what outlives a run on a VM: the deadline of its interrupt and
its abort slot (whether it is in a request, the pending abort); `runs[r]` is a request past routing,
or a cron run, from its arrival until its answer: where it is, its VM, the deadline `at`, what its
script raised, what `with_timeout` gave and what its caller gets; `now` is the clock.

| Action | Code |
| --- | --- |
| `Arrive`, `Checkout` | `Pool::checkout` up to its permit, and the pop after it: other threads may run in between |
| `Start`, `StartFails` | `arm_vm`, the deadline, the call; no memory for the request's table or the environment |
| `Abort` | `abort_table`: the slot is set, whatever the script does with the error |
| `Return`, `Raise`, `Interrupt`, `Elapse` | the endings of `with_timeout`, which clears the deadline on each |
| `Classify` | the tail of `call_handler`: the slot is emptied, `classify_outcome` |
| `CheckIn`, `Release` | `Drop for CheckedOut`: the VM is pushed, then the permit's own drop |
| `LeaveQueue`, `LeaveGranted`, `LeaveRunning` | the client is gone and hyper drops the future: only guards run, the tail of `call_handler` does not |
| `Panic` | the handler panics and unwinds the task it is on: the same guards |
| `Tick` | the clock |

An error is a member of a small set of texts, and an abort is recognised by its text, as in the code
(`raise::is_flattened` also takes a text that goes on after a newline; that is left out). A script
may catch the interrupt, raise something else, or return after its deadline.

### Serve (`serve.rs`)

Extends `Pool`: each run belongs to a task (`task[r]`), a connection or a firing of a job.
`loops[j]` is where `cron_loop` is between its select (`sleeping`), its second look at the watch
(`woken`) and the flag and the spawn (`checked`); `in_flight`, `signalled` are the code's; `server`
and `waited` are `serve` itself and the halves of its `join!`; `owed` is a history variable, the
tasks there were when it began to drain. `Accept`, `Request`, `Respond` and `Close` are the
connections, and `ClientLeaves` their end when the client goes, whatever its request was at; a
connection whose handler panicked ends too (`Respond` with nothing to answer). `Wake`, `Stop`,
`Look`, `Skip`, `Fire` are the steps of a loop; `RunCron`, `CronEnds` the spawned task. Its store
`in_flight.store(false)` follows the await of `run_cron` with no guard (`serve.rs:757-760`), so a
run that panics skips it: that is `CronUnwinds`, and `jammed`, a history variable, has the jobs this
happened to. `Signal`, `AcceptFails`, `Drain`, `Waited`, `Returns` the life of `serve`. Between two
of them is an await or a place where another thread may run. When `serve` has returned nothing
happens any more: `lur` exits. A tracker or `GracefulShutdown` that was found empty once stays
waited for (the `join!` does not poll it again).

### KvRows, KvStore, DbTx (`capabilities/kv.rs`, `db.rs`, `storage/`)

`KvRows` has each `lur.kv` statement twice, as a function of the row, of its arguments and of the
instant its caller read: `LiteStatement` for `sqlite.rs`, whose rows tell bytes, counters and floats
by the type of one column, and `PgStatement` for `postgres.rs`, with two columns and a `kind`.

`KvStore` runs them. `backend` is chosen at the start, `rows` is `lur_kv`, `writer` the holder of
SQLite's write lock; of a VM, `inUpdate` is the flag and `cell` the pool that `Shared` holds once it
is open (as the call that opened it); `clock` is the `PurgeClock` of each pool. `calls[c]` is a Lua
call: its program point, the instant it read, its retries, the update in whose transform it was made
(`inside`), what its guard saved (`prev`), the row its transform was given (`cur`) and what it
writes (`new`).

| Action | Code |
| --- | --- |
| `Call` | the function is called: the flag is looked at, before anything else |
| `Open` | `Shared::backend` and `open_pool` on first use, with its purge: the first to finish sets the cell |
| `Execute`, `Busy` | a statement sent with an instant read before; `SQLITE_BUSY`, with `retry_busy` or without |
| `MaybePurge`, `Sweep` | `PurgeClock::due` and the exchange, `purge_expired` |
| `Begin`, `TransformReturns`, `Write`, `Commit` | `update`: `BEGIN IMMEDIATE`, or `ISOLATION LEVEL SERIALIZABLE` on Postgres; the guard; `write_updated`; the commit |
| `UpdateFails`, `Rollback` | the transform raises, or a statement or the commit fails; the rollback that a dropped transaction queues |
| `Cancel`, `Late`, `Fails` | the future is dropped at an await; a statement already sent may still run; a database error |

On Postgres a write over a row that is no longer the one of the snapshot is refused (`Conflicts`,
40001). The code asks for `SERIALIZABLE` (`postgres.rs:12-14`), which refuses more than that; the
model takes only what any snapshot gives where the first writer wins, so what is shown of `update`
and `db.tx` does not rest on the rest. In the model, then, a row that was deleted meanwhile is
inserted, which is why `UpdateAtomic` allows no row besides the one that was read.

`DbTx` adds `lur.db`: `table` is what is committed, `tx[c]` the transaction of a call of `db.tx`, on
the same pool and under the same lock. `DbExecute` is a statement on its own; `TxBegin`, `TxSend`,
`TxAssigns`, `TxFails`, `TxReturns`, `TxCommit`, `TxRaises`, `TxCancel` the life of a transaction
whose handle Lua may keep and share between siblings. A cancelled call with a statement of its
handle under way leaves the transaction to that statement (`orphan`). On Postgres a statement that
failed aborts the transaction: if the script catches that error and returns, the `COMMIT` rolls back
and the call nevertheless succeeds (`aborted`); `db.rs:67` says nothing of it.

Abstractions. The number among a row's bytes is its decimal text; a statement takes a lock and lets
it go in one step, a transaction does not; a transaction's reads are left out, since what decides is
what it writes; `incr` is also `decr`.

### HttpCache, HttpClient (`capabilities/http.rs`, `policy.rs`)

`inner` is `CacheInner`, with the ticks as places in the sequence `order`; the operators are its
methods (`Removed`, `DropExpired`, `Looked`, `Swept`, `Inserted`, `Evicted`, `Stored`, `Cleared`).
`q[c]` is a call. `Ask` checks the URL and looks in the cache, `Dial` connects to a literal or to
one of the addresses `SsrfResolver` keeps of an answer, `Redirected` is the redirect policy,
`Answered` and `Chunk` are `read_response` with `max_body`, `BodyEnds` and `Put` the two halves of
the store, which reads the clock before it waits for the lock; `Fails` is every other end, `Clear`
is `cache_clear`.

Only `GET` may be cached and its body is not part of the key; a `GET` is taken to have none. The URL
and the credential stand for everything the key digests. `MAX_REDIRECTS` bounds `previous().len()`,
which counts the first URL too, so with the code's 10 at most 9 redirects are followed;
`ARCHITECTURE.md` speaks of a cap of 10, which is read here as the comparison.

### AsyncDrive (`capabilities/async_ops.rs`, `capabilities/raise.rs`)

`call[c]` is a call of a combinator with its window (`next`, `limit`), its results so far (`slots`)
and, as history, the order in which its tasks ended; `task[t]` says whether a task's future waits to
be polled, for a permit, runs, or waits for a call of its own (`nested`); `queue` is the
semaphore's; `slot` is `Flattened`, the table whose `__tostring` ran last. `Start` fills the window,
`Poll` acquires, `Settle` is the end of a task and what `drive` and its `on_result` make of it, with
the refill or the drop of everything below; `Cancel` is the end of the run. Dropping a future drops
what it owns: `Under` is the call and those below it, the members of every set of calls that has it
and is closed under "made by one of its tasks" (`ClosedBelow`).

A task ends with a value, a string error, or an error table, which is named after the task; all have
one text, so that any could be taken for another. The table of a failing task is rendered as its
thread fails, which fills the slot, and `recover` empties it (`Taken`, `Recovered`). `Render` fills
it at any other time: the script prints or stringifies a table it caught (`Held`), or catches one
that crossed another await. It stays there until the next task fails, and if that one fails with a
string, `recover` gives the caller the table in place of the string: what `raise.rs:58-65` and
`ARCHITECTURE.md:683-687` accept. `order` is a history of what is *due* for the ends of a call's
tasks: the value, the string, the very table that was raised, and only after such a rendering
(`rendered`, the other history) `Held`, at most once (`Due`).

### The sequential algorithms

| Module | Code | Compared with |
| --- | --- | --- |
| `Router` | `overlaps`, `Router::build`, `match_pattern`, `more_specific`, `resolve` (`serve.rs`) | the most specific of the routes that answer, by the README's words |
| `Replacer` | `Builder::add`, `lookup`, `replace` (`text.rs`) | a pass that looks at every pair at every place, with no trie |
| `Request` | `read`, `read(n)`, `body`, `json`, `form`, `valid_query`, `valid_params`, `valid_body` (`serve.rs`) | the body and the fields as sent |
| `Validate` | the constructors' limits, `check` and its parts, `try` (`validate.rs`) | the faults of a value, part by part, with no context |
| `Addresses` | `is_private_ip`, `embedded_ipv4` (`policy.rs`) | the ranges the comments list |
| `SqlValues` | `bind_one`, `read_row` of both backends | the value bound |
| `KvRows` | the statements of the two backends | each other |

`Algorithms` puts them into one specification whose behaviors take up one case after another; each
property says what its algorithm makes of the case at hand. `Cases` is a constant: any inputs of the
right kind (`CasesAssumption`), all of them in the proofs and those of a bounded size in `MCPure`.

In `Validate` a schema is built from the leaves up, as the constructors build it: `Built[h]` has the
nodes no deeper than `h`, and `check[h]` does with a node of height `h` what `check` does, by the
checks of the height below. A value nests at most `MAX_NEST` tables (`Values`); the code has no such
bound, but never looks below `MAX_DEPTH` (a cyclic table is its unrolling so far). A number is its
count of halves: enough to have whole numbers and fractions; infinities and what is not a number are
one value, which only a validator function lets through. A string keeps its length, what it spells
(an integer, another number, a boolean or nothing) and the patterns that find it. `pairs` walks the
array part of a table and then its keys, in any fixed order (`KeyOrder`). `Faults` says what is
wrong with a value part by part, with no context and no limit; `Meets` what a result is like:
`min_items` is a check of the input only, since an item that a validator function turns into nil is
left out of the result, and a default is not held to the bounds of its own schema, so it allows for
both.

## The runs

| Run | Question | Instance |
| --- | --- | --- |
| `single_flight` | are counts, channels and leaderships consistent under every order of hand-offs, kills, collections and ends? | 1 key, 2 VMs, 3 calls, 3 flights, resume depth 1 |
| `single_flight_nested` | can nested waits close a cycle, are edges exact? | 2 keys, 2 VMs, 4 calls, 4 flights |
| `single_flight_live` | does each waiting call of a run wake, the gap of the source excepted? | two workloads on 2 VMs: 2 calls and 2 flights of 1 key with runs and resumes (depth 1); 4 calls, one in another's loader, and 4 flights of 2 keys |
| `state_store` | books, caps, eviction, expiry, versions, the refinement of `StateRegister` | 3 keys, 1 client that races, caps of 2 entries and 3 bytes, 3 writes, 3 instants |
| `pool` | are permits, VMs, deadlines and aborts where they belong, however runs end? | 2 VMs, 3 runs of either kind, limit 0 (none) or 1, 1 abort text, 2 instants |
| `serve` | single flight of jobs and draining through a shutdown | 1 VM, 2 tasks at a time, a job with and one without overlap, limit 1, 2 instants |
| `serve_live` | do queued runs and skipped jobs get on? | 1 VM, 2 tasks at a time, 1 job, limit 1, 2 instants |
| `storage` | are updates and transactions atomic, is the lock let go, does a sweep take what can be seen? | either backend, 1 VM, 2 calls, 1 key, 1 table cell; `set`, `add`, `incr`, `update`, `db.exec`, `db.tx`; 1 retry, purge interval 1, 2 instants |
| `kv_flag` | a statement of a comment that does not hold (below) | as `storage` |
| `http` | is a hit one's own, is every hop vetted, are the cache's books exact? | 2 calls, 3 URLs (allowed, private literal, port not listed), 3 credentials, caps of 2 entries and 1 byte, entries that live for 1 of 3 instants |
| `async` | does each combinator return what it promises, leave nothing running, and settle? | 3 calls nested at will, 2 tasks each, 2 permits, map limit 1 |
| `pure` | do the sequential algorithms do what their references say? | every case of a bounded size |

Why these are enough. One key and three calls let a flight be led, waited for, handed off and led
again while a stray guard of the first leader is still around; a fourth call on the key repeats one
of the three. A cycle of waits needs two keys, two loaders and the two nested calls that wait: four
frames; longer ones are covered by the proof of `WaitsSound`, which has no bound. The same four are
the least in which a waiter can be left behind garbage that nobody on its leader's VM collects
(`single_flight_live`). In the store, with
a cap of two entries three keys make an eviction choose, and a third instant lets a stale window of
one open and close; sizes 1 and 2 against a cap of 3 make the byte cap bind on its own, and evict
two entries for one; one client that has read a value is enough for another's write, since `set` and
`incr` are anyone's. In `pool` three runs for two VMs make one wait while another is handed a permit
it has not seen, and each VM is used by several runs one after another, since answered runs arrive
again; the clock needs the instant before and at a deadline. `serve` has two slots for tasks: one
holds the VM while the other waits, and all three kinds of tasks (a connection, a run of each job)
meet in them in turn; runs without a limit are `pool`'s.

In `storage` both calls are used again and again, so a row is written, seen, expired, swept and
written anew under a transaction of the other; a call nested in a transform, a sibling under
`lur.async` and a call of another run look the same to the database. `cas`, `delete`, `expire`,
`get` and `ttl` are statements like `add` and `set` as far as locks and cancellation go; what they
do to a row is `BackendsAgree`'s, over every row type, expiry and argument. In `http` one more entry
than the cap, or a second entry of one byte, makes an eviction; two redirects reach every pair of
URLs. In `async` three calls are a combinator, one nested in each of its two tasks (all permits
gone: `Starved`), or one in one task beside a sibling that ends first; two tasks that fail one after
another meet a slot that the other, or the script, has filled. `pure` has patterns of up to
two segments and three routes; two replacement pairs of up to two letters or three of one, in texts
of three; bodies of four bytes and four operations; schemas nested to a bound of three and past it,
over tables in tables, with two issues at most; the edges of every address range; numbers around the
edges of the integer width; and four instants around an expiry.

Bounds: `MaxFlights`, `MaxDepth` (nested resumes), `MaxVersion` (writes), `MaxNow` (instants),
`MaxCalls`, `MaxTasks`, `MaxLimit`. `CHECK_DEADLOCK FALSE` is there where a bounded budget really is
used up (`single_flight_nested`, `storage`, `http`, `async`) and in the runs of `Serve`, where the
server ends; in the other runs some step is always possible. `single_flight_nested` starts with both
VMs running and leaves out what only `single_flight` is about (ends of runs, resumes, entries
written by others). Symmetry is used for safety only.

**Fairness** (`SingleFlight!Fairness`). Weak fairness for a join, which runs to its end without an
await once its VM polls it. Strong fairness for what a call does next (`Moves`: a wake, the end of
its loader, or, when it is garbage, a collection that a waiter of its own VM makes) and for the
return of a resume: the guards of these actions come and go as the VM runs its other Lua threads,
and the executor polls a woken task again each time; a loader's own run has a deadline that ends it;
`wait_same_vm` collects again and again while the leader is on its own VM (`Collecting`). Strong
fairness for the end of a run with nothing left to poll (`QuietEnd`). It is *not* assumed that a run
ends while one of its calls waits, that a collection happens otherwise, that a parked coroutine is
resumed, or that anyone is cancelled: these would let `WaitersWake` hold for the wrong reason.
Without a deadline (`timeout = 0`) a loader may run for ever, and so may its waiters; that is out of
the assumption.

So `WaitersWake` has an exception, and it is the one the source writes down (`state.rs:26-32`): a
caller on another VM than a leader whose thread a memory error killed "waits for that VM's GC, its
`end_run`, or its own timeout", and none of these has to come. `BehindGarbage` says when: the waiter
waits, directly or along the loaders of flights that wait in turn, for a flight whose leader is
garbage and whose VM has no waiter for a leader of its own. It takes two keys and four calls: `c1`
is killed while it leads `k1` for `v1`; `c2`, of the same run, waits on `k2`, which `c3` leads for
`v2`; and `c4`, inside `c3`'s loader, waits on `k1`. `v1` neither collects nor ends its run, so `c2`
and `c4` wait until a timeout. Everybody else wakes.

`Serve!ServeFairness` is weak fairness for each run's own steps, up to the return of `serve`: the
executor polls what is ready, and every handler ends, by its time limit if not before (`serve_live`
has a limit on every run; without one a handler that never ends keeps its VM). It is *not* assumed
that a timer goes off, that a client sends, leaves or closes, or that a signal comes.

`AsyncDrive!FairAsyncSpec` is weak fairness for the VM as a whole: while some future can be polled
or some task can end, one of them does. Which one is not assumed, so `CallsSettle` holds even if the
others starve until then. No fairness is asked of the script (it need not call anything) or of a
cancellation.

The properties, by hazard (a type invariant is a conjunct of the first of each module):

- `FlightsSound`: no lost wake-up and nothing left behind. A call that waits has a flight with a
  leader, or an outcome in its channel (`WaiterHasFlight`); a flight on an idle VM or of a parked
  coroutine is gone (`FlightHasLeader`); one loader per key (`OneLoaderPerKey`). The last is about
  calls of a run's own tasks: a loader in a coroutine that yielded is handed off at the end of the
  resume and may run on beside its successor when resumed, which the code accepts. `LeadersKeepOff`:
  a guard that outlived its leadership ends nobody else's, and a write during a load is never lost
  to it; and a loader starts only for a key with nothing fresh, though its caller looked before it
  joined (`LoadsAreNeeded`, the second look of `join`). `LeadCountsExact`: the zero that ends a run
  early means there is nothing left. `WaitersWake`: liveness of all this.
- `WaitsSound`: the edges are exact, have no cycle, and no calls wait on each other.
- `StoreSound`, `EvictsWhatItMust`, `ExpiredGoFirst`: the cache part of the store. A wrong *order*
  of recency would leave `StoreSound` alone; `EvictsWhatItMust` sees it by its effect.
  `VersionsName`, `ImplementsRegister`: no ABA, no lost update.
- `PoolSound`: the `expect` in `checkout` holds, and a client that leaves at any await loses neither
  a permit nor a VM. `DeadlineIsTheRuns`, `AbortIsOwn`, `InterruptIsTimeout`: nothing of a run
  reaches the next one of its VM, though a cancelled run skips the tail that resets it; an
  interrupted run is told it timed out.
- `JobsSound`, `JobRunsAgain`: runs of a job do not overlap, and a job is not skipped for good unless
  its run panicked. `DrainWaits`, `QueueMoves`: the shutdown waits for what it found, and queued
  runs get a VM.
- `UpdateAtomic`, `TxSerial`: what commits does so over what it was computed from, on a backend with
  a lock and on one with conflicts, whatever was cancelled. `VisibleRowsStay`: an instant read
  before a wait for the lock takes no row that can be seen. `NoSelfWait`, `LockHasOwner`: no call
  waits for its own update, and no handle that Lua keeps holds SQLite's lock. `OnePool`: racing
  first uses end with one pool and one purge clock.
- `HitIsOwn`, `EveryHopVetted`, `CacheExact`, `OldestGoFirst`: `lur.http` across its awaits. The
  slot is bound before the first hop and the store is after the last; every way to a connection is
  checked (first URL, redirect, literal, resolved name).
- `ReturnsPromised`, `NothingLeftBehind`, `PermitsExact`, `CallsSettle`: the combinators. That
  nesting at the cap can take every permit is documented (`ARCHITECTURE.md:717`) and is the
  exception in `CallsSettle`. An error table arrives as that table and no sibling's, a string as a
  string, but for the one case the comment allows (`Due`).
- `RouteUnique`, `ReplacesInOnePass`, `RequestWhole`, `ChecksExact`, `RefusedAsListed`,
  `ReadsBackSame`, `BackendsAgree`: the table above. The exception in `BackendsAgree` is a sum that
  leaves 64 bits: SQLite stores a float in its place and the call fails, Postgres fails and stores
  nothing.

## The proofs

Every safety property that a run checks is a theorem for all values of the constants. Each proof
module opens with its types, builds up to an inductive invariant, and ends with the theorems.

**Assumptions.** The named `ASSUME`s of the modules, which TLC evaluates on every run: sentinels
differ from what they stand beside (`SentinelAssumption`, `NeverAssumption`, `OutcomeAssumption`,
`TextsAssumption`, `RowAssumption`, ...), bounds and limits are natural numbers, what is counted is
finite, a window or a permit count is not 0, the operations a client may ask for are of the
statements' kinds (`OpsAssumption`), and the cases of `Algorithms` are inputs of the right kind.

**Induction.** The provers cannot be given a rule with an operator parameter, but they can be given
a set: `Listing_proofs` derives from the well-foundedness of `<` that a set which has 0, and `n + 1`
with each `n`, has all natural numbers (`Inductive`), and the like for the subsets of a finite set.
From these come that a function defined by iteration exists and keeps what each turn keeps
(`IterationExists`, `KeptAlong`), and what `Unlisted` and `SumOver` are: the elements that are left
and their order, a sum with one element more or less. The stores, the combinators and the sequential
algorithms rest on them.

`SingleFlight_proofs` (any finite sets of keys and calls, any VMs, any bounds):

- `TypeCorrect`, `CountsCorrect`. `TypeOK` is not inductive alone: a hand-off subtracts from
  `leads`, and that the counts stay natural numbers needs that they count something. The invariant
  is `CountInv == TypeOK /\ LeadCountsExact`; the lemma `HandOff` does the arithmetic once, for any
  set of keys that leaves the table, and every action that removes flights cites it.
- `WaitsCorrect`, in three parts. `NoCircularWait` says that no non-empty set of keys has all its
  edges inside. Only `JoinWait` adds edges, all out of one chain and to one key. The search that did
  not refuse the wait yields a set `T` that has the key, is closed under the edges and misses the
  chain. The part inside `T` of a cycle through the key would have been a cycle before the step, and
  a cycle that does not meet `T` uses no new edge. All other steps only remove edges or lead a key
  nobody waits from (`FewerEdges`). Counting the guards on an edge (`EdgesExact`) needs `IdsInv`:
  ids in chains and flights have all been handed out, so a new flight has no guards and a guard of
  an old leadership never matches a new one. `NoDeadlock` follows from both: a call that waits holds
  an edge, so a cycle of calls would be a cycle of edges.
- `FlightsSoundAlways`, `LeadersKeepOffAlways`. A flight must never lose the only call that can end
  it. `LeadInv` says it from both sides: every flight in the table has, on a running VM, a call
  whose frame carries its id, its owner and its depth and is not parked (`AllLed`); no two frames
  carry one id (`OwnIds`); and a loader of a run's own tasks still leads its flight
  (`OutsideLeads`). The last is false of a loader resumed out of a coroutine, which may have lost
  its flight to a hand-off: that is why `OneLoaderPerKey` speaks of depth 0 only. The action
  property is read off each action from `FlightInv`; that no loader starts on a fresh value needs no
  invariant, but that of every action only `JoinLead` and `JoinInline` start one (`NewLoads`), after
  their own look.

`StateStore_proofs` (any keys, clients, caps, sizes, instants):

- `VersionsCorrect`. The invariant `VersionInv` adds that `map` is a function on the keys whose
  entries have values of the right kind and versions handed out before. The lemmas say, of each
  operator under `put`, that it only removes entries (`Removed`) or stores one value at the next
  version (`Stored`); each action is then one or two of them.
- `StoreSoundAlways`, `ExpiredGoFirstAlways`, `EvictsWhatItMustAlways`. `StoreInv` has the books
  (`Sound`) and the caps (`CapsOK`) beside `VersionInv`. `remove` keeps the books of any set of
  keys; `drop_expired` leaves no evictable entry past its expiry, whether or not `earliest` lets it
  skip its scan; what `plan_evictions` picks is the shortest stretch of the recency order that makes
  room, or there is none. `Wrote` puts these together: after a `put` the store is what lapsed and
  what was planned away, with the new entry last. The two properties of eviction are corollaries.
- `StoreImplementsRegister`. Under the mapping, one operation at one instant leaves the fresh
  entries as they are (`SameFresh`) or assigns one key and loses others (`Assigned`); time loses
  what expires. That a commit finds the very value its client read is `VersionInv` again: a version
  still in place names the value it named when it was read.

`Serve_proofs`, of `Pool` (any finite sets of VMs and runs, any limits, texts and clock):

- `TypeCorrect`, `PermitsSound`. The invariant `PoolInv` adds `QueueInv`: the queue holds runs
  that wait, each once. Without it a permit handed to the first waiter could be its second.
  `SemInv` counts permits against the runs that hold one, `VmsOut` relates VMs to runs; most steps
  are `Quiet` for both, and the lemma `Handover` does the one hard step for `Release` and
  `LeaveGranted`. That a permit finds a VM needs a count only: runs on VMs map onto the VMs that are
  out, so there are at least as many, and with the runs that have a permit and no VM yet they are at
  most all VMs.
- `DeadlinesCorrect`, `TimeoutsCorrect`, `AbortsCorrect`. `ArmInv` says of each run (`RunInv`) that
  the deadline and the slot of its VM are its own; that the step of another run does not touch them
  (`OthersKept`) is `VmsOut` again.

and of `Serve` (any jobs, whatever the pool does): `JobsCorrect`, `DrainCorrect`,
`SchedulingCorrect`. `ServeInv` says that a task owed to the drain is not of a tracker already
waited for, and that a flag is up for exactly one run, or for none and for good once a run of its
job panicked (`jammed`); of the pool it uses nothing, and the types of the loops (`LoopsTyped`) are
kept on their own.

`Storage_proofs` (any VMs, calls, keys, cells, statements and bounds; both backends):

- `UpdatesAtomic`, `TransactionsSerial`, `LockIsOwned`, `NestedNeverWait`, `PoolsCorrect`. The
  invariant `StorageInv` says what keeps an open transaction safe on each backend. On SQLite whoever
  is in a transaction holds the lock and is alone (`LockInv`, `Alone`), so the row an update read
  and the cells a `db.tx` began on cannot change. On Postgres they can: but a row with an
  uncommitted write and a cell that was assigned have one owner (`OneWriter`), and so a row that
  passed the check of `Write` stays as it was read, or absent, until the commit (`RowInv`), and an
  assigned cell is still what the snapshot had (`CellInv`). `FlagInv` is why no call waits for its
  own update: on SQLite the flag is up under a transform, and a nested call of `lur.kv` is refused.
  `OthersKeep` does once what a step of one call may do to the others; what is left of each action
  is its own call, outside a transaction (`LooseStep`), going on in one (`UpdateGoesOn`,
  `TxGoesOn`) or at its end (`OverInv`). `CommitMoves` adds that the step which changes a row while
  its call is at the COMMIT is that commit.
- `VisibleRowsStayAlways`. `TimeInv`: rows have the shape of one of the backends, and the instant a
  call read is not ahead of the clock. So a row that a statement takes for expired is expired for
  everyone, however long the statement waited for the lock or outlived its call.

`HttpClient_proofs` (any URLs, credentials, hosts, policy, caps and number of calls):

- `HitsCorrect`, `HopsCorrect`. `ClientInv` says of the books that every entry belongs to its key
  and is within its time (`CacheOK`), of each call that the slot it looked up and will store under
  is its own, and that each trip it made was allowed (`CallOK`). Whatever sweeps, evictions and
  look-ups do to the books, what they leave is some of what was there (`LeftOf`): that is all these
  two need of them.
- `CacheExactAlways`, `OldestGoFirstAlways`. `CacheInv` adds the exact books, the caps, and that a
  response waiting to be stored came no later than now. `Popped` says which entries the eviction
  loop takes: a beginning of the order, and without its last one the caps would not have held. The
  newest entry is last and fits alone (an oversized one is not stored), so it is never taken.

`AsyncDrive_proofs` (any number of calls, tasks and permits, any nesting): `ReturnsCorrect`,
`EarlySettleCorrect`, `PermitsCorrect`. `AsyncInv` has the queue (`Queued`: who waits is in it,
once, and nobody waits while a permit is free), the tree of calls and tasks (`Linked`), and what a
call in progress has gathered (`Filled`: tasks below `next` were started, those in `order` ended,
each result is at its own place, and nothing so far ends the call). The promise at the return then
follows from the last end alone. That a drop takes everything below is a fact about `Under`: it is
itself closed.

`Pure_proofs` (all inputs of the right kind):

- `RoutesUnique`: among routes that answer one request and pass `build`, "more specific" is total
  and transitive, so one pass finds its maximum.
- `AddressesAsListed`: mask by mask, then the embedded forms. `ReadsBackAlwaysSame`: for any width
  of the integers. `BackendsAlwaysAgree`: statement by statement, over every row both can hold
  (`SharedRow`; a float in SQLite's column comes only of a sum that overflowed) and every argument a
  call can be given (`Given`).
- `RequestsWhole`: the state of a handler after each operation (`GoesOn`), the chunks as a prefix of
  the body; the tables of fields against the pairs of each key, list by list.
- `ReplacesInOnePassAlways`, in three steps. The descent keeps the best of the pairs able to match
  that are no longer than its depth (`RightAt`), and what is pruned would not be chosen. The pass of
  the reference definition exists, since what comes of a rest depends on shorter rests only
  (`PassRun`). In the loop, what was put out, what will be copied and what comes of the rest make up
  what comes of the text (`SoundAt`), and `TurnsLeft` decreases: an empty match stays at its place,
  but the next turn does not, so `2 * Len(text) + 2` turns are enough.
- `ChecksAlwaysExact`: whatever the schema, the value, the bound on depth and the limit of issues.
  `Reach(all)` is the context once the faults `all` have been failed one after the other: the first
  `MAX_ISSUES` of them and whether there were more. `ExactAt(h)` says of the checks of height `h`
  that, from `Reach(all)` with room left, they end at `Reach(all \o faults)` with a result exactly
  when there are no faults, and that the result meets the node and nests no deeper than the value.
  It is said of any `all`, since a list or an object checks its second part after the issues of its
  first. `EachTold` is the induction over their parts: once the list is full a loop stops, and what
  it would have failed changes nothing (`ReachFull`). `LeafStep`, `OptionalStep`, `ListStep` and
  `ObjectStep` go from one height to the next, and `AllExact` is the induction over heights. That
  the functions by height and by turn exist (`ValuesAre`, `CheckIs`, `EachTurns`, ...) is proved
  before they are unfolded.

**Only model-checked.** `WaitersWake`, `JobRunsAgain`, `QueueMoves` and `CallsSettle`, which are
liveness.

## Where the code and its comments disagree

**The flag of `lur.kv.update` can stay set** (`kv_flag`, `FlagNotStuck`). "Sets the flag, restoring
the prior value on drop — including cancellation, so the flag can't stay stuck on a pooled VM"
(`kv.rs:64`). On Postgres a second update of the same VM does not wait for the first: two
`lur.async` siblings pass the look at the flag before either transform begins, the first guard saves
"clear", the second saves "set". If the first ends first, the flag is clear under the second's
transform, and the second then restores "set". No transform runs, and every later `lur.kv` call of
every run on that VM is refused, until another such pair happens to clear it. On SQLite the second
waits for the lock of the first before its guard is made, and the run on SQLite alone finds nothing.

Six more were noticed while modelling, and the models behave as the code does; no run is spent on
them:

- `drop_expired` is to drop "every entry past `expires`" before any live entry is evicted
  (`state.rs:385`), but it recomputes `earliest` from entries that expire *later* only. An
  unevictable entry that is stale at that moment is kept and forgotten; when its window closes, a
  write at the cap evicts a live entry while the dead one stays until the next sweep.
  `ExpiredGoFirst` is the part that holds: no expired entry *that may be evicted* stays.
- `put` promises "On `Err(Full)` nothing was changed" (`state.rs:445`), but drops expired entries,
  stale ones among them, before it knows that there is no plan of evictions.
- "Caught and re-raised (as the table), it is honored too" (`tests/serve_abort.rs:197`). There is
  one slot per VM and it holds the last abort made: a handler that catches one abort, then another,
  and re-raises the first is answered 500. `AbortIsOwn` is what does hold.
- "On shutdown, stops accepting and scheduling, then waits up to the grace period for in-flight
  work" (`serve.rs:281`). The loops of the jobs are neither tracked nor joined: one that found the
  watch unset just before the signal spawns its run when `crons.wait()` may be over, and `serve`
  returns with the run in flight and time left. `DrainWaits` is the part that holds. A task holds an
  `Arc` of the server, which owns the runtime, so the runtime does not drop while one is left
  (`serve.rs:323` says the tasks are aborted when it does); `lur` exits, a program that embeds the
  server keeps them running.
- "Single-flight by default (a tick is skipped while the previous run is in flight)"
  (`serve.rs:727`). A run that panics unwinds past the store that lowers the flag (`serve.rs:759`),
  and from then on every tick of that job is skipped with no run in flight. `JobsSound` and
  `JobRunsAgain` have this as their exception.
- An int's "|n| must be <= 2^53" (`README.md:481`), but the test is `n.abs() <= MAX_SAFE_INT`
  (`validate.rs:588`), and the absolute value of the least `i64` does not fit one: the release build
  wraps and lets the text `-9223372036854775808` through, a debug build panics. The release build is
  modelled (`DigitsFit`), and `NumberMeets` has that one number beside the safe ones.

## What is not modelled

In the modelled parts: statistics, message texts, option parsing, the conversion of Lua values, the
moves of values between Lua stacks in `resume.rs`. In `SingleFlight` the deadline is not a state:
whether an error that arrives after it is published (`publish_failure`) is the choice between
`LoaderEnds` and `Drop`; nor is the order of `with_timeout`'s three guards. `incr` beyond 2^53,
where an `f64` is no longer exact, is left out of `StateStore` and `SqlValues`. In `Request`,
`read(n)` adds `n` to the cursor as a `usize`, whose overflow is left out. In `HttpClient` the wire,
TLS, headers and bodies of requests, and in `Addresses` the parsing of an allowlist's rules. In
`Replacer` the registry of compiled replacers, the output budget and the check of the deadline. In
`Validate` what makes a pattern match or a text spell a number, messages, an infinity among the
options of `one_of`, what else a validator function returns, and the errors that end a check instead
of being issues (a deadline, memory). In `Router` percent-decoding.

Not modelled at all: parsers, encoders, time and crypto, which are stateless and mostly wrap
libraries; files, environment, arguments, standard streams and the log, which are I/O behind a
policy check; the set-up of VMs and the registration of an app, sequential and done before anything
is served; the command line, configuration, diagnostics and built-in documentation.

## The plan

1. `SingleFlight` on top of `Pool`: the deadline as a state of both, so that the order of
   `with_timeout`'s three guards, `reclaim`, and a loader's error past its deadline are checked
   rather than assumed.
2. `Serve` as a refinement of a small abstract server (runs that begin, end or are cut off), and
   `KvStore` of an abstract register like `StateRegister`.
