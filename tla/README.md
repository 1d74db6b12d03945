# A TLA+ model of dsk

`dsk` is a C++ framework for asynchronous programs: cancellable async ops, coroutines with
async cleanup, combinators, queues, pools and thread pools, and on top of them clients and
servers for asio, http, curl, grpc and databases, and readers and writers of JSON, msgpack and
compressed data. This project models the concurrent core, the clients and the codecs, checks the
models with TLC and proves with TLAPS, for all sizes, what makes the core and the clients correct.
Paths are relative to `src/include/dsk/` unless they start with `src/`.

## 1. Inventory

### The protocol every part follows

An async op has `initiate(ctx, cont)`: true means that `cont` will be called once, false that
the op has finished (`src/README.md:423`). `ctx` carries a stop source and a resumer. A
cancellable op checks the stop token, registers a stop callback, and is then finished by
whoever comes first: the event it waits for, or its callback. Continuations are resumed
inline or on a scheduler. Nothing serialises the threads of these parties but the op itself:
this is where most of the hazards in `PROJECT.json` are.

### Components

| component | state | operations | interacts through | hard behaviour | what makes it correct |
|---|---|---|---|---|---|
| `res_queue.hpp` | mutex, capacity, end mark, queue of values, two queues of waiters with deleted slots | async and sync enqueue/dequeue, ranges, `mark_end`, `clear`, `increase_capacity` | stop callbacks; completions outside the mutex | an op taken out by one thread while its stop callback runs on another | each waiting op completed once; no value lost, doubled, reordered; nobody waits past the end |
| `res_pool.hpp` | mutex, capacity, unused and used resources, waiters | `acquire`, `try_acquire`, recycle by `~res_ref`, `cancel`, capacity and population members | direct hand-over to the oldest waiter | hand-over against cancellation; completion under the mutex | one holder per resource; capacity; waiters served |
| `until.hpp` | counter, first index, stop source of the ops, stop callback | `until_all_done`, `until_first_*`, `until_all_succeeded`, `seq_until_*` | completion callbacks of the ops | callbacks on several threads race with the awaiter's stop | one resumption, after the last op, with the documented result |
| `async_op_group.hpp` (eager) | mutex, list, started, continuation, error | add, `until_all_done`, destruction by a cleanup scope | completions of the ops | the last op leaves while the wait starts | exactly one resumption; group outlives its ops |
| `async_op_group.hpp` (lazy), `task.hpp`, `generator.hpp` | a stack of groups of cleanup ops per coroutine, results | scopes, add, return/throw/try, cleanup of an abandoned generator | continuations that pop the group they run in | order of cleanup; failures on the way | every cleanup op run, scope by scope, before destruction; failures reported |
| `simple_thread_pool.hpp` | queues, mutexes, condition variables, threads | `post`, `start`, `stop`, `join` of two pools | jobs post jobs | stealing, notification, stop against sleep | no lost wake-up, every job once, `join` returns |
| `asio/use_async_op.hpp`, `asio/timer.hpp` | `inited`, cancellation signal; `_done`, `_err`, timer, stop source | initiate, completion handler, stop callback, timer handler | asio's threads | timeout against completion; stop during initiation | resumed by the later party, right error |
| `async_op.hpp`, `resumer.hpp`, `resume_on.hpp`, `start_on.hpp`, `sync_wait.hpp` | a callable, a context | wrappers of an op and of its continuation | each wrapper sees the context of the one around it | where an op that completes at once goes on | started, and resumed, where the innermost wrapper says |
| `asio/`, `tbb/`, `win/` thread pools | a pool of the library or system, started, stopped | `start`, `post`, `stop`, `join` | jobs that post and stop | restart with jobs left over | `join` returns and leaves nothing behind |
| `curl/client.hpp` | mutex, multi handle, requests and their states, sockets with their waits, a timer | read all, read some, read until, stop; socket and timer callbacks | curl's callbacks inside any call | pausing in the middle of a chunk, a stop against a request being resumed, reused socket numbers | resumed once; bytes in order; every polled socket waited for |
| `pq/` | socket, libpq's connection, results not read yet, transaction guard | connect, exec, prepare, pipelines, copy, listen, cancel, transactions | waits for the socket between calls of libpq | cancellation between two steps | results belong to the call that reads them; guards close their transaction |
| `mysql/`, `redis/` | the libraries' connection, a pool, guards; counters of an adapter | execute, convert rows, transactions; store a reply | Boost.MySQL, Boost.Redis | failures of one of several steps; aggregates | as for `pq/`; a node goes where it belongs |
| `sqlite3/` | statement and whether it must be reset; transactions and savepoints with their guards; settings | bind, step, read, reset; begin, savepoint, commit, release, roll back; pragmas | cleanup scopes | nested guards and failing commands; values stored in two units | what is on disk was committed; a reused statement starts at its beginning |
| `grpc/` | a call with its status, ops under way; completion queues, threads, accepts, timers | read, write, finish, ... of eight kinds of calls; `start`, `stop`, `join` | tags of a completion queue | reads and writes side by side; shutdown | finished once; nothing left in a queue that is down |
| `http/`, `asio/send_file.hpp`, `asio/transfer.hpp` | a connection, a file and how much of it is to be sent | request, response with or without a range, transfer | the peer | ranges at their limits, the file changing meanwhile, errors on a kept connection | response as long as announced |
| `jser/` | a reader's position, counters of maps and arrays, a writer's nesting | read and write by definition, skip, loop over documents | - | fields in any order, absent, nested; boundaries of integer formats | reads what was written and ends behind it |
| `compr/` | the library's stream, what the output has room for | append, flush, finish, several streams, detection | - | input and output end independently | text comes back |
| `gumbo.hpp`, `util/lru_cache.hpp` | a collection of nodes; list, map and cost | search; get, add, erase | - | order; cost at the limit | right nodes; most recently used kept |
| `src/example/wiki_hist`, `src/example/compr_conv` | four tasks, three queues, a database | read, decompress, parse or compress, write | `res_queue`, `until_first_failed` | lines cut by chunks; a task that fails while others wait | nothing lost; all tasks end |
| `charset/`, `util/ct.hpp`, `util/function.hpp`, string helpers | - | - | - | - | not modelled |

The hazards, each at its line, are listed in `PROJECT.json`.

## 2. Modules

Definitions keep the names of the source. A critical section is one action, and what a thread
does before and after it are other actions, because that is where threads interleave. Values,
resources, ops and jobs are model values. A variable with the name of a member, less its leading
underscore, is that member; `pc`, `st` and the like say where a thread or an op is; the ones marked
*history* only record.

- **ResQueue** - `res_queue`. Waiter queues are sequences in which `Null` is a slot that
  `erase()` has marked. An actor that takes waiters out of a queue gets pairs `<<op, result>>` in
  `todo`, which `Complete` works off outside the mutex. The loops of `force_enqueue_range` and
  `force_dequeue_all` run one iteration per action with `mtx` held. `CallbackErase` and
  `CallbackComplete` are the two halves of the stop callback.
- **FifoQueue** - what the queue promises: values are appended and leave in order.
- **ResPool** - `res_pool`. `Cancel` completes with the mutex held, so with `InlineResume` the
  continuation runs as the holder of `mtx` until `ContinuationReturns`, or blocks in
  `ContinuationRecycles`.
- **Until** - the combinators; an op's completion callback runs in the steps "cond" (test and
  `request_stop`), "won" (store of `_firstIdx`), "count" (decrement, and resumption by the last).
- **OpGroup** - `async_op_group`, with the owner that adds, waits and destroys it.
- **CleanupStack** - `lazy_async_op_group` and its stack as `task` and `generator` use them: one
  task, one generator that is a local of it, nested scopes.
- **SimpleThreadPool**, **NaiveThreadPool** - the two pools; `try_lock` may fail at any time,
  condition variables wake up spuriously.
- **Scheduler** - what both pools promise: a posted job is run at most once, in no given order,
  and disappears otherwise only by `join()`.
- **TimedOp** - an asio operation as an async op (`use_async_op.hpp`), and the timed op around it: the
  inner op's steps are `Initiate`, `OnComp` and `StopCallback`, those of the timer `Expire` and `Timer...`.
- **ResPoolMap** - `res_pool_map`: pools found or added by key, under one mutex or one each.
- **Resumption** - the async op protocol with contexts, resumers and continuations: an op is the
  sequence of its wrappers (`start_on`, `run_on`, `solely_run_on`, `resume_on`, `set_resumer`,
  `set_stop_source`, a task). The calls of `initiate()` under way are in `calls`, one step goes one
  wrapper inwards (`Initiate`), to the leaf, or back (`ReturnInner`, `manual_initiate()`).
- **LibPools** - the pools over asio, TBB and Windows, one life cycle with the branches of each.
- **CurlClient** - requests of a `curl_client`; requests that were taken out of a critical section
  to be resumed are in `todo`; `odd` records what a request does not get over: its transfer was cut off
  while paused, could not be resumed, paused a chunk twice, or will be resumed by nobody.
  **CurlSockets** - the sockets and the timer of the multi handle.
- **PqConn** - `pq_conn` between the calls of libpq, with the results it has not read in `queue`, each
  with the number of its command, the descriptor libpq uses (`fd`) and the one `_skt` has (`skt`). **PqData** - parameters and cells; a byte has `Bits` bits.
- **MysqlConn**, **RedisReply** - a pooled connection; the adapters of a reply.
- **SqliteConn**, **SqliteStmt**, **SqliteSettings** - transactions and savepoints, a statement,
  the pragmas.
- **GrpcRpc**, **GrpcSrv** - one call of any of the eight kinds with its lanes of ops; the
  completion queues, their threads and the accepting task of a server.
- **HttpFiles** - the connection of `src/example/http_static_server` with `http_file_handler`,
  `http_range` and `transfer()`.
- **JserObj**, **JserVal**, **JserDsl**, **JserStream** - reading an object by its definition with
  the two loop iterators; integers and arrays; all definitions, written and read again; documents
  one after another.
- **Compr** - the three compressors; a text is a sequence of symbols, a stream one of units.
- **Gumbo**, **LruCache** - selectors, as the tokens of their text, and searches; the cache.
- **Pipelines** - the tasks and queues of the two examples.
- **MCAsyncOps**, **MCTasks**, **MCThreadPools**, **MCClients**, **MCCodecs** - each instantiates several
  components that do not interact and lets a behaviour be one of any of them: `part` says which,
  `Next` is a step of that one, variables that only others have stay `<<>>`. Their properties say
  for each component what must hold of it. Components that do interact are composed in the
  modules themselves: `TimedOp` has the asio operation it is around, `Pipelines` uses the queue
  `FifoQueue` promises and the outcome `Until` gives, `CurlClient` the socket actions `CurlSockets`
  shows to come.
- **ResQueueProofs**, **ResPoolProofs**, **CleanupProofs** - theorems about one component each.
  **AsyncOpsProofs**, **TaskProofs**, **ThreadPoolProofs**, **TransferProofs** (curl, gRPC) and
  **DatabaseProofs** (PostgreSQL, MySQL, SQLite, Redis) - theorems about the specifications of
  `MCAsyncOps`, `MCTasks`, `MCThreadPools` and, the last two, `MCClients`.

Outside `src/` and marked external in the map: `std::stop_source::request_stop`, condition
variables' wake-ups, asio's timer and operations, the libraries behind the clients and codecs
(curl, libpq, Boost.MySQL, Boost.Redis, SQLite, gRPC, zlib, bzip2, zstd), and the user's ops and
creators. They are modelled by what the code relies on: any order, any thread, any result.

Operators preceded by a comment `Mutant:` are broken versions of the definition that follows
them. They are used by no specification; each one shows that a property would notice that bug
(`PROJECT.json`, "mutants").

## 3. Runs

| run | instance | shows |
|---|---|---|
| `queue` | one enqueue op, two dequeue ops, two items, capacity 1 to 2 | types, `Integrity` (the assertion at the start of every critical section), `OneOwner`, `ValuesConserved`, `NoDequeueWaitsPastEnd`, and that the queue implements `FifoQueue` |
| `queue_live` | two enqueue ops, one dequeue op, one item, capacity 1, `clear()` called | a stopped op and a dequeue op at the end mark finish |
| `queue_stop_race` (violation) | one op of each kind, stops inside `initiate()` | a thread locks the mutex it holds |
| `async_ops` | pool: three tasks, two resources, capacity 1 to 2, all flags on; map: two keys, three users; until: seven combinators, 0 to 3 ops, ops 1 and 3 possibly endless; cleanup: two ops and the generator's, nested scopes; wrappers: up to two around every leaf, two schedulers | `ExclusiveLoan`, `ResumedOnceAtTheEnd`, `OutcomeUnlessStopped`, `InnermostFirst`, `FailureReported`, `RunsWhereAsked`; `WaiterServed`, `UntilEnds`, `LeaverEnds` |
| `until_stopped_outcome` (violation) | `until_all_succeeded` of two ops | a stopped awaiter is told of success although ops failed |
| `cleanup_reuse` (violation) | three ops | a scope cleaned up a second time resumes too early |
| `tasks` | group: three ops; timed op: no bound, the model is finite; file server: files of up to three bytes, a transfer buffer of two, two requests; examples: four source files of items | `OneWillResume`, `DestroyedWhenDone`; `ResumedByTheLast`, `TimeoutIffTimerFirst`; `InStep`; `NothingLost`; `OwnerLeaves`, `TimedOpEnds`, `PipelineEnds` |
| `thread_pools` | two threads and queues (naive pool: three threads), two jobs, two starts, all kinds of library pools; two completion queues, two calls | `NoLostWakeup`, `NothingLeftBehind`, both own pools implement `Scheduler`; `PostedJobRuns`, `JoinReturns` |
| `clients` | curl: two requests in three kinds of use (`UsesOf`): one read in pieces and one that is stopped, both read in pieces, one that may be cut off while paused; a response of two chunks of 2 and 3 bytes, buffers of 1; two sockets; three commands, three guards, all kinds of calls, replies of up to three elements | `ResumedByOne`, `DataInOrder`, `PollHasWait`, `AnswersInStep`, `TrxnsClosed`, `FinishedOnce`; `ReadEnds` |
| `curl_stop` (violation) | one request that pauses and is stopped | it is resumed twice |
| `codecs` | objects of up to three fields in any order with unknown ones and values behind them, in both formats; integers around every power of two; a definition of every kind, among them a nested one of 16 fields; texts around the block size, buffers of 1, 2, 5; bytes of two bits; trees of four nodes, two chained searches; three keys | `ReadsWhatWasWritten`, `FindsThePlace` |
| `gumbo_selectors` (violation) | trees of three nodes, one search | selectors as documented are parsed into others |

The properties of a run with several components are conjunctions `part = "x" => X!P`; each
conjunct is stated and explained in the component's module, and has a mutant of its own where its
component is the only one that could break it.

**Bounds.** Two waiters of a kind are needed for order among waiters, for a deleted slot in front
of a live one, and for a range that meets several waiters; `queue` has two dequeue waiters and
ranges of two, `queue_live` two enqueue waiters. Enqueue and dequeue waiters never wait at the
same time (that is `Integrity`), so two of both kinds together add little. Three tasks give the
pool a holder, a waiter and a canceled waiter; two resources let tasks hold one and wait for
another. Three ops give a combinator a first, a middle and a last completion. Two starts cover a
restart. A chunk of two bytes and a buffer of one make a read pause in the middle of a chunk, one of
three pauses twice (observation 9), and three reads of one request get that far; two requests that are read
in pieces meet in `_pausedReq`. Two socket ids let a number be used again while
a handler of the old socket is under way. Three guards nest a savepoint in a savepoint in a
transaction. Bytes of two bits keep the widths 1, 2, 4, 8 apart as eight bits do; integers are taken
around powers of two because the code compares with nothing else. Buffers of 1, 2 and 5 are smaller
than, equal to and larger than what a library gives at once. Two values behind an object are more than
a reader that has lost count can skip without being seen, and sixteen fields the least that do not fit into
msgpack's shortest header. Four nodes are a tree in which an
element with a match below it is found twice if anything is. All bounds are constants with names
that begin with `Max`, or sets. `StopInInitiate = FALSE` in `queue` and `queue_live` excludes one race,
which `queue_stop_race` shows: after it a thread blocks for good and nothing more can be said. In
`clients`, a request that is read in pieces is not stopped (`curl_stop` shows what happens then), and stops
of bidirectional client calls, servers that end a call early with OK (`EarlyOk`) and tuples nested
in tuples (`Nested`) are left out for the reasons in section 4.

**Deadlock** is checked where the system never stops (`queue`, `queue_live`); elsewhere the
system may really end, or, in the pool of `async_ops`, block.

**Fairness.** Weak fairness of every step of a thread that is inside a call, a callback or a
completion, including the acquisition of a mutex that is free again and again (critical sections
are short and contain no waiting). No fairness for calls the user need not make: initiating,
posting, stopping. The user's part of the contract is assumed where the code needs it: a
`res_ref` is destroyed, an async op that can finish does, a job returns, an asio timer expires.
`JoinReturns` rests on finitely many jobs: `_stop` is looked at only when no job was found.
gRPC is fair to tags: every tag that was posted becomes ready, which is its contract. curl is fair
to transfers (strongly: each may be between two calls again and again), since a transfer that gets
no data ends by a timeout; socket actions come as long as a transfer wants them, which is what
`PollHasWait` shows. Tasks of a pipeline go on unless they wait at a queue.

**Violations.** `NeverRelocks`, `OutcomeAsDocumented`, `ResumedWhenScopeDone` (with reuse of a
scope), `ResumedByOne` (for a request that pauses and is stopped) and `SelectorsAsDocumented` are stated in the docs or
asserted in the code and do not hold; `PROJECT.json` quotes the lines. Their passing counterparts
say what does hold: `OutcomeUnlessStopped`, `ResumedWhenScopeDone` for scopes cleaned up once,
`ResumedByOne` when the request that is stopped never pauses, `GumboFinds` for the other selectors.

## 4. Observations made while modelling

Found while reading and modelling, and treated as follows:

1. `res_queue::clear()` leaves enqueue waiters at an empty queue, against
   `integrity_assert_no_lock()` (`res_queue.hpp:268`, `351`); they are resumed only after somebody
   enqueues and dequeues again. `Integrity` is checked and proved for queues that are not cleared.
2. `res_pool::cancel()` completes the op with the mutex held (`res_pool.hpp:281`). A continuation
   resumed inline that gives back another resource locks it again. `async_ops` takes this step and
   shows what remains true.
3. Like the queue, `acquire` constructs its stop callback under the mutex the callback locks
   (`res_pool.hpp:190`); `async_ops` takes that step too. With the single lock of a `res_pool_map` it is
   the mutex of the whole map.
4. An empty range or tuple makes the combinators return true without anybody left to call the
   continuation (`until.hpp:48`). `UntilEnds` is stated for one op or more.
5. A completion in a lazy group compares `_n.fetch_add(1)` with `_ops.size()`
   (`async_op_group.hpp:201`). If another completion is the last in between, on another thread, the
   group it reads is cleared or destroyed. `CleanupStack` takes completions one at a time.
6. A stop requested between the check and `inited = true` of `use_async_op` is lost
   (`asio/use_async_op.hpp:146`). `TimedOpEnds` names the case (`LostStop`) and excludes any other.
7. In `timed_async_op` the party that is first goes on after its exchange: the timer's handler stops
   the op, the op's continuation cancels the timer (`asio/timer.hpp:145`, `159`). Nothing makes the other
   party wait for that, so that on several threads the awaiter may be resumed, and destroy the object, while
   the first one is still about to do it. `ResumedByTheLast` says that this is all the first one may have
   left, and does not exclude it (H21, which no property catches).
8. `res_pool::in_use_count` lacks the parentheses of a call (`_inuse.size`).

Clients:

9. curl (`curl/client.hpp`), in `CurlClient` unless said otherwise:
   - A stop callback may resume a request that a socket action has just taken to resume (line 539, 949; run
     `curl_stop`). `resume()` sets the resumer after posting (line 221).
   - Two requests that pause in one critical section overwrite `_pausedReq` (assertions in lines 257, 259;
     line 566); the first one is not resumed by anybody (`stranded`, which `ReadEnds` names). One finished request
     is taken per socket action (line 952); the model lets one transfer advance per action.
   - When a chunk pauses twice, the second pause stores what was copied the second time only (line 395),
     and bytes come twice (`twice`, which `DataInOrder` names).
   - `pause(CURLPAUSE_CONT)` may fail, or the stop callback has run just before (lines 566-577): the request stays
     paused in its own eyes, and curl is taken to keep it paused, whatever data it has passed (`refused`).
   - curl may end a paused transfer by a timeout. If no read waits then, `resume()` meets
     `DSK_ASSERT(_cont)` (line 219): `cut` with `asserted`.
   - A read whose transfer could not be added leaves `_cont` and the resumer set (lines 518-521), which the next
     read of that request only asserts against (line 519).
   - A socket that cannot be assigned (lines 1049-1053): the request is removed, but its awaiter is resumed by
     nobody (`stranded`), the socket has no entry in `_sds` (`unheld` in `CurlSockets`), and a later
     `CURL_POLL_REMOVE` of it fails `DSK_VERIFY` (line 1082), of which the model takes the release build.
   - Not modelled: `DSK_ASSERT(! _multi.next_done())` (line 950), which two transfers that end at once would
     meet, and `DSK_VERIFY(_cl._multi.remove(_easy))` of `on_recycle()` (line 316), which takes curl's `CURLM_OK` for
     false, so that debug builds end when a paused request is recycled.
10. PostgreSQL (`pq/conn.hpp`): after a canceled COMMIT or ROLLBACK the transaction is closed by nobody and
    the destructor of its guard asserts (line 859): `trxn = "leaked"`. In pipeline mode a COMMIT or ROLLBACK,
    that of the guard too, waits for a result that only a sync or a flush brings, and a cleanup can not be
    canceled; a failed pipeline has the server skip it, although the guard is done (`"void"`), and the
    calls that begin or end a transaction may get the result of an earlier command. `TrxnClosed` names these
    cases. `next_result()` in a pipeline without a sync waits for good. `read_int32` wants a byte behind the
    last length (`pq/data_types.hpp:589`), so that an array that ends with an empty element cannot be read:
    `PqReadsOwn` is stated for those that do not.
11. MySQL: the pool keeps `_run` after `join()`, so that it cannot be started again. When the ROLLBACK of
    a guard's cleanup fails, or is refused, the guard's destructor asserts (`mysql/conn.hpp:262`): `asserted`.
    Redis: the adapter of a nested tuple takes the elements of an aggregate for its nodes
    (`redis/adapters.hpp:137`), which is right unless the elements are aggregates (`Nested`).
12. SQLite: savepoints with the same name hide each other; with the default name, two guards in one
    scope release each other's (`UndoneRowsGone`, in no run, fails with `Named = FALSE` and several
    guards in a scope). Guards of one scope run in the order they were added, also a transaction
    before its savepoints; `PerScope = 1`. `make_savepoint()` moves a name it owns into the guard before it
    executes SAVEPOINT with it (`sqlite3/conn.hpp:1416`, `1418`): that fails, and the guard asserts. A
    statement without parameters that is used again goes on from where it was, as `args()` of nothing resets
    nothing (`sqlite3/stmt.hpp:362`); so does one that `exec()` with `Reset = false` left in its rows.
    `StatementReady` speaks of the others. `clear()` leaves `RESET_DATABASE` on if VACUUM, or switching it off,
    fails (`resetting`).
13. gRPC: in a bidirectional call both lanes, or a lane and `finish()`, may start `Finish` when the
    client is stopped or the server ends with OK before the client has written all; the optional of a
    server's `read()` meets `DSK_ASSERT(false)` (`grpc/rpc.hpp:345`). `bad` in `GrpcSrv` is a tag posted to
    a queue that is shut down, which `stop()` permits while a call is being accepted (`grpc/srv.hpp:129`).
14. `resume_on` of an op that completes in `initiate()` goes on where it is (`ResumesOnIt`, in no run).

Codecs:

15. jser: an absent `joptional` or nullable variant is counted as a field but not written
    (`jser/write.hpp:82`; `CountIsRight`, in no run), so that a msgpack reader looks for more fields than
    there are; `ReadsWhatWasWritten` leaves those out (`Miscounted`). A nested `jobj` counts as one of the
    fields that `obj_scope()` makes room for: one of two or more fails its assertion (`msgpack/writer.hpp:409`) in
    debug builds, and from 16 on the header is lost (`Unheaded`). `skip_remains()` of msgpack skips one value for
    each field that is left, which has two (`msgpack/reader.hpp:402`), and a loop that begins again at the first
    field, as that of a nested `jobj` does, goes on at a number that is one off: after either the reader is
    not where it takes itself to be (`LosesCount`), in documents of other writers and those that have fields behind
    the last one that is wanted. `FieldsRead` and `EndsAfterObject` speak of all others. msgpack's `skip()` does not look at the end of the buffer. A negative integer of a variant of
    unsigned and signed alternatives is read as neither.
16. compr: `zlib` cannot flush twice in a row; raw deflate may keep output when input and stream end
    together; the format is detected from the first chunk only. Texts come back in all other cases.
17. http: 416 and 500 responses have no length although the connection is kept (`EveryResponseFramed`,
    in no run), and responses to HEAD with a reason carry a body. A file that shrinks is answered by a
    second header inside the body. `InStep` excludes these and nothing else.
18. `lru_cache::add()` of a key that is held keeps the old cost in `_cost`, so that items are evicted for which
    there is room, the one just added, to which it returns a reference, among them (`HoldsTheRecent` says that what is
    left is what was used last). gumbo: `attr=value` keeps the `=` in the value, a space before another separator
    is refused, an attribute without a value at the end is read behind the text (run `gumbo_selectors`;
    `Misread`). `gs_until_found_first` stops "until first matched node was found" (`gumbo.hpp:351`) among
    siblings only and finds several nodes; `Expected` has what it does find. `gumbo.hpp` and `lru_cache.hpp` do not
    compile at this commit and are modelled as they are meant to parse.
19. `wiki_hist` keeps no place for items that have coordinates and a time, and its dates before the
    common era are stored but not restored. An INSERT that fails is logged, and the item is lost although no
    task fails (`src/example/wiki_hist/main.cpp:724`; `refused`, which `NothingLost` names).

## 5. Proofs

TLAPS proves the following for every value of the constants: any number of ops, tasks, resources,
values, threads, scopes, any capacities. The assumptions are the named ones of the modules, which say
that numbers are numbers, that names differ, and what the code asserts of its arguments
(`DSK_ASSERT(_cap > 0)` in `CapsAssumption`, a pool has a thread); TLC evaluates them on every run.
Some theorems carry a condition of their own, each without which the statement is false of this
code:

| condition | says | without it |
|---|---|---|
| no `clear()` (`IntegrityHolds`) | the queue is not cleared | observation 1 |
| `~Reuse` (cleanup) | nothing is added to a scope that has been cleaned up; `DSK_ASSERT(_n == 1)` in `lazy_async_op_group::add()`, `async_op_group.hpp:188` | run `cleanup_reuse` |
| `PausesUnstopped` (curl) | no request that is read in pieces is one that may be stopped | run `curl_stop`, observation 9 |
| `RpcUse` (gRPC) | no stop and no `get_response()` of a bidirectional client call, no server that ends a client's stream early with OK | observation 13 |
| `SavepointUse` (SQLite) | savepoints have names of their own, one guard per scope | observation 12 |
| `~Nested` (Redis) | no aggregates in the elements of an adapter of tuples | observation 11 |

Other properties name in themselves what they do not speak of: `ResumedByOne`, `DataInOrder` (`odd`) and
`PollHasWait` (`unheld`; all of observation 9), `TrxnClosed` and `MysqlTrxnClosed` (10, 11), `StatementReady`
(12), `InStep` (17). `AllWritten` is about `compr_conv`.

Every invariant below that a theorem needs was checked by TLC on the instance of its run first.

**ResQueueProofs**
- `TypeCorrect`: `Spec => []TypeOK`. `TypeOK` is not inductive: an iteration of the loop of
  `force_enqueue_range` takes the head of the queue. `LoopInv` adds that a caller in a loop holds
  the mutex and that the queue is not empty while it feeds waiters.
- `IntegrityHolds`: `[]Integrity` when `clear()` is not called. `Integrity` speaks of states in
  which the mutex is free, and fails inside the loops of the `force_` members. `IntegrityInv` says
  what holds there: one of the two waiter queues is empty (`deqW` while refilling), so that
  `QueueInv` holds again when the mutex is released; `LoopInv` keeps everybody else out meanwhile.
- `EndLeavesNoDequeueWaiter`: `[]NoDequeueWaitsPastEnd`, inductive together with `TypeOK` and
  `LoopInv`, `clear()` included: an op that starts to wait has seen no end mark in the same
  critical section.
- `OneCompletes`: `[]OneOwner`. `OwnInv` says who may own an op (a slot, an entry of somebody's
  `todo`, its stop callback between its two halves), that no two do, and that the ops that have an
  owner are those that wait, or return and complete themselves last.
- `ValuesKept` (`[]ValuesConserved`) and `ImplementsFifo` (`Spec => FifoSpec`) rest on `BooksInv`: `ValInv`
  follows each value from its enqueuer to its one receiver through results that are on their way in
  a `todo`, `SideInv` is the half of `Integrity` that holds with `clear()` too. One lemma per action shows
  that it keeps the books and is a step of `FifoQueue` or none.
- The lemmas about `take_oldest` and `erase` (`TakeOldest`, `EraseKeepsSlots`) carry the argument
  about deleted slots: null is returned only when every slot has been removed.

**ResPoolProofs**: `PoolCorrect`. `PoolInv` consists of `WaitInv` (a waiting op is in one slot or the heir
of one `recycle()` between its two critical sections), `LoanInv` (who has which resource, also while
it is being given back) and `CountInv` (the counts, and that waiters have somebody to wait for).

**CleanupProofs**: `CleanupCorrect`. The invariant `CleanupInv` describes each coroutine by its stack, its place
and the states of its ops (`CoroOK`): groups that are not being cleaned up are `Fresh`, nothing of them
has been initiated and they count from 1; the innermost one is `Running` while `until_all_done()` goes
on, and its `_n` is one more than the number of its ops that were counted. So the completion that
finds `_n` equal to the size is the last one (`GroupDone`), which is what everything else rests on.
`GenOK` says how task and generator take turns, `FailsOK` where a failure is known before it is in the
result. Lemmas about a stack by itself (`CoroOpens`, `CoroAdds`, `CoroStarts`, `CoroRuns`, `CoroEnds`) say what
a step does to the coroutine it is of; `StepOfCoro` that the other one is not concerned.

**AsyncOpsProofs** lifts what was proved of a component to the specification that `async_ops` checks: a
step while one component runs is a step of that component (`StepOfPart`). `LoansAreExclusive` (with the
pools by key: `MapInv` has `PoolOK` of each pool, and that loans and waiting users are those the pools
know of), `CleanupInOrder`, `CleanupFailuresReported`, and, with proofs of their own here:
- `UntilCorrect`, `FirstCorrect`, `SeqCorrect` of `Until` by itself, `AwaiterResumedOnce` and
  `OutcomeCorrect`. `UntilInv`: the counter of a parallel combinator is the number of callbacks that
  have not counted (`ParInv`), a sequence has passed over every op before `_idx` (`SeqInv`), somebody
  whose op met the condition has stored, or is about to store, `_firstIdx` once the ops are stopped by
  anybody but the parent (`FirstInv`), and what the awaiter was told (`TellInv`).
- `ResumesWhereAsked` (`RunsWhereAsked`). `ResumeInv` follows the calls of `initiate()` inwards: each one
  runs where the wrappers in front of it asked (`CallsOk`), and so did the leaf, whatever has come back
  from it since (`ResultOk`). For `solely_run_on()` of a task, `SolelyOk` says why the awaiter comes back:
  the continuation that `solely_run_on()` has bound stays the last one of every op in the task, and
  `bind_resumer()` replaces the first one only, which is one of the task's own.

**TaskProofs** is about `MCTasks`:
- `GroupTypeCorrect`, `GroupResumedOnce` (`OneWillResume`), `GroupOutlivesOps` (`DestroyedWhenDone`),
  `GroupErrCorrect` (`ErrIffFailed`, which no run repeats), for any set of ops. The invariant `ResumeInv`
  says that an op about to call the continuation is alone, left an empty list, and has an owner that
  waits; since adding after the wait has started is forbidden, ops left in a started group imply a
  waiting owner. `FailInv` ties `err` to the ops that have left.
- `TimedOpTypeCorrect`, `LastResumes`, `TimeoutCorrect`. `RaceInv` describes the two parties after the
  exchange, the first of which may be behind when the other one resumes the awaiter, `ErrInv` why a wait was aborted, `OpInv` that the continuation is called exactly when there
  is a result.
- `ResponsesFramed` (`InStep`), for files and buffers of any size. `FramedInv` says at each step of a
  response what is still owed of it: nothing has been sent yet, all of it, or, while `transfer()` runs, the
  bytes that its counter has left, which are those between the file's position and the last one asked
  for. `ResponseFacts` shows that the header says what was asked.
- `AllWritten` (`NothingLost` of `compr_conv`), for queues of any capacity. `PipedInv`: what is in the file,
  in the three queues, in the hands of the tasks and held back by the compressor, any part of it, is the source cut into
  segments, in this order (`Seg`, `Chain`); each step moves the border between two of them. `Flow`: a
  task that is done has left everything in front of it empty.

**ThreadPoolProofs** does the same for `thread_pools`: `NoSleeperForgotten`, `JoinedIsEmpty`, and
`PoolsAreSchedulers`, the refinement of `Scheduler` by both pools. `PoolsInv` has one invariant per
executor: by `SimpleOK` and `NaiveOK` no job is in two of a post() under way, a position of a queue, what was
run and what was dropped; `LibOK` and `GrpcOK` say what is over once a thread has left and a queue is shut down.

**TransferProofs**, curl and gRPC in `MCClients`:
- `SocketsWatched` (`PollHasWait`): an act of a socket's entry has a wait with the present id, under way or
  fired, and the acts of an entry are those curl polls for, unless the socket could not be assigned and has
  no entry (`Covered`); an id that was given up is never used again, so a late handler finds no entry.
- `RequestsResumedOnce` (`ResumedByOne`) and `BytesInOrder` (`DataInOrder`). `CurlInv` speaks of the requests
  that were not cut off while paused (`Whole`): it ties a request's state to its awaiter and to the chunk a
  pause has left of it (`ReqOk`), with failed additions and pauses; a request that somebody has taken to
  resume, or that `_pausedReq` names, is one that waits and may be resumed (`Ready`), and is known to one
  of them only (`Held`). A request that is not `Loose` has used of a paused chunk what its reads were passed.
  Lemmas like `DeliveredAs` say what a callback may do to a request, once for all places that call it.
- `CallsFinishOnce` (`FinishedOnce`). `LanesInv` and `OpsInv` say which ops the lanes of each kind of call have
  under way; by `StatusInv` the lane that starts `Finish`, or has the final status, is the only one under
  way (`Alone`); `ResumedInv` says what a resumed op has left to its caller.

**DatabaseProofs**, the databases in `MCClients`:
- `TransactionsEnd` (`TrxnsClosed`) and `AnswersBelong` (`AnswersInStep`).
- PostgreSQL: by `QueueInv` the results not read yet are groups, one for each command that was sent, in order
  and each ended by a null (`Groups`); by `CallInv` a call that sent a command outside of pipelines has the
  queue for itself and leaves it empty or in its COPY; `TrxnInv` says that a COMMIT or ROLLBACK that was not
  skipped has closed the transaction, and when the one of the guard is refused; `LinkInv` and `CallInv` that
  waits are for the present socket.
- SQLite: `GuardsInv` and `FramesInv` relate guards to the frames of the engine's savepoint stack, `RowsInv`
  what each frame would undo to the guards that are not done, `UndoneRowsGone` is part of the invariant.
  `StmtInv` says that the engine has left a statement's start only if `_needReset` does, so that binding
  resets; `SettingInv` is about the pragmas.
- MySQL: a transaction on a connection that can be used has its guard (`MysqlInv`); Redis: `CountersInv` says that the counters of the adapter whose reply comes are the
  element whose nodes come and how many of them are left, `RedisInv` that nodes went to their owners.

**Only model-checked**
- Liveness: fairness and ENABLED are out of the prover's reach.
- `ReadsWhatWasWritten` and `FindsThePlace`: results of a codec are statements about every input of a
  recursive definition, and an induction over the input is what the provers cannot instantiate;
  `JserDsl`, `Compr` and `Gumbo` are written with RECURSIVE operators, which `MCCodecs` reaches.
- `NothingLost` of `wiki_hist`, whose database is a fold over what was read.

## 6. Not modelled

- Statistics and read-only members; user callables (creator, recycler, result handlers) beyond the
  fact that they run; memory allocation, frames and exceptions; the branch of ops whose context has
  no stop source, which is the model without a stop.
- Compile-time machinery (`util/ct.hpp`, concepts, tuples), `util/function.hpp` and the other forms of
  type erasure, strings, string formatting and number parsing: no state and no protocol.
- `charset/`: conversion by ICU.
- The setters of options that pass a value on to a library (`curl/easy.hpp`, `curl/multi.hpp`,
  `compr`'s options, `pq`'s connection parameters, `set_request` of `curl/client.hpp`), forms and URLs.
- `http`: client side, WebSockets, multipart bodies. `sqlite3`: opening, attaching, backup, functions
  of the user. `grpc`: channels and metadata. `gumbo`: output of a tree.
- `src/test`, except where a test shows how a part is used (`src/test/grpc/main.cpp` for the rules of
  `GrpcRpc`).
- The overlap of completions of a lazy group and of a timed op's parties (observations 5 and 7).

## 7. Plan

Done, in this order: the core (`ResQueue`, `ResPool`, `Until`, `OpGroup`, `CleanupStack`, the thread
pools, `TimedOp`), then `ResPoolMap`, `Resumption`, `LibPools`, the clients (`CurlClient`,
`CurlSockets`, `PqConn`, `PqData`, `SqliteConn`, `SqliteStmt`, `SqliteSettings`, `GrpcRpc`, `GrpcSrv`, `MysqlConn`,
`RedisReply`), the codecs (`Jser*`, `Compr`, `HttpFiles`, `Gumbo`, `LruCache`) and the examples (`Pipelines`);
proofs about `ResQueue` with the refinement of `FifoQueue`, `ResPool`, `ResPoolMap`, `Until`, `OpGroup`, `CleanupStack`,
the executors with the refinement of `Scheduler`, `TimedOp`, all clients, `HttpFiles`, the pipeline of
`compr_conv`, and `Resumption`.

What is left: properties of the codecs by induction over their input, should a prover be able to
instantiate the induction theorems; the other pipeline; and the hazards of `PROJECT.json` that no
property covers, each with its reason.
