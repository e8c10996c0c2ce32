# A TLA+ model of Gungnir

Gungnir is a C++23 web framework: a compiler for its own language, an HTTP
server, a database layer, queues, a scheduler, caches, storage, and the runtime
that starts and stops them. This directory holds TLA+ specifications of the
parts whose correctness depends on the order in which several actors take their
steps, the TLC instances that check them, and proofs of what matters most.

Paths below are relative to the repository: `queue/worker.hpp` stands for
`include/gungnir/queue/worker.hpp`, `*.cpp` files are under `src/`.

## The system

| Part | State it keeps | Who steps on it | Here |
|---|---|---|---|
| Redis queue driver, worker, heartbeat | six Redis keys; a lease per job | workers in any number of processes, an operator | `RedisQueue`, `QueueWorker`, `QueueAttempts`, `JobLedger` |
| Memory queue driver | a list and a delay list | threads of one process | planned |
| Connection and transactions | scope stack, callbacks | guards, coroutines that share a connection | `Transactions` |
| Connection pool | leased entries, waiters | clients, validator, cancellation | `ConnectionPool` |
| Migrations | `gungnir_migrations` and the schema | deployments | `Migrations` |
| Scheduler and its locks | lock store, last run | servers | `ScheduledTask` |
| Cache and its locks | value store, lock store | callers in any process | `CacheLease` |
| Local storage disk | directories and files | threads, a cleanup, crashes | `LocalDisk` |
| Application | lifecycle stage, providers, hooks | its owner, handlers | `Lifecycle` |
| Runtime host, supervisor, signals | runtimes, stop state | service threads, signal thread, server | `RuntimeHost` |
| HTTP/1.1 server and WebSockets | connections | reactor, handler tasks, clients, timeouts | `HttpServer` |
| Timers, cancellation, executor | timer list, resume slots | fallback thread, pump, workers, owners | `Timers` |
| OTLP exporter | bounded queues, counters | application threads, worker, flush, shutdown | `OtlpExporter` |
| HTTP/2, request streams, backpressure | streams, windows | reactor, handlers, peers | planned |
| Sessions, authentication | session store, remember tokens | concurrent requests | planned |
| Redis client (cluster, sentinel) | slots, topology | threads | planned |
| Task groups, tracing, cron | threads; spans; none | tasks; threads; none | planned |
| Drivers, S3, mail, TLS | none of their own: client libraries | | not modelled |
| `.gnr` compiler, LSP, CLI, views, validation, routing, configuration, ORM and SQL compilers, HTTP parsing | none, or filled at boot and read afterwards | | not modelled: sequential functions over text, better served by tests |

`PROJECT.json` lists every part with its sources and the reason where it is left
out. How the parts interact: the host starts the server, the workers and the
scheduler and stops them through the supervisor; handlers and workers take
connections from the pool, open transactions on them and dispatch jobs that
are published when the transaction commits; everything that waits does so
through timers and cancellation tokens; the scheduler and the cache share one
lock-store interface.

## How the models are built

One module holds one component: its state as variables, one action for each
operation or each step between two lock regions, system calls or scripts. A
region under one mutex, a Lua script and a single statement are one step each,
since nothing else can be seen in between. Failing calls, lost replies, crashes
and cancellations are actions or disjuncts of their own, bounded by a constant
(`MaxFaults`, `MaxErrors`, `MaxMishaps`, `MaxCrashes`). Payloads are model values; time is
either what is left of a timeout, a small clock, or "may happen at any time".
A definition carries the name of the function it stands for where there is one.

Components that run beside each other without sharing state are checked in one
TLC run: the MC module extends them, a variable `part` chooses one in the initial
state, and the others stand still in a state where their fairness asks for
nothing. The runs therefore say nothing about interactions between those
parts, and need not: none of them reads another one's variables. Where parts do
interact they are composed for real: `QueueWorker` extends `RedisQueue` and takes
its scripts as the driver calls, `Transactions` contains the dispatcher's
after-commit publication, `RuntimeHost` contains the server's and the services'
part in a stop, `Timers` contains the cancellation token and the executor.

### Queue

`RedisQueue` has one variable for each Redis key (`jobs`, `ready`, `delayed`,
`reserved`, `leases`, `failed`) and one action for each Lua script of
`queue/redis_driver.cpp`; any client may call any script with any token.
`QueueWorker` is `Worker::run_one` of `queue/worker.hpp` with its heartbeat, and an
operator who inspects, retries and flushes. `JobLedger` says what a driver
promises: an accepted job is waiting, leased or failed until it is completed,
forgotten or flushed. `ImplementsLedger` is the refinement.

### Database

`Transactions` follows `database/connection.cpp` and `database/transaction.cpp`: the
scope stack, tokens, both guards, the callbacks and their failures. The server's
side (whether a transaction is open and which call opened it, savepoints, what is
durable) is external and differs by `engine`. A failed statement dooms the
transaction on PostgreSQL and may end it on the others. Where no transaction is
open, SQLite refuses COMMIT and ROLLBACK, the other servers accept them, and
going back to a savepoint is refused everywhere. Any driver call may fail
with nothing done or with the connection lost; a COMMIT may be reported as failed
after it took effect. A guard whose rollback fails in `run` and again in the
destructor, which swallows it, ends as `abandoned`. MongoDB has no transactions.
`ConnectionPool` follows `database/pool.cpp` down to the condition variable: scan,
wait, deadline, cancellation callback, validation without the mutex, notify
after unlock. `Migrations` follows `migration/runner.cpp`: the records are read
twice, then for each migration the plan runs and is recorded, in one transaction
where schema changes are transactional and in two steps where they are not. The
record table has a primary key, as on the SQL servers; MongoDB's collection has
none and is not modelled.

### State shared between processes

`ScheduledTask` is `Task::execute` with the occurrence lock and the overlap lock, on
servers that read the clock once a turn and may be late. `CacheLease` is
`Repository::remember_locked` with the handle of `cache/lock.hpp`, whose destructor
releases when the call unwinds. `LocalDisk` is the POSIX branch of
`storage/local_disk.cpp`: temporary file, sync, rename, directory sync, and a
cleanup that goes by name, over a journalling file system that may lose what was
not synced.

### Application and runtime

`Lifecycle` is `core/application.cpp` and `core/lifecycle.hpp`; `RuntimeHost` is
`production/runtime_host.cpp`, the supervisor, the signal watcher and the loops
of workers, scheduler and listener as far as stopping goes. A worker in `Limited`
may leave its loop by `max_jobs` or `max_runtime`; a loop that throws resets
`running_` first and is remembered as the failure in a later step of its thread.
`HttpServer` is the reactor of `http/server.cpp` for HTTP/1.1 and WebSockets; each
method that takes a connection is an operator from connection records to
connection records. A request of kind `last` is one after which the connection is
not kept: `Connection: close`, HTTP/1.0, or keep-alive switched off.
`Timers` is `core/timer.cpp`, `core/cancellation.hpp`, `core/resume_slot.hpp` and the
executor; a sleeper's deadline is fixed when `schedule` publishes its timer.
`OtlpExporter` is `observability/otlp_http_exporter.cpp`.

## What the runs check

| Run | Checks | Bounds |
|---|---|---|
| `queue_workers` | `KeysAgree`, `AttemptsWithinLimit`, `ImplementsLedger`, `Fenced` | two workers, two jobs (one without a handler), four tokens, two faults, flushes |
| `queue_settles` | `OverlapOnlyAfterLostLease`, `EverySettled` | the same workers, leases of two units renewed in time, one fault |
| `database` | pool: `Exclusive`, `AcquireReturns`; transactions: `PublishedIsDurable`, `CalledOnce`, `CleanReturn`, `EndsOwnScope`; migrations: `AppliedInOrder` | two clients, the validator and one entry; three guards constructed in a fixed order (`InOrder`), any of the four SQL servers, two faults; two runners, three migrations, four calls, one mishap |
| `shared_state` | task: `OncePerSlot`, `NoOverlap`, `FreesOwn`; cache: `OneStartPerMiss`; disk: `WholeObjects`, `ReturnedIsDurable` | two servers over three slots; three callers, four calls; two threads, two objects, three operations, one crash |
| `application` | lifecycle: `UndoneInReverse`, `HooksOnce`; host: `ShutdownLast`, `FailureReported`, `RegisteredAreAsked`, `StopCompletes`; server: `StopReturns` | three providers, two hooks; two services (both may fail, one has a limit), the server, a signal, a late runtime; one client with two units |
| `http_server` | `AnswersInOrder`, `TakenIsAnswered`, `TokenTells` | one client with three units of input, or two with one each and one dispatch at a time |
| `runtime` | timers: `ResumedOnce`, `SleepEnds`; exporter: `LossCounted`, `ReturnsTell` | two sleepers, one executor thread, a queue of one; two spans, one metric, a queue of two, one flush, two shutdowns |

Each of them except `queue_settles`, which repeats a model under fairness, also
checks one type invariant over its modules.

Why these bounds are enough to meet the hazards: a stale worker, a stale lease
and a late release need an owner and one successor, and a third caller to profit
from a lock wrongly freed, which is why the cache has three. Two entries in a
batch, one more job than handlers and one more client than entries or dispatches
bring every queue and pool to its limit. Three guards make a root, a savepoint
and a stranger; they are interchangeable, so `InOrder` drops only renamed
behaviours. Two faults let a fault happen while another one is being dealt
with. The disk needs three operations so that two can race after a crash has
left a temporary file behind. A bound that turned out to hide a case was raised:
the mutants recorded in `PROJECT.json`, one for each property, are plausible bugs
that each run must still find.

Five runs are expected to fail. Each shows that the code does something that a
document or a test of the repository excludes:

- `queue_failure_count`: `docs/queues.md` says failures retry up to the attempt
  count. The count is kept in the worker's memory until `release` or `fail`
  stores it, so a failure whose call is lost is not counted.
- `transactions_doomed`: `docs/queues.md` says after-commit dispatch publishes
  only when the transaction commits. PostgreSQL answers the COMMIT of a doomed
  transaction with success and rolls back; the driver takes it for a commit. It
  needs a callback that handles the failed statement and goes on
  (`ErrorsHandled`); the `database` run checks the same property without.
- `transactions_stranded`: `docs/database.md` says an exception rolls back the
  scope before propagating. `rollback_scope` forgets the scope only after the
  driver's rollback succeeded. If the server has ended the transaction by itself,
  that rollback is refused on a connection that works (the ROLLBACK of SQLite;
  the savepoint of a nested scope on MySQL and SQL Server), `run` throws the new
  error, the destructor swallows it, and the depth and the scope stay behind on a
  connection that returns to the pool. This is the `abandoned` guard that
  `CleanReturn` excepts.
- `lifecycle_handler`: `tests/priority3_runtime.cpp` asserts that a second
  shutdown calls nothing. After a shutdown from a request handler, `listen` moves
  the stage back to ready, and the destructor runs the hooks again.
- `http_drain`: `docs/http-runtime.md` says a stop initiates the shutdown proper
  to WebSockets. With output pending the close frame is not queued, and a reply
  that comes later replaces it.

### Fairness

Liveness is checked only under fairness that the code's scheduling gives.

- `EverySettled`: workers and heartbeats are scheduled, handlers end, a stopped
  worker is started again (the deployment's supervisor does that), time passes,
  and a lease is renewed before it runs out as long as renewals succeed
  (`docs/queues.md` asks for such settings). At most `MaxFaults` connections or
  processes break.
- `AcquireReturns`: a thread that can run does; a deadline that has passed is
  noticed. Nothing is assumed of a client that holds an entry, apart from
  returning it in the end.
- `StopCompletes`: threads run, the timeouts of sleeping services end their sleep
  (notifications may be lost), and a service's current turn ends.
- `StopReturns`: the reactor turns, the drain deadline and the request timeout
  pass, a socket that is ready is served or found closed, and a handler whose
  token is cancelled ends. A handler that ignores its token keeps `listen`
  waiting, by design.
- `SleepEnds`: the fallback thread, the executor's thread and an attached pump are
  scheduled, and the clock goes on up to its bound. Nobody has to attach or
  detach a pump.

### Deadlock

The queue runs and `lifecycle_handler` check for deadlock. The other systems
really stop: the host ends, the server returns, clients leave, bounded calls run out.

## What is proved

TLAPS proves the following for every value of the constants, from the named
assumptions of the modules only (ids and tokens are arbitrary sets, sizes are
natural numbers).

**The Redis queue** (`RedisQueueProofs`). `QueueTyped`, `QueueKeysAgree`: under any
client, every stored job is in exactly one of the ready list, the delayed set and
the reserved set, a lease has a deadline, and no job is both active and failed.
The inductive invariant is `QTypeOK /\ KeysAgree`. `KeysAgree` is inductive given
the types, because its conjuncts were chosen together: that the ready list holds
an id once is needed for `pop` to remove it, and that an active job has a place
is needed for the scripts that test only `jobs`. The work is in `pop`, which
appends the due and the expired ids to the ready list in any order and takes a
prefix of it: the lemmas on sequences say what occurs in such a list.
`QueueImplementsLedger` rests on the same invariant: every script is a step of
`JobLedger` under the mapping from places to states, or changes nothing there.

**Transactions** (`TransactionsProofs`). `TransactionsTyped`, `ScopeStacksAgree`
(depth, callback lists and scope ids describe one stack, oldest first),
`GuardsEndOwnScope`, `CallbacksCalledOnce`, `ConnectionsReturnClean` and, unless a
callback handles a failed statement and goes on (`~ErrorsHandled`),
`PublishedOnlyIfDurable`: for any guards, any of the four servers, any failures
and any finishing order. The invariants build on each other. `TInv` adds to the
types and the stacks that callbacks are older than the scopes above them and that
no two guards hold one token, without which a guard could end a scope that is not
its own. `CInv` adds that what was taken out to be called is in no open scope and
no other list. `PInv` adds that what was taken is durable and `SessionHolds`: a
working session still has the root's transaction with the rows of every open
scope, or some scope is orphaned. The second case is what a server that ended the
transaction leaves behind. The owner of an orphaned scope has already failed, so
nobody commits it, and it has no savepoint to go back to, so nothing below it is
committed either. `OwedInv`, for `ConnectionsReturnClean`, says that until some
destructor gives up every scope on the stack has a guard that will still try to
end it, and that outside any scope the server has no transaction open.

**The connection pool** (`ConnectionPoolProofs`). `LeasesExclusive`: an entry has
one owner from reservation to return, for any pool size and any number of
clients. `Exclusive` relates `leased` to the threads' own fields and is inductive
with the types of the variables it mentions.

Out of the prover's reach, and only model-checked: everything about liveness and
fairness, and what is computed by recursion over data. Only model-checked so far,
though provable: the workers' fencing, the pool's waiting, migrations, the
scheduler, the cache, the disk, the lifecycle and the host, the HTTP server, the
timers and the exporter.

## What is abstracted, and what that leaves open

- Bytes, JSON, SQL and log texts are outcomes. Limits on bytes act like limits on
  counts. Nothing is said about parsers and serialisers.
- Durations: except in the queue, the scheduler and the timers, a timeout may
  fire at any time while it is armed, so properties hold whatever the durations;
  a bug that depends on a particular duration does not show.
- Memory order: atomics are sequentially consistent. The unsynchronised read of
  the server pointer in `Application::stop` is taken before or after the write.
- `ScheduledTask` models an interval task with both locks; cron and time zones
  change only what "due" means. `LocalDisk` assumes a file system that orders
  directory changes. `Migrations` takes a plan for one statement.
- The HTTP server's TLS and HTTP/2 branches are not in `HttpServer`.

## Plan

In this order; each item joins the run of its area.

1. HTTP/2 sessions (`http/http2_session.cpp`): streams, flow-controlled bodies,
   GOAWAY and the drain, composed with the reactor's turn; then request streams
   and backpressure.
2. Sessions and authentication: rotation by concurrent requests, remember tokens
   consumed once; a session that is erased before it is saved.
3. Cancellation against its owners: a late `driver->cancel()` on a pooled
   connection, retry's sleep, task groups.
4. The memory queue driver against `JobLedger`; the Redis client's redirections
   and reconnection.
5. Pure algorithms as operators against a reference: cron's next occurrence over
   a bounded calendar, the WebSocket frame parser and UTF-8 check, route
   matching.
6. Proofs, where the invariants are already checked: `Fenced` from a worker
   invariant on tokens; `OncePerSlot` and `NoOverlap` for any TTLs longer than a
   turn; `WholeObjects`; `AppliedInOrder`; `OneStartPerMiss`; `UndoneInReverse`;
   `AnswersInOrder`.
