# TLA+ specifications of go-lib

This directory models parts of `github.com/Cotary/go-lib`, model-checks small
instances of them with TLC, and proves the main safety properties with TLAPS
for every instance. `PROJECT.json` lists the components, the runs, the mutants
that show each property can fail, the source lines behind each definition, the
hazards, and the theorems.

## The system and its modules

go-lib is a library of packages that mostly stand alone. What holds state that
goroutines, processes or machines share, and what takes several steps to get
right, is what the models are about.

**Node pool** (`provider/nodepool`). `Pool.Do` copies the sorted node list and
gives it to a strategy, which picks nodes that are available (circuit not open)
and not throttled, runs `doOnNode` on them, and releases their slots. `doOnNode`
asks the breaker, calls the transport, classifies the answer and records it in
the node. Beside the callers a goroutine sorts the nodes, and an administrator
adds, removes and updates them.

| module | models | state and actions |
|---|---|---|
| `Node` | `node.go` | one variable per field of `Node`, each a function from node objects; an operator per method; the semaphore is `semSize`, `inUse` and the FIFO `waiters` |
| `Pool` | `pool.go` | `nodes` and `nodeMap`; `AddNode`, `RemoveNode`, `UpdateNodes`, `resortNodes`, `doOnNode` as its admission and its recording |
| `PoolClient` | `doOnNode` in any order | a pool whose answers come in any order, so late ones of every kind meet every breaker state |
| `Conservative` | `conservativeStrategy.Execute` | requests with a program counter per step: round, scan, slot, bucket, admission, answer, release, wait |
| `Race` | `raceStrategy.Execute` | requests and their workers, the result channel, the cancel of the losers |
| `UntilComplete` | `Pool.DoUntilComplete` | `pending`, `nextPending`, rounds, backoff, deadline |

`Conservative` and `Race` extend `Pool`, which extends `Node`: requests, sorting
and membership changes interleave wherever the code holds no lock.

**Request pool** (`provider/requestPool`)

| module | models | state and actions |
|---|---|---|
| `RequestPool` | `server.go` | the global channel, the channels of the points, a step per part of a worker's loop (take, call, retry, adjust, redirect, save), `RequestMulti` calls, `UpdatePoints` with `Point.Close` and its drain |

**Connections and locks**

| module | models | state and actions |
|---|---|---|
| `RabbitConnection` | `dao/rabbitMQ/connect.go` | the watcher from read to registration to reconnect, the backoff in 64 bits, `Close` |
| `RabbitQueue` | `dao/rabbitMQ/queue.go` | sending with confirms or in a transaction, retried batches, consumers with prefetch, `Ack`, `Nack`, `RetryLater`; a broker that drops channels, refuses and confirms late |
| `AtLeastOnce` | what the queue promises | abstract; `RabbitQueue` implements it |
| `WsClient` | `net/ws/client.go` | `Start`, `Stop`, the run goroutines, dialling, read and ping loops, which of them closes what |
| `WsServer` | `net/ws/server.go` | the loops of a connection, `Send`, `Close`, `Broadcast`, `CloseAll`, `writeMu` and `closeOnce` |
| `LeaseLock` | what `dlock.Mutex` promises | abstract: a lock that never lapses, or one with a lease |
| `MemoryLock`, `RedisLock`, `EtcdLock` | `dlock/memory.go`, `redis.go`, `etcd.go` | the providers for one key, each implements `LeaseLock` |
| `Cache` | `cache` | one key in Redis and in the local level of two processes; `Get`, `GetOrLoad` with singleflight, `Set`, `Delete`, expiry |

**Helpers of goroutines**

| module | models | state and actions |
|---|---|---|
| `SafeChan` | `common/utils/channel.go` | the RWMutex (`readers`, `writer`), the flags, the channel, one receiver |
| `SingleRun` | `common/utils/singleRun.go` | a stack of calls per goroutine, `IsRunning`, condition variable and timers |
| `OrderedMap` | `common/utils/zmap.go` | list and index beside the map they stand for, walks with callbacks |
| `Processor` | `ConcurrentProcessor` | the caller, its goroutines, panics, cancellation |
| `CrashReporter` | `common/coroutines/crash.go` | crash files of processes that start, crash and report |
| `AsyncSender` | `provider/message` | the bounded channel, its consumers, the cache of sent alerts, panics that report through the same sender |
| `Scheduler` | `cmd/cmd.go` | the map of ids beside gocron's jobs; the calls into gocron are separate steps that may fail |
| `RedisScan` | `dao/redis/redisFunc.go` | a goroutine per master, the semaphore, the error channel |

**Requests and queries**

| module | models | state and actions |
|---|---|---|
| `HttpChain` | `net/http`, `nodepool/httpTransport` | the handlers, the shared index, the stack of frames, `Abort`, `Compose`, `Retry`, and the judgement of the node |
| `Download` | gin controller, `provider/exporter`, `export` | concurrent downloads, the file by name, failures and panics in the middle |
| `RequestLog` | gin `handler/requestLog.go` | the bounded copy of a body and what is logged of it |
| `Filter` | `dao/gormDB/filter.go`, `query.go` | tags to scopes to conditions, three-valued logic, LIKE, paging |
| `Transaction` | `dao/gormDB/tx.go` | frames over several databases, errors, panics, captured contexts |
| `QueryAndSave` | `dao/gormDB/func.go` | callers that save one key, row locks, ON CONFLICT |

`MC...` modules give the constants values and put several components into one
run; `...Proofs`, `PoolLemmas`, `ConservativeTypes` and `ConservativeSlots` hold
proofs, as does the end of `RedisLock`. Operators whose comment begins with "Mutant" are deliberate faults, used
by no specification.

### Abstractions

- Node objects are the numbers `1..made` in the order of creation, so a removed
  and re-added endpoint is a new object, as in the code.
- Scores are integers in hundredths, truncated; the code uses `float64`. No
  checked property depends on the rounding. In `RequestPool` the order of the
  points by score is any order.
- A token bucket is a nondeterministic answer wherever `RateLimited` is set.
  Durations are choices: a timer may go off whenever it runs. Time since the
  circuit opened counts ticks up to `CircuitOpenTime`.
- Requests carry no payload; an answer is a status. `SilentFailures` says
  whether a classifier may fail an answer that has no error, as `httpTransport`'s
  does for a status code. `Faulty` in `Race` names the nodes that may fail by
  themselves.
- `RabbitQueue` has one queue and its delay queue; a delay passes at once.
- Bodies, texts and rows are small: a rune of two bytes, texts of the characters
  that LIKE treats specially, rows by their columns' values.
- External, modelled by what the code relies on: `semaphore.Weighted`, mutexes,
  `sync.Cond`, timers, contexts, Go channels, the AMQP broker, redsync, etcd's
  `concurrency`, Redis, gocron, gorm and SQL, the file system.

## Runs

A run asks its question of several components by a variable `part` that the
initial state sets: a behaviour runs one component and leaves the others alone.
A property of such a run gathers what one component, or a few of a kind, promise
(`BatchHolds`, `ChainHolds`, `DatabaseIsAsTold`, `ConnectionsClose`...); its
conjuncts are named in the components' modules, and where there are several
there is a mutant for each.

| run | instance | checks |
|---|---|---|
| `pool_queue` | pool: 2 endpoints, `New` with a repeated one, 2 administrator calls, 4 answers per node. Queue: 2 messages, 1 consumer with prefetch 2, 2 faults, both ways of sending, with and without delay | list and index agree; breaker counters; edges of the circuit. The queue gives back what was not confirmed and implements `AtLeastOnce` |
| `conservative` | 2 requests, 1 node and another that is added, waiting, cancellation | slots, hand-over to waiters, attempts per request, breakers |
| `conservative_throttled` | 2 requests, 2 nodes, token buckets, no waiting | slots; `ErrAllThrottled` only for untried requests |
| `race` | 2 requests, 1 or 2 nodes, one more added, one faulty | slots; a request fails only if all its nodes failed it |
| `calls_return` | 2 requests that race 2 nodes and 2 that wait for 1 node, a slot per node; `RequestMulti` over 1 point and another that is added; fairness | a race keeps to `RaceConcurrency`; every call returns |
| `request_pool` | 2 points, up to 2 workers each, a group of 2 requests with one retry each | a request is in one place, retries are spent exactly, a call wakes when its group is complete, an open point keeps a worker |
| `requests` | batch of 3; chains of up to 3 of 7 middlewares, 5 status codes; 2 downloads, 2 names, 3 rows in batches of 2; bodies of up to 4 bytes, 6 limits; every tag over 8 texts; 3 nested frames on 2 databases; 3 callers of 7 operations; 3 readers in 2 processes | see the table below |
| `concurrency` | 4 senders and 2 closers; 3 goroutines over 2 keys to depth 3; 2 workers, 4 items; 3 equal alerts; 2 ids and 3 jobs; a map of 2 keys walked once; 3 masters and 2 slots; a process with 2 pids that crashes up to 3 times | see the table below |
| `connections` | 3 clients per lock; 3 drops and 60 attempts; 1 fault and fairness for the queue; 2 users and 2 run goroutines of the WebSocket client; 2 connections of the server | see the table below |

| component | what is checked |
|---|---|
| `UntilComplete` | only items without an answer are sent again; the result settles each item; it returns |
| `HttpChain` | an abort keeps the request from being sent; no error means that every check held; retries are limited and stop at a 4xx; the node is blamed for what it did |
| `Download` | rows of its own and all of them; one answer; no file left |
| `RequestLog` | the buffer is a prefix; what is logged as text is readable |
| `Filter` | the rows asked for; the total counts what the request matches |
| `Transaction` | committed exactly when every frame of its context ended well |
| `QueryAndSave` | "inserted" is told to the creator, once; the row is one whose writer was told of success; nobody waits for ever |
| `Cache` | the loader runs again only when Redis lacked the entry; stale values die out |
| `SafeChan` | no send on a closed channel, one close, nothing lost, `Close` returns while someone receives |
| `SingleRun` | one instance and one claim per key, no lost wake-up, every call returns |
| `Processor`, `RedisScan` | complete results or an error; they return |
| `AsyncSender` | an alert is suppressed only when one like it went out; one copy per goroutine and minute |
| `Scheduler` | map and gocron name the same jobs |
| `OrderedMap` | list and index are one map; a walk sees one moment |
| `CrashReporter` | no dump is archived unreported; each is reported in the end |
| locks | each implements `LeaseLock`; two holders of a valid Redis key never exist; a waiter of the fair etcd lock gets in |
| `RabbitConnection` | the wait is at most a minute; one late dial after `Close`; a notified drop is repaired |
| `RabbitQueue` | messages reported as sent are handled in the end |
| `WsClient`, `WsServer` | open connections have someone who closes them; after `Stop` it is quiet; `OnClose` once |

The bounds are chosen so that each hazard happens. Two requests on a node with
one slot contend, queue and hand over; a second node makes a scan pass one over,
and a race leave a loser behind; concurrency one with two nodes leaves an extra
slot. Thresholds of two in `pool_queue` tell the first failure and success from
the last. Three goroutines of `SingleRun` make one broadcast wake two waiters,
and depth three puts another key between two calls for the same one. Three
clients of a lock have one inside, one waiting and one that comes while the
first leaves. Sixty attempts take the backoff past the sign bit of an `int64`.
Three rows in batches of two make a full batch and a short one. Three alerts of
one content meet two consumers. More masters than slots make one wait for
another. Deadlock checking is off where calls are finite in number: such a model
may stop, and the liveness properties say that it does not stop too early.

Runs that show where the code and its documentation disagree:

| run | what happens | documentation |
|---|---|---|
| `race_losers` | losing races opens the circuit of a healthy node | `provider/nodepool/types.go:18` |
| `ws_send` | a `Send` whose write fails calls `Close` with `writeMu` held, which `Close` locks again: `OnClose` is never called | `net/ws/README.md:139` and `:144` |
| `crash_instances` | an instance archives the empty file another live instance has open; the dump written to it later is not reported | `common/coroutines/crash.go:324` |

## Refinement

`LeaseLock` has an owner and the clients that believe to be inside. The mappings
take `inside` from the program counters and the owner from the state the provider
really locks with: the channel of the memory lock, the valid key in Redis, the
oldest key in etcd that belongs to a client inside. The memory lock implements
the specification without `Lapse`; the other two need it, since a lease can end
under its holder. None of the three lets an `Unlock` take the lock from the next
holder.

`AtLeastOnce` has the messages reported as sent, those of which a copy is kept,
and those finished. `RabbitQueue` maps `kept` to the copies in the queue, in the
delay queue and unacknowledged at a consumer. It is checked as a step-by-step
refinement in `pool_queue`, and in `connections` as a promise for the end, under
fairness: what was reported as sent is finished.

## Fairness

- Strategies, request pool: weak fairness of each request's and worker's next
  step. A goroutine that can run does, and the transport answers, as one with a
  timeout does. Administrator calls, sorting and the clock get none.
- `UntilComplete`: the loop and the deadline. `HttpChain`: one goroutine goes on.
- `SafeChan`: a ready select, `Close`, and a receiver that keeps receiving.
- `SingleRun`: `f` returns, timers go off, the mutex is granted. With finitely
  many calls none can be overtaken for ever.
- `Processor`, `AsyncSender`, `RedisScan`: `processItem`, the robot and Redis
  return, as calls with timeouts do. `CrashReporter`: processes are started
  again and run their report to the end; crashes are bounded by `MaxEnds`.
- `EtcdLock`: holders unlock, waiters look, leases without keepalive expire.
- `RabbitConnection`, `WsClient`: strong fairness of a successful dial: a peer
  that is dialled again and again is reached at some time. `RabbitQueue`: the
  producer and the consumers go on, and faults are bounded by `MaxFaults`.
- `QueryAndSave`: callers go on, and commits get through in the end. `Cache`:
  calls go on, and entries expire.

## Proofs

Assumptions are the named `ASSUME`s on the constants (thresholds and counts are
naturals, sets of configurations are well formed, `None` is no client);
everything else is arbitrary.

- **Circuit breaker** (`PoolClientProofs`, on `PoolLemmas`). `BreakerConsistent`
  is inductive together with the types: each record operation keeps counters and
  state in step, and the lemmas about the node operations are reused by the
  strategies. `CircuitMoves` follows from the same invariant.
- **Slots of the conservative strategy** (`ConservativeTypes`,
  `ConservativeSlots`, `ConservativeProofs`). `SlotsMatchHolders` counts the
  requests whose program counter says that they hold a slot. It is not inductive:
  a slot handed to a waiter counts before the waiter runs, so the invariant adds
  that queues hold each waiting request once, on the node it waits for, and that
  a queue is empty while a slot is free (`NoIdleSlotWhileQueued`). Then each
  action changes the set of holders of one node by one request.
- **Batches** (`UntilCompleteProofs`). The pending items are those without an
  answer; in a round they are split between running, answered and failed.
- **SafeChan** (`SafeChanProofs`). The readers are the senders in their select,
  the flags are equal, and no reader is left once they are set; hence no send on
  a closed channel. Values accepted are those received or buffered, each once.
- **Redis lock** (in `RedisLock` itself). Whoever is valid is inside and the key is
  its own; whoever tries has an attempt left. From this, two valid holders are
  the same client, and every step is one of `LeaseLock` or leaves it alone: a
  refinement for any clients and any number of tries.

Only model-checked: all liveness (fairness and `ENABLED` are beyond the prover),
the race strategy, `QuotaBound`, `ThrottledMeansUntried`, `IndexAgrees`, the
request pool, the refinements by the other two locks and by the queue, and the components not
named above. What the recursive definitions of `Filter` and `RequestLog` compute
is checked over bounded inputs, since induction over data is beyond the prover
too.

## Met while modelling

Visible in the models or next to them, but not asked by a run of their own.

Node pool, `SafeChan`, `SingleRun`:

- a success that comes after the circuit opened ends the open period early
  (`node.go:217`, where `options.go:84` gives the time it stays open);
- a business error counts in `totalRequests`, so the next success scores less,
  where `types.go:22` says that it does not affect scoring;
- `updateConfig` leaves the semaphore alone, so a new `MaxConcurrent` of a known
  endpoint has no effect (`pool.go:113`);
- a transport that panics leaves its slot taken (`strategy.go:56`);
- a blocked `Send` holds the lock that `Close` needs, so `Close` waits until
  someone receives (`channel.go:90`);
- a waiter of `SingleRun` whose timer fires as the task ends returns
  `ErrRunning` although nothing runs (`singleRun.go:170`), and a goroutine that
  outlives the `f` it got its ctx from runs as a nested call although nobody
  holds the key (`:116`). `OneInstance` is stated for programs that do not hand
  the ctx on; `RunningIsClaimed` for all.

Request pool: `redirectRequest` can send on a channel that `Point.Close` has just
closed, which panics with `pool.mu` locked (`server.go:477`). `AllCallsReturn` and
`PointKeepsWorker` except it. Its last branch sends into the point's own channel
with `point.mu` locked (`:497`); channels hold 10000, and the models leave out a
block there.

RabbitMQ:

- a connection that drops between the watcher's read of it and `NotifyClose` is
  never replaced (`connect.go:76-86`);
- a handler that calls `RetryLater` itself and returns nil has its delivery
  acknowledged even when the delayed copy was not confirmed (`queue.go:489-492`
  and `:394-396`, where `dao/rabbitMQ/README.md:163-166` shows that use). The
  queue's runs keep faults out of such behaviours.

WebSocket: `done` is made once (`client.go:52`), so a `Client` started again after
`Stop` ends at once although `IsRunning` is true; callbacks run in the reading goroutine, where
`net/ws/README.md:145` says otherwise.

Locks and cache: `Unlock` of the memory lock does not know who holds it, so
the refinement is about clients that unlock what they locked; the memory
lock's entries are never released. Nothing tells a holder of the Redis lock that
its key expired. The Redis cache, without the local level, can run a loader again
for a caller that missed before the load was stored.

Goroutines: `ConcurrentProcessor` waits for ever once every goroutine of it has
died of a panic. Equal alerts that are sent at the same time all go out, one per
consumer; a consumer that dies reports through the same channel and can block on
it when it is full. `ForceAddJob` ignores gocron's error when it removes the
replaced job (`cmd.go:106`), which then runs on under no id; and old and new job
of one id can run at once. A crash dump is not reported while the running process
has the pid of the one that crashed (`crash.go:266`).

HTTP chain: an `Abort` inside `Compose` ends only the composed part; a
`RetryMiddleware` outside a check sends a request that the check has aborted, and
does not repeat checks registered inside it; after a recovered panic the outer
loops go on; the index is an `int8`, so a chain of 65 handlers or more cannot be
aborted; the classifier gets transport errors with status 0.

Download and log: two downloads of one name at the same time share the file; a
failure to write the mark at its beginning, or a panic, leaves it; a service that
writes and then fails is answered twice. A response cut in the middle of a rune
is logged as binary.

Database: in a tag with several columns a blank first one panics; conditions
added to a query after `Paginate` are missing from its total; `QueryAndSave` that
finds no row can report `OperationNothing` when another caller's insert comes
first (`func.go:301-307`).

## Not modelled

- Code with no state and no protocol: formatting, conversions, encryption by
  library calls, error wrapping, logging, configuration, e-mail, `TimeRange` (the
  calendar arithmetic of the time package), JSON conversions, `Result.parseJSON`.
- Wrappers of drivers: mongo, xorm, the gorm driver and its log, the Redis client
  beside the scan, the two HTTP clients.
- gin handlers that look at one request alone (CORS, request ids, `appAuth`), the
  chain providers, and the example application.
- Parts of modelled components: `SafeCloser`; `Send` of the WebSocket client; the
  memory cache used alone; `Start` and `Stop` of the scheduler; the formatting of
  exported cells; ordering and select lists of queries; `Retry` of `coroutines`;
  the Telegram sender, which takes the steps of the Lark sender; a transport that
  panics; errors of the file system in the crash reporter.

`PROJECT.json` gives the reason for each component.
