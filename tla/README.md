# A verification of go-blueprint

go-blueprint is a Go service (REST and gRPC) around customers, users, products
and preferences. Its difficult part is not any of these but what lies between
them: a transactional outbox that several replicas drain through a bounded
worker pool into Kafka, a consumer group behind it, a Redis cache and a SQLite
event log beside the PostgreSQL tables, a server-streaming RPC that tails the
log, and a shutdown that must stop all of it in order. This directory holds
TLA+ models of those parts, TLC configurations that check them on small
instances, and theorems that TLAPS proves for every value of the constants.

Paths below are relative to the repository (`src/` stands for its root).

## 1. The parts of the system

| part | code | state it keeps | operations | meets |
|---|---|---|---|---|
| transactional outbox | `internal/outbox/poller.go`, `postgres.go`, `migrations/` | rows of `outbox_messages`: `processed_at`, `attempts`, `locked_at`, `next_attempt_at` | `SaveTx`, `ClaimBatch`, `MarkProcessed`, `MarkFailed`, `MarkExhausted`; the poller's `Run`, `poll`, `deliver`, `backoff` | customer service (rows), pool (jobs), publisher (records) |
| worker pool | `internal/worker/pool.go` | the `jobs` channel, N goroutines, the job context | `Submit`, `Stop`, the goroutines' loop | poller, `main` |
| Kafka producer and dead letter writer | `internal/platform/kafka/producer.go`, `dlq.go` | none; two topics | `Publish`, `Write` | poller, consumers |
| log publisher | `internal/outbox/log_publisher.go` | none | `Publish` | poller |
| customer write service | `internal/customer/service.go`, `postgres/customer_repo.go` | table `customers` and its unique index | `Register`, `Update`, `Remove` | outbox, cache, event log |
| customer read cache | `internal/customer/query.go`, `internal/platform/cache` | Redis keys `customer:<id>` and `customer:list` with a TTL | `GetByID`, `List`, `invalidate` | write service |
| Kafka consumer | `internal/platform/kafka/consumer.go`, `middleware.go`, `internal/customer/events.go` | fetch positions, the polled batch, the `message_id` map | `Run`, `Handle` | topic, brokers |
| event log | `internal/eventlog/sqlite.go` | table `event_log`, times as text | `Append`, `FetchSince` | write service, gRPC stream |
| gRPC customer handler | `internal/customer/grpc.go` | a stream's cursor | `WatchCustomerEvents` and the unary calls | event log, customer services |
| process lifecycle | `cmd/api/main.go`, `internal/platform/server/server.go`, `mongodb/client.go` | root context, what is open, HTTP and gRPC servers, pool, poller goroutine | the steps of `main`, signal, drain, `GracefulStop`, `Pool.Stop`, deferred closes | everything |
| product catalog | `internal/product`, `mongodb/product_repo.go` | documents | `Create`, `Update`, `Archive`, listing and search | MongoDB |
| customer preferences | `internal/customer/preferences*.go`, `mongodb/preferences_repo.go` | one document per customer | `Upsert`, `Get` | MongoDB |
| authentication | `internal/auth` | table `users` | `Register`, `Login` | PostgreSQL |
| authentication middleware | `internal/auth/middleware.go`, `internal/platform/grpc/interceptors.go` | none; tokens carry their expiry | the checks before every REST and gRPC call | accounts, preferences, gRPC calls |
| the rest | binding and validation in the HTTP handlers, logging and recovery middleware, configuration values, telemetry, generated messages and API documents | none that a request changes | | |

### What is hard in them

*Outbox.* Replicas poll the same table. A claim is a lease: it ends when the row
is marked, or when `locked_at` is older than `_reclaimAfter`. Between the claim
and the mark the message travels through a batch, a channel and a goroutine,
each of which may die, be full or be slow; `deliver` decides on the attempt
count the claim returned while the statement counts from the row; and `Mark*`
statements update by id alone. Correct means: one holder at a time, decisions on
current data, no message lost without a word, none left where nobody looks or
touched again once retired except by a job that outlived its lease, every one
delivered or given up in the end.

*Customer writes.* The address is checked before the transaction, the row is
read before it, and two transactions may want each other's addresses. The
outbox row's `created_at` comes from the application's clock, one per replica.
Correct means: addresses unique, the outbox tells the history of the table, in the
order in which it is claimed as far as clocks agree, the event log invents nothing, an answer tells the truth,
every request gets one.

*Cache.* Readers fill keys that writers delete, without any lock between them;
deletes may fail; a process may die before them. Correct means: only committed
rows are seen, and staleness has known causes and an end.

*Consumer.* Partitions move while a batch is being handled, since `Run` allows
the rebalance right after the poll; commits may fail; errors drop batches.
Correct means: nothing is committed past that was not handled, and no offset
moves backwards.

*Event stream.* Events take their times before they are appended, in another
order, and the cursor is a time compared as text. Correct means: no event twice,
and known reasons for one never sent.

*Product catalog.* `Update` and `Archive` read a document, change their copy and
replace the whole document, with no version to compare. Correct means: SKUs
unique, nothing removed or given another origin, and a change undone only by a
command that overlapped it. A client pages through what others are changing, by
offset, in an order that leaves ties open: a product may be skipped or come
twice, and correct means only for known reasons.

*Accounts.* The address is looked up as the client spelled it and stored
normalised; between the look-up and the insert lies a hash of a quarter second.
Correct means: one permanent account per address, tokens about the right one,
refusals with a reason. A token outlives the process that issued it, and is
looked at when a call comes in, not while it runs. Correct means: admitted
exactly with an earned token that is still good. Two first writes of one
customer's preferences race for an index. Correct means: one document.

*Start and shutdown.* The pool and the poller work before `main` has opened
everything, and a start that fails leaves by `os.Exit`, which runs no deferred
call. At the end five groups of goroutines stop in turn, one of them unobserved.
Correct means: nobody uses what is not open yet or closed already, and the
process ends.

`PROJECT.json` lists these hazards one by one at the line where they bite, with
the properties that cover each.

## 2. The modules

| module | models | composed with |
|---|---|---|
| `Outbox` | table, pollers, pools, producer and dead letter topic of all replicas | |
| `DeliveryContract` | the abstract promise of the outbox to whoever saves a message | |
| `OutboxContract` | the refinement mapping from `Outbox` to `DeliveryContract`, for all messages and for any set of them | extends `Outbox`, instantiates `DeliveryContract` |
| `Backoff` | the loop of `Poller.backoff` in wrapping integers | |
| `CustomerService` | `Register`, `Update`, `Remove` by concurrent requests over PostgreSQL | |
| `CustomerCache` | readers and Redis | extends `CustomerService` |
| `KafkaConsumer` | the consumer group | |
| `EventStream` | the event log and one stream over it | |
| `Shutdown` | the process from serving to its exit | |
| `Startup` | the steps of `main` before it serves and its deferred calls | extends `Shutdown`, and implements it |
| `ProductCatalog` | `Create`, `Update`, `Archive` by concurrent requests over MongoDB | |
| `ProductListing` | a client that pages and searches meanwhile | extends `ProductCatalog` |
| `Auth` | `Register` and `Login` by concurrent requests over the table `users` | |
| `ProtectedApi` | tokens with an expiry, the middleware and interceptors, the preferences behind them | extends `Auth` |
| `OutboxProofs`, `CustomerProofs`, `KafkaProofs`, `StreamProofs`, `ShutdownProofs`, `BackoffProofs`, `ProductProofs`, `AuthProofs` | theorems | extend the modules they are about |
| `MC...` | what TLC needs besides: definitions for constants, symmetry | extend their module |

`PROJECT.json` maps every definition that stands for code to its lines.

### Outbox

A row is `status` (`processed_at`, with who wrote it), `attempts`, `lockAge`
(now minus `locked_at`) and `retryIn` (`next_attempt_at` minus now). Keeping
times relative to now is exact, since the code only compares them with `NOW()`,
and leaves a finite model without a bound on the clock. One `Tick` is one poll
interval: locks age, backoffs run down, every ticker fires. Each SQL statement
is a step (`ClaimBatch`, `MarkProcessed`, `MarkFailed`, `MarkExhausted`), each
move of a message in memory another (`Submit`, `PoolFull`, `Take`), and
`Publish` is split at the point where the produce has failed and the dead letter
writer starts. `FOR UPDATE SKIP LOCKED` needs no state: a skipped row is one that
the concurrent statement makes unclaimable, so skipping is the serial order in
which that statement comes first.

Failures: `ClaimError` (before or after the rows were locked), `ProduceErr` and
`DLQErr`, `MarkError`, `Crash`. A produce that errs, to the events topic or to the
dead letter topic, may have landed all the same (`AfterError`), so a failed
delivery leaves the record on neither topic, on one or on both. With
`DrainTimer` the context that `main` gives to jobs can expire at any moment, as
in `cmd/api/main.go:130`; afterwards each publish and each `Mark*` fails. Without
it the model is the code with a job context that stays alive. `KafkaEnabled`
chooses the publisher as `main` does; the log publisher takes every message,
with a dead context too.

`overrun` is history: the messages whose lock expired while somebody still held
them. `poller.go:13-18` argues that this never happens, as `_reclaimAfter` is
five minutes; nothing in the code enforces it. The ownership properties exclude
those messages. The others speak of every message and say what an overrun can do:
nothing to `NoSilentLoss` and `ExhaustionEarned`; it can leave a row pending with
its attempts used up (`OnlyOverrunsStrand`), and its late job can rewrite a
retired row and send its message again (`OnlyLateJobsTouch`), since `Mark*` update
by id alone. TLC reaches both in `outbox_live`. That a retired row is claimed
again, or touched by anybody else, never happens.

### DeliveryContract

Accepted messages are handed over at least once and then confirmed, or abandoned
after `MaxAttempts` failures; nothing happens to them afterwards. A failure may
hand the message over all the same, which its sender cannot know. The mapping
takes `processed` to confirmed, `exhausted` to abandoned, both topics together
to what was handed over. It holds while no job outlives the reclaim window.
`Of(M)` is the same contract for a set `M` of messages: the mapping restricted
to them, so that what happens to one message can be told from what happens to
the others.

### Backoff

`Outbox` takes the delay as a constant function. `Backoff` shows what the Go
loop computes on fixed-width durations, where doubling may wrap. `Exact`
compares it with the formula in the comment, `interval * 2^attempts`. `Pow2` is
that power as a recursive function, which the provers can unfold; `MCBackoff`
assumes that it is `2^n`, and TLC evaluates the assumption.

### CustomerService and CustomerCache

A request goes through the database calls of the handler one by one: look-ups,
the statement that writes the row (in two steps, the row's lock and then the
entry in the unique index, because two transactions can wait for each other
between them), `appendOutbox`, `Commit`, the two cache deletes, `appendEvent`.
PostgreSQL at READ COMMITTED is modelled from how these statements use it:
`Blocks` says who waits for whom, `Violates` is the unique constraint,
`DeadlockDetected` fails a statement in a circle (`Circle`) of waiting ones. An address is
its normalised form and whether the client spelled it so, which is all the
look-up by the raw spelling can tell apart. A row is known by its address and by
the request that wrote it. `CommitError` either lost the transaction or only
the answer.

`created_at` is `time.Now()` of whichever replica serves the request. `TakeTime`
therefore takes any member of `Time`, whatever was shown before: clocks may
disagree, step back or tie. `looks` counts the looks at a clock and is history; a
message keeps what the clock showed (`at`) and which look it was (`taken`).
`OutboxTellsTable` says that the message taken last tells the row, and that in the
order of `created_at` the newest does too unless `ClocksDisagree` about this
customer's messages. The exception is needed: without it TLC finds a removal
sorted before, or level with, the registration of the customer it removes.

`CustomerCache` puts Redis under the two invalidation steps and adds readers
that get, load and set. An entry that is over its TTL is gone at any time after
it was set. `Disturbs(k)` lists what can leave an old value under a key once its
Deletes are over.

### KafkaConsumer

The client library's part is modelled from the options and calls the code uses
(no auto-commit, `AllowRebalance`, `CommitUncommittedOffsets`): a position per
assigned partition that a poll moves past what it returns. A rebalance may come
at any point. A member keeps the batch it polled, as `Run` does. `Drops(msg)` is
a step that loses one message: its own handler's error, or a poll that brought it
and reports an error; the steps that `Run` logs and goes on after.

### EventStream

The times are hundredths of a second; `Text` gives the place of a time in the
order of its RFC3339Nano texts, which drop trailing zeros, so that `05.11Z`
sorts before `05.1Z`. `Stamp` takes an event's time, `Append1` stores it.
`TextsSort` says of a set of instants that no pair of them sorts the wrong way.

### Shutdown and Startup

`main` is a program counter; requests, calls, streams and queued jobs are
counted; the poller runs beside `main` and is never waited for. `Submit` on a
closed channel panics. `MainCanGo` and `WorkerCanGo` are the guards of the steps
that fairness is assumed of, `Stage` ranks the waits of `main`, and `PoolWork`
counts the steps the pool has yet to take.

`Startup` puts the steps of `main` in front, ranked in their order: `Open`,
`Skip` what is turned off or can be done without, or `GiveUp` by `os.Exit(1)`.
`held` is what the deferred calls have yet to close, the last first. A signal
before `NotifyContext` kills the process; one after it cancels the context that
the pings and the index builds run under. From `serve` on the actions are those
of `Shutdown`, and the exit waits for the deferred calls.

### ProductCatalog

A document is its SKU, the request that wrote its details, the active flag and
the two times. A request is at its insert, its look-up or its replacement, with
the copy it holds; every step takes a moment of the clock. A creation is the
product it creates, which stands for the fresh ObjectID. `read` and `wrote` are
history: when a request read and wrote, which is what the properties need to say
who overran whom. A write that fails may have been done all the same. One that is
still on its way to MongoDB after its request was answered is not modelled: the
driver gives up on its connection with the context.

`ProductListing` adds one client. A query is one step and returns any page that
its sort allows: by `created_at` alone, so that products of one instant come in
any order, and in another one the next time. `walk` keeps what the client got
and, as history, what stayed, left and came to the listing since its first page.
A limit over the maximum becomes the default (`Clamp`), which a client takes for
a last page.

### Auth

An address is its normalised form and whether the client spelled it so; `Matches`
compares both, as the text comparison in SQL does, and `NewUser` normalises. A
hash stands for the password it was made from. `Login` reads one row and
computes the rest from it, so it is one step; `known` is history, the accounts
that were there when the request came in. What the model shows and no document
speaks of: who registers with an address in capitals is let in with its
normalised form only, and a second registration in another spelling is refused by
the constraint, which is answered 500 and not 409.

`ProtectedApi` gives the token of each login its `exp` and lets calls come in
with any credential; `JWTMiddleware` and `AuthInterceptor` judge it once, by
`ValidateToken`. The string of a token stands for the login it comes from; whether
it could be forged is not a question of this model. PUT and GET of the
preferences are steps on the collection: the repository stores a `uuid.UUID`,
which the driver writes as binary data, and filters with its text, so `Stored`
and `Filter` are two values, and the index compares what is stored.

## 3. What is checked

TLC finishes each passing run within the minutes given (two workers).

| run | instance | asks |
|---|---|---|
| `outbox_replicas` | 2 replicas, 1 goroutine each, 2 messages, queue 1, 2 attempts, 1 fault or expired drain timer (529 k states) | one owner, current decisions, the contract is implemented |
| `outbox_live` | 1 replica, 2 messages, 1 fault, 1 overrun, a backoff of 1 tick (869 k, 3 min) | no silent loss and earned exhaustion even when jobs overlap; only a late job strands a row or touches a retired one; every message is retired in the end |
| `customer_service` | 2 requests, 2 old customers or fewer, 2 addresses, 2 clock readings, 1 fault (1.3 M, 2 min) | uniqueness, outbox as history, truthful answers, every request answered |
| `customer_cache` | 2 requests, 1 customer, 1 address, 1 reader, 1 fault (491 k, 2 min) | committed rows only, causes of staleness, its end |
| `kafka_consumer` | 2 members, 1 partition of 3 records, 2 moves or restarts, 1 handler and 1 fetch error (500 k, 3 min) | nothing skipped, commits advance, everything handled |
| `event_stream` | 3 events, 2 aggregates, times 1.10, 1.15, 2.00 s (167 k) | no duplicates, the only reason for a loss |
| `shutdown` | 2 goroutines, queue 2, a request, a call, a stream, 4 jobs, from the first step of main, Kafka and gRPC on or off (84 k) | nobody left running, all open while used, the signal ends the process, the start implements `Shutdown` |
| `backoff` | durations of 8 bits, cap 60, up to 10 attempts | bounded, exact |
| `product_catalog` | 3 requests, 1 old product, 2 SKUs, 1 fault, a client with limits 1 and 3 where 2 is the maximum (2.5 M up to symmetry, 90 s) | permanent documents, only overlapping commands undo each other, products skipped or repeated for a reason |
| `auth` | 3 requests, 1 address, 2 passwords, 2 calls, 1 customer, an expiry of 1, 1 fault (1.3 M up to symmetry, 2 min) | one permanent account per address, truthful answers, tokens and refusals with a reason, admission by earned tokens only, one document per customer |
| `outbox_drain_timer`, `shutdown_poller` | the smallest that shows it | see Findings |

Why these bounds are enough for the interesting cases to happen:

- Outbox: a batch of two with a queue of one fills the pool; two attempts allow
  a retry and an exhaustion; `ReclaimAfter` 1 and backoffs of 1 and of 2
  ticks let a lock expire before, and a backoff outlast it. One fault is a crash, a lost claim, a
  failed mark or an expired drain timer at every possible place; after the timer
  marks fail without counting. The theorems cover any number of faults. Two replicas compete for every row. An
  overrun needs one replica only, which meets its own late job at the next tick;
  the contract, which excludes overruns, is asked of two replicas. The
  symmetry is over replicas and goroutines and is used in a run without
  liveness properties only, as in the catalog and the accounts.
- Customers: two requests can already hold each other's rows and addresses; two
  stored customers are what a deadlock of exchanged addresses needs. Each of them
  may also be missing at the beginning, so that two requests pass the look-up for
  the same free address and meet at the constraint. Two readings of the clock give
  two messages either order and the tie, and let the last of three messages of one
  customer be the newest or not; what the others show among themselves decides
  nothing. The cache needs one customer, a registration and one reader for every race over a key
  and the list; a second address would only add rows no cache step looks at.
- Consumer: three records let a commit lie behind, inside and past a batch; two
  moves take a partition away and back. One partition suffices for the listed
  properties, which speak of each partition alone; two are used to show the
  fetch error that drops another partition's records.
- Event stream: the three times include a pair whose texts sort the other way
  and a whole second; two equal times arise because the clock need not advance.
- Shutdown: four jobs are two running and two queued, so that the next submit
  finds the channel full. Unbounded counters are cut by `MaxCalls`, `MaxStreams`
  and `MaxJobs`. All four settings of Kafka and gRPC are initial states, and each
  step of the start may fail.
- Products: a command, one that overlaps it and one that overlaps only the
  second; an old product to change and two SKUs to collide on or not. The client
  needs a limit below the default page, and one over the maximum.
- Accounts: two registrations that race and a login, or one and two; the second
  password is what a wrong one needs. A second address multiplies the states and
  adds accounts that never meet; `AuthProofs` covers any number. Two calls race
  for the document of one customer, and a token expires within the one tick that
  the clock may make.
- Backoff: 8 bits wrap within ten doublings for every interval.

Deadlock is checked where the system never stops (`Outbox`). The other modules
end: requests are answered, processes exit, logs are full.

Every property has a mutant in `PROJECT.json`: a plausible bug in one mapped
definition (a dropped guard, an off-by-one, a swallowed error) that breaks it.

### Fairness

- `Outbox`: the clock ticks; the poller's loop and the goroutines are scheduled
  by the Go runtime; broker and database calls return, because the Kafka client
  bounds its retries and the pool's queries are under a context. Nothing is
  assumed of whether they succeed beyond the bound on store errors, and nothing
  of the broker: messages whose produce always fails are exhausted.
- `CustomerService`: weak fairness of each request alone, so that a request that
  waits for a lock moves only if the lock is released, and a failing call is never
  owed to it; PostgreSQL detects
  deadlocks. `Crash` is never fair.
- `CustomerCache`: in addition readers proceed and Redis expires old entries.
- `KafkaConsumer`: members run (no fetch error is owed to them), the coordinator assigns free partitions.
  Moves, restarts and errors are bounded, which stands for a group that is
  eventually stable.
- `EventStream`: the ticker fires and the stream is served while it is open.
- `Shutdown`: main and the pool are scheduled, handlers and unary calls return.
  A watching client need not hang up, and the poller need not run at all:
  `SignalEnds` assumes of clients exactly what its premise says.

## 4. What is proved

TLAPS checks these for every value of the constants that satisfies the named
`ASSUME` of the module (positive sizes, finitely many messages, disjoint sets of
names), so for any number of replicas, goroutines, messages and requests. Type
invariants are proved (`TypeCorrect`, `CustomerTypes`, `CacheTypes`,
`ConsumerTypes`, `StreamTypes`, `ShutdownTypes`, `CatalogTypes`, `WalkTypes`,
`AuthTypes`, `BackoffTypes`) and not run besides. `IsFiniteSet(Worker)` in two of
the theorems about the shutdown and the instants in two about the stream are
their own hypotheses, stated with them.

*Outbox* (`OutboxProofs`).
`NothingRetiredUnsent` (`NoSilentLoss`) needs `LossInv`: a goroutine in phase
`sent` holds a message that a topic has (`SentIsSent`), and no snapshot is ahead
of the row's attempts (`SnapshotNotAhead`). The second is what makes
`MarkExhausted` safe although it decides on a snapshot: a stale snapshot is too
low, so the row has at least as many attempts as `deliver` believes. It holds
with overlapping deliveries.
`ExhaustedRowsFailed` (`ExhaustionEarned`) adds `Counted`: the attempts of a row
and the goroutines that have failed to deliver it and not said so yet
(`Unrecorded`) are together at most its failures. Each `Mark*` moves one from
the second number to the first, so overlapping jobs cannot count a failure twice.
`OneOwner` and `DecisionsAreCurrent` follow from one inductive
invariant, `OwnerInv`, that puts them together: one place per message excludes a
second holder that could write the row, so the snapshot stays current, so the
row is locked and unclaimable, so no second holder arises. None of these is
inductive alone. `RetriesLeft` stands beside them: a pending row that was not
overrun has attempts left, since the claim asks for them and `deliver` retires the
row when the last one fails. `StrandedByOverruns` (`OnlyOverrunsStrand`) follows
from it, with `Counted` for the failures of a row that was overrun.
`LateJobsAlone` (`OnlyLateJobsTouch`) is an action property of all messages: only
a goroutine that has the message writes its row or sends it (`HolderMoves`), the
row of a message in hand is pending unless it was overrun (`LateOwners`), and no
statement makes a retired row pending.
`OutboxKeepsContract` puts both halves together: while no lock expires under its
holder (`[](overrun = {})`), every step is a step of `DeliveryContract` or a
stutter. A goroutine's message is pending because its snapshot is current, which
is what `HandOver`, `Fail`, `Confirm` and `Abandon` ask of it, and a failed
produce that landed is a `Fail` that hands over; `SentIsSent`
gives the rest of `Confirm`, `Counted` the rest of `Abandon`.
`OverrunsStayAlone` (`OthersKeepContract`) says what an overrun costs: each step
keeps the contract of every set of messages that have not been overrun so far.
`KeepsContractOf` draws the conclusion for behaviours: any set `M` of which no
message is ever overrun is delivered by the contract (`Of(M)!Spec`), whatever
overruns the others have. `StepMapsOf` is the step simulation for such a set, one
lemma for each step of the contract and one (`OfOthers`) for the steps of messages
outside it.

*Customers* (`CustomerProofs`). `AddressesStayUnique`: `EmailInv` says that open
transactions that write the same row exclude each other, likewise those that
have entered the same address, and that an entry in the index stays valid until
its transaction ends. The last part is where the argument lies: the constraint
is checked when the statement runs and the row appears at commit, so every
commit in between must leave the entry valid; it does because the index makes
the other transaction wait. The look-up before the transaction plays no part.
`TableIsTold`, `EventsAreTrue` and `RequestsAreAnswered` need `History` besides:
the row of a customer is what the message taken last says (`Latest`), and a request
about to commit took its time after all messages of its customer, because it has
held the row since before (`Told`). Without the row's lock two transactions would
commit in the other order than they took their times. Nothing is assumed of what
the clocks show; where they agree about a customer's messages the order of
`created_at` is that of the looks (`LatestTells`), and only there.
`WaitsAreResolved` and `RequestsGoOn` are the safety half of
`EveryRequestAnswered`. Among requests that are under way, together with those
they wait for, one can move or is in a circle that the deadlock detector sees
(`NobodyStuck`): a smallest set of waiting requests closed under "waited for by"
is a circle (`WaitingMeansCircle`), which is where `Request` has to be finite.
And a step of a request takes it nearer to its answer, at most eleven steps away
(`Rank`), and moves no other one (`StepGoesOn`). Fairness does the rest, and is
left to TLC. `MCCustomerService` has `GuardIsEnabled`, with which TLC confirms
that the guards `NobodyStuck` reads are those of the steps: it is an invariant of
`MCCustomerService.cfg` put in the place of the others.

*Cache* (`CustomerProofs`). `CacheHoldsCommitted` (`OnlyCommittedRows`) is not
inductive without what the readers carry: `Held` says that what a reader is
about to set was committed once, as is what the cache has. Rows that were
overwritten since are still genuine, so no race with a writer can break it.
`StalenessHasACause` (`StaleForAReason`, an action property) adds `Fresh`: until
it commits, nobody but a registration itself can give its id a row, and nobody
takes away the row an update has locked (`Born`). The commit of a registration,
which deletes no key, therefore finds no entry of its own key to outdate; without
`Born` it would be a fifth cause. `CorrectValueWithoutLateSets` bounds the
staleness from the other side: a key that nothing disturbs (`Disturbs`: a `Set`
of an old value when no Delete is due any more, a failed call of a request or a
crash, and a registration for the list) is outdated only while a request that has
committed has its Delete before it. `PendingDeletes` is the step that matters:
who has a key to delete keeps it until it deletes it. The document's "correct
value always arrives" is true exactly short of these; each of them alone is
enough for a counterexample of TLC. `CustomersBehindTheCache`: readers and Redis
take nothing from the theorems of the write side.

*Consumer* (`KafkaProofs`). `AtLeastOnce` (`NothingSkipped`) and
`OffsetsAdvance` (`CommitsAdvance`) from `KInv`: whoever has a partition is at or
past what the group has committed of it (`Offsets`), and until an error happens,
a record behind a position was handled or is in that member's batch
(`Accounted`). The invariant allows a partition to be taken away in the middle of
a batch: a commit is then for partitions the member still has. `ErrorsStayAlone`
goes past the first error. `NothingSkipped` has nothing to say from then on;
`HandledOnceCommitted(msg)` holds of each message as long as no step drops that
message itself (`Spares`), whatever the errors of others, by the invariant
`AccountedOf(msg)`, which is `Accounted` for one message together with: an id that
was remembered has been handled. So errors cost what they hit and nothing else.

*Event stream* (`StreamProofs`). `NoDuplicates` (`SentOnce`) and
`OnlyOvertakenMissed` (`MissedIfOvertaken`) from `SInv`: the cursor is between
what was sent and what is in the batch (`CursorBetween`), and what is newer than
the cursor and in neither was appended after the whole batch (`FetchedFirst`), so
that only an event that overtook it takes the cursor past it. `SentInTextOrder`
(`InTextOrder`) says which order clients do get, across all polls: that of the
texts. `ChronologicalIfTextsSort` makes the finding exact: where texts sort as
times do, the order is the documented one and who is missed was older than
something appended before it. `FullFractionsSort` names such times: all with their
last digit, or all whole seconds, so dropped zeros are all there is to repair.

*Products* (`ProductProofs`). `SkusStayUnique` and `AuditIsKept` from
`CatalogInv`: a copy about to replace a document has the SKU and the creation
time of the document that is there now, however old the copy is, since no
replacement changes them; and a creation's id has no document before its insert.
Uniqueness needs it because the model's replacement, like the code's, writes the
SKU of the copy. `ArchivesLast` and `UpdatesLast` (the two `UnlessOverrun`
properties) add `Lasting`: a change shows in the document, or somebody has
written later who may have undone it (`Vouched`), and the same is true of every
copy that was read after the change and is about to be written (`Behind`).

*Listing* (`ProductProofs`). `SkipsHaveACause` and `RepeatsHaveACause`
(`SkippedForAReason`, `RepeatedForAReason`) from `WalkInv`: between two pages the
offset separates what the client has got from what it has yet to get
(`Separates`). With no cause to the contrary, at least `offset` products are in
front of every one still to come and fewer in front of every one received. A page
keeps that because an untied product's position in the sorted result is one more
than the number of products in front of it (`Position`), whichever order MongoDB
gives to ties; a writer keeps it because `created_at` never changes
(`RecordStays`) and who comes or leaves is a cause. `ListingImplementsCatalog`
lets the writers forget the client, and `CatalogUnderListing` takes the theorems
about the catalog over to the specification that the run checks.

*Accounts* (`AuthProofs`). `AddressHasOneAccount`, `AccountsArePermanent`,
`TokensAreEarned`, `RegistrationsAreAnswered`, `LoginsAreFair` from `AuthInv`:
the table is normalised, a registration under way has no row yet, and an answer
fits the accounts. The look-up plays no part in the first: the constraint
compares what `NewUser` normalised. `AccountsBehindTheApi`, `AdmissionIsEarned`
and `OneDocumentEach` are about `ProtectedApi`; `ApiInv` adds that what the
middleware said of a call (`Judged`) stays true while tokens are issued, because
no login changes an `exp` once it is there, and that every document was sent by
an admitted PUT that has come to its end. `FirstPutStays` (`FirstPutIsFinal`)
shows what the two findings about preferences come to in any instance: no filter
meets a document (`FilterMeetsNothing`), so the first PUT of a customer is the
last one stored, later ones are errors, and every GET is a 404.

*Start and shutdown* (`ShutdownProofs`). `ResourcesOutliveWork`
(`NothingLeftRunning`) from `ShutdownInv`, whose `Stages` says what has ended at
each step of main and `Leaving` that a goroutine leaves only an empty closed
channel, which no `Submit` refills. `OpenWhileUsed` (`HeldWhileUsed`) and
`StartedProcessDrains` from `BootInv`: nobody is served and nothing claimed
before main is past the step for it (`Progress`), and until the deferred calls
run main holds whatever it has opened (`Holding`). `StartImplementsShutdown` is
the refinement: a start stutters in `Shutdown`, or is an exit there.
`OthersNeverBlock`, `ShutdownGoesForward` and `PoolIsSoonThrough` are the safety
half of `SignalEnds`. After the signal main can go, or waits for a call that has
yet to return, a watching client, or a goroutine of the pool that can go
(`OnlyWatchersBlock`): never for the poller, and never for a goroutine that waits
for main. No stage of main comes twice, what it waits for is not refilled
(`StopsForward`), and once the channel is closed each step of the pool takes one
from `PoolWork`, which is at most two per place of the queue and goroutine, and
zero exactly when all have left. `MCShutdown` has `GuardsAreEnabled`, an invariant
of `MCShutdown.cfg` put in the place of the others, with which TLC confirms the
guards.

*Backoff* (`BackoffProofs`). `DelayNeverOverflows`: for any width with
`2 * MaxBackoff <= Limit`, the value doubled is below the cap, so the product
does not wrap. With nanoseconds in 63 bits and a cap of five minutes the
assumption holds by far. `DelayExact` (`Exact`) from `ExactInv`: inside the loop
`d` is the interval times the power of the rounds done, and once it is past the
cap so is every later product (`Pow2Monotone`, `TimesMonotone`). That the
recursive function `Pow2` has values at all needs an induction. The library's
induction theorems take an operator, so `Induction` is one for sets of numbers,
from the well-foundedness of `<` on the naturals (`WFMin`), and `Pow2Recursion`
unfolds the function once, from `PowersExist` and `PowersAgree`.

Only model-checked: all liveness (`EventuallyRetired`, `EveryRequestAnswered`,
`EventuallyFresh`, `EventuallyHandled`, `EventuallySent`, `SignalEnds`) and
`ENABLED`, out of the prover's reach. Of two of them the safety half is proved, as
said above: somebody can always move, and every move leads nearer. Every other
property of a passing run is stated by a theorem.

## 5. Findings

With a run:

- **The drain timeout starts at boot** (`outbox_drain_timer`). `drainCtx` in
  `cmd/api/main.go:130` is a timeout that begins when the pool is created. Once
  it has passed, every job's publish and mark fail, and messages only go from
  locked to reclaimed. `internal/worker/doc.go:12-13` wants the job context live
  across shutdown.
- **The poller may outlive the pool** (`shutdown_poller`). `main.go:263` says it
  has exited by then; nothing waits for it, and a `Submit` after `Stop` sends on
  a closed channel.

Further statements of the documents that the models refute. Each is a definition
at the end of its module and a configuration here; TLC shows the counterexample
within seconds.

| configuration (module) | property | statement |
|---|---|---|
| `MCOutboxPoolFull` (`MCOutbox`) | `NextTickRetries` | "next tick will retry unsubmitted messages", `poller.go:91`: they stay locked for the reclaim window, as `docs/worker-outbox.md:413` says |
| `MCOutboxStranded` (`MCOutbox`) | `StopsOnlyLoudly` | "the only place a message stops being retried", `poller.go:104`: two overlapping deliveries may use the attempts up without `MarkExhausted` |
| `MCOutboxExhausted` (`MCOutbox`) | `ExhaustedNeverDelivered` | "the message was never delivered", `postgres.go:113`: the broker may have taken a record whose produce failed |
| `MCOutboxOrder` (`MCOutbox`) | `PerAggregateOrder` | "guarantee ordering per aggregate", `producer.go:53`: goroutines and backoffs reorder |
| `MCCustomerDeletes` (`MCCustomerService`) | `MessageMeansChange` | row and message "commit together or not at all", `repository.go:12`: the second of two removals writes a message and no row |
| `MCCustomerDuplicate` (`MCCustomerService`) | `DuplicateIsConflict` | duplicates answer 409, `README.md:396`: the constraint's refusal answers 500 |
| `MCCustomerCacheRace` (`MCCustomerCache`) | `CorrectValueArrives` | "the correct value always arrives", `docs/cache-redis.md:351`: a late `Set` leaves the old row until its TTL |
| `MCCustomerCacheList` (`MCCustomerCache`) | `RegisterInvalidatesList` | the list is "invalidated on Register", `docs/cache-redis.md:360` |
| `MCKafkaFetchError` (`MCKafkaConsumer`) | `FetchedIsDispatched` | "each fetched record is dispatched", `consumer.go:12`: an error of one partition drops the records of the others |
| `MCKafkaDedup` (`MCKafkaConsumer`) | `SkipsOnlyProcessed` | skips what "was already processed", `middleware.go:66`: the id is stored before the handler runs |
| `MCShutdownStreams` (`MCShutdown`) | `WatchersLetGo` | "`GracefulStop` does not hang", `docs/grpc.md:294`: a stream's context is not the server's |
| `MCShutdownDropped` (`MCShutdown`) | `NoJobDropped` | "no in-flight job is ever dropped", `docs/worker-outbox.md:191`: a failed HTTP drain exits at once |
| `MCKafkaFailedBatch` (`MCKafkaConsumer`) | `FailedIsRedelivered` | a failed batch is "redelivered on the next poll", `consumer.go:39`: leaving out the commit does not rewind the client, and a later good batch commits past the failed one; today's handler fails only by a panic |
| `MCProductLimit` (`MCProductCatalog`) | `LimitIsCapped` | "max 100", `internal/product/handler.go:107`: a limit over the maximum becomes the default |
| `MCEventStreamOrder` (`MCEventStream`) | `Chronological` | "delivered in chronological order", `docs/grpc.md:233` |

Four more need no configuration of their own. Put the property into the place of
the properties in the configuration named, and TLC refutes it the same way.

| in | property | statement |
|---|---|---|
| `MCProductCatalog` | `ArchivedStays` | archived products "are excluded" from listings, `docs/mongodb.md:191-195`: an update that read the product before the archive writes it back active |
| `MCAuth` | `UpsertIsIdempotent` | "preferences upsert is idempotent", `docs/mongodb.md:343`: the filter, a text, does not meet the stored id, binary data, so a second PUT inserts and hits the index |
| `MCAuth` | `StoredIsFound` (temporal) | GET answers 200 with the preferences, `README.md:455`: for the same reason it answers 404 |
| `MCEventStream` | `SendsWhatOccurredAfter` | the stream "sends any events that occurred after the last sent event", `grpc.go:127`: the log compares RFC3339Nano texts, which drop trailing zeros |

## 6. What is not modelled, and why

- Binding and validation in the HTTP handlers, logging, recovery and request-id
  middleware, error bodies: without state. What the handlers tell apart is in
  the answers of the models, and a recovered panic is a return or an error.
- Telemetry observes; opening it and its flush are steps of `Startup` and
  `Shutdown`. The metrics server reads counters and touches nothing else.
- Signatures and the string of a token, password hashing.
- Configuration values. `Startup` has the switches that decide which steps main
  takes; sizes and durations are constants of the modules that use them. Values
  that no deployment has, like an `OUTBOX_INTERVAL` that is not positive and
  makes `NewTicker` panic at boot, are excluded by the assumptions.
- The pool's limits on PostgreSQL connections. A request that waits for one
  waits a while longer; no transaction of the code needs a second connection
  while it holds one.
- The Go code that `protoc` and `swag` generate, and the text of migrations
  other than the columns and constraints that the models use. The queries that
  `sqlc` generates are modelled where the services use them.
- More than one clock of the catalog. `ProductCatalog` takes `created_at` from one
  clock that every step moves, so the ties that `SkippedForAReason` and
  `RepeatedForAReason` name as a cause do not arise in the run.
- The poller and the consumer in `NothingLeftRunning`, which is about those that
  main waits for; what the poller may still do is the finding `shutdown_poller`.
- Relevance in product search, and what a product's category and attributes are:
  a filter is the set of details it matches.

## 7. Plan

Written, most important first: `Outbox` with its contract, `CustomerService`,
`CustomerCache`, `KafkaConsumer`, `Startup` and `Shutdown`, `EventStream`,
`Backoff`, `ProductCatalog` and `ProductListing`, `Auth` and `ProtectedApi`, each
with its proofs. What could follow:

1. One composition from the committed customer row to the consumer's handler:
   the outbox as the log `KafkaConsumer` reads, with the end-to-end promise.
   `OutboxKeepsContract` allows `DeliveryContract` to stand for the outbox in it.
2. Several streams over one event log beside the writers of `CustomerService`,
   in place of the stamps that `EventStream` takes by itself.
