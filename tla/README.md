# hesape: TLA+ models of the parts that meet in a store

hesape is a web framework in Go. Most of it handles one request at a time. The
parts where several processes meet in a store, and where a test hardly reaches
the order of their steps, are what this project models: the queue and its two
drivers (`queue/`), batches and chains (`bus/`), the locks of the cache
(`cache/`), the scheduler (`console/scheduling/`), the transactional outbox
(`events/`), webhook delivery (`webhook/`) and single-use codes (`onetime/`).
`PROJECT.json` lists every package, with the reason where it is not modelled.

## How the parts meet

A job is a row of the `jobs` table (`queue/database.go`), or a body in a hash and
an id in one of three sorted sets (`queue/connectors/redis`). A worker process
(`queue/worker.go`) pops a batch of due jobs under a lease, runs each on a
goroutine and settles each: delete, release or park. A job nobody settles comes
back when its lease ends. Operators run `queue:retry`, `queue:clear` and the other
commands (`queue/console`) against the same store at any time.

Everything above the queue inherits its at-least-once delivery. A batch
(`bus/`) is a row of counters that the workers' reports count down and whose
zero fires callbacks and the next link of a chain. A webhook delivery is a row
that queued jobs claim, send and settle.

The cache's named lock (`cache/lock.go`) is implemented by four stores. The
scheduler uses it for its mutexes and claims, and the outbox relay to keep one
replica publishing. Single-use codes use the atomic counters of the same store.

## Modules

| Module | What it models |
|---|---|
| `WorkerPolicy` | What the worker decides about one delivery: `maxTriesFor`, `shouldFail`, the check for a job that used up its deliveries. Pure operators. |
| `DatabaseQueue` | The `jobs` table and the statements on it, each atomic. |
| `JobLifecycle` | The abstract specification of a queue driver: what `jobs.Driver` and `queue.Queue` promise about a job's status. |
| `DatabaseWorker` | Workers, goroutines, faults, failed job records and operators over `DatabaseQueue`. Implements `JobLifecycle`. |
| `RedisQueue` | The RESP driver, each optimistic transaction in its steps, with workers and operators. Implements `JobLifecycle`. |
| `Batch` | The row of a batch, its reports, callbacks and the chain it may be a link of, over an at-least-once queue. |
| `Lease` | What a store keeps under a lock's key: absent, expired or live. |
| `CacheLock` | The abstract lock: taken, given back, abandoned, forced or elapsed in one step. |
| `LockStore` | `AcquireLock`, `ReleaseLock` and `CurrentOwner` of the array, redis, database and file stores, one step per statement. The first three implement `CacheLock`. |
| `Scheduler` | One scheduled event on several replicas: the runner's pass, both mutexes, background, repeated and per-tenant runs, `TaskScheduler`'s claims, the commands. Its locks are one-step locks. |
| `Outbox` | `Store` in a transaction, and the relay's loop, pass, lock, statements and shutdown. Its lock is a one-step lock. |
| `Webhook` | Deliveries to an endpoint: recording, claim, attempt, settlement, the circuit breaker, resume, clean, and the operator's acts. |
| `OneTime` | `Issue` and `Consume`, one step per call to the store. |
| `MC*` | The instances TLC checks. |
| `DatabaseWorkerProofs` | Types, lease, attempts; order of `park`, refinement, nothing lost. |
| `RedisQueueProofs` | Types; what a step may do to a transaction, a `Pop` and a job; sets, lease, fence and refinement. |
| `LockStoreProofs` | Types, grants and the refinement of `CacheLock`. |
| `OneTimeProofs` | Single use, the attempt limit, the failures of a window. |
| `OutboxProofs` | Types, nobody passed over, oldest first, no second receipt, parked after the attempts. |
| `WebhookProofs` | Types and plans, an attempt is settled once, one sender, a job for what is open. |
| `SchedulerProofs` | No overlap while a mutex lasts, a claimed window is run once. |
| `BatchProofs` | The counters, what finished means, the callbacks, the link after a batch. |

Composition: `DatabaseWorker` extends `DatabaseQueue` and `WorkerPolicy`.
`Scheduler` and `Outbox` use the lock as `CacheLock` specifies it, which
`LockStore` shows to be what the atomic stores do; on the file store that does
not hold (see Findings). `Batch` and `Webhook` take from the queue what
`JobLifecycle` promises, a job stays until it is settled and may run twice, and
keep no more of it.

## State and actions

Every variable is commented where it is declared, and `PROJECT.json` maps every
definition to its lines. What is not obvious from those:

**DatabaseWorker.** `jobs[id]` is a row: `status` joins its existence and
`failed_at`, `reserved_until` 0 is NULL. `popNow[w]` and `seen[w]` are the locals
of a running `Pop`. `flight[w][id]` is a `*jobs.Job` on its way through `Process`,
with the attempts read by the SELECT and the stage of its goroutine. `Start` is
`Process` up to the handler; `HandlerSucceeds`, `HandlerFails` and
`MiddlewareSettles` the handler inside its middleware; the `Settle...` actions
the settling write, and the same write reporting an error with or without having
taken effect; `Log` and `Hook` the rest of `park`. `pushed`, `finished`,
`removed`, `parkings` and `disturbed` record what happened; no action reads
them. `disturbed` holds the jobs whose exclusivity the code does not promise.

**RedisQueue.** A score of 0 is "not a member", and `bodies[id]` the attempts in
the stored body. `tx[w][id]` is a transaction under way: where it stands, what
it read, and `clean`, which a write to the set it watches clears. Its WATCH and
lookup are one step: between them a write could only make the commit fail.
`Retry` takes the due time of the job when it reads, and writes it when it commits.
`mishaps[id]` says what befell a job, and each property names the mishaps it
excludes.

**Batch.** `proc[p].todo` is the list of calls a process has yet to make (push,
mark, fire), and each call is a step that may fail or be lost in a crash. A
report is a read and a conditional write, retried while it is refused.

**LockStore.** `call[c].at` is the statement a call is about to make. `lease`
counts down, so no clock is bounded: from the call on the database store, which
computes the expiration before its first statement, from each try to link on the
file store, and from the grant on the others. So a lock may be granted with a
part of its ttl gone, and `CacheLock` allows that. The behaviour's store is chosen
in `Init`.

**Scheduler.** `setup` is the declaration of the event, chosen in `Init`. Minutes
run modulo `Day`, as the window's name (HHMM) does. `held[p]` is
`CacheEventMutex.held`, which outlives a run. `ReleaseFails` is `removeMutex` on a
store that fails: the handle is dropped and the mutex stays until its ttl.

**Outbox.** `relay[r]` is a pass: the batch `PendingAll` returned, with the
attempts read then, the event in hand and the listeners still to get it. A row
has an id, its number, and an `occurred_at`, which the caller of `Store` may set.
`Before` is the query's `ORDER BY occurred_at, id`: it answers a set, the first
pending events in that order up to the limit, and the loop takes the first of what
is left of it.

**Webhook.** `jobs` are the queued `DeliverJob`s, each with the attempt count it
was scheduled at. `worker[w].left` is what is left of the lease of an attempt.

**OneTime.** A code is the nonce it belongs to. Deadlines count down, each from
the call that read the clock.

Left out throughout: names, payloads, tenants' data and grants, events and log
lines, and the arithmetic of backoff (a wait is any member of a set).

## What the runs check

Each run is a module and a cfg; `tlc -config <cfg> <module>` repeats it. The
comment before a property in its module says exactly what it states and excludes.

| Run | Question and answer |
|---|---|
| `database_worker` | Two workers, two operators, one job; crashes, writes that fail or whose answer is lost, claims from a stale SELECT, middleware that settles, every command. A job settled within its lease has one holder (`NoOverlap`), backed by its row (`HeldUnderLease`); nothing is lost (`NoLostJob`); the failed list names only what the driver parked (`RecordedAfterParked`); no retry resets a running job (`AttemptsOnlyGrowWhileHeld`); the table is a job lifecycle (`ImplementsLifecycle`). |
| `database_worker_liveness` | One worker, two jobs claimed in one batch, one without a handler. Once faults stop, every queued job is deleted or parked (`EventuallySettled`). |
| `redis_queue` | The same questions of the RESP driver, whose transactions interleave step by step. An id is in one set (`OneSet`) and has its body (`BodyKept`) although no transaction watches the bodies; a worker in its lease owns it (`HeldUnderLease`); a settlement ends its own delivery while the attempts only grew (`FencedByAttempts`); `ImplementsLifecycle`. |
| `redis_queue_liveness` | Two workers whose transactions collide, crash and fail: `EventuallySettled`. |
| `batch` | A batch dispatched, grown by `Add`, chained, or dispatched after the response. The counters are the reports (`CountersExact`); finished means succeeded (`FinishedMeansSucceeded`); callbacks fire once (`CallbacksOnce`); the next link waits (`LinkAfterBatch`); the batch closes (`BatchCloses`). |
| `lock_stores` | Three processes, all four stores. On the atomic ones a running grant is never lost (`HolderKeepsLock`), and every statement is a step of the one-step lock (`ImplementsLock`). |
| `scheduler` | Two replicas and an operator, nine declarations. A claimed window runs once (`OncePerWindow`), runs do not overlap while their mutex lasts (`NoOverlap`), the event goes on being run (`KeepsRunning`). |
| `outbox` | Two relays, with and without a lock. Published means received by all (`PublishedMeansReceived`), oldest first (`OldestFirst`), twice only after a fault (`NoDuplicate`), parked only after the attempts (`ParkedGaveUp`), and every committed event is settled (`EventuallySettled`). |
| `webhook` | Two workers and an operator. An attempt is settled once (`SettledOnce`), by one sender (`OneSender`); an open delivery has a job (`OpenHasJob`) and is settled unless the endpoint is off (`EventuallySettled`). |
| `one_time` | Three requests and an issuer. A code is spent once (`SpentOnce`), compared `MaxAttempts` times at most (`AttemptsLimited`), and a window lets `MaxFailures` wrong codes through (`FailuresLimited`). |
| `redis_stale_settlement`, `lock_file_store` | Violations: findings 1 and 2. |

Each property of a passing run has a mutant in `PROJECT.json`: one definition
changed as a plausible bug would, which makes the property fail.

Where the code makes no promise, a property excludes the case by name and no
more: `disturbed` and `mishaps` are set in the one action that causes the case.
What the code documents otherwise is under Findings; the rest are limits:

- A failed job of a batch that is retried reports again, so Catch and Finally
  may fire again; a job that succeeded and is delivered again is counted again.
- A callback whose push fails, or whose process dies after the counter was
  written, is not pushed again. A batched job parked by the attempt check
  reports to nobody, and its batch stays open.
- An `Add` between the last report and `MarkAsFinished` reopens a batch that is
  then marked finished.
- A claim or mutex outlives a crash until its ttl: the occurrence is not run.
- `Redeliver`, the failure count that a slow right code takes back in a later
  window, and a burn after the code's deadline are excluded where a property
  names them.

## Bounds

| Bound | Why it is enough |
|---|---|
| one job, two workers (queue drivers) | The statements of two jobs touch different rows, so races are between workers on one job. What jobs share, a batch of claims and a `Pop` cut short, is in `database_worker_liveness`; the safety theorems hold for any number. |
| `Lease` 1, `MaxClock` 3 or 4 | A lease is made, passes while its holder runs, and is made again. |
| `MaxTries` 1 or 2 | A job that is parked at once and one that is retried and then parked. |
| `FaultHorizon`, `MaxIncidents` 1 or 2 | Faults and commands while the clock is below the first, at most the second: a crash and a failed write, or a fault and a command, in any order. Liveness is about what follows. |
| `Batch`: three jobs, `MaxCopies` 2 | Two reports race and one job is added; a link can be pushed a second time. |
| `LockStore`: three clients, four tokens, `Ttl` 2 | A holder, a late releaser and a newcomer; every client may hold a token while a fresh one is drawn. |
| `Scheduler`: `Day` 3, ttls 2 | A ttl ends before the window's name comes round again, as an hour does in a day. |
| `Outbox`: two events, listeners of `{1, 2}` and `{2}`, two moments to occur at | An order to keep, by id where the moments are equal and against it where the second event is set back, and an event that one listener has had when the next fails. |
| `Webhook`: one delivery, `DisableAfter` 1, `Copies` 3 | One exhausted delivery turns its endpoint off; an attempt, its retry and a redelivery are queued at once. |
| `OneTime`: `MaxIssues` 2, `MaxCalls` 3 | A code is replaced while requests with the first are under way. |

Processes, tokens and requests are symmetric where the cfg says so; no run with
a liveness property uses symmetry. `CHECK_DEADLOCK FALSE` stands where the
system may stop: every job settled and the bounds used up.

## Fairness

- **Queue.** Time passes; a worker that runs keeps polling and finishes its
  `Pop`; a goroutine settles its job, since the handler's context carries a
  timeout. A crashed worker is restarted by its supervisor: the next step is a
  new process. Nothing is assumed of operators or of pushes.
- **Batch.** A process makes the calls on its list, a worker runs what is
  queued, the request that dispatches goes on. The queue redelivers (above).
- **Scheduler.** The loop wakes every minute, runs and background processes
  end, time passes. `KeepsRunning` also assumes that replicas do not for ever
  take a minute from the probe of a mutex to its `Create`, and says so.
- **Outbox.** Replicas that run poll and finish a pass, one that stopped is
  started again, the lock's ttl passes.
- **Webhook.** Workers run the jobs that are due, and an operator who read a row
  finishes the call. Time is strongly fair: the model stops it between a
  refused claim and the read that explains it, and a clock does not stop there.

Faults are bounded by the constants above, so no fairness is about them.

## Findings

Places where the code does something else than its own documentation says. The
first two are runs. Each of the others is a property of its module and a cfg
that yields the counterexample.

| | The code | says | Counterexample |
|---|---|---|---|
| 1 | RESP settlements are fenced by attempts (`redis.go:431`), which `Retry` sets back: a late first delivery ends the lease of a later delivery that has the same count. | `redis.go:413` "the old pointer cannot delete or release the new worker's delivery" | run `redis_stale_settlement` |
| 2 | `AcquireLock` of the file store deletes the path when its link was refused and the read that follows finds nobody (`cache/file.go:660`). If the holder released in between and took the lock again, what is deleted is its new file: two processes hold the lock, and none expired. | `file.go:634` "the exclusive create is what makes it a lock at all" | run `lock_file_store` |
| 3 | The database claim does not ask for `failed_at` (`queue/database.go:398`): a row parked between SELECT and UPDATE is delivered. | `jobs.go:132` "it stops being delivered" | `DatabaseWorkerParked.cfg`, `ParkedNotDelivered` |
| 4 | `queue:retry` forgets the record after the job is live again (`console/failed.go:200`), and with it the record of a later failure. | `worker.go:778` "the record goes where the failed job commands read" | `DatabaseWorkerRelisted.cfg`, `RetryKeepsLaterFailure` |
| 5 | `PendingSize` counts jobs that are not due (`queue/database.go:547`). | `database.go:679` "the number PendingSize leaves out" | `DatabaseWorkerSizes.cfg`, `PendingLeavesOutDelayed` |
| 6 | RESP `Clear` reads the ids and then deletes their bodies: a job parked in between loses its body. | its comment, "Parked jobs are not cleared" | `RedisQueueCleared.cfg`, `ParkedKeepsBody` |
| 7 | The conditional update of a batch compares two counters (`bus/database.go:355`): one failure exchanged for another passes, and the failed list is wrong. | `database.go:312` "the conditional UPDATE is the whole guarantee" | `BatchSwapped.cfg`, `FailedListExact` |
| 8 | `DispatchAfterResponse` stores the jobs' number and `Add` adds it again (`bus/pending.go:300`). | `batch.go:75` "how many jobs the batch holds" | `BatchAfterResponse.cfg`, `TotalCountsJobs` |
| 9 | A chained batch whose own job runs under `ReportToBatch` pushes the next link as soon as the batch is dispatched (`batchable.go:442`). Run `batch` leaves that set-up out. | `chainedbatch.go:21` "must not start until the last job of the batch reports" | `BatchChained.cfg`, `LinkAfterBatch` |
| 10 | With `OnOneServer` and `WithoutOverlapping` a replica's probe takes the mutex for a moment, which makes the claimer skip, and nobody runs the window. | `manages_attributes.go:66` "the first replica to claim the window runs it" | `SchedulerWindow.cfg`, `WindowRuns` |
| 11 | `schedule:clear-cache` frees only a mutex its own process took (`mutex.go:117`). | `commands.go:309` "for the case a process died holding a lock" | `SchedulerClear.cfg`, `ClearCacheFrees` |
| 12 | `Redeliver` compares attempts and status (`service.go:848`): given back and claimed again they are equal, and the redelivery sends beside the attempt. | `delivery.go:307` "never both send" | `WebhookRedeliver.cfg`, `NeverBothSend` |
| 13 | A delivery given back after its endpoint was turned on again gets no job. | `delivery.go:414` "turning the endpoint on queues them again" | `WebhookResume.cfg`, `TurnedOnQueues` |
| 14 | The outbox is read by `occurred_at` and then by id (`events.go:210`), and `occurred_at` is the caller's `OccurredAt` where it is set (`events.go:153`): an event stored second and set back leaves first. | `events.go:163` "every event of one Store carries the same occurred_at [...] and they leave in the order they were stored" | `OutboxStamped.cfg`, `InStoredOrder` |

Met while reading, and not stated as properties: the database store may refuse a
free lock when an expired row is pruned between its two statements; a failover
store's lock is inexact and says so (`failover.go:226`); background runs of an
event for several tenants share one mutex name; without a lock an event of the
outbox may be both published and parked; a delivery given back and then deleted
with its endpoint stays pending (`service.go:401` says it fails at its next
attempt); `Forget` of a code removes whatever record is there, and two `Issue`
calls can both pass the cooldown.

## Proofs

TLAPS checks these for every value of the constants, under the named assumptions
of the modules: the types of the constants; a lease, ttl and batch size above
zero; a scheduler's claim shorter than a day, since windows are named by the
minute of the day (`mutex.go:186`); finitely many jobs and workers of a batch,
and an `Add` of jobs the batch does not have yet.

**Database driver.** `TypeCorrect`, `LeaseExcludes` (for `NoOverlap`),
`ReservationStands` (`HeldUnderLease`), `RunningCountsStand`
(`AttemptsOnlyGrowWhileHeld`), `ParkBeforeRecord` (`RecordedAfterParked`),
`Refinement` and `NothingLost`. `NoOverlap` is not inductive: a second claim is
refused because of the row, so the invariant adds that an undisturbed holder's row
is live and reserved until exactly the holder's deadline, and that a `Pop` under
way has not read a later clock. The refinement needs only that what a worker
deletes is finished work, and `NothingLost` uses the same fact; `ParkBeforeRecord`
that what is recorded or hooked was parked.

**RESP driver.** `RedisTypes`, `OneSetKept`, `BodiesKept`, `LeaseExcludes`
(`HeldUnderLease`), `Fenced` (`FencedByAttempts`) and `RedisRefinement`.
The proofs first say of each step what it may do: to a transaction (it
ends, is kept, reads), to a `Pop`, and to a job (it stays, is pushed, retried,
cleared, recovered, claimed or settled, and at most one job moves unless a set is
cleared). The invariants are then shown against those few kinds. The set invariant
adds what WATCH gives: a transaction that can still commit finds its id in the set
it takes it from. The lease invariant adds deadlines, the fence invariant that the
attempts are the generation of a delivery until they are reset. The mapping to
`JobLifecycle` reads the parked set first: a job that `queue:retry` doubled may be
parked and scheduled at once.

**Locks.** `LockTypes`, `GrantKept` (`HolderKeepsLock`) and `StoresImplementLock`
(`ImplementsLock`). The invariant adds the shape of each call, that no two calls
have one token, and that the store does not know a token before its grant.

**Single-use codes.** `CodeSpentOnce`, `CodeAttemptsLimited` and
`WindowFailuresLimited` (`FailuresLimited`). The invariant of the first two adds
that a nonce not yet drawn or put is untouched, that all who read a code agree on
how far its deadline is, and that the marker and the counter outlive the deadline
once they have something to remember. That of the third is that the failure
counter is never behind: the wrong codes its window let through, and the calls it
counted that are still under way, are no more than it says, but for the counts
that calls of an earlier window took back from it.

**Outbox.** `OutboxTypes`, `NobodyPassedOver` (`PublishedMeansReceived`),
`LeaveOldestFirst` (`OldestFirst`), `NoSecondReceipt` (`NoDuplicate`) and
`ParkedAfterAttempts` (`ParkedGaveUp`). The first three need no lock. Their
invariant adds that a pass which has an event in hand has every older one of the
same transaction in hand too, older by `occurred_at` and then by id, unless it
reached everybody or its failure was recorded, and that a transaction under way is
in nobody's hand, so that storing a row changes no order a pass relies on. The last two need
it: what a pass has in hand, and is not excused, it has under the lock, with the
row as it read it, and a receipt that is not marked yet is that of the pass in
hand. `MarkPublished`, `MarkFailed` and `Park` ask for nothing but the id, and the
last attempt is told from a count read earlier; that this is enough rests on the
lock alone.

**Webhook.** `WebhookTypes` (`TypeOK`), `AttemptsSettledOnce` (`SettledOnce`),
`OneSenderAtATime` (`OneSender`) and `OpenIsQueued` (`OpenHasJob`). That no
plan grows without a redelivery needs a count: every plan, in a row or as a
redelivery under way read it, is within `MaxAttempts` and the commands given so
far, less the redeliveries that have yet to write. A worker with the token is at the attempt the row
counts, and the attempt of a row that is being sent is not in the history yet;
hence the fence of `settle` is enough for `SettledOnce`. For one sender, a worker
whose lease runs, and that no redelivery overtook, has the token, and its row has
the same lease. `HasJob` is not inductive, since the job it finds may be about to
be deleted: the invariant is that an open delivery has a job which no worker will
answer nil for without settling the delivery or queueing another. Such a worker
has the token, or was refused a claim that is asked again; and unless a job was
run twice it is alone with it. A delivery being sent has such a job even while
the endpoint is off, which is what resuming it later rests on.

**Scheduler.** `RunsNeverOverlap` (`NoOverlap`) and `WindowsRunOnce`
(`OncePerWindow`). For the first, a process keeps the handle of the one run it has
in progress, and a run with time left still has the mutex, under its own name and
with the same time; that is why `Forget` may only remove what `held` names. A probe
takes the same lock, under another token, so the invariant tells the two apart. It
is about processes that did not store a second handle over the first, which is
what the property excludes. For the second, the winner of a window, in it or having
run it, is one process, and its claim lasts until the window is `ClaimTtl` old;
the clock wraps around, so the age of a window is counted modulo the day, and a
claim that began in one day and a tick that asks in the next are told apart by
`ClaimTtl < Day`.

**Batch.** `CountersAreTheReports` (`CountersExact`), `FinishedBatchesSucceeded`
(`FinishedMeansSucceeded`), `CallbacksPushedOnce` (`CallbacksOnce`) and
`ChainWaitsForBatch` (`LinkAfterBatch`), from one invariant, `BatchInv`. A report is
a row read, a conditional write and a list of calls made one by one, in which every
worker may be anywhere. So the invariant speaks of lists: a worker's holds no call
twice and one closing of the batch; the request stores the row before anything else,
raises the counters before it pushes, and `total_jobs` is at least what was pushed.
On that rest the counts. A worker about to mark the batch finished found zero, and
none was added since; the next link is not even on a list before every job reported.
For the callbacks it is a sum: the calls made, the workers about to make one and the
one the counters still have in store are together no more than are allowed, one, or
two after an `Add`. Each report moves one call from the counters to a list, each call
from a list to the calls made, and each `Add` puts one back and raises what is
allowed. The last two theorems leave out a `ChainedBatch` whose own job
`ReportToBatch` reports, which is finding 9; the run `batch` leaves it out too.

The lemmas of `BatchProofs` and `WebhookProofs` take what they need about finite
sets as a hypothesis, `SetFacts`; the library module that proves it is instantiated
at the end, and the theorems are stated without it. `InOrder` of `Batch` stands for
the order of a slice of jobs: the proofs use that it enumerates the set, and no more.

Only model-checked: every liveness property (`EventuallySettled`, `BatchCloses`,
`KeepsRunning`), because fairness and ENABLED are outside the prover, and the
properties that findings refute, whose counterexamples are TLC's.

## Not modelled

`PROJECT.json` gives a reason for each package. In the modelled ones, left out are:

- **queue**: `Daemon`'s pause, restart and stop conditions and `RunNextJob`, a
  sequential loop over reads of the cache; the locks of the middleware
  `WithoutOverlapping`, `RateLimited` and `ThrottlesExceptions` (their effect on
  the job is modelled); the file failed job provider; failover, which repeats a
  call elsewhere; the drivers that run a job in the caller.
- **bus**: unique jobs; the memory repository, which is the same operations under
  a mutex; the Before, Progress and Failure callbacks.
- **cache**: the rate limiter, one atomic increment; what is not a lock.
- **scheduling**: cron expressions (the event is due every minute), output, pings.
- **events**: the in-process dispatcher, sequential calls without state.
- **webhook**: the receiving side, signatures, secrets, `Import`, and the parking
  of a `DeliverJob` after `jobTries` runs.

The bulk of the repository is SQL generation, HTTP, rendering, validation, mail,
files and support code, one request at a time and without state that two actors
share: a state machine would restate it and check nothing. That is why the models
cover a small share of the repository's lines, and most of the lines where
processes meet.
