# A TLA+ development of General_Webhook

General_Webhook receives webhooks over HTTP, stores each one in SQLite together
with the actions its source is configured with, and executes those actions (HTTP
calls, commands) from a durable queue with retries, leases and replay. This
directory holds TLA+ modules that model its stateful parts, TLC configurations
that check them on small instances, and TLAPS proofs of what matters most.

`PROJECT.json` lists the components, the runs with their properties, the source
lines each definition stands for, the hazards the properties were written for,
for each property a plausible bug that breaks it, and the theorems.

    tlc -workers 2 -config OutboxSafety.cfg MCOutbox      # any run of PROJECT.json
    tlapm OutboxProofs.tla                                # any of the *Proofs modules

## 1. Inventory

| Component | State | Operations | Talks to |
|---|---|---|---|
| `internal/store` tables | `events`, `event_actions`, `action_logs`, `replay_guard`, `heartbeat_logs` | one SQL statement or transaction each; a single connection (`SetMaxOpenConns(1)`), so statements never overlap | everyone |
| `internal/queue` | worker goroutines, their local copies of rows, a lease-heartbeat goroutine per claimed event, the wake-up channel, the stop flag and context | `drain`, `process`, `leaseHeartbeat`, `Stop`, `Wake` | store, handlers |
| `internal/server` webhook handler | in-flight budget, three rate limiters | `webhook`, `retryEvent`, read-only endpoints | store, queue (`Wake`) |
| `internal/server/protect.go` | map of token buckets | `allow` (with `purge`, `evictOne`) | webhook handler |
| `internal/router`, `parser`, `policy` | cache of compiled patterns, drop counters | `Extract`, `Allow`, `Match` with `compile`, `Redact` | queue workers |
| `internal/handler` | none between attempts | `HTTP.Handle` (URL policy, dialling, redirects), `Exec.Handle`, error classes | resolver, remote servers, commands; called by the queue |
| `internal/config` | the loaded configuration, fixed from then on | `Load`, defaults, `validate` | main; the numbers reach queue and limiters |
| `store.Open`, `migrate` | the schema and the epoch columns of rows | one statement at a time, at startup | main |
| `internal/heartbeat` | a goroutine per target, metrics, the aggregate, `lifecycleMu` | `Start`, `Stop`, `sample`, `deliver` | store, server (`Stopping`), queue (`Ready`) |
| `store/snapshots.go`, `config/snapshot.go` | a cursor over `events.actions_json` | `RewriteActionSnapshots`, `ScrubSnapshotSecrets` | main, at startup |
| `cmd/server` | the order of startup and shutdown | scrub, recover, start; stop heartbeat, server, queue; cancel; retention loop | all of the above |
| `internal/auth`, `logger` | none that others read | pure functions and I/O | called by the above |

What is hard here: workers interleave between any two store calls and work on
copies of rows; ownership is a lease with no fencing (all workers of a process
share one owner id); the process may crash or be cancelled between two calls;
several store errors are dropped on purpose, so something later has to pick up
what was left; clock readings are used long after they were taken; events are
retried, replayed and purged while stale workers hold them; counters, a budget,
a ring, a map and a channel have limits; names are resolved again after they were
checked; the schema is migrated without a transaction; the shutdown order decides
whether a remote monitor raises a false alarm.

What makes each part correct is stated in section 3. The hazards are in
`PROJECT.json`, each at its line.

## 2. Modules

| Module | Models |
|---|---|
| `OutboxStore` | the rows of `events` and `event_actions` and the effect of every statement on them (operators, no variables) |
| `Outbox` | workers, lease renewal, acceptance, replay, retention, shutdown, crash and restart over those tables |
| `Delivery` | abstract: what the outbox promises about a stored webhook |
| `OutboxRefinement` | the mapping from `Outbox` to `Delivery` |
| `OutboxHistory` | `Outbox` with two history variables: the starts of an action, the calls that outlast the retry age |
| `OutboxProofs` | theorems about `Outbox`: those that hold whatever happens to leases and exclusive processing; what a worker may rely on under its lease, and the refinement; then those about `OutboxHistory` |
| `MCOutbox`, `MCHistory` | symmetry sets for the runs of `Outbox` and of `OutboxHistory` |
| `Intake`, `MCIntake` | `webhook`, the in-flight budget, `savePendingEvent` with its duplicate checks |
| `WorkerPool` | how workers come to drain: hint channel, ticker, `Start`, `Stop`, cancellation |
| `QueueSettings` | the queue's numbers: defaults, validation, lease, renewal interval, retry delays (operators) |
| `Attempt`, `MCAttempt` | the attempts at one action: URL policy, dialling, redirects, timeouts, the retry decision |
| `Filter`, `MCFilter` | extraction, allowlist, rules, redaction and drop counters, by workers that share the pattern cache |
| `RegexpCache`, `FifoCache` | that cache (a part of `Filter`), and the first-in first-out cache it implements |
| `RateLimiter`, `MCRateLimiter` | the token buckets of `protect.go` and the limits they are configured with |
| `Heartbeat` | the deadman heartbeat and main's shutdown order |
| `SnapshotRewrite` | the paginated scrub of stored snapshots at startup |
| `Migration` | `Open` and `migrate` on a database of any earlier release |
| `IntakeProofs`, `RateLimiterProofs`, `FilterProofs`, `AttemptProofs` | theorems about the module they are named after (`FilterProofs` also about the cache, `AttemptProofs` about the settings) |
| `BackgroundProofs` | theorems about `WorkerPool` and `Heartbeat` |
| `StartupProofs` | theorems about `SnapshotRewrite` and `Migration` |
| `SumLemmas` | what `SumFunctionOnSet` of the community modules computes; used by the proofs about the budget, the batches and the lease |

`Outbox` uses the operators of `OutboxStore`, `Filter` the state and actions of
`RegexpCache`, `Attempt` the operators of `QueueSettings`. The other modules meet
at an interface: `Outbox` takes the verdict of `Filter` as the event's kind, the
outcome of an `Attempt` as the result of a handler, the lease of `QueueSettings` as
a constant, and it lets a worker drain whenever `WorkerPool` might make it. What a
store opened by `Migration` looks like is what `OutboxStore` starts from.

### Outbox

`events[e]` and `acts[e][i]` are the rows. Times are small integers (the code's
milliseconds), NULL is `Null`. A payload or stored variables are a flag; what the
payload, the snapshot and the rules amount to is the event's `kind`: deliverable,
filtered out, a snapshot that does not parse, a rule that does not compile.

A worker is at a label `pc[w]`, the next store or handler call it makes, and
`job[w]` holds its Go locals (the claimed event, the action list it read, the loop
index, the attempt, the aggregate). Each call is one step:

    idle -Drain-> claim -Claim-> vars -HaveVars-> prepare -> list -> loop
    loop -ReadClock-> start -StartAction-> handle -> log -> settle -> loop
    loop, after the last action -RefreshSelect-> commit -> idle
    vars -MarkSkipped-> clear -> idle;  vars -MarkDead-> idle
    any store error or cancellation -> requeue -> idle

Points a reader of the code will look for:

- `Drain` reads the clock once and `Claim` uses that reading, as `drain` does.
- `process` reads the clock once per action (`ReadClock`). Whether a retry is due, whether the
  action is too old and what `StartAction` or `ExpireAction` writes are decided by that
  reading in a later step, because the statement may wait for the one connection; the
  handler is called after that and ends later still. The clock may move in between.
- `RefreshEventStatus` is two steps, because it is two statements outside a
  transaction. `PrepareEvent`, `RequeueEvent`, `ClaimPending`, `ReplayDeadEvent`
  and `PurgeOlderThan` are transactions and one step each.
- Skipping an event and clearing its payload are two steps.
- Calls made with the worker's context fail once it is cancelled; calls under
  `context.WithoutCancel` do not. `StartInterrupted` is a cancellation that lands
  in `StartAction` after its statement took effect.
- `SaveActionAttemptLog` (a SELECT and an INSERT) is one step: nothing else writes
  the log of an action.
- `Fault` is a store call that fails without an effect. Where the code drops the
  error, the action has a disjunct for it.
- A worker may drain at any time, which contains whatever a hint, a lost hint or
  the one-second ticker makes it do (`WorkerPool` has these).
- The delay before a retry (`retryDelay`, `Retry-After`) is any member of `Delays`
  (`Attempt` has the arithmetic).
- The statuses `partial` and `error`, written only by old releases, are left out.
- Stored variables always parse: `PrepareEvent` is the only writer of `vars_json` and
  marshals a non-nil map. The two exits of `executionVars` for a text that does not parse or
  is null are therefore not reached and have no step.

### OutboxHistory

`attempt_count` is not the number of executions: `RequeueEvent`, lease expiry and
startup recovery take an interrupted attempt off again. `starts[e][i]` counts the times a
row became running; `late[e]` counts the handler calls that ended, or were cut off with
their process, at or past `max_retry_age`. Both begin again with a replay. Nothing in
`Outbox` reads them.

### Intake

One request is one goroutine. The clock is read at the start (`at[r]`) and used
for the timestamp window, the guard's expiry and the row, whatever time the body
took. The body guard, the delivery index and the rollback are one transaction and
one step. A refusal (authentication, size, JSON, rate, a failing database) is
nondeterministic. The retention pass deletes guard rows by the wall clock.

### WorkerPool

Events are reduced to whether they may be claimed; `line` holds those that may, in
the order of `ClaimPending`. `hints` is the number of messages in the channel.
`Accept` and `Tell` are the commit and the `Wake` of an HTTP handler, which may die
in between. A ticker may fire at any time, so `SelectTick` has no guard but the
worker's place. `late` counts claims after `Stop`.

### QueueSettings and Attempt

Durations are in units of 100 ms, the smallest retry base that `validate` accepts.
`QueueSettings` translates `applyDefaults`, `validate`, `queue.New`, `computeLease`,
`retryDelay` and the interval of `leaseHeartbeat`. `Attempt` starts from any
configuration that these accept and makes the attempts at one action. A URL is a
record of what the policy looks at; an encoded or otherwise ambiguous path is a
segment in `Encoded`; a host name is one of a few, and the resolver returns any
member of `Answers` each time it is asked. A redirect either reuses the connection
or dials again. Statuses are reduced to delivered, permanent and retryable; the
`Retry-After` header is a number of seconds, a date or absent, and the largest
`Duration` is scaled down to stay within TLC's integers. Jitter takes its two ends.
Cancellation is left to `Outbox`.

### Filter and RegexpCache

A payload is a function from paths to values, a pattern matches the values `Matches`
says, redaction maps a value in `Secrets` to `Mask`. Each turn of `router.Match` is
one step, so two workers interleave between the rules of an event; `compile` is one
step because it holds the mutex. Event rows carry their status and stored variables.
The configuration a process runs with (which decides the names of the counters)
changes at a restart, while the source is the snapshot stored with the event.
Clearing the payload is in `Outbox`. Source names passed `validate`, so the check of names
in `policy` finds nothing to do; a source may be called `other`, and then shares the
counter of unknown sources (the instance has one).

### RateLimiter

The limits are chosen in `Init` from what a file may hold, through `WithDefaults` and
`Valid`. Callers hold the time they read, at most `MaxStale` old. Tokens are integers
in units of `One`. `granted` and `since` are history variables for the rate bound.
The configuration accepts a burst that takes longer to refill than an idle bucket is
kept; for such limits the bound has one burst for each time the key stayed away that
long (`PurgedBursts`), which is what the code grants.

### Migration

A database has some tables, some of the columns that were added over time, rows whose
times SQLite can convert, only Go can, or nobody can, epoch values for some rows, rows
with statuses of old releases, and perhaps two rows that break the unique index. Every
statement is one step, and a `MigrationFault` may come before any of them. A
`processed_at` that is an empty text is selected at every start and left without an epoch
value, as the code does.

### Heartbeat

A target's round is split where the code blocks or touches shared state: the two
store calls, the read under `lifecycleMu`, the request, its reply, the counters,
the load and the compare-and-swap of the aggregate, the log row. Wall-clock
readings are arbitrary. `Ready` of the queue becomes false only in main's
shutdown.

### SnapshotRewrite

A row has a size, a form (none, unparsable, marshalled otherwise than today, as today)
and the set of credentials whose values its actions hold. Batches follow the query's row
limit and the byte limit with its look-ahead row. Each process starts with an environment
of its own, `env`, and scrubs the values of that environment only, so a row that one
process left alone may be changed by the next. `ScrubSnapshotSecrets` replaces the values
one after the other; a value that occurs in a reference, or at its edges (`Embedded`), may
be brought back by a replacement, and the row is then changed again at every start.
Nothing else writes the table during startup, because main does this before it starts the server and the queue.

## 3. Runs

The instances are small, but each is chosen so that the cases its properties are
about occur: every action of each module fires, and for every property a one-line
bug in the code's terms (`mutants`) makes it fail in the same instance.

| Run | Instance | Shows |
|---|---|---|
| `safety` | 1 event, 2 actions, 2 workers, retry delays 0 and 1, age limit 2, 1 restart (crash or shutdown), 1 failing call, 1 replay, retention 1, lease 1, clock to 3, with the history variables | `TypeOK`; `OneWorkerPerEvent`; `DispatchedIsRunning`: the outcome of a delivery is never refused; `RunningIsUnderLease`: a running action can always be found again; `TerminalIsSettled`; `InputIsKept`: an open or dead event can be executed; `CleanShutdown`; `AttemptBound`; `RetryingWakesInTime`; `StartsAreBounded`: an interruption costs one repetition; `OneCallPastAge`: so does a clock reading that is stale when used |
| `stale_lease` | 1 event, 2 actions, 2 workers, lease 1, no timely renewal, replay until time 2, age limit 3, retention 0, clock to 2 | what survives two workers on one event: `DoneIsFinal`, `EventDoneMeansAllDone`, `SucceededIsAudited`, `RetryWithinAge` |
| `liveness` | 1 event of any kind, 2 workers, restart, fault, replay, retention 1, fair | `EventuallySettled`; `ImplementsDelivery` |
| `skipped` | 1 filtered event, 1 restart | violated: see Findings |
| `pool` | 2 workers, 2 events, channel of 1, 1 failing call, `Stop` and cancellation at any time, fair | `HintCoversNewEvents`: new events do not depend on the ticker; `DueIsTaken`: retries do, and are taken; `OneClaimAfterStop`; `WorkersLeave` |
| `attempt` | 10 files (edges of the queue section, 6 of them to be refused), 10 actions, 8 redirect targets, 5 answers of the resolver, 5 `Retry-After` headers | `StaysWithinPolicy`, `RetriesFollowSchedule`, `SettingsAreUsed` |
| `filter` | 3 events over 2 sources (one called `other`) and 4 payloads, 2 workers, 5 patterns (one too long, one invalid) through a cache of 2, 1 failing call, 1 restart | `FilteredAsConfigured`, `DropsAreCommitted`, `CacheIsFifo` |
| `intake` | 3 requests over 4 inputs (equal bodies, equal delivery ids, two sources, undeclared length), budget of 2 requests and 3 units, 1 crash | `BudgetIsExact`, `ConflictMeansStored`, `SameBodyApart` |
| `rate` | 2 callers, 3 keys, room for 2, 6 files, clock to 7 (twice the idle time) | `RateIsBounded` |
| `heartbeat` | 2 targets, 2 pushes in all, clock readings 1..2, fair | `NoFalseDown`, `AggregateCoversTargets`, `FailuresAreReported`, `StopReturns` |
| `snapshots` | every table of 3 rows with 4 forms, 2 sizes and 2 credentials (one in `Embedded`), batches of 2 rows and 2 units, 2 failures, any environment at each start | `ServesScrubbed`, `BatchIsBounded`, `EventuallyServes` |
| `migration` | every database with 2 events, 1 log row and at most 1 defect, 1 further crash | `OpensMigrated`, `EventuallyOpens` |

Why the bounds are enough. Two workers are the least with which a lease can pass
to somebody else; a third would have to take an event from the second in the same
way. Two actions are the least for which one can be finished, retried or dead
while the other is open, which is all `RefreshEventStatus` distinguishes. The
properties of `Outbox` speak of one event each, and events share nothing but `Drain`,
`ClaimPending` and the retention pass; workers that compete for several events are in
`pool` and `filter`, and the theorems hold for any number of them. One restart puts
every pair of adjacent calls on both sides of a crash. In `safety` the clock
reaches past a lease, a retry and the age limit. In `stale_lease` a lease of 1 is over at
time 2, when the event may still be replayed and a retry still fits into the age limit, so
that a worker whose claim is older than the replay schedules one. In `filter` three patterns compete for two
places, so that one worker evicts what another has just used; three events are the
least that two workers can finish in different orders with one left.
In `migration` the interrupted start is in the initial states already, so that the
further crash makes two. Every schedule of `attempt` is followed to its end. Bounds are guards named in the
modules (`MaxTime`, `AcceptUntil`, `MaxStarts`, `MaxFaults`, `MaxMishaps`, `FaultUntil`,
`MaxReplays`, `MaxCrashes`, `MaxAttempts`, `MaxDefects`).

`TimelyRenewal` is the one assumption on timing. The heartbeat of a claimed event
renews the lease every third of it; with `TimelyRenewal` the clock does not move
past the lease of a live worker, or past the lease a worker is about to take from
its earlier clock reading. It fails when the process is suspended, the clock is
stepped or the database refuses renewals for that long. Then two workers may
process one event (the code has no fencing), and only the properties of
`stale_lease` are claimed.

An action may be executed more than once: after a crash between the handler's
effect and `CompleteAction` it is executed again, and a requeued attempt is not
counted. `AttemptBound` bounds the counter; `StartsAreBounded` bounds the real starts, by
`max_retries + 1` and one for each failed store call and each end of a process.
Likewise a handler may run past `max_retry_age`: the age is tested with a clock reading
from before `StartAction`. `OneCallPastAge` says that this happens to at most one call of
an event between two replays.

`SettingsAreUsed` says that a lease outlasts a pass over the actions of a *configured*
source with fewer than 400 of them (`MarginActions`). `computeLease` adds up the
actions' timeouts and a margin of two minutes; a command whose descendants keep its pipe
open takes up to 300 ms more than its timeout (`WaitDelay`), and `validate` does not
limit the number of actions, so that 400 such commands could use up the margin. The
proof needs this bound, and the bound is exact. An event keeps the actions of its snapshot, which an operator may since have
replaced by shorter ones; then only the heartbeat's renewals keep the lease alive.

Deadlock. The runs of `Outbox` check it: the system never stops (workers poll). The
others switch it off, because requests, attempts, pushes or startups are finite in
number there, and a stopped process is a legitimate end.

Fairness, only for the liveness properties:

- `Outbox`: weak fairness of each worker's steps and of its lease heartbeat
  (goroutines are scheduled, every handler has a timeout), of the clock, of the
  process's exit, and of `Restart` (`restart: unless-stopped` in
  `docker-compose.yaml`). Shutdowns, crashes, failing calls, acceptances and
  replays are not fair, and bounded.
- `Heartbeat`: weak fairness of a round (every call has a deadline) and of main
  once it has started to stop; strong fairness of `Leave`, because Go's `select`
  picks at random among the ready cases, so a done context is not passed over for
  ever.
- `WorkerPool`: weak fairness of each worker (goroutines are scheduled, handlers end
  at their timeouts, tickers fire) and of the time at which a retry or a lease is due;
  strong fairness of leaving the select, for the reason just given. The `Wake` of an
  HTTP handler is not fair, and neither are `Stop` and cancellation.
- `SnapshotRewrite`, `Migration`: weak fairness of startup and restart.

## 4. Proofs

Every theorem is for all values of the constants that satisfy the named
assumptions of its module (`StoreAssumption`, `OutboxAssumption`,
`PoolAssumption`, `IntakeAssumption`, `FilterAssumption`, `AttemptAssumption` ...): any number of events, actions, workers,
requests, targets or rows, any limits, any number of crashes and failures. The
assumptions only say that numbers are numbers and values are of their kinds, and
where the model counts or adds up that sets are finite: the events of `WorkerPool` (they
start out in a line) and of `Filter`, its workers, and the sources of a file. The
bounds of the runs (`MaxTime`, `MaxFaults` ...) are constants like the others and
may be as large as one likes.

Most of the invariants are not inductive; the second column of each table names
the one that is and the next paragraphs say what it adds.

### The outbox, whatever happens to leases (`OutboxProofs`)

| Theorem | Inductive invariant | Property |
|---|---|---|
| `TypeCorrect` | `TypeOK` | `TypeOK` |
| `DoneStaysDone` | (`Keeps`, a fact of each step) | `DoneIsFinal` |
| `DoneEventsAreComplete` | `DoneInv` | `EventDoneMeansAllDone` |
| `RetriesStayWithinAge` | `HistoryInv` | `RetryWithinAge` |
| `SuccessesAreAudited` | `HistoryInv` | `SucceededIsAudited` |
| `ExclusiveProcessing` | `LeaseInv`, under `TimelyRenewal` | `OneWorkerPerEvent` |

`TypeOK` also says that a worker inside `process` has an event, an action index in
range and an aggregate when its next call needs it, without which the steps make no
sense. Done rows stay done because every statement on `event_actions` excludes them
in its WHERE clause. `DoneInv` is needed because `RefreshEventStatus` decides in one
step and writes in a later one: a worker past `PrepareEvent` has a row for each
action, and a worker about to write `done` has all actions done (or the event is
purged); done rows stay done, so the late write is still true. `HistoryInv` says
what a worker that lost its event may still do harm with: the start of the retry age
it remembers is not later than the event's, because only a replay moves it, and
forward; what it is about to record as done was logged; a deleted event has no
action rows to write to. `LeaseInv` says that the event of a worker inside `process`
is `processing` under a lease that is not over, and that the clock reading of a
worker about to claim is not older than a lease, so that neither
`RequeueExpiredLeases` nor `ClaimPending` can take the event away.

### The outbox under timely leases (second half of `OutboxProofs`)

All of these have the hypothesis `TimelyRenewal` (section 3).

| Theorem | Property |
|---|---|
| `OutcomesAreAccepted` | `DispatchedIsRunning` |
| `RunningIsRecoverable` | `RunningIsUnderLease` |
| `TerminalEventsAreSettled` | `TerminalIsSettled` |
| `InputSurvives` | `InputIsKept` |
| `AttemptsAreBounded` | `AttemptBound` |
| `NothingOversleeps` | `RetryingWakesInTime` |
| `ShutdownIsClean` | `CleanShutdown` |
| `OutboxImplementsDelivery` | `ImplementsDelivery` (the refinement) |
| `InterruptionsCostOneStart` | `StartsAreBounded` (of `OutboxHistory`) |
| `AtMostOneLateCall` | `OneCallPastAge` (of `OutboxHistory`) |

All but the last two follow from one invariant, `WorkInv`. `RowOK` says how an event row and its
action rows agree when they are at rest; `HoldOK`, label by label, what a worker
knows about the rows from its local variables: that the rows it has not come to are
still the ones it listed, that those behind it are settled, that the one in hand is
running with the attempt it counted, and that the aggregate it is about to write is
the aggregate of the rows. A worker's own step keeps this by the lemmas about each
store operator; the steps of others keep it because, by `LeaseInv`, they are on other
events. `Attended` (a processing row has a worker while nothing failed) is what
`CleanShutdown` needs.

The refinement is proved step by step: the initial state maps to an initial state of
`Delivery`, each step that changes a status class or an outcome maps to the abstract
action of that name, and all the others change nothing that `Delivery` sees.

The last two theorems add an invariant of their own to `WorkInv`:

- `StartsInv`. `AttemptsAreBounded` is about the counter, which interruptions lower, so it
  does not bound the starts. `StartsOK` keeps the account: the starts of an action, and
  what will still be taken back for it (`Owed`: a running row whose worker is gone, or a
  cancelled worker in the middle of an attempt), are at most the counter, the failed store
  calls and the ends of processes so far. Every statement that lowers the counter settles
  something owed, and nothing is owed twice (`Pays`, proved for each step).
- `LateInv`. A call that ended past the age leaves the clock past it, so every later
  reading expires what is open; it remains to show that no other call was under way. A
  worker that is about to start or is in a handler has not seen a late call, because it
  has the event to itself and its own calls follow each other.

### The other components

| Theorem | Inductive invariant | Property |
|---|---|---|
| `BackgroundProofs.NewEventsAreCovered` | `PoolInv` | `HintCoversNewEvents` |
| `BackgroundProofs.StopIsHeeded` | `LateInv` | `OneClaimAfterStop` |
| `IntakeProofs.BudgetIsAlwaysExact` | `BudgetInv` | `BudgetIsExact` |
| `IntakeProofs.ConflictsAreStored` | `StoreInv` | `ConflictMeansStored` |
| `IntakeProofs.ReplaysAreApart` | `StoreInv` | `SameBodyApart` |
| `BackgroundProofs.StopIsNotAnOutage` | `QuietInv` | `NoFalseDown` |
| `BackgroundProofs.AggregateIsNotBehind` | `AggregateInv` | `AggregateCoversTargets` |
| `BackgroundProofs.FailuresAreAccountedFor` | `ReportInv` | `FailuresAreReported` |
| `StartupProofs.NoCredentialIsServed` | `RewriteInv` | `ServesScrubbed` |
| `StartupProofs.BatchesAreBounded` | `RewriteInv` | `BatchIsBounded` |
| `StartupProofs.OpenStoreIsMigrated` | `MigrateInv` | `OpensMigrated` |
| `RateLimiterProofs.RatesAreBounded` | `RateInv` | `RateIsBounded` |
| `AttemptProofs.AttemptsStayWithinPolicy` | `PolicyInv` | `StaysWithinPolicy` |
| `AttemptProofs.RetriesAreScheduled` | `RetryInv` | `RetriesFollowSchedule` |
| `AttemptProofs.SettingsAreKept` | `SettingsInv` | `SettingsAreUsed` |
| `FilterProofs.EventsAreFiltered` | `FilterInv` | `FilteredAsConfigured` |
| `FilterProofs.DropsAreCounted` | `DropInv` | `DropsAreCommitted` |
| `FilterProofs.CacheFollowsFifo` | `RingInv`, with `FilterInv` | `CacheIsFifo` (an invariant and a refinement) |

`BackgroundProofs` and `StartupProofs` each treat two components, and extend the modules
of both: this is why the specifications of `Heartbeat` and `Migration` and some of their
variables carry names of their own (`MonitorSpec`, `MigrationSpec`). Each theorem is
about one of the two specifications.

- `PoolInv` adds that every new event is in the line, so that a worker that finds the
  line empty may go back to its select; `LateInv` that a worker on its way to a claim
  has not had its one late claim yet.
- `BudgetInv` adds that finitely many handlers run, so that the sum of what they
  reserved changes by one summand at a time. `StoreInv` carries both duplicate checks:
  what they find was put there by a commit (`GuardIsBacked`), a saved request is past
  its transaction and no longer changes what it carries (`SavedIsPast`), and the guard
  row of a saved body lasts, or is replaced, until the body's window is over by the
  wall clock (`GuardCovers`). With clock readings from the past (`Arrived`) a guard
  that looks expired to a handler's old reading has expired by the wall clock too,
  which is why neither the old reading nor the purge opens it early.
- `QuietInv` says that whatever a probe would report as an outage during shutdown
  was done after the monitor's context was cancelled. `AggregateInv` adds that a
  target only swaps in a later time than the one it loaded, `ReportInv` that the
  failure about to be logged has been counted and not logged.
- `RewriteInv` says that the rows up to the cursor are scrubbed of the present
  environment, and that a batch leaves no row out. The values in `Embedded` have
  to be excepted, because a replacement may have brought them back.
- `MigrateInv` says for each phase what the statements before it have established,
  and that the rows a query returned and nobody has dealt with yet are exactly what
  is still missing (`LacksTimes`: an empty `processed_at` is not something missing).
- `RateInv` replaces the count from now, which a bucket knows nothing of: a key with a
  bucket was granted, together with the tokens it still has, at most its allowance at the
  time of the last refill (`Held`); a key without one was last seen longer ago than
  `bucketIdleTTL`, and had no more than its allowance then (`Away`). `AllowanceGrows`
  says that an absence of that length earns at least a burst, so the full bucket it comes
  back to is paid for.
- `PolicyInv` says at each label which of the checks of a request are behind it: the URL
  (at the start or in `CheckRedirect`), the address (in the dialler), the length of the
  chain. That a redirect may reuse a connection is sound because the authority is the
  same and the address was checked when it was dialled.
- `RetryInv` adds the types of what is compared, and `LoopIsClosedForm` is the
  arithmetic: the loop of `retryDelay`, which doubles with a test against overflow at each
  turn, equals the base times a power of two cut off at the limit, for every attempt
  number and every pair of base and limit that `validate` accepts. Both sides are
  recursive functions; `Iteration` shows that such functions exist and are what their
  equations say.
- `SettingsInv` is what `Init` says of file and settings, which no step changes; the work
  is in `LeaseCovers` and `PassTimes`: the lease exceeds what the queue reckons for any
  pass by two minutes, and a pass exceeds that by 300 ms for each action (`SumsWithin`).
- `FilterInv` says what a worker has found out about its event at each label (on the way
  through the rules: the raw values, the allowlist's verdict and that all rules so far
  match), that no two workers hold one event, and that stored variables are the redacted
  ones. `Verdicts` relates where the rules stop to the declarative `Verdict`. The proof
  needed one correction of the property: a redaction pattern may find something in the
  mask itself, so delivered values are outside `Secrets` except for the mask.
- `DropInv` is the count itself with `FilterInv`: the skipped events of a source are
  finitely many, and the one about to be counted is committed already.
- `RingInv` adds the types to `RingMatchesMap`. From it the map is full exactly when the
  slot about to be written is taken (`FullMap`, by the bijection from slots to patterns),
  so `compile` evicts the pattern it overwrites and no other (`InsertKeepsRing`), and the
  ring read from `next` on is the queue of `FifoCache` (`InsertIsPut`).
- `SumLemmas` shows that the library's sum over a finite set is a number, is 0 for the
  empty set, can be taken apart at any element and depends on the summands only. The
  provers cannot apply the library's induction theorems, so each induction is by least
  counterexample: a nonempty set of numbers has a smallest member, `LeastNumber`, from
  the library's fact that `<` is well founded on `Nat`.

### Only model-checked

Every invariant, action property and refinement that a run checks is stated by a theorem.
What is left to TLC is liveness (`EventuallySettled`, `DueIsTaken`, `WorkersLeave`,
`StopReturns`, `EventuallyServes`, `EventuallyOpens`): fairness and `ENABLED` are out of
the proof system's reach. The bounds of these runs therefore matter more than those of
the others.

## 5. Findings

`skipped` (documentation): `src/README.md:356` and `:707` say that the payload of a
skipped event is cleared after the terminal status is committed. The two are
separate statements and the second one's error is only logged. A crash between
them leaves a skipped event with its payload; the event is terminal, so neither a
worker nor startup recovery returns to it, and the payload stays until retention.

## 6. Not modelled

- Authentication: stateless checks of one request, whose verdict is a choice in
  `Intake`. `clientIP` and the trusted proxies: a choice of the limiter's key.
- YAML decoding, environment expansion, and those checks of `validate` that only look
  at the form of one field (names, CIDRs, secrets' lengths, heartbeat URLs).
- Text: templates and headers of requests, what scrubbing does inside a snapshot
  beyond the credentials it then holds, redaction of logs, the summary of the drop counters, gjson's path language,
  what a regular expression matches.
- Process groups and the output writer of the exec handler; file permissions of the
  database (`sqlite.go`).
- Metrics, health checks, listings and logs: they read state.
- A SQLite commit that fails after taking effect, disk corruption, two processes
  on one database (the deployment is single-instance).

## 7. State of the development

Done, in this order: the outbox with its runs and first theorems, the abstract
delivery guarantee, acceptance, rate limiter, pattern cache, heartbeat, snapshot
rewrite; the worker pool, migration, the queue's settings and the attempts at an
action, filtering over the shared cache, and the configuration of the limiters; then
the theorems of section 4, for every safety property of the runs.

What could follow:

1. A composition of `Outbox` and `Filter`, so that the exclusive hold on an event that
   `Filter` takes for granted is a consequence there too.
2. The shutdown of main as a whole, with the limits it puts on each part.
3. A model of texts, in which the values that a reference may bring back (`Embedded`) are
   computed and not given.
