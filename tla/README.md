# Axentra: a TLA+ verification project

Axentra answers journey searches over a train timetable. The timetable lives in
Postgres and is kept in memory; seat availability lives in Redis, is filled by
pollers and mirrored in memory; every search first runs in memory and then
confirms seats with Redis. This directory specifies the parts of that program
where state is shared, steps interleave and things fail.

## 1. Inventory

| component | state it keeps | operations | interacts with |
|---|---|---|---|
| circuit breaker (`internal/breaker/breaker.go`) | failure count, closed/open/half-open, `openedAt`, `probing` | `Allow`, `Success`, `Failure`, `State` | called by every search through `Validator` |
| seat validation (`internal/raptor/validator.go`, called by `internal/api/search.go`) | none of its own besides the breaker | `Validate` | breaker, Redis seat maps |
| seat store (Redis keys; `internal/seat/luagate.go`, `seat_gate.lua`, `seedSeats` in `internal/schedule/seeder.go`) | `seat:map`, `seat:hash`, `seat:ts` per trip, the capped stream `seat:dirty_stream` | gate script, seeding | written by pollers and the seeder, read by the syncer and `Validate` |
| seat syncer (`internal/seat/refresher.go`) | stream cursor, resync throttle, the published signal buffer | `ColdStart`, `RefreshLoop`, `resync` | Redis, published timetable, `state.SwapSignal` |
| seat signal buffer and readiness (`internal/state/signal.go`, `internal/api/health.go`) | live buffer pointer, counters, latches | `SwapSignal`, `MarkReady`, `degradation` | written by the syncer, read by searches and probes |
| seat polling (`internal/seat/zone.go`, `poller.go`, `provider.go`) | task queue, `poll_lock` keys | `classifyOnce`, `HandlePollTask` | task queue, provider, gate |
| timetable (`internal/schedule/watcher.go`, `loader.go`, `buffer.go`, `ingestion.go`) | published `RouteBuffer`, manifest hash, watermark | `IngestBatch`, `WatcherLoop`, `ReloadRouteArrays` | Postgres, searches, syncer, classifier |
| search engine (`internal/raptor/engine.go`, `ValidatePath` of `validator.go`) | per search: labels `tau`, journal, marks, the two snapshots | `RaptorSearch` | published timetable and signal buffer |
| migrations (`internal/migrate/migrate.go`) | the schema, `schema_migrations` | `Up` | Postgres, at boot, with other instances |
| process (`cmd/axentra/main.go`, `health.go`) | root context, goroutines, listener, workers, grace period, Postgres connections | boot and shutdown | everything |
| HTTP surface, configuration, data types, web page | none beyond the above | request handling | - |

How a change travels. A poll task of a trip fetches its seats from the provider
and runs the gate script, which stores the map if its hash is new and appends
an entry to the dirty stream. The syncer reads the stream, re-reads the maps
named in it and publishes a new signal buffer. Searches filter by that buffer
and then confirm with the maps themselves, through the breaker. Which trips
exist at all comes from Postgres: an ingest or the seeder writes it and raises
a watermark, the watcher sees the watermark and loads a new timetable, from
which the syncer, the classifier and the searches take their trips.

The behaviours that are hard to test, each at its line with the property that
watches it, are the `hazards` of `PROJECT.json`. A hazard without a property is one
that the code is exposed to and does nothing about, or whose case the runs leave
out: its note says which, and section 6 has what happens then.

What makes each component correct:

- breaker: it never refuses for ever, and never lets a backlog through;
- validation: what a strict search offers was confirmed in that search; every
  admission is given back to the breaker; every search ends;
- syncer: no change is lost between snapshot and stream, a trimmed stream is
  noticed and repaired, the buffer never shows what Redis never held;
- polling: the provider is not called too often, and every trip is polled again;
- timetable: memory catches up with Postgres whatever was notified; what it
  derives (order of trips, FIFO flags, closed footpaths) is what the search takes
  it to be;
- search engine: a journey it returns can be travelled, and the set it returns is
  the Pareto frontier of one timetable and one set of signals;
- migrations: nothing is recorded that was not applied;
- process: it answers searches only after migrations and load, tells load balancers
  the truth about the signals, stops whatever hangs, and stays drained.

## 2. Modules

| module | models | extends |
|---|---|---|
| `Breaker` | the breaker and its callers, with the age of every call | - |
| `SeatValidation` | `Validate` in every search, Redis changing and failing | `Breaker` |
| `SeatStore` | seat keys and dirty stream; gate and seeder | - |
| `SeatSync` | the syncer over the store | `SeatStore` |
| `SeatMirror` | abstract: what the buffer promises its readers | - |
| `ScheduleReload` | ingest, seeder, watcher, listener, reload | - |
| `SeatPolling` | classifier, queue, poll handler, several instances | - |
| `Timetable` | what a reload computes from the rows: routes, FIFO flags, footpaths | - |
| `Raptor` | one search over it, with the reference it is compared to | `Timetable` |
| `Migrate` | `Up` of several instances on one database | - |
| `Readiness` | `SwapSignal`'s stores and the readiness probe | - |
| `Lifecycle` | the process from boot to exit and again | `Migrate`, `Readiness` |
| `MC...` | the instances TLC checks | the module in the name |
| `...Proofs` | theorems and their proofs | the module in the name |

`LifecycleProofs` also has the theorems about `Migrate`, whose steps it needs;
`SeatValidationProofs` has those about `Breaker`. `RaptorProofs` extends
`TimetableProofs`, and `FrontierProofs`, about what `Raptor` finds, extends both.

Definitions with a suffix after an underscore (`Admits_NoProbeLimit`,
`LockAfterPoll_Deleted`, ...) stand before the definition they vary. They are
slips a programmer could make there; the specifications do not use them. Each
property fails when its variant takes the place of the definition, which shows
that the property depends on that piece of code.

### Breaker

`failures`, `state` and `probing` are the fields of the struct; `elapsed` is
`now - openedAt`, capped at the cooldown, from which on it makes no difference.
`call[c]` and `age[c]` are the admission caller `c` holds and for how long. The
mutex makes `Allow`, `Success` and `Failure` atomic, so each is one action.
Callers report in any order; a call lasts at most `CallTimeout` ticks, since the
request context and the Redis socket timeouts end it. Nothing in the
configuration relates `CallTimeout` and `CooldownSetting`: the run takes calls
that outlive the cooldown, one theorem says what holds when none does.

### SeatValidation

One `Validate` per caller, split where something else can come between: the
question to the breaker, every chunk of the MGET, and the report. A journey is
the set of the keys it needs; a key has enough seats, too few, or no usable
record. `SeatsChange`, `RedisFlips` and `CancelRequest` are the
environment. `witnessed` records which sets of keys had seats at one instant of
the call.

### SeatStore, SeatSync, SeatMirror

Stream ids are positions in the history `stream`; `trimmed` says how much of it
MAXLEN has removed (approximately: later than asked, never more). A seat map is
abstracted to the number of its writes, `version`, so that "the buffer is behind" can
be said; a signal is the version it was read from. The gate compares `seatHash`,
which the seeder leaves alone. Each Redis round trip of the syncer is an
action: `CaptureHead`, `FetchChunk`, `PublishSnapshot` for a cold start;
`ReadStream`, `LagCheck`, `FetchChunk`, `PublishDeltas` for a batch;
`StartResync` for a resync that the throttle allows. `ColdStartFails`,
`LagCheckFails`, `DeltasFail` are their error paths, `Restart` a crash. The
ghost `covered` has the trips the buffer speaks for: those it has read and
followed since. A lag check that fails and hides a lag takes them all away.

`SeatMirror` has no stream, cursor or batches: signals advance to values Redis
has held, scans begin, are abandoned or published, a crash empties the buffer.
`SeatSync!Mirror` instantiates it with the refinement mapping, and
`ImplementsMirror` is the implementation.

### ScheduleReload

The contents of Postgres are a version of the trips and a version of the direct
footpaths. `BeginIngest` takes `NOW()`, `CommitIngest` shows contents and
watermark together. The seeder's statements commit one by one. The reloading
goroutine is at `pc`: `"select"` in the watcher, `"trips"` and `"walks"` before
the two queries, `"publish"` before the manifest check. The program exits when
the load at boot fails and is started again. The ghost `missed` says that the
latest reload had a query that failed. Nothing in the repository sends
the notification the listener waits for, so `Notify` may happen at any time or
never.

### SeatPolling

`task[t]` is where the one task of trip `t` is in the queue, `wait[t]` the ticks
until it moves on. The queue is a library: `Forward`, `Take`, `Complete`, `Retry`,
`RemoveCompleted` and `Recover` say what the code relies on, that a task id
exists once in any state, kept for its retention when completed, and for as
long as anybody cares when archived. The handler's actions are `SkipUnknown`,
`TakeLock`, `SkipLocked`, `PollSucceeds`, `PollFails` and their error paths;
`Acknowledge` is separate from `PollSucceeds` because a worker can die between
the two. A lock may stay behind a failed attempt, since nobody looks at the
result of its `Del`, and SETNX may have set it although it returned an error. Departure times count down, so a trip changes zone while its task
waits. The ghost `polledAgo` measures the gap between two polls while the
workers keep up (`steady`).

### Timetable, Raptor

`Timetable` has no variables. `LoadRoutes` groups the joined rows into routes
(canonical stops of the first trip, trips with other stops dropped, sorted by
first departure and key), `ComputeFIFO` compares neighbours, `CloseFootpaths` is
the Dijkstra run from every station, popping the nearest of the queue, with the
walking cap and the quota. `NoOvertaking` and `ShortestWalk` are the definitions
they are checked against. Stations and ids are integers because orders matter.

`Raptor` is one search. `Search` takes the two snapshots; `ScanStop` and
`ScanTripStop` are one stop position of a route, for routes where trips do not
overtake and for routes where they do; `WalkFootpath` is one footpath; `EndScan`
and `NextRound` are what stands between the loops; `Cancel` is the check of the
context between rounds; `Finish` extracts, filters and cuts to `TopK`.
`tau[r][s]` and `journal[r][s]` are the code's maps of round `r`, `preWalk` what
`buildPath` falls back to when a walk has overwritten the leg a later walk left
from. The order of routes and footpaths is the code's, so the search itself is
deterministic; `SwapRoutes` and `SwapSignals` are the watcher and the syncer
publishing in between. `ReferenceFrontier` translates `refFrontier` and `refPareto`
of `reference_test.go`: levels of labels over all trips and positions, no queues,
marks, pruning or binary search. Like the code and its reference it keeps one
label per station and round; the transfer time is charged on boarding.

### Migrate

The database is the set of versions whose DDL is in effect and the set recorded.
Each statement outside a transaction is an action (`ReadApplied`, `Probe`,
`AdoptOne` per row), `ApplyOne` is one transaction, which fails when its DDL
cannot run or its row exists. Instances fail or die anywhere and boot again.

### Readiness, Lifecycle

`Readiness` has the four stores of `SwapSignal` and the loads of the probe as
separate steps, in any interleaving: nothing in the code keeps them apart. The
ghost `between` has the live buffer and, during a swap, the one it replaces;
`probe.seen` gathers what `between` had while the probe ran. `Lifecycle` composes it with `Migrate` and the rest of `run`:
`main` is the position of the main goroutine, `at[g]` of the four background
goroutines, `conns` the connections out of the pool. `CtxDone` is the root
context, done by a signal or by `stop()` after the select. Every call that takes
the context fails once it is done (`Failing`), and may fail by itself once per
fault. `grace` is the 20 seconds that bound the drain and the wait group. The
deferred closes run last, and closing the pool waits for its connections.
`workers` is asynq's server. Its `Run` waits for signals of its own (`told`) and then
calls `Shutdown` as run does; only the first call of `Shutdown` waits, and a task
that runs makes that `"draining"` until it ends or asynq's timeout has passed
(`WorkersDrained`).
`Gone` is the end of a process; the database stays and the next `Boot` follows.

## 3. Runs

Bounds are constants of the module, named in its `.cfg`, and appear in guards.

| run | expected | properties | shows |
|---|---|---|---|
| `validation_strict` | pass | `StrictOffersConfirmed`, `ConfirmedTogether` | A strict search only offers journeys whose legs were each seen with seats during that search, through chunked fetches, refusals and failures; one MGET for all keys confirms the legs at the same instant. |
| `validation_breaker` | pass | `ValidationTypeOK`, `HalfOpenAwaitsProbe`, `OpenCallsOlder`, `ProbesSpaced`, `FailuresBounded`, `AdmissionHeldWhileFetching`, `UsesBreaker`, `SearchesAnswered`, `BreakerRecovers` | Two searches share the breaker while Redis fails and recovers, with calls that outlive the cooldown, so late reports end other callers' probes: the breaker never gets stuck half-open and spaces its probes, every admission is reported once, every search ends, and the breaker recovers. |
| `sync` | pass | `TypeOK`, `NoDeltaLost`, `ResyncIsThrottled`, `CursorSkipsNothing`, `BufferConverges`, `LagIsRepaired`, `ImplementsMirror` | Pollers, a seeder and a stream that trims against the syncer, through a fault and a crash: what the buffer lacks is still to be read, the cursor passes no entry it has not applied, full scans keep their distance, lag leads to a new snapshot, and afterwards the buffer catches up with Redis and stays there; all of it implements SeatMirror. |
| `sync_failedresync` | violation | `LagIsRepaired` | A resync that fails after it moved the cursor is never retried: the cursor no longer looks lagged. |
| `reload` | pass | `TypeOK`, `StaleIsPending`, `CatchesUpOrMissed` | Ingests, a seeder, lost notifications, failed queries and a crash: whenever memory differs from Postgres, a reload that mends it is under way or called for, and in the end memory holds the timetable by the poll alone, unless a query of the very last reload failed. |
| `polling` | pass | `PollGapBounded`, `RateLimited`, `EveryTripPolled` | Two instances that fail and crash, and locks that stay behind because their release failed too: calls for a trip keep their interval, also when a finished task is done again; while workers keep up a poll comes within two intervals and a sweep, or one such round and the time to a retry later for every fault, and every trip is polled for ever. |
| `polling_archived` | violation | `EveryTripPolled` | An outage that uses up the retries archives the task, whose id then blocks every later poll of the trip. |
| `raptor_search` | pass | `TypeOK`, `LabelsJustified`, `OptimalWithoutTies`, `JourneysTravelable`, `FIFOMeansNoOvertaking`, `FootpathsClosed` | Searches over small timetables computed from their rows, with express and standing trips, walks, full trains and buffers swapped during the search: the journeys are those of the exhaustive reference wherever no two trips of a route leave a stop together, and a passenger can travel them. |
| `raptor_ties` | violation | `FrontierIsOptimal` | Two trips that leave a stop at one time without overtaking: the scan boards the first and never changes to the second, so the earliest arrival is missed. |
| `process` | pass | `LifecycleTypeOK`, `RecordedMeansApplied`, `RequestsFollowBoot`, `DrainedForGood`, `ProbeTellsTheTruth`, `StopsWhenTold`, `ReloadsGetConnection` | One process from boot to exit and again, through a fault or a crash: migrations, readiness with probes that overlap swaps, goroutines over a small connection pool, tasks and the shutdown order. Requests come only after migrations and load, a probe's answer is about buffers of its time, a drained server stays drained, and a signal always ends the process. |
| `process_workers` | violation | `WorkersStopFirst` | A signal makes asynq shut down by itself; the Shutdown of run then finds it closed and returns at once, and Redis is closed while a task is still running. |
| `migrate_replicas` | violation | `RecordedMeansApplied` | Two replicas boot on an empty database: one reads no rows before the other has applied anything and probes when stop_times is already there, so it records versions whose DDL has not run. |

A run that is expected to end in a violation states what the repository says of
the program; section 6 has the quotations.

Why the bounds are enough:

- *breaker and validation*: calls of up to 5 ticks outlive two cooldowns of 2,
  so in `validation_breaker` a report can come in during somebody else's probe
  and open or close the breaker under it; a threshold of 2 makes one failure
  less than enough. Two searches over one breaker are needed for one to meet the
  other's probe, and there one key suffices. In `validation_strict`, with three
  keys and MGETs of two, some searches need two MGETs, between which seats
  change, and some need one, which is what `ConfirmedTogether` speaks of;
  `MaxResults = 1` with two candidates reaches the early exit.
- *syncer*: two trips and chunks of one, so that a fetch is interrupted; a cap
  of one entry and batches of two, so that the stream is trimmed before, inside
  and after a batch. Three entries are enough for lag, also for a second one
  after a resync; a fault and a crash, for a boot that is tried again and one that
  gives up after a restart; pollers and seeder write in between.
- *timetable*: two ingesters and three transactions reach "changed again during
  the reload" and, with `Overlap = TRUE`, the watermark going backwards.
- *search*: four stations and three routes with one to three rows each, chosen
  from a stock so that trips overtake while riding, while standing or not at all,
  leave a stop together, run on the day before, the next day or too late, or stop
  elsewhere than the canonical trip; six tables of footpaths, with chains, a detour
  shorter than the direct walk, walks beyond the cap and a station with more than
  its quota; an empty timetable; trips without a signal, with seats, too few of
  them, or a stale signal; three rounds, the vehicles the longest journey uses;
  one swap. Every timetable is the result of `ReloadRouteArrays` on rows, so
  `Timetable` and the search are checked together.
- *process*: three migrations around the probed one; a first database that is
  empty, older, complete without bookkeeping, or up to date; one fault or crash
  anywhere, two connections in the pool (one for LISTEN and one to spare), two
  swaps of buffers that are mostly stale or empty, so that a probe can meet three
  buffers whose answers differ. `process_workers` has one swap. `migrate_replicas`
  has the repository's eight files and no fault.
- *polling*: one trip, as trips share nothing but the sweep, and two instances,
  so that both sweep it and a second can take over its task; two zones, so that
  a trip changes zone during a round, both with intervals longer than a lease and
  the delay of a retry: the lock of an attempt that died is then still there when
  its retry comes, in either zone, which is the longest gap. `MaxFaults` stays
  within `MaxRetry` in the run that passes and exceeds it in `polling_archived`.
  `Horizon` is above the largest gap `PollGapBounded` allows.

No run uses symmetry. `CHECK_DEADLOCK FALSE` stands where a search is
over, or the writers run out of their bounds and nothing is left to do.

## 4. Fairness

- `SeatValidation`: every search is carried on by its goroutine, an MGET returns
  or fails by its socket timeout, and the clock advances. Searches that need
  seats keep arriving, which is traffic rather than scheduling: without them
  nobody would notice that Redis is back. `BreakerRecovers` itself assumes that
  Redis stays up and requests are not cancelled from some point on.
- `SeatSync`: weak fairness of the syncer's goroutine as a whole, of time
  passing for the throttle, and of the rest of a pipeline that a seeder has
  already sent. None of the writers, faults or crashes.
- `ScheduleReload`: the reloading goroutine runs and its ticker fires. Nothing
  is assumed of notifications.
- `SeatPolling`: sweeps, the queue's own goroutines and the workers get their
  turn, and time goes on. Faults need not stop, they are bounded.

- `Lifecycle`: the main goroutine, the watcher, the listening goroutine and, taken
  together, the publisher, the goroutines that end with the context, the timer of
  the grace period and that of asynq (`WorkersDrained`) go on when they can. This is
  less than the scheduler gives. Nothing makes a request, a probe or a task end:
  the two timers have to do it. New signals, listeners and workers are not owed,
  nor that asynq acts on a signal.
- `Raptor` and `Migrate` have safety properties only.

## 5. Proofs

| theorem | of | assumptions beyond the module's |
|---|---|---|
| `SeatValidationProofs!TypeCorrect` | `TypeOK` | none |
| `SeatValidationProofs!HalfOpenNeverStuck` | `HalfOpenAwaitsProbe` | none |
| `SeatValidationProofs!ProbesAreSpaced` | `ProbesSpaced` | none |
| `SeatValidationProofs!OpenCallsPredateOpening` | `OpenCallsOlder` | none |
| `SeatValidationProofs!SingleProbeIfQuick` | `SingleProbe`, `OnlyProbeInFlight` | calls end within the cooldown |
| `SeatValidationProofs!FailuresAreBounded` | `FailuresBounded` | none |
| `SeatValidationProofs!ValidateUsesBreaker` | `UsesBreaker` | none |
| `SeatValidationProofs!BreakerServesSearches` | `HalfOpenAwaitsProbe`, `FailuresBounded` under `Validate` | none |
| `SeatValidationProofs!ValidationTypeCorrect` | `ValidationTypeOK` | none |
| `SeatValidationProofs!AdmissionsAreHeld` | `AdmissionHeldWhileFetching` | none |
| `SeatValidationProofs!StrictOffersAreConfirmed` | `StrictOffersConfirmed` | none |
| `SeatValidationProofs!OneChunkConfirmsTogether` | `ConfirmedTogether` | none |
| `SeatSyncProofs!TypeCorrect` | `TypeOK` | none |
| `SeatSyncProofs!NothingLost` | `NoDeltaLost` | stream not empty at boot, no failed resync |
| `SeatSyncProofs!NothingSkipped` | `CursorSkipsNothing` | the same |
| `SeatSyncProofs!ResyncsAreThrottled` | `ResyncIsThrottled` | none |
| `SeatSyncProofs!BufferMirrorsRedis` | `ImplementsMirror` | none |
| `ScheduleReloadProofs!TypeCorrect` | `TypeOK` | none |
| `ScheduleReloadProofs!NoChangeMissed` | `StaleIsPending` | writers do not overlap |
| `SeatPollingProofs!TypeCorrect` | `TypeOK` | none |
| `SeatPollingProofs!CallsAreSpaced` | `RateLimited` | none |
| `SeatPollingProofs!GapsAreBounded` | `PollGapBounded` | intervals ascend with the time to departure; no task runs out of retries |
| `RaptorProofs!SearchTypes` | `TypeOK` of `Raptor` | none |
| `RaptorProofs!EveryLabelEarned` | `LabelsJustified` | none |
| `RaptorProofs!AnswersAreTravelable` | `JourneysTravelable` | none |
| `FrontierProofs!SearchIsOptimal` | `OptimalWithoutTies` | timetables are results of `ReloadRouteArrays`, in which no vehicle arrives before it left (`ReloadedForward`) |
| `FrontierProofs!RoundsAreLevels` | the destination's arrival after round `r` is that of the reference's level `r` | the same |
| `FrontierProofs!UsefulRoundsBecomeJourneys` | each round that improves it becomes a journey that `ValidatePath` accepts | the same |
| `RaptorProofs!FIFOIsNoOvertaking` | `FIFOMeansNoOvertaking` | timetables are results of `ReloadRouteArrays` |
| `RaptorProofs!FootpathsAreClosed` | `FootpathsClosed` | the same, from rows that go from station to station |
| `TimetableProofs!ReloadsAreWellFormed` | `WellFormed` of what `ReloadRouteArrays` returns | the rows have the key of their table (trip id, date) and stop somewhere (`RowsOK`), footpaths join stations |
| `LifecycleProofs!UpgradesRecordWhatTheyApply` | `RecordedMeansApplied` | every database found has bookkeeping that is true |
| `LifecycleProofs!OneInstanceRecordsWhatIsThere` | `RecordedMeansApplied` | one instance; trusted databases (below) |
| `LifecycleProofs!UpCompletesTheSchema` | `Up` returns success only over the complete schema | the same |
| `LifecycleProofs!RestartsRecordWhatIsThere` | `RecordedMeansApplied` in the process, through crashes | trusted databases |
| `LifecycleProofs!LifecycleTypeCorrect` | `LifecycleTypeOK` | none |
| `LifecycleProofs!ProbesTellTheTruth` | `ProbeTellsTheTruth` | none |
| `LifecycleProofs!RequestsAlwaysFollowBoot` | `RequestsFollowBoot` | trusted databases |
| `LifecycleProofs!DrainIsForGood` | `DrainedForGood` | none |
| `LifecycleProofs!PoolIsFullAgain` | no connection is out once all goroutines have ended | none |

All hold for every value of the constants, "none" meaning no more than the
`ASSUME` of the modules. Where a theorem has assumptions, section 6 says what
happens without them. A database is trusted (`Trusted`) if what it records is
there and, when it records nothing, it is complete or lacks `stop_times`.

- *Breaker.* `ProbesSpaced` is not inductive: that a second probe comes a
  cooldown later needs that whatever is in flight while the breaker is open is
  older than the failure the cooldown counts from (`OpenCallsOlder`), and that
  in the half-open state everything else is a cooldown older than the probe
  (`HalfOpenAwaitsProbe`). The invariant `ProbeInv` is the conjunction.
  `FailuresBounded` counts what is in flight: a failure beyond
  the threshold spends a call that was admitted before, and while half-open the probe
  is among the calls in flight (`CounterInv`).
- *Validation.* Every step of a search is one of `Breaker` or leaves its variables
  alone (`ValidateUsesBreaker`), so what is proved of the breaker holds of the
  searches' breaker (`BreakerServesSearches`). `SearchInv` says of each search that
  it has seen what it has fetched, and all of it at one instant when there is one
  chunk, that what it answered was seen, and that it holds an admission just while it
  fetches. The loop that keeps the confirmed candidates is a recursive
  function; its lemmas follow the turns of the loop.
- *Syncer.* `NoDeltaLost` speaks of the published buffer. Between reading a map
  and publishing it the same must hold of the staging buffer: `SnapshotInv` (what
  a scan has read is current or announced after the cursor) and `DeltasInv` (the
  same after the end of the batch). `BatchInv` says that a batch has every entry
  up to its last one; it holds because a cursor beyond what is trimmed was
  checked, or the buffer speaks for no trip since the check failed. `CoverInv` is why a
  cursor of `"0"` does no harm when the stream had entries at boot. For the types,
  `AttemptInv` bounds the attempts at boot by where the syncer is; `ThrottleInv` says
  that a scan begun within the interval throttles the next one or is the resync in
  progress. `MirrorInv` is what the refinement needs: the buffer is not ahead of
  Redis, and what is staged lies between the two. With it each action maps to a step of
  `SeatMirror` or a stutter, one proof step per action.
- *Timetable.* `Current` strengthens `StaleIsPending`: while a reload is running,
  what counts is what it has read so far, not what happens to be published; a
  failed query is forgiven until the next reload begins to read.
  `WatermarkGrows` (the open transaction has a `NOW()` beyond the watermark) is
  what fails when transactions overlap.
- *Polling.* Until a call has kept its interval, the lock lasts for what is left
  of it (`LockInv`). That every interval is one of the table needs the existence
  of a first matching zone, from the well-foundedness of the numbers. The bound on the gap is the
  argument of a potential. `GapOK` says for each place of the task in the queue how
  many ticks may still pass until the poll, the worst being an attempt that meets a
  lock: its task is retained, the trip swept, the next task delayed. A tick adds
  one to the gap and takes one off that; a fault adds at most `FaultDelay` and a
  `Round`, as much as the bound grows by. Two invariants carry it: `CadenceInv`, that
  intervals and locks are within the retention the task was enqueued with (trips
  only become more urgent, so this needs ascending intervals), and `RetriesInv`,
  that each retry is owed to a fault, so none is archived. The round
  per fault is needed: with less, a crash whose retry meets the lock exceeds the
  bound, provided that an interval is longer than a lease and a retry's delay
  together, as those of the run are.
- *What a reload computes* (`TimetableProofs`). computeFIFO looks at neighbours;
  `Chain` extends that to all pairs. For closeFootpaths, `SettledOK` is the invariant of
  the queue (what is settled is nearer than what is not, and relaxed), so that at the
  end nothing can be shortened; from below, a distance after `n` turns is a walk of at
  most `n` hops; together they make it the shortest. `FirstFew` counts that of a strict
  order just the first `MaxFootpathsPerStation` survive the quota. It rests on `RanksCount`: the
  ranks in a finite strict order count it without gaps; `OrderExists` has from it
  that rows can be sorted, so that the trips of a route are those of the rows
  which stop where its first one does (`RouteIsWellFormed`). The loops are
  recursive functions; that they exist and what they carry is proved by minimal
  counterexample (`Induct`, `LoopRuns`) instead of the library's induction theorems.
- *Search.* `LabelsJustified` says of finished labels what the loops must know of
  unfinished ones: the trip being ridden was boarded at a station with a label of
  the round before, at or after `ReadyAt` (`ScanInv`), and a walk still to be made
  leaves at or after the label of this round (`WalkInv`). Labels of the current
  round only improve while those of earlier rounds stay (`LabelsImprove`); that
  keeps old legs justified when the label they start from is overwritten, because
  a walk may leave later than its label but never earlier. `CurrentInv` (`best` is
  the current round) is why a walk back to its own start never improves it.
- *Journeys.* `JourneysTravelable` is about what backtracking builds from the
  journal. `TraceInv` says of every entry where it comes from: a real ride, or a walk
  from the origin or from a vehicle that had arrived, whose entry `preWalk` keeps;
  `MadeInv` is the same of what a round is about to write. `BackOK`, the invariant of the
  backtracking loop, says that the legs so far join and that the first of them can
  be reached from the entry to be read next.
- *Frontier* (`FrontierProofs`). Both directions of `OptimalWithoutTies` come from
  one relation between round `r` and level `r` of the reference. A search has
  finer labels than a level needs (it improves them within a round) and coarser
  ones (it prunes by the destination), so the two are not equal: they agree on
  what is earlier than the arrival at the destination (`Agree`). `FrontierInv` says
  what each round has covered: a ride that a label of the round before allows
  reaches no station earlier than its label or the destination's (`RidesInv`), and
  neither does a walk from where a vehicle arrived (`WalksInv`). Within a scan,
  `PendingInv` says which rides are still to come and `AboardInv` that the scan sits
  in a trip at least as early as any it could have boarded, which is where ties
  are excluded. Marks are sound by `NewsInv`: a label that a round only carries over
  is that of the round in which it was new, and was covered then. `StepAgrees` then
  takes agreement from one level to the next (`RoundsAreLevels` is the result at
  the destination); that the reference's levels exist and are unique, a
  recursive function again, is `LevelsExist` and `LevelsAreUnique`. `BacktrackFinds` follows
  buildPath from a label that is news to the origin, one vehicle less per round,
  and `ExtractUseful` has that the filters keep what the reference's keep. TLC
  checked `FrontierInv` on the instance of `raptor_search` first.
- *Migrations.* The run `migrate_replicas` shows a race; the theorems delimit it.
  With any bookkeeping at the start adoption never begins (`UpgradeInv`); with one
  instance the probe's answer cannot be out of date (`AdoptionInv`). The process
  inherits both: a step of it is a step of its migrations or leaves them alone.
- *Process.* `BetweenInv` says that each counter, and a closed latch, is that of the
  live buffer or of the one being replaced, wherever the swap is; `HistoryInv`, that
  a probe has seen every buffer whose counter it has loaded or may load next. An
  answer is then about buffers it has seen, one and the same if no swap overlaps
  it. `ServingInv` says that the gate opens only after migrations and the load at
  boot; `ShutdownInv`, that a drained server has no request left; `PoolInv`, that
  the connections out of the pool are those of the goroutines that hold one.

Only model-checked:

- all liveness (`BreakerRecovers`, `SearchesAnswered`, `BufferConverges`,
  `LagIsRepaired`, `CatchesUpOrMissed`, `EveryTripPolled`, `StopsWhenTold`,
  `ReloadsGetConnection`): it rests on fairness, which is outside the prover.

Every safety invariant of a passing run is stated by a theorem.

## 6. Findings

Found by the runs that end in a violation:

- `internal/seat/refresher.go:121` (`sync_failedresync`): ColdStart moves the cursor to the stream head before the snapshot it may then fail to take. After a failed resync the cursor no longer precedes the oldest entry, so lag is not detected again and the trimmed changes stay missing, while refresher.go:321-322 says the failed attempt is "retried on the throttle".
- `internal/seat/zone.go:119` (`polling_archived`): A poll that fails MaxRetry + 1 times is archived by the queue and keeps its task id; every later enqueue of the trip is a conflict and the trip is not polled any more. zone.go:120-121 says "A TaskID conflict means the poll is already scheduled — expected and harmless".
- `internal/raptor/engine.go:421` (`raptor_ties`): When two trips of a FIFO route leave a stop at one time, the scan that rides one never boards the other (d[pos] >= mustBeat ends the search), and earliestTrip takes the first of them although the second may be the one that arrives earlier or may be boarded further back. So engine.go:116, "The returned set is a true Pareto frontier", fails, and so does buffer.go:263-264: "Checking arrivals too is what makes "board the earliest departure" safe".
- `internal/migrate/migrate.go:65` (`migrate_replicas`): The rows are read, the schema is probed and the migrations are adopted without a lock. A replica that reads no rows before the other has committed anything, and probes after the other has created stop_times, records every version, also those whose DDL nobody has run yet; the other then fails on their rows. migrate/integration_test.go:90-91 says AUTO_MIGRATE "is safe on every boot and on every replica starting at once".
- `cmd/axentra/main.go:223` (`process_workers`): asynqServer.Run waits for SIGINT and SIGTERM itself and calls Shutdown, which closes the server before it waits for running tasks. When the HTTP server has drained, the Shutdown of run finds it closed and returns at once, "asynq workers stopped" is logged, and the deferred Close of Redis (main.go:91) runs under a task that has used up no timeout. README.md:485-486 says "in-flight requests finish, then the workers stop, then the pools close".

Further divergences met while modelling; where a constant is named, the model has
them one constant away from a run that passes:

- `ReloadMayFail`: `reload` keeps the new watermark (watcher.go:59) before it calls
  `ReloadRouteArrays` and only logs its error. The next poll finds nothing newer,
  so the change stays out of memory until somebody writes the timetable again,
  while watcher.go:13 says of the poll that it "exists so a silent LISTEN channel
  cannot leave the buffer stale forever". `CatchesUpOrMissed` therefore lets the
  ghost `missed` excuse memory for the query that failed last.
- `Overlap = TRUE` breaks `CatchesUpOrMissed`: the watermark is `NOW()`, the start of
  the transaction (ingestion.go:112). An ingest that starts first and commits
  last moves `updated_at` backwards and its trips are not loaded, although
  ingestion.go:111 says the bump is there "to trigger watcher reload".
- A trip is polled every second interval: zone.go:28 and the README's table say
  every interval, but a finished task keeps its id for an interval (`Retention`)
  and the next one only runs an interval after it is enqueued (`ProcessIn`,
  zone.go:113). `PollGapBounded` has the bound that does hold. An attempt that
  dies after it took the lock costs a whole round more, since its retry finds the
  lock, skips, and counts as done.
- `MaxConns = 1` breaks `ReloadsGetConnection`: config.go:161 says Validate "rejects
  configurations that cannot work", and accepts `PG_MAX_CONNS=1` (config.go:169),
  but the LISTEN of watcher.go:88 keeps the only connection and every reload
  waits for it.
- `StaleFraction` is "in [0,1]" (signal.go:100), but SwapSignal stores the two counters
  one after the other (signal.go:59-60) and nothing keeps a reader out. One that
  loads the size of one buffer and the stale signals of the next gets a share of
  neither, and more than 1 when the next has more stale signals than the first
  had signals. `Readiness` has these probes; `ProbeTellsTheTruth` says what is still
  true of their answers.
- The latch behind "no seat data" never closes again (signal.go:67-70): when a later
  buffer is empty, the probe says "ready".
- Staleness is decided when a signal is fetched (refresher.go:399) and kept with
  it. A signal that nobody re-reads stays fresh however old it becomes; polls that
  find nothing new refresh `seat:ts` without an entry in the stream, so a stale
  mark is not lifted either. No promise in the repository says otherwise, and no
  property covers it.
- A crash in the middle of an adoption leaves rows 1..j. The next boot has
  bookkeeping, applies j+1 and fails on "already exists" at every boot. A database
  that golang-migrate left at an intermediate version, stop_times included, is
  recorded as complete (migrate.go:65). Both are states of `Migrate`; the second
  breaks `RecordedMeansApplied` when `Databases` has it.
- Two instances that create `schema_migrations` at once may fail on it
  (`CREATE TABLE IF NOT EXISTS` is not atomic with itself); the process exits and
  boots again.
- A listener or worker pool that comes up only after its `Shutdown` was called is not
  stopped by it: what README.md:485-486 has in order then goes on until the
  process is gone. `DrainedForGood` holds all the same, since the gate is closed.
- middleware.go:9-11 says of the gate that "no query ever runs against an empty route
  or seat buffer". A timetable without trips is only warned of (main.go:115-119), a
  cold start that failed is logged (main.go:129-135), and in both cases the gate
  opens. `RequestsFollowBoot` therefore only speaks of the order of the boot.
- parseSearch accepts `min_transfer=0`, and `TransferBuffer` (types.go:122) turns 0
  into the default.
- `CallTimeout` at least `CooldownSetting` breaks `SingleProbe`: breaker.go:61-63
  says an open breaker "admits exactly one probe. Further calls are refused until
  that probe reports back", but `Failure` (breaker.go:99) does not ask whether it
  is the probe that reports. A late failure of a call admitted while the breaker
  was closed re-opens it during the probe, and a cooldown later a second probe
  starts beside the first. The default request timeout (10 s) is below the
  default cooldown (15 s); nothing in config.go relates the two.
- `lagged` takes an error of its XRANGE (refresher.go:331) for "not lagged", and
  the cursor moves past trimmed entries for good, against refresher.go:241-242.
  `LagCheckFails` therefore empties `covered`; without that, `NoDeltaLost` and
  `CursorSkipsNothing` fail.
- `OldEntries = <<>>` breaks them: a cold start on an empty stream
  leaves the cursor at "0", which the lag check exempts (refresher.go:335).
- `WalksMayFail`: when the footpath query fails (loader.go:193) the timetable is
  published without walks, its hash is kept and nothing loads them until the
  timetable changes; `missed` is what `CatchesUpOrMissed` allows for it.
- poller.go:66 says "Release the lock so the retry is not blocked by our own lease",
  but the result of `Del` is ignored; if Redis does not take it, or if a SETNX that
  returned an error has set the key, the retry is skipped and counts as done.
  `SeatPolling` has both cases, and `PollGapBounded` what they cost.
- luagate.go:29-30 says the gate returns "0 when it was identical", but `seedSeats`
  (seeder.go:243) writes `seat:map` without `seat:hash`, so a poll equal to the old
  hash is discarded and the seeded map stays.
- zone.go:62-64 says the first sweep is immediate because waiting "left the whole
  fleet unpolled for minutes after every boot". It enqueues with
  `ProcessIn(zone.Interval)` (zone.go:113), so the first polls still come an
  interval after the boot; `FirstDelay` of `SeatPolling` is where the model has it.

- `ReloadedForward` asks more of a timetable than the gate in front of the database
  does. `ValidateBatch` (ingestion.go:23-57) wants each stop's arrival to be
  non-negative and no later than its departure, and departures to ascend, but
  never compares an arrival with the departure before it; no constraint of the
  schema does either. A search takes such a trip for a fast one and labels
  stations with its arrival, `ValidatePath` then drops the journey, and later
  ones that were pruned by the label are lost: with such trips in its instance,
  TLC finds `OptimalWithoutTies` violated. The tests of the repository only look
  at the trip itself, which is never returned.

## 7. Abstractions, and what is not modelled

- Seat counts, classes and passenger numbers: a key has enough seats or not. The
  canonical hash of a seat map is taken to be free of collisions.
- Signals carry no age: the mark is one of the values of a signal in `Raptor`, the
  share of marks a number in `Readiness`; when it is set is described in section 6.
- `ScheduleReload` has versions of the timetable where `Timetable` has its contents;
  a version stands for what a reload derives from the rows at that time.
- What an ingest validates (`ValidateBatch`) and the rows the seeder invents are not
  modelled: an ingest is one that was accepted.
- A reload's footpaths are either all there or not.
- In `Raptor` times are small numbers without days, and a trip key is an id and a
  date; formatting, the wording of legs and seat counts in results are left out.
- In `Lifecycle` one API request, one probe and one task stand for all of them, and
  a second instance is only in `Migrate`.
- Queue internals, Redis and Postgres are modelled by what the code relies on.
- HTTP parsing, rate limiting by a library, JSON rendering, configuration, data
  types and the web page have no state beyond what is modelled.

## 8. Plan

1. `ValidateBatch` as an operator with what it promises the loader: that a batch it
   accepts is loaded into rows that `RowsOK` describes, and what is missing for
   `TravelsForward`.
2. `SearchIsOptimal` with ties: what exactly is lost where two trips leave a stop
   together, instead of excluding the route.
