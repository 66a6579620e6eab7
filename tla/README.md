# A TLA+ model of the Hyperliquid candle collector

The repository collects closed one-minute candles of Hyperliquid perpetuals into
one ClickHouse table, for ever.  It keeps no progress of its own: every cycle
derives what is missing from `max(open_time)` per symbol and from a gap query on
the rows.  That makes one question the heart of the system: *can a candle that
should be in the table be hidden for good behind the newest one?*  The answer
depends on the order of steps of the cycle, of a second process, of the exchange
and of the database, and that is what the modules here model.

Source paths below are relative to `src/hyperliquid_candles/`.

## 1. The system

| Component | State | Operations | Interacts with |
|---|---|---|---|
| Ingestion cycle (`app.py`) | locals of `_run_cycle_phases` | new symbols, stored symbols, gap repair, summary row | all below |
| Windows and gaps (`ingestion/`) | none | last closed minute, horizon floor, start of a window, gap query | table, clock |
| Window fetch (`ingestion/fetch.py`, `hyperliquid/client.py`, `candles.py`) | page cursor, rows | page backward, validate, dedupe | exchange, rate limiter |
| Candle table (`storage/writer.py`, `watermarks.py`, `schema.py`) | `candles_1m` (ReplacingMergeTree) | insert in chunks, `max(open_time)` | every process with the database |
| Run metadata (`storage/runs.py`) | `ingestion_runs`, `ingestion_symbol_status` | insert rows, best effort | table readers, health checks |
| Universe (`hyperliquid/universe.py`) | none | select active or allowlisted symbols | `meta` of the exchange |
| Service loop (`app.py`, `scheduler.py`) | `stop_requested`, the sleep | start, cycle, sleep, stop | signals, all below |
| ClickHouse readiness (`storage/clickhouse_client.py`) | the client, the delay | connect, probe, classify, back off | service loop |
| REST retry and rate limit (`client.py`, `ratelimit.py`) | tokens, attempts | reserve weight, send, retry | exchange |
| Log folder (`logging_setup.py`) | files of the last runs | prune, choose a name | other processes |
| Notifications (`notifications.py`) | queue, cooldowns, worker | queue, deliver, flush | log records |
| Quality report (`quality/checks.py`), configuration (`config.py`), deployment | - | read-only queries; parsing | - |

What is hard about it:

- *Concurrency.* `hyperliquid-candles-run-once` may run beside the service on the
  same database and folder; nothing keeps them apart.  The exchange moves on
  between any two statements of a cycle, and an insert whose client has given up
  may be completed by the server later.
- *Failure.* Each request, insert and query may fail; a failure of one symbol is
  isolated, one of the gap query only logged, any other ends the cycle.  The
  process may be killed at any point.
- *Order.* An insert is cut into chunks; the exchange may write a candle after
  newer ones; the endpoint serves a sliding window and also the forming candle.
- *Time.* The watermark is read before the clock; the gap list and the end of the
  windows grow stale while the cycle runs.

`PROJECT.json` lists these places under `hazards`, each with its line and the
properties about it.

What makes each component correct: the table has no hole behind its watermark
and only closed candles; a `success` row means a complete range; the counts of a
row agree with its status rows, and each configured symbol has one outcome; after an outage everything still served
is stored; a stop request ends the service and nothing else does; the exchange
sees a paced stream of requests; the log folder stays bounded and keeps the
newest runs.

## 2. The modules

| Module | Models | How it corresponds |
|---|---|---|
| `Exchange` | the outside world of a cycle, from its use in the code | clock in minutes, publication time of each candle, listing; `Exposed` is what `candleSnapshot` may return |
| `Ingestion` | `run_ingestion_cycle` and all it calls, on `Exchange` | `pc[p]` is the place of process `p` in the cycle; one action per request, query or insert |
| `IngestionInv` | - | the inductive invariant of the proofs |
| `IngestionProofs` | - | theorems about `Ingestion` |
| `MCIngestion` | - | symmetry and constraints for TLC |
| `Archive` | - | what the collector promises about its table, as a specification of three actions |
| `ArchiveProofs` | - | `Ingestion` implements `Archive` |
| `CycleLedger` | the counters, status rows and run rows of a cycle (`app.py`, `storage/runs.py`) | extends `Ingestion`: each action is one of its actions with what that step reports |
| `CycleProofs` | - | theorems about what a cycle reports: `SuccessIsComplete` and the ledger |
| `FiniteFacts` | - | lemmas on finite sets and sums over them, for the proof modules |
| `MCLedger` | - | constraints for TLC |
| `CandleFetch` | one symbol's windows, requests and rows in milliseconds, and the revision `FINAL` shows | `pc[w]` is where writer `w` is in `_fetch_store_status` |
| `CandleFetchProofs` | - | theorems about `CandleFetch` |
| `RateLimit` | `TokenBucket` and `_post_info_with_retry` | one action per turn of `wait_for`, send, answer, retry |
| `RateLimitProofs` | - | theorems about `RateLimit` |
| `Service` | `main`, `run_scheduler`, `run_once`, `wait_for_clickhouse` | one action per statement that can fail or block |
| `Notifier` | `notifications.py` and the messages of `main` | extends `Service`: the main thread takes `Service`'s steps and logs, the worker delivers, time passes |
| `NotifierProofs` | - | theorems about `Service` and `Notifier` |
| `LogRuns` | `setup_logging`'s pruning and naming | listing, each deletion, the choice of a name and the opening are separate steps, of several processes |
| `LogRunsProofs` | - | theorems about `LogRuns` |

An operator whose comment starts with *Variant* is the form a plausible bug would
give to the definition after it; the specifications do not use it.

**Ingestion in detail.**  Data is abstracted to what the properties tell apart: a
candle is its minute, the table a set of minutes per symbol (that is what
`FINAL` reads; an insert is a union because `(symbol, open_time)` is the key), a
status row its status and counts.  Control is kept: `FetchMeta`,
`ReadWatermarks`, `ReadClock`, then `BeginWindow` for the new symbols and after
them for the stored ones, `ScanGaps` or `ScanGapsFails`, `BeginGap` for each
tracked gap, `WriteSummary`.  A window is `FetchPage` until `FetchEnds`, then
`InsertChunk` until `InsertEnds`; `FetchFails` and `InsertFails` drop what is
left, as the `except` of `_fetch_store_status` does.  Symbols within a phase, and
gaps, are taken in any order, which includes the order of the code.  `FetchPage`
lets the endpoint cut a page anywhere at its old end.  `Crash` may hit
anywhere; an insert given up may stay in `inFlight` and be completed at any later
time.  The table is partitioned by month (`schema.py:85`), so a chunk over a change of
month is two parts in the server: `StorePart` stores the older part of a chunk, in hand
or given up, before the rest.  `CycleFails` is an error outside the per-symbol handlers; writing a
metadata row may silently fail.

Not in this model: several cycles of one process differ from a restart only by
local variables, so a collector simply starts again; the sleep between cycles is
unspecified time.

**Archive in detail.**  `Archive` knows a clock, the minute in which each candle
appeared, and what is kept.  `Keep` is the promise: whatever enters has appeared,
and brings along every candle owed at it that is not there yet.  `IngestionInv`
maps `now`, `publishedAt` and `stored` to these three.

**CycleLedger in detail.**  `inserted`, `batch` and `statuses` are the variables of
the code, the list of status rows grouped by symbol; `sent` counts what really
reached the table.  `account` holds what the database has of the newest cycle of
each process.  `FileStatuses` and `FileSummary` may each silently fail; a crash
between them leaves status rows without a run row.  The `skipped` rows are made
when the clock is read, as in the code.

**CandleFetch in detail.**  A candle is a revision number, its values left out.
`ReadWatermark` and `Plan` are the query of the watermark and the reading of the clock
after it (`app.py:181-182`); a window whose start lies ahead ends there (`PlanEmpty`).
`Request` sends one request, if `candle_request_weight` does not refuse its bounds;
the page is what the exchange holds, cut anywhere at its old end, or, while the
endpoint misbehaves, a row from outside the bounds or between two minutes.
`Receive` is `parse_candle`, the checks of `fetch_candles`, the later row replacing
the earlier one, and the cursor.  The request that returns the empty page counts as
well (`FetchEnds`).  `Insert` overwrites: `inserted_at` is the
server's clock at the insert, and `FINAL` shows the newest.  Chunks are left to
`Ingestion`.

**Notifier in detail.**  A tick is a stretch of time.  An alert is its severity;
the two messages of `main` have names of their own.  `Emit` starts the cooldown
before it queues, as the code does.  The worker takes a message at once when it is
free, and a delivery lasts at most `DeliveryTicks`.  `Running` ends with the process,
which kills the daemon thread; only the fatal exit of `main` flushes first.

**Service in detail.**  `connected` is the client of this turn, `leaked` the
clients nobody closes.  A server that is `down` gives an error that is either on
the list of `_looks_like_dependency_not_ready` or not; `denied` is a missing
grant, which can surface at the connection, the probe or the schema.  A denied `CREATE
DATABASE` alone is passed over (`schema.py:33-44`), so `CreateSchema` may also succeed
with a grant missing.

**LogRuns in detail.**  `ListOldRuns` reads the folder, `DeleteOldRun` deletes one run of
what it has found, the oldest first, and `PruningEnds` when none is left; the up to twelve
files of one run go together.  A process may be killed at any stage (`Exit`).

**RateLimit in detail.**  A tick is the time in which the bucket gains
`RefillRate` tokens, so all numbers are integers; the code's floats may make it
sleep once more by rounding.  An observer may start to count at any moment
(`Mark`), so the history variables speak about any stretch of time.  A request
that reaches the exchange does so before the client gives the attempt up.

## 3. What TLC checks

| Run | Question | Instance and bounds |
|---|---|---|
| `ingestion_two` | `HoleFree`, `ClosedOnly`, `SuccessIsComplete` and the inductive invariant, with every failure | 2 collectors (symmetric), side by side for 4 minutes and in turns for 2 more, endpoint of 4 candles, horizon 5, overlap 1, chunks of 2 rows stored whole or in parts, 1 late insert |
| `ingestion_universe` | `TypeOK`, `OneOutcomeEach`, `SymbolsAgree`, `CandlesAgree`, `ReportsWhatIsStored` while coins come and go | 2 symbols of an allowlist, one of them traded, chunks of 1 row |
| `ingestion_live` | `EventuallyComplete`, `ImplementsArchive` | 1 collector, 5 minutes, endpoint of 4 candles, fairness |
| `ingestion_straddle` | finding: `InsideHorizonIsRepaired` | 6 minutes, horizon 4, overlap 1 |
| `candle_fetch` | `OnlyAskedCandles`, `RequestsBounded`, `NewSymbolIsStored`, `EventuallyCurrent`, types | 2 writers, candles of 2 ms, 3 of them, 2 revisions, starts unset, unaligned or ahead |
| `rate_limit` | `TypeOK`, `RequestsPaced`, `SleepSuffices` | 2 attempts, weights 3 to 5, bucket of 6 |
| `rate_limit_burst` | finding: `NeverBursts` | the same |
| `service` | `NoCycleAfterStop`, `StopIsHonoured`, `CollectionResumes`, and of the alerts `SilenceIsEarned`, `FlushedUnlessLate`, `MessagesLeave`, types | sleep of 3 slices, delays 2, 4, 5; queue of 3, cooldown 5, delivery 1, wait 2 |
| `service_leak` | finding: `ClientsAreClosed` | delays 2, 4, 5 |
| `service_denied` | finding: `DeniedIsFatal` | the same |
| `log_runs` | `FolderBounded`, `NewestStay` | 2 processes, 5 runs kept, 2 starts a day, 4 days |
| `log_runs_busy_day` | finding: `NewestStay` | 5 starts in a day, 3 runs kept |

*Bounds.*  `MaxMinute` ends the clock.  In four minutes two processes plan with different
watermarks and ends, a window has more rows than a chunk, and what one has abandoned is
completed between any two steps of the other (`ingestion_two`).  Five are the fewest in
which a candle appears after the overlap has passed it, the gap query finds it between
two rows inside the horizon, and it is still served (`ingestion_live`: with the variant
`WideGaps` such a candle stays out for ever).  Six are the fewest in which that candle is
visible before the cycle's last minute and outside its window, so that a `success` which
has not repaired it is wrong; `ingestion_two` goes that far, and in its last minute the
endpoint no longer serves the oldest candle.
`MaxLateness` lets a candle appear within the overlap and just after it.
`MaxInFlight` bounds the late inserts at one time; the theorems cover any number of them
and of collectors, and any horizon.
`OverlapCandles` is positive because `config.py` requires it.

In `candle_fetch`, `MaxMs` ends the clock after three candles of `Interval` = 2 ms, so
that the horizon of two moves on once and an open time may fall between two
minutes; `MaxRevision` of two is one change of a candle.

In `service`, the queue of three is the smallest for which the properties hold, the
code has eight; a cooldown longer than it takes to deliver three messages, and a
wait longer than one delivery but not than three, are what the constants of
`notifications.py` amount to.  `MaxLeaked` is where leaked clients stop being counted.

`MaxClock` covers two minutes of the bucket.  `MaxDay` and `MaxStartsPerDay` let
pruning reach across days.  `log_runs` keeps more runs than start on two days, the
hypothesis of `QuietDaysKeepTheNewest`; "fewer starts a day than runs kept" is not
enough: with four kept and three starts a day TLC finds two processes that take the
same name, one of which opens it only after midnight, when the other's run of that name
has already been pruned.

*Constraints.*  `OutagesLast` keeps the safety runs unsettled: being settled only
disables actions, so nothing is lost.  `AlwaysListed` leaves listing changes to
`ingestion_universe`.  Three constraints keep
`ingestion_two` within reach: at most one candle does not appear at once (`FewLate`);
the collectors work side by side up to minute `LastShared`, in that minute only while no
candle is late, and in turns after that (`TakeTurns`); symbols fail and abandoned
inserts are completed before minute `LastShared`, while crashes and failed gap queries
go on (`FailEarly`).  In `ingestion_universe` the second coin is listed all the time and
without trades (`OthersStayListed`, `OnlyTradedPublish`), and an abandoned insert is over
before the last minute (`SoonOver`).  The theorems need none of this.

*Fairness.*  `LiveSpec` assumes that each collector keeps taking steps (the
scheduler starts a cycle after every sleep, requests and statements have
timeouts, no loop is endless: paging moves a cursor, chunks shrink the rows) and
that outages end (`Settle`).  It assumes nothing of the exchange and of
abandoned inserts.  `CandleFetch` assumes the same of its writers, and that time
passes; a writer's failures are among the fair steps only where they are not
a matter of outages, as when a start is refused.  `NotifierSpec` assumes that both
threads are scheduled, that a delivery ends (its two timeouts) and that time passes;
`StopIsHonoured` and `CollectionResumes` state in their antecedents what they
need of ClickHouse: that it does not stay down, and for `CollectionResumes` that it
comes back for good and no grant is missing at any time, which is no outage.

*Deadlock* is not checked where the bounded clock, or the end of the process,
stops the system by design.

### Findings

1. *Holes across the horizon floor* (`ingestion_straddle`).  `recoverable_gaps_query`
   filters rows before it looks for a predecessor.  A hole between a row just
   older than the floor and one inside is not returned, although its missing
   candles may be inside, which the docstring (`ingestion/gaps.py:75`) says they are.
   `SuccessIsComplete` states what holds: the row before the hole must be inside.
2. *The newest log is deleted* (`log_runs_busy_day`).  After `LOG_RUNS_KEPT` starts
   in a day pruning has freed `_001`, which the next start takes; by name it is now
   the oldest run, and the start after that deletes it (`logging_setup.py:34`, `:106`).  On days
   quiet enough this cannot happen (`QuietDaysKeepTheNewest`).
3. *A minute can see twice the budget* (`rate_limit_burst`): a full bucket plus its
   refill, against `config.toml:15` and the plan, line 832.  `RequestsPaced` states
   what holds.
4. *A client is not closed* (`service_leak`) when `create_schema` raises or the
   probe fails, against the comment at `app.py:115`.

5. *A missing grant does not end the service* (`service_denied`).  The plan, line 213,
   wants it to fail fast and not to loop, and `wait_for_clickhouse` raises
   `ClickHouseConfigurationError` for it; the loop catches that like any other exception
   of a cycle, sleeps and tries again (`scheduler.py:31`).
Seen while modelling, without a run: a stop request is not looked at while ClickHouse
stays down (`clickhouse_client.py:65`), hence the antecedent of `StopIsHonoured`; the
plan, line 833, wants a clean stop.

## 4. What is proved

All theorems hold for every value of the constants under the named assumptions of the
modules (`ExchangeAssumption`, `IngestionAssumption`, `RateLimitAssumption`,
`CandleFetchAssumption`, `ServiceAssumption`, `NotifierAssumption`,
`LogRunsAssumption`), which say no more than that counts are natural numbers, that
symbols and processes are finitely many, that the tunables which `config.py` requires
to be positive are, and that the bounded clock reaches the first whole horizon.  The
`readiness_backoff_*` fields are validated by nothing: they are natural numbers, and the
first delay may exceed the maximum.
Two theorems have a hypothesis of their own, named and justified below.

| Theorem | States | Of |
|---|---|---|
| `TypeCorrect` | `[]TypeOK` | `Ingestion` |
| `WatermarkIsHoleFree` | `[]HoleFree` | |
| `OnlyClosedCandles` | `[]ClosedOnly` | |
| `CyclesKnowTheirState` | `[]IngestionInv` | |
| `SuccessMeansComplete` | `[]SuccessIsComplete` | |
| `CyclesImplementArchive` | `ImplementsArchive` | |
| `EverySymbolHasOneOutcome` | `[]OneOutcomeEach` | `CycleLedger` |
| `ReportsAreHonest` | `[]ReportsWhatIsStored` | |
| `TablesTellTheSame`, `CandlesTellTheSame` | `[]SymbolsAgree`, `[]CandlesAgree` | |
| `FetchTypeCorrect`, `OnlyAskedCandlesPass`, `PagingEnds` | `[]TypeOK`, `[]OnlyAskedCandles`, `[]RequestsBounded` | `CandleFetch` |
| `BucketTypeCorrect`, `ArrivalsArePaced`, `OneSleepSuffices` | `[]TypeOK`, `[]RequestsPaced`, `[]SleepSuffices` | `RateLimit` |
| `ServiceTypeCorrect`, `StopBetweenCyclesIsFinal` | `[]TypeOK`, `NoCycleAfterStop` | `Service` |
| `FlushLeavesNothing`, `SilenceWasEarned` | `[]FlushedUnlessLate`, `[]SilenceIsEarned` | `Notifier` |
| `FolderStaysBounded`, `QuietDaysKeepTheNewest` | `[]FolderBounded`, `NewestStay` | `LogRuns` |

So every invariant and every action property that a run checks and finds true is a
theorem.  Theorems about `Ingestion` and `CycleLedger` are for any number of
collectors, any failures and any number of abandoned inserts.

*Types.*  The one conjunct of `TypeCorrect` that is not bookkeeping is that the
counts of a row are natural numbers: no symbol fails that was not selected, because
gaps of untracked symbols are skipped (`TracksSelection`).

*The argument for `HoleFree`.*  It is not inductive: a step that inserts a chunk
says nothing of what is below the chunk.  `IngestionInv` adds that rows which are
on their way are *self-contained*: whatever is due at one of them is stored, or
fetched together with it, or older than the window and then due at a stored
candle, the watermark (`BehindStart`).  It holds for the rows of a collector
(`WindowInv`) and for abandoned inserts (`InFlightInv`), so either may be
committed by anyone at any time, also by halves: the older part of a
self-contained set is self-contained (`PartSelfContained`).  Chunks keep it because they are taken from the
old end (`ChunkSelfContained`; the variant `NewestChunks` breaks it), pages because
every page holds all the endpoint exposes from its oldest row on.  `Due` only
shrinks as time passes (`DueStable`), so what other processes and the exchange do
keeps it as well.

*The argument for `SuccessIsComplete`.*  `SuccessInv` follows a cycle through its
phases, for the candles that are `Wanted`: visible before the cycle's end, and in
reach.  Pages of the window in hand hold all of them from the cursor up (`InHandInv`);
windows that are over, none having failed, have stored them (`WindowsDone`); and what
is missing after a row that the gap query saw lies in a gap still to be repaired or in
the one in hand (`GapsDone`).  `WantedStable`: the passing of time makes fewer candles
wanted and others can only add to the table.  The gap query finds what is missing
because it returns all pairs of neighbours (`MissingIsInGap`, for which the nearest
rows on both sides are shown to exist), if the row before is not older than the floor,
which is finding 1.  For a new symbol the window starts at the configured start, and
its first candles stay inside it (`StartIsStored`), also when an insert that was given
up is completed late.

*The argument for the refinement.*  Only two kinds of step change what `Archive`
sees.  A step of the exchange is `Pass` or `Appear` (`EnvironmentIsStep`).  A commit, of a
chunk, of a part of one or of an abandoned insert, is `Keep`: its candles are visible and
self-contained, which is what `IngestionInv` says of rows on their way
(`CommitIsKeep`).  All other steps of a collector stutter (`CollectorIsStep`).  `Due`
and the archive's own `OwedAt` are shown to be the same notion (`SameNotions`).

*The argument for the ledger.*  Every step of `LedgerSpec` is one of `Spec`
(the lemma `LedgerObserves`, by construction), so all above holds of it.  `RowInv` says for each symbol what its
status rows tell at any moment of the cycle: skipped exactly if it is not traded,
failed exactly if it is in the code's `failed` set, and stored or failed once its window
is over.  `FiledInv` carries that over the moment between the two writes.  That a
`success` symbol has a row at all rests on `EveryoneHasWindow`: no watermark is ahead
of the clock by more than the overlap, as it is a stored candle and those are closed.  `OneOutcomeEach` needs these two and that nothing
is selected which is not configured (`SelectsAllowlisted`).  The
sum in `CandlesAgree` is a fold over the symbols; `SumRises` shows that it grows by what
one symbol grows by.  Induction over subsets being out of the prover's reach, it takes
a smallest subset at which the claim fails (`HasSmallest`, from the library's
well-founded order of finite subsets) and shows that there is a smaller one.

*The argument for `CandleFetch`.*  `WindowInv`: the bounds of a window are whole
minutes and end before the forming candle; the cursor stays inside; each request but
the last has moved it by a minute at least, so requests times the interval never exceed
what is between the cursor and the end.  Whatever the endpoint answers, `Receive` either fails
or moves on.

*The argument for `RequestsPaced`.*  `PacedInv`: weight reserved since the mark
plus the tokens left is at most the capacity plus what the bucket gained between
the mark and the last refill; a bucket not refilled since has reserved nothing.
What has arrived since is reserved since, but for the one request carried over.

*The argument for the alerts.*  `FlushInv` says what the main thread knows while it
waits for the queue.  `QueueInv`: no message is queued twice, and an alert in the queue
has more of its cooldown left than the deliveries before it take.  So when a severity may
be forwarded again at most two messages wait (`AtMostTwoWait`), and it finds room.  That is the
hypothesis `Roomy` of `SilenceWasEarned`: a queue of three or more, and a cooldown
longer than three deliveries.  `notifications.py` has a queue of eight and a cooldown of
fifteen minutes against two timeouts of five seconds.

*The argument for `FolderBounded`.*  A count of running processes is not inductive,
because a deletion may follow a listing that is long out of date.  `FolderInv`
looks back at the newest listing already followed by its deletion, which left
`LogRunsKept - 1` runs (`KeptRuns`), and names the processes that have added a run since:
none twice, because before a second run a process lists and deletes again, and that
listing would be the newer one.  Deleting one run from a list changes neither what the
listing leaves nor who has added to it, and a process that is killed drops out of the
account.  Listings not yet followed by their deletion are accounted the same way.

*The argument for `NewestStay`.*  The order of names must be the order of starts.
`HistoryInv`: today's names below a taken one are all in the folder, so that the first
free one is later than every taken one (`TakenInOrder`); nothing doomed is younger than
two days (`DoomedAreOldest`), so no name that still counts is freed; and what is doomed
is the front of the folder whatever is added after the listing, so each deletion, of the
oldest doomed run, leaves only younger ones.  The second needs
`QuietDays`: two days together see fewer starts than runs are kept, that is at most
fourteen a day for the thirty of the code.  Finding 2 is what happens otherwise.

*Only model-checked:* liveness (`EventuallyComplete`, `NewSymbolIsStored`,
`EventuallyCurrent`, `StopIsHonoured`, `CollectionResumes`, `MessagesLeave`), which is
beyond the prover, and the five findings, which are counterexamples.

## 5. What is not modelled

- The quality report reads tables of one moment and lays them out; it changes no
  state, and `classify_freshness` compares one age with four constants.
- The configuration is parsed and validated before anything runs; its bounds are the
  assumptions on the constants.  A start that does not parse (`ingestion/windows.py:59`)
  fails every cycle that meets a new symbol; `RequestedStarts` holds starts that parse.
- Prices, volumes and trade counts: a candle is its open time, and in `CandleFetch` a
  revision.  So the checks of `parse_candle` between prices are left out, and an
  endpoint that makes up a well-formed candle inside the window cannot be told from
  one that tells the truth, here as in the code.
- `rows_fetched`, times and error texts of the metadata rows.
- The rotation of one log file, which is the standard library's.
- Negative backoff delays, with which `time.sleep` raises.
- A signal that ends the service flushes no alert, and a request heavier than the bucket
  waits for ever: no document promises otherwise, so no property is stated (`hazards`).
- The sum of the budgets of several processes, which is only the sum of what
  `RequestsPaced` says of each.
- The DDL, Docker files, `update.sh`, the blog and the guides have no behaviour that a
  state machine would add to.

## 6. Plan

1. Safety lemmas that liveness rests on: for `EventuallyCurrent`, that a candle which is
   closed and inside a window is replaced by a revision not older than the request; for
   `MessagesLeave`, that the worker never rests on a queue that is not empty.
2. A specification of the alerts' promise alone (accept, suppress, deliver) that
   `Notifier` implements, as `Ingestion` implements `Archive`.
3. The rotation of a log file beside the naming, if two processes share one.
