# NAS Doctor: a TLA+ model

NAS Doctor is one Go process that scans a NAS periodically, stores what it
finds in SQLite, raises alerts, runs service checks and speed tests, and serves
a dashboard. Two things make it difficult. Its goroutines share a lot: a
scheduler with several loops, HTTP handlers that trigger the same work,
callbacks that write to the store, caches, and channels on which nobody may
block. And it concludes a lot from what it reads, by tables and chains of
thresholds some of which are written down two or three times.

The modules here model both. TLC checks them on small instances; the safety
properties of nearly all that runs concurrently are also proved with TLAPS for
every value of the constants.

    tlc -workers 2 -config SpeedTestRegistry.cfg SpeedTestRegistry.tla
    tlc -workers 2 -config MCDecisions.cfg MCDecisions.tla
    tlapm SpeedTestRegistryProofs.tla

Paths below are relative to `src/`; `scheduler.go` is
`internal/scheduler/scheduler.go`, `db.go` is `internal/storage/db.go`, and so
on. `PROJECT.json` maps each definition to the lines it models, and lists the
hazards, the runs, the mutants and the theorems.

## 1. The system

### Components

| Component | State it keeps | Operations | What makes it correct |
|---|---|---|---|
| Live speed-test registry (`livetest/registry.go`) | the test in flight, the grace slot, handlers | `StartTest`, `Cancel`, `GetLive`, `driveTest` | one test at a time; the outcome is recorded before `Done` closes; the slot always comes free |
| Live test (`livetest/livetest.go`, `collector/speedtest_sink.go`) | replay buffer, subscriber channels, result | `emit`, `Subscribe`, `stampTerminal`, `closeSubscribersAndDone` | replay and live samples join; no send on a closed channel; every stream ends |
| Speed-test HTTP API (`api/speedtest_sse.go`) | none of its own | run, stream, cancel | what the browser is told agrees with the test |
| Scheduled speed tests (`scheduler.go`) | `speedtest_history`, `speedtest_attempt`, a mirror on the snapshot | `runSpeedTest`, the completion handler | the stored state follows the tests' outcomes |
| Scan cycle (`scheduler.go`, `panic_recovery.go`) | `running`, `latest`, the snapshot table | `RunOnce`, triggered scans, recovery | scans exclude each other; readers never see data go back |
| Dispatcher and ticker (`scan_dispatcher.go`) | global interval, overrides, `lastRun`, the restart channel, the ticker | settings saves, the main loop, `Tick`, `MarkRan` | every subsystem runs at its pace; a save takes effect |
| Snapshot cache (`api.go`, `scheduler.go`) | `s.latest` | `ensureLatestSnapshot`, in-place edits by the container loop, requests, finished tests | it comes back to what the host and the settings say |
| Service checks (`checks.go`) | check history, failure counters | two loops that run what is due, runs on request, purges | an alarm is backed by failures; a removed check stays removed; one verdict for one answer |
| Check test stream (`service_check_test_stream.go`) | two channels and a context per request | producer, handler | every update before the result; nobody is left waiting |
| Alert lifecycle (`db.go`) | alert rows, notification state | `SyncAlertStates`, acknowledge, snooze | one open row per fingerprint; a user's choice is kept |
| Notification dispatch (`scheduler.go`, `rules.go`) | cooldowns, routes, quiet hours | evaluation of rules after each scan | no alert is lost, none is repeated within its cooldown |
| Retention, backup (`retention.go`, `backup.go`) | the database file, backup files | prune, size cap, backup, rotation | the newest data and a complete backup survive |
| Drives (`drive_events.go`, `stale_smart.go`) | slot states, events, SMART rows | comparison at each scan, forced reads | one story for one slot; no drive sleeps unread |
| Fleet (`fleet/fleet.go`) | server list, statuses | concurrent polls, list changes | no status of a server that was removed |
| Settings (`api_extended.go`, `runtime_settings.go`) | a blob in the config table, what of it is in force | reading with migration, field edits, saves, starts | a user's choice is kept, and in force |
| Analyzer (`analyzer.go` and five more) | none | findings, forecast, drive ratings, replacement plan | worse readings never look better |
| Prometheus (`prometheus.go`) | a registry of series | `Update`, scrapes | no series of what is gone |
| Store and its double (`db.go`, `fake.go`) | the tables; slices | saves, queries, prunes | both answer alike |
| Backup tools (`borg_runner.go`, `duplicacy_runner.go`, `backup.go`) | none | probes, merging of rows | a row is true and there is one |
| Collectors, log forwarding, HTML, entry point | see `PROJECT.json` | | |

### How they interact

- **Speed tests.** The cron loop and `POST /speedtest/run` both call
  `StartTest`. It launches a driver goroutine, which runs an engine, copies the
  engine's samples to a replay buffer and to one channel per browser, and at
  the end stamps the outcome, calls the completion handlers (which write
  `speedtest_history`, then `speedtest_attempt`, then the mirror), releases the
  slot, closes `Done`, and fires the running=false callback. The type=speed
  service check reads both tables at any time.
- **Scans.** The main loop's ticker and `POST /scan` call `RunOnce`. A scan
  takes over the cached data of subsystems that are not due, runs the due
  ones, wakes drives whose data is too old, compares the drives with the slots'
  states, analyzes, stores the snapshot, caches it, updates the gauges, then
  syncs the alerts, sends notifications, prunes and backs up. Request handlers
  read the cache, edit it in place, and fill it from the store when it is
  empty.
- **Alerts.** `SyncAlertStates` makes the alert rows agree with the scan's
  findings; the dispatch after it asks these rows, which users edit meanwhile,
  what to suppress, and the notification state what was sent lately.
- **Cadence.** A settings save stores a blob, sends the new global interval to
  the main loop on a one-place channel (dropping it when full), updates the
  dispatcher, and sends the fastest interval. The loop takes a value between
  two scans, may push it to the dispatcher, and makes a new ticker.
- **Settings.** Nearly every request reads the blob, migrates it and writes it
  back. A save also replaces the service checks (and purges their history), the
  backup configuration, the fleet's list and the webhooks.

### Behaviours that are hard to test

`PROJECT.json` lists the hazards, each at its line. They fall into seven groups:
operations that meet half-way through another's ordered cleanup (the registry);
check-then-act on the running flag, the cache, the slot and the settings;
bounded channels on which the sender drops; several writes that ought to be one
(history and attempt, event and slot state, the statements of a pruning round);
panics, refused writes or restarts between two such steps; data that is carried
on and looks fresh (a sleeping drive's, a filtered container list, a server's
status); and thresholds, states and defaults that are written down more than
once or leave a gap between them.

## 2. The modules

| Module | Models | Checked in |
|---|---|---|
| `SpeedTestService` | the `Registry` contract: abstract specification | `registry` |
| `SpeedTestRegistry` | `registry.go`; implements `SpeedTestService` | `registry` |
| `LiveTestStream` | `speedtest_sink.go`, `livetest.go`, the SSE handler | `stream` |
| `SpeedTestAttempts` | `runSpeedTest`, the completion handler, `runSpeedCheck`; composes `SpeedTestRegistry` (`R == INSTANCE`) with the store, the cron loop and the API | `attempts` |
| `ScanIntervals` | `handleUpdateSettings` to the ticker | `intervals` |
| `ScanCycle` | `RunOnce`, `runWithRecover`, `ensureLatestSnapshot` | `cycle` |
| `AlertNotifications` | `SyncAlertStates`, the dispatch, users | `alerts` |
| `FleetMonitor`, `SnapshotCache`, `CheckTestStream` | what runs beside the scans | `monitors` |
| `DriveHistory`, `Retention`, `DatabaseBackups` | the tail of a scan | `housekeeping` |
| `SystemFindings`, `AlertRules` | the analyzer's and the users' rules | `decisions` |
| `BackblazeThresholds`, `DriveHealth` | rating one drive | `decisions` |
| `CheckOutcomes`, `ServiceChecks` | verdicts of checks; their runs and history | `decisions` |
| `QuietHours`, `CapacityForecast`, `ScanCadence` | times and dates | `decisions` |
| `SettingsStore` | the settings blob and what is in force | `decisions` |
| `PrometheusGauges` | `Metrics.Update` | `decisions` |
| `StoreContract` | the database and the tests' store | `decisions` |
| `DuplicacyRepos`, `BorgRepos` | rows of backup repositories | `decisions` |
| `Monitors`, `Housekeeping`, `Decisions`, `Verdicts` | components that share no state side by side, by instance, with the property each promises; what TLC checks of these and what is proved are the same definitions | |
| `MCAlertNotifications`, `MCMonitors`, `MCHousekeeping`, `MCDecisions`, `MCInputs` | instances for TLC | |
| `SpeedTestRegistryProofs`, `SpeedTestAttemptsProofs`, `ScanCycleProofs`, `ScanIntervalsProofs`, `AlertNotificationsProofs` | theorems about one module each | |
| `MonitorsProofs`, `HousekeepingProofs`, `DecisionsProofs` | theorems about the modules that `Monitors`, `Housekeeping`, and `Decisions` with `Verdicts` compose (`MonitorsProofs` has `LiveTestStream` too) | |

An operator whose comment starts with "Mutant:" is not part of a model: it is
a plausible mistake in the definition that follows it, and `PROJECT.json`
("mutants") says which property notices it.

Components that share no state are checked side by side in one run. `focus`,
chosen in the initial state, names the one that moves while the others stay
where they begin; the state space is the sum of theirs, not the product, and a
property of one says nothing about the behaviours of another.

### SpeedTestRegistry

`phase[t]` is where test t's life is, one phase for each step of `driveTest`
that another goroutine can observe: reserved (in `StartTest`'s critical
section), running, then the deferred cleanup in its order, `JudgeCancelled`
(`wasCancelled` is read), `StampTerminal`, `NotifyCompletion`, `ReleaseSlot`
(under the mutex), `CloseDone`, `NotifyIdle` (outside it). `Cancel` and
`GetLive` are one critical section each; a `Cancel` that changes nothing is the
operator `CancelAnswer`. Test ids are numbers in start order. The grace window
is a flag that may lapse at any time. A second `StartTest` during a test only
returns the handle, so it is a stutter. The guard "no runner configured" is
left out, because `main.go` always wires a runner.

### LiveTestStream

One test with samples 1, 2, 3, ... in the order they are measured. `live` is
the buffered channel between the engine's goroutines and the driver, `samples`
the replay buffer, `chan[c]` client c's channel (its capacity is the length of
the replay plus `SubscribeBufferSize`, as in `Subscribe`), `got[c]` what its
handler has read. `emit` is one critical section. The engine's choice between
the sink and the channel it returns is nondeterministic (both are read, as the
code does). A panic of the engine skips the drain, as the code re-raises it at
once. `Cancel` may come until `wasCancelled` is read (`Stamp`) and overrides a
measurement. The completion handler saves the history row (`SaveRow`) and then,
under the row of a success, the samples (`InsertSamples`); the store may refuse
either, which the code logs, so a measurement may be without its row, or with a
row and no samples. `StreamIsFaithful` says that nothing else is possible: all
samples or none, none without a row, none of a cancelled test, and all of them
when no write was refused. Buffer sizes are small so that overflow, drops and
closes happen.

### SpeedTestAttempts

The registry step for step (by instance) with the completion handler's three
writes in place of its one notification, the cron loop's run
(`pending` written, mirrored, `StartTest`, wait for `Done`), API starts at any
time, cancels until `driveTest` has read `wasCancelled` (later ones change
nothing anyone reads; `SpeedTestRegistry` has them), the interval switched on
and off, refused writes, and restarts. `attempt.at` remembers how many tests
had completed when the row was written; it is history for the properties only.

### ScanCycle

Time is counted in scans: a scan's timestamp is its number, and a subsystem's
data in a snapshot is the number of the scan that looked at it. `scan[c]` is
where caller c's `RunOnce` is, with its due list and its snapshot. Which
subsystems are due is any set that contains those that never ran (how it
follows from the intervals is `ScanCadence`). A panic in the main loop's scan
is recovered and lowers the flag; one in a triggered scan's goroutine ends the
process, since nothing recovers there. A restart forgets everything but the
store. `reader` is `ensureLatestSnapshot`'s slow path, one at a time under its
mutex; `reader.late` records that one seeded the cache during a scan or over
its snapshot. Such a reader breaks `DataNeverRegresses` and `StampIsDataTime`,
which therefore speak of behaviours without one.

### ScanIntervals

`saver[p]` is one settings request in handler order: persist, send the global,
take `s.mu` and fix the global, update the dispatcher, read the fastest, send
it. `restart` is the channel (0: empty). The loop's places are waiting,
scanning, received, pushing (holding `s.mu`), rebuilding. Durations are
natural numbers, and 0 is the value a parsed duration like "0s" has. The boot
path leaves a value in the channel or none, which is why `Init` allows both. A
stored interval of 0 is among the initial states too: the loop then ticks at
the flag's interval, or does not tick, and the dispatcher takes its own default
for the global (`Global`, `DefaultInterval`: 30 minutes in the code).

### ScanCadence

The ticker has a one-place channel, as in Go: a tick that fires during a scan
waits, later ones are dropped. `NextTick` is the tick received next; the scan
starts up to `MaxDelay` after it and takes up to `MaxDuration`. `Due` compares
start times with `>=`, like `Tick`.

### AlertNotifications

A row of the alerts table has its finding's fingerprint and the flags the
dispatch asks. `SyncAlertStates` is a deferred transaction: its SELECT fixes
what it sees (`Scan`), its first write takes the lock (`SyncWrite`), and when a
user has written in between (`conflict`) SQLite refuses it (`SyncFail`). The
dispatch copies the settings (`Dispatch`, or `Mute` in quiet hours), takes
route after route, looks up suppression and cooldown (`Route`; a lookup that
fails lets the finding through), calls the webhook, which may fail with or
without having arrived, and records what was sent, each record of which may
fail. The time a scan uses throughout is its snapshot's (`stamp`). `told` and
`leaked` are history for the properties.

### AlertRules, SystemFindings, DriveHealth, BackblazeThresholds

A host is a record of readings, one of everything (one disk, pool, container,
node ...), each of which passes through a list of values around the code's
thresholds. `Analyze` is the union of the analyzer's rules, `Correlate` the
findings it makes of findings; a finding is its severity, its category and what
its title says. A rule of the user is evaluated on the same readings. A drive
has levels of six attributes, a self-assessment and a kind, and is read in one
of smartctl's two formats; tiers are tables like the code's, first match wins.
Health scores and failure multipliers are fractions in the code and scaled to
integers here (tenths, fortieths). Only the readings move: the properties say
what a conclusion may do while things get worse. What worse means is said field
by field (`NoBetter`): a number that rises or falls, a truth that breaks or
ceases, grades such as up, degraded and down, a parity history with one more
check. The progress of a pool's scan is reported from 1 to 99 percent only, and
none of it at 0 or 100. A pool that is suspended, offline or removed is in no
finding: among the grades it stands before a degraded one, which is what the
code makes of it and not what an operator would. smartctl's text tells no SSD
from a disk, and a drive read in it never has `DataAvailable` set: the analyzer
then makes the warning "SMART data unavailable" (`analyzer.go:80`) of it and no
critical finding, also when its self-assessment has failed. Two kinds of rules
may fall silent (`Lasting`): one that asks for a degraded service when the
service goes down, and one on the findings of a category in which another's
takes over (`Shifting`).

### CheckOutcomes, ServiceChecks

`CheckOutcomes` has the verdict of each check type on a network that gets
worse, with the checks as users write them, their normalization, and both
copies of the speed-check thresholds. A speed check reads two tables, either of
which may be unreadable: the last attempt, which counts for 30 days, and the
newest history row of the last 48 hours (`HasRow`), without which a successful
attempt is down. `ChecksAgree` therefore compares the Test button with the
schedule for as long as the schedule can read the row; what happens after it is
the finding `weekly_speed_check`. `ServiceChecks` has the check loop, scans
and requests that run checks at the same time (`Begin`, one `Check` at a time
with its read of the previous state, `Save` of all rows), the settings save
that replaces the configuration and then purges (`SetChecks`, `Purge`), and
restarts. `late` marks rows of a run that began before the configuration in
force.

### FleetMonitor, SnapshotCache, CheckTestStream

A poll copies the list and asks all servers at once; answers come in any order,
overlapping polls of the ticker and of settings requests included. The cached
snapshot is one object that the container loop, a finished test and each
request write into; `request.shared` says whether the request's pointer is
still the cached object. The container loop may give up between collecting and
writing (a collector's error, no Docker, a refused save). Filtering hidden
containers is two steps, choosing what to keep (`Filter`) and writing it over
what is there by then (`Keep`), because it edits the shared object without the
lock. The test stream has a producer that sends updates and one final value,
closing `final` before `updates`, and a handler whose `select` takes either; a
client may leave at any moment.

### DriveHistory, Retention, DatabaseBackups

`DriveHistory`: a slot has a drive, awake or asleep. A scan collects what is
awake or carries the last data forward, forces a read of those whose newest row
is too old (none when `MaxAge` is 0), walks the slots (event, then state: two
writes), and stores a row for every drive in the snapshot, carried or not.
`unread` counts what the program cannot see, the scans since a drive was really
read. `Retention`: each statement is a step; a snapshot is a page with another
one for its findings, and pages of deleted rows go to the free list, which
`page_count` counts. `DatabaseBackups`: a backup is named after the second it
began in; a second writer in the same second tears the file, and whoever
finishes deletes the oldest files, also unfinished ones.

### SettingsStore, PrometheusGauges, StoreContract

A settings blob has a version, a shape and a field for each kind of thing that
matters: one the migration sets, one the validation clamps, one with two
defaults, a list that may be nil, one that only handlers of a single field
write, and the merged view of drives. `request[r]` is a request between its
read and its write. `Migrated` has the three rungs of `migrateSettings`. The
first looks at the version alone, so a blob without one (version 0) has its
drives merged whatever it says: the exception in `ReadKeepsChoices`. That
contradicts `api_extended.go:1357`, "each rung is guarded by BOTH the
settings_version number AND a presence check". Every other choice survives.
`PrometheusGauges` has `Update` section by section, in the code's order, with
scrapes between any two; sections differ in when they are reset. A GPU's are
reset only while there is a GPU (`prometheus.go:597`), so `NoGhostSeries` is
about every labelled section but that one. `StoreContract` makes the same call
on the database (sets of rows, queries by ORDER BY) and on the double (a slice,
queries by walking it), hours and limits included, with checks, speed tests and
events dated in any order, as overlapping runs save them. `DoubleAgrees`
compares errors, samples, lists and latest rows; where the two stores differ it
says so, and a test that relies on one of these tells nothing of the program:

- `GetProcessHistory` of the double ignores the hours asked for
  (`db.go:936`, `fake.go:527`).
- A limit of 0 is none to the double; the database then shows its default of
  checks (200, like for a limit above 500 or 1000: `db.go:2157`, `2216`) and
  nothing of snapshots and the log. A negative limit is like 0 to the lists of
  checks, and none to the others in both stores.
- Runs of a check that were saved out of the order they began in, or in the
  same second: the database sorts by time (`db.go:2138`), the double takes the
  last saved (`fake.go:265`); in the list of latest checks it is the other way
  round (greatest id against latest time).
- The latest speed-test result once a test was cancelled (`fake.go:682`).
- The ids of log lines after a pruning (`fake.go:832`), which nothing asks for.

### DuplicacyRepos, BorgRepos, CapacityForecast, QuietHours

Duplicacy's repository is a directory whose parts may be absent, unreadable or
no directory, with snapshots that are unfinished, damaged or something else.
Borg's is probed by two calls; the scan sees one world in the first and another
one in the second (`host`, `host'`). `Rows` is the merge of found and
configured repositories. The forecast is the code's least-squares fit, kept as
a fraction, over a volume that really grows steadily. A day of `QuietHours` has
a handful of minutes.

## 3. What TLC checks

| Run | Bounds | What it shows |
|---|---|---|
| `registry` | 3 tests | `Done` means recorded, honest `Cancel`, the gauge, and the refinement of the abstract service, its liveness (every test ends) included |
| `stream` | 2 browsers, 3 samples, buffers of 2 and 1 | replay joins live samples, samples are lost only to a full buffer or a panic, rows are all of what was streamed or, after a refused write, none, no send on a closed channel, every stream ends |
| `attempts` | 2 tests, 1 fault | history, attempt row and speed check agree with outcomes; the cron loop moves on; disabling settles |
| `intervals` | 2 requests, 2 saves, 2 cadences | the ticker is never stale for good; the overrides of a lone save stick |
| `cycle` | main loop, 2 triggers, 3 scans, 2 subsystems, one panic, one refused save, one restart | scans exclude each other, the flag comes down, shown is stored, data does not go back |
| `alerts` | 1 finding that comes twice, 2 routes, clock to 2, 1 failure or crash | one open alert, silence and cooldown hold back what they should and nothing else, alerts follow findings, a finding that stays is told |
| `monitors` | fleet: 1 id with 4 configurations, the ticker and 2 requests; cache: 1 container, 2 changes, or 2 tests; stream: 4 cycles, channel of 2 | no status outlives its server, updates come before the result, and all of it settles or ends |
| `housekeeping` | drives: 1 slot, 3 drives, 2 swaps, 1 note, 1 failure; retention: up to 6 snapshots to begin with, 9 scans in all, batches of 2 over a floor of 2, a cap of 7 pages, 1 failure; backups: 6 seconds, 3 kept, 1 clash, 1 failure | the story of a slot is whole, sleepers are read, swaps are noticed; the newest snapshot and freed pages; a complete backup survives, automatic ones keep their distance |
| `decisions` | readings on both sides of every threshold, in groups of readings that a rule relates; short histories elsewhere | what the program concludes: see below |

`decisions` has one property per component. Rules, drive ratings and check
verdicts are monotone: when a reading gets worse, no finding turns milder, no
rule falls silent, no drive and no check looks better (`RulesAreMonotone`,
`DrivesRatedAlike`, `ChecksAgree`); this crosses every threshold of about a
hundred rules and finds gaps between two of them, states in no case of a
switch, and a correlation that withdraws what it replaces. The same three also
compare what is written down twice: planner and analyzer, button and schedule.
Quiet hours are one span a day; a steadily growing volume is full on the day
forecast; reading settings keeps every choice but the drives' view in a blob
without a version, and a restart changes nothing that runs; no series outlives
its subject but a GPU's; the tests' store answers like the database, with the
exceptions listed above; an alarm is backed by failures; backup rows are true
and unique; and every scan after the first finds nobody overdue by a round.

Why the bounds are enough: three tests are one running, one in its cleanup and
one in the grace slot, and any two of these meet; the window in which a reader,
a `Cancel` or a start can interfere spans at most two consecutive tests. With
buffers of 2 and 1, three samples overflow both; browsers only touch their own
channel. Three scans give the pattern "ran, carried forward, ran again" with a
panic or a restart at each place. Two saves make the channel full while the
loop is at any of its places. Rows of different fingerprints do not interact,
routes do (they share the suppression, not the cooldown), so one finding and
two routes; it must come, go and come again for a second row. Servers do not
interact, polls do. Slots do not interact but for a failure that skips the
rest. Retention's constants are scaled down with their order kept (batch not
above floor, both below what fits the cap): the code's are 5, 5, 10 and 20. Two
checks with the same key, times and counters are covered by three runs of one.
Thresholds only compare, so the values next to each side of each are all the
values there are. Intervals 3 and 7 are not multiples, so the ticks of the
first miss the second's due times. The theorems of section 4 remove the bounds
for most of the safety properties.

Three more runs each check one sentence of a comment, which the code does not
keep; TLC's counterexample is the scenario:

| Run | Sentence | Scenario |
|---|---|---|
| `settings_write_back` | `api_extended.go:1330` "Only write if we actually had to migrate" | a reader of settings of the current version, in which nothing is to migrate, writes back what it read, over a save made in between |
| `retention_size_cap` | `db.go:2916` prunes "until the DB is under the target size" | `page_count` does not shrink while rows are deleted, so pruning goes on below the cap |
| `weekly_speed_check` | `checks.go:619` the 30 days of an attempt are "generous enough to cover weekly cadences" | the row with its speeds is looked for in the last 48 hours (`checks.go:654`), so from two days after a weekly test until the next one the check is down with "no history row found" |

### Further disagreements

Met while modelling and described here only. "Says" quotes a comment or a
document; the model follows the code.

Speed tests:

- `registry.go:97`: an accepted `Cancel` ends the test as cancelled. One that
  arrives after `driveTest` has read `wasCancelled` (line 450) is answered nil
  and the test ends as it would have. `CancelDuringRunSticks` states what holds.
- `registry.go:484`: the gauge may show 0 while a test runs, when the
  running=false of the previous one is fired after the next one's
  running=true. `GaugeNotStuck` states what holds.
- `speedtest_sse.go:251` says "Test ended.": a browser dropped for being slow
  is sent `end` while the test runs.
- `db.go:1236` says pending is "cleared on outcome": a cron run that attaches
  to a test whose handler has already written leaves it, and so does a crash;
  the speed check reports it as up until the next run.
- `models.go:742` says the statuses "are a closed set": a cancelled test's
  status is unknown to the speed check (`checks.go:628`), which reports it as a
  failure.
- `scheduler.go:1543`: the mirror on the snapshot is not carried into the
  snapshot the next scan caches, so it lags the stored attempt.
- `checks.go:669`: a cancelled test leaves a zero row in the history; the
  speed check that reads it calls it possibly corrupt. The charts' comment
  (`db.go:1050`) says cancelled rows are ignored, which nothing does.
- `db.go:1234`: an attempt "success" may have no history row, when the store
  refused the row and took the attempt.
- `traceroute_stream.go:43` says the hops of an update are cumulative: each
  cycle replaces the last one's.

Scans, cadence, cache:

- `scheduler.go:553` says the ordering is "irrelevant": an older value that
  waits in the restart channel is pushed over the newer saved interval
  (line 254).
- `scan_dispatcher_acceptance_test.go:93` says "SMART fires every 5 min": a
  scan that started late makes the next tick find the fastest subsystem not due
  yet, so it runs every second tick. `NeverLongOverdue` states what holds.
- `api.go:496` says that once populated the helper short-circuits: a slow
  reader replaces a fresh snapshot by the older stored one (line 535).
- `scheduler.go:869`: with a recovered panic between `MarkRan` and the caching
  of the snapshot, the next scan's stamp is newer than the data it carries
  forward. `StampIsDataTime` is stated without panics.
- `models.go:416` says the hidden count "reports how many running containers
  were filtered out": a second request finds them filtered already and counts
  none (`api.go:610`). The filtered cache also loses the attribution of
  processes to hidden containers in `collectProcessStats`.

Drives, retention, backups:

- A retention shorter than `MaxAgeDays` turns a sleeping drive into a "new" one
  without rows, which is never woken (`stale_smart.go`).
- A settings save or a start forgets `LastBackup`, so the next scan backs up
  whatever the interval; the copy itself takes the file while it may be
  written, which is not modelled.
- `db.go:2924`: the floor of 5 snapshots is tested before a batch of at least
  5 is deleted; with 6 to 9, fewer than 5 are left.
- A drive's maximum temperature is never collected. Text mode without a
  self-assessment line counts as failed, JSON without one as passed.
  `models.go:394` says of `DataAvailable` "true if SMART attributes were
  successfully read": the text parser never sets it, so a drive read in text
  mode has no critical finding but the warning that its data is unavailable
  (`analyzer.go:80`), whatever its attributes. From 100 command timeouts on the
  analyzer calls a drive critical while the planner calls it healthy;
  `CriticalIsPlanned` excepts them.

Alerts and findings:

- `notify.go:333` says the fingerprint is stable: titles with figures in them
  give the same condition a new alert whenever a figure changes.
- Pools that are SUSPENDED, OFFLINE or REMOVED have no finding. A UPS charge or
  runtime of 0 counts as not reported. A healthy backup is a finding whose
  title holds an age and a size. A Proxmox host without any vzdump task is not
  told about.
- `forecast.go`: the comment on `daysToThreshold` says -1 for a threshold that
  is reached; the code says 0.

Checks, settings, exporter, tests' store:

- `checks.go:355`: a DNS check of a literal address, and a TCP check without a
  port, are accepted by the settings in some spellings and can never be up.
- `scheduler.go:172` and `api_extended.go:372`: a program without settings runs
  speed tests every 4 h, though the defaults it shows say daily.
  `README.md:656` says the environment's webhook comes alongside those
  configured: a save replaces it. `api_extended.go:1377` says every upgrader
  lands on the 7-day ceiling: the start applies the blob unmigrated, so the
  ceiling is off until somebody saves.
- `prometheus.go:486` says stale entries are cleared: a GPU's, whose reset is
  inside its condition, stay, and so do the plain gauges of a UPS, an array or
  an update that is gone. `prometheus.go:785` says one series set per entry:
  names that differ in case or punctuation share one. `prometheus.go:787` says
  the age is computed at scrape time: it stands still between scans. A scrape
  during `Update` may find series missing.
- `fake.go:682` says the double mirrors the latest result: the database leaves
  cancelled tests out, the double does not. The double's size pruning shrinks
  at once, its `SyncAlertStates` does nothing, it prunes alerts by the time
  they were resolved, keeps empty check keys, and its log gives ids again.

Backup tools:

- `borg_runner.go:188`: a call that the deadline kills ends with an ExitError,
  so its reason is "unknown", not the "ssh_timeout" of line 296. An override
  binary that is gone or built for another C library is "unknown" too, where
  lines 283-286 say "binary_not_found".
- Of two entries for one repository only the first is shown, also when it fails
  and the second would not (`mergeBorgJobs`). `$BORG_REPO` naming what the
  search finds gives two identical rows.
- A snapshot directory that cannot be read is passed over, and damage in it
  stays hidden (`duplicacy_runner.go:370`). One whose stat fails is reported as
  "no snapshots yet". A backup that never finished counts from its start. The
  comment at line 161 says the count is zero unless "ok" or "stale"; a corrupt
  repository has one.
- Settings saves accept Duplicacy entries of any kind and path; only the Test
  button looks at them. A web-cache entry with an empty storage id passes every
  scan and is refused by the button. No finding is ever made of a Duplicacy row.

### Fairness

Only steps that the process takes by itself are fair. The Go runtime runs every
runnable goroutine, so the steps of a driver, of a handler whose browser is
connected, of a settings request and of a scan are weakly fair. An engine
returns because it is bounded: 120 seconds for the library engine
(`speedtest_go_lib.go:101`) and for the CLI (`speedtest.go:186`). A collector's
phase ends because external commands are bounded by 60 seconds (`exec.go:20`).
The loop's receive from the restart channel is strongly fair: between two scans
`select` picks among its ready cases at random, so a waiting value is not
passed over for ever, although each tick that wins disables the receive for the
length of a scan.

In `alerts` the scans go on (weak), and `SyncWrite` and `Dispatch` are strongly
fair: no user hits the moment between the two halves of the transaction every
time, and quiet hours end. In `monitors` the ticker ticks, a server's answer or
the client's timeout comes, the scan and the container loop go round, and
Docker is due again and again (strong; `NeverLongOverdue` is why). In
`housekeeping` scans follow each other and, the failures being bounded, from
some point on all succeed; this is what lets a swap be noticed in the end.
Nobody has to start a test, cancel, open or close a stream, save settings,
trigger a scan, acknowledge, panic, or restart the process.

`CHECK_DEADLOCK FALSE` is set where a bounded number of tests, scans, samples,
ticks or readings lets the model stop.

## 4. What TLAPS proves

For every value of the constants (any number of tests, browsers, callers,
requests, subsystems, cadences, snapshots, panics and failures):

| Module | Theorems |
|---|---|
| `SpeedTestRegistryProofs` | `TypeCorrect`, `OneTestInFlight`, `DoneIsRecorded`, `RefusalIsHonest`, `GaugeComesDown`, `Implements` |
| `SpeedTestAttemptsProofs` | `StoredIsTrue`, `CronWaits` |
| `MonitorsProofs` | `NeverSendsOnClosed`, `StreamTellsTheTruth` (the live stream), `ResultIsLast` (the check test stream), `NoGhostStatus` (the fleet) |
| `ScanCycleProofs` | `TypeCorrect`, `OneScanAtATime`, `ShownIsStored`, `NoRegression`, `StampsAreTrue` |
| `ScanIntervalsProofs` | `TypeCorrect`, `TickerFollows`, `OverridesHold` |
| `AlertNotificationsProofs` | `AlertsStaySound` |
| `HousekeepingProofs` | `RetentionSafe`, `DrivesAreFollowed`, `BackupsStaySafe` |
| `DecisionsProofs` | `NobodyForgotten` (the cadence), `HistoryIsTrue` (the checks), `SettingsStand`, `QuietOnceADay`, `GaugesAreTrue`, `FullOnTheDay` (the forecast), `ChecksAreAlike` (verdicts of checks), `RatedAlike` (drives), `DoubleIsFaithful` (the tests' store), `BackupsAreTold` (backup repositories), `WorseIsTold` (findings and rules) |

Each component has one inductive invariant (`IInv`, or `StampInv`, `TestIInv`,
`DriveIInv` and so on where a module proves about several): it holds initially,
each action keeps it, and a theorem reads its property off it. What a proof
assumes of the constants is an operator `...Assumption` of the module it is
about; each is an `ASSUME`, there or in the `MC` module, so TLC evaluates it for
the instance it runs.

- **Registry.** That a test's outcome is recorded once does not follow from
  itself: it needs that tests are numbered in start order and the last one
  started is the only one that may hold the slot (`Numbered`, `SlotAgrees`),
  that the completion list is exactly the tests that passed the notification,
  in order (`CompletionsAgree`), that a stamped test has an outcome
  (`HasOutcome`), and that the grace slot is the newest finished test
  (`GraceIsNewest`), which is why a refused `Cancel` is refused for a recorded
  test. `Implements` shows that each step is a step of `SpeedTestService` or a
  stutter, with `active` as the slot and the outcomes of the completion list
  as the record: the safety part of the refinement. Assumption: the bound on
  tests is a positive number.
- **Attempts.** A restart ends a test without an outcome, so the completion
  list is not the list of all tests any more and the registry's invariant does
  not carry over. What remains is that the slot holds the newest test
  (`SlotAgrees`) and that, until the step of the handler that tells of it, all
  that is stored is about older tests (`CompletionsAgree`, `HandlerAgrees`).
  `RowsAgree` and `AttemptAgrees` say how far the two rows have come for each
  place of the handler, a refused write included, and `CronAgrees` what the
  cron loop has a handle of. Assumption: the bounds are numbers.
- **Stream.** What a browser has read and what waits in its channel is a prefix
  of the replay buffer, and the whole of it while it is subscribed (`Follows`);
  the replay buffer with what waits in the live channel is one rising sequence
  that only an overflow can leave gaps in (`QueueRises`); and where the driver
  is tells what is left to read (`DriverAgrees`). Pumping and receiving move an
  element from the head of one sequence to the end of another, which leaves
  their concatenation alone (`MoveHead`). How far row and samples have come for
  each place of the completion handler, with what the store refused, is in the
  same place. Assumption: buffers have room for one sample.
- **Check test stream.** What the client has been sent, what waits in the
  channel and what the producer holds is one rising sequence of cycles
  (`UpdatesInOrder`), and as long as all that was reported (`NothingIsLost`);
  the channel is closed in the producer's last step, after which it holds
  nothing back (`ClosedIsLast`), and the handler comes to the result only over
  a closed and empty channel.
- **Fleet.** A step that adds a status is the end of a poll, and of a poll that
  began with a list that had the server; no further invariant is needed but
  that statuses are a function of the servers.
- **Scan cycle.** The data shown cannot go back because the scan that holds the
  flag is the newest one begun, so its number bounds everything stored, shown
  or seen (`Newest`, `NothingFromTheFuture`); once it has carried data forward
  each subsystem is either still due or at least as new as in the cache
  (`Carried`); and a scan caches only what it has saved (`Stored`).
- **Stamps.** While no scan is active the dispatcher's `lastRun` and the cached
  data agree on what has run (`Agrees`), and a scan passes this on from phase
  to phase (`PassedOn`). A panic between `MarkRan` and the caching breaks it,
  and so does a late reader: the two exceptions of the property.
- **Intervals.** A value on its way is a cadence (`CarriedIsCadence`), so every
  send leaves the channel full, and the stale ticker would have to be stale
  with an empty channel and nobody about to send. A lone save is the only
  request that is not idle and its blob is the stored one (`AloneIsInForce`).
  That the fastest interval is a cadence rests on the well-foundedness of `<`
  on the naturals (`MinOfNaturals`). Assumptions: cadences are positive and
  at least the clamp `UpdateInterval` applies, and the default the dispatcher
  takes for a global of 0 is one.
- **Cadence.** After a scan nothing is due (`NothingDue`), and the next scan is
  stamped at most one round and one latency later, because the next tick comes
  at most a period after the last one (`NextTickSoon`, the arithmetic of `\div`)
  and the loop is free after the scan's duration (`Ordered`). Assumptions:
  intervals are positive and there is a subsystem.
- **Alerts.** Two unresolved rows of a finding are the same row, because a
  sync inserts rows for different findings and only where there is none
  (`OpenRowIsUnique`). A silenced finding that is on its way has not been
  delivered since it was silenced, because its lookup found it audible: so at
  most one delivery comes after a user's request (`SilenceIsCounted`; a lookup
  that failed counts as none). What `recordSent` records has arrived
  (`SentHasArrived`), and scans are stamped in order (`StampsAreOrdered`).
  Assumption (`AlertAssumption`): there are finitely many findings, and a
  route matches findings.
- **Service checks.** A row is backed by the failures it counts already when it
  is counted, before it is stored (`CountsAreBacked`), since the counter comes
  from the newest row of its target. A run of the configuration in force checks
  only what is in it (`RunsAreCurrent`), and a row of a check that was dropped
  has its purge to come or was written by a run older than the configuration
  (`PurgeIsDue`).
- **Drives.** The last automatic event of a slot ends with the drive of the
  slot's state, or with the drive that is about to be saved when the event is
  inserted first (`StoryHolds`). A sleeping drive's snapshot entry is carried
  on with its old time; how long a drive has not been read is bounded by the
  age of its newest row, and that is what wakes it (`Bounded`, `Faultless`).
  All of that is under `MaxAge > 0`, which is part of the properties: with 0
  nothing is ever woken, and a drive may sleep unread for ever. Assumption
  (`DriveAssumption`): a drive is not the empty bay, and the times are
  numbers.
- **Backups.** The files nobody will complete (`Lost`) are at most one for each
  clash of two backups in one second and two for each failure
  (`LostAreCounted`), so a rotation that keeps more files than that keeps a
  complete one; without a clash every file newer than the one a writer has just
  made is complete or the other writer's (`SoleFiles`). The theorem's proviso
  (`KeepCount` exceeds the incomplete files) is part of the property.
- **Retention.** The newest snapshot is never among those a round dooms,
  because a round begins above the floor, the floor is at least the batch, and
  a tenth of a number is less than it (`BatchIsProper`, `DoomedArePrefix`). The
  doomed are a prefix of the snapshots, so those left without findings by a
  crash are too. Pages are free between two steps only while a VACUUM is
  remembered, in `needsVacuum` or in `sizePruned` (`FreeIsRemembered`).
  Assumption (`RetentionAssumption`): the least batch is within the floor (both
  are 5 in the code) and `PruneSnapshots` keeps at least one.
- **Settings.** The mark of a save is only on blobs that some save has
  validated, whether they are in the table, in a request or on a page
  (`SavedIsValid`); what is left of a start's own clamping and defaults then
  has nothing to do. Reading keeps every choice because a blob that has "smart"
  is from before version 3, so that the relocation reaches it (`SmartIsOld`),
  and a request writes back what it read, migrated (`ReadIsMigrated`); the
  drives' view in a blob without a version is excepted in the property.
  Assumption (`SettingsAssumption`): what is said there of the blobs older
  versions left.
- **Quiet hours.** Arithmetic of division with remainder (`Remainder`,
  `Later`): the minute after a minute is the next of the day, or the first, and
  the one that ends a span is not in it.
- **Gauges.** For every labelled section but the GPU: a section's series are
  the last scan's until they are cleared, by the block of resets or in place,
  and this scan's from its own step on (`SectionHolds`). The engines' gauge is
  never reset; it is right because an engine is one of the known ones
  (`GaugesAssumption`, the closed set of `models.go:764`), all of which
  `Update` puts to 0 first.
- **Forecast.** The points are on a line (`ForecastIInv`), and the sums over
  points on a line are what the line says (`SumsOnALine`, by induction on the
  number of points). The run of the slope's fraction is positive when two days
  differ, so the fraction is the growth itself, and rounding up a number of
  days that is one gives that day. Assumption (`ForecastAssumption`): growths
  are whole numbers, gaps are positive, and a volume starts between 0 and 100
  percent.
- **Verdicts of checks.** Type by type: each step of the probe keeps "no better
  than", in a network that is no better (`Worse`, `OutcomesStep`). Assumption
  (`OutcomesAssumption`): the fields of a check and of a network have their
  types.
- **Drives.** Each of the tier tables is monotone in its attribute, so the
  failure multiplier and the penalties of the score are, and so are score and
  urgency (`ScoreFalls`, `MoreUrgent`). Each finding of a drive is covered by
  one at least as severe after it has worn (`FindingsCovered`). A critical
  finding comes from an attribute whose tier the planner reads too
  (`CriticalIsSeen`). Assumption (`DrivesAssumption`): the values an attribute
  goes through do not fall, and smartctl has read the drive at all (its
  temperature or its hours are positive).
- **Stores.** The double's slice has the database's rows at the places that are
  their ids (`StoreIInv`: `SameRows`, `SameRest`), so the greatest id is the
  last place, and a row that was deleted is an empty place. The exceptions of
  section 2 are conjuncts of the property: what is proved is that outside them
  lists, limits and latest rows agree. Assumption (`StoreAssumption`): the
  default of a limit is within the greatest.
- **Backup repositories.** No file of a Duplicacy repository is from the future
  (`DuplicacyIInv`), so a backup that ends is the newest there is, and one that
  is recent stays so when files get newer (`BackupIsNewer`). Of the Borg rows
  merged after k entries a configured one is the last of its path, its path is
  that of one of the k, and each of the k has one (`RowsUntil`, by induction on
  the entries): mergeBorgJobs marks the last row of a path, also where the
  search found the same path twice. Assumptions: a stale time is a number
  (`DuplicacyAssumption`); entries and found paths are lists, what the search
  finds does not change, and ages are numbers of hours (`BorgAssumption`).
- **Findings and rules.** Section by section of the analyzer: every finding on
  a reading is made up for, on a worse one, by a finding that is as grave, in
  the same category unless that is one findings move out of, and as good a clue
  to the correlations (`Covers`). Sections are covered one by one and united
  (`AllCovered`), and the correlations, which withdraw the findings they
  replace, cover what they withdraw. The worst finding and the rules on
  findings follow from that; the other rules are about one reading each. The
  theorem is about any levels, not those TLC steps through. Assumptions: levels
  go from good to bad as `NoBetter` has it, a charge or a runtime is reported
  or not, at most three replicas are unavailable (`HostAssumption`); a rule's
  threshold is a number (`RulesAssumption`).

Only model-checked:

- all liveness, which needs fairness and ENABLED that the prover does not
  handle: the liveness half of `ImplementsService`, `CancelDuringRunSticks`,
  `EveryStreamEnds`, `DisabledSettles`, `TickerSettles`, `ScanEnds`,
  `AlertFollowsFinding`, `FindingIsTold`, `EverythingSettles`, `SwapIsNoticed`.

Every other property that a passing run checks is stated by a theorem.

The modules that are proved about do without `@@`, `SelectSeq`, CASE and folds,
which the prover cannot expand; the series of `PrometheusGauges`, for instance,
are a function whose value is that of the last item with the label. What
computes over a list is a recursive function; its value is characterised by a
sequence of intermediate ones (`PartialSums`, `RowsAreMerged`), over which an
induction on the numbers up to a bound (`UpTo`) runs.

## 5. What is not modelled

- **Collectors**: running commands and parsing what they print. The modules
  begin at the readings. Restic, Proxmox Backup Server and Duplicati rows are
  of the same kind as the modelled Borg and Duplicacy ones.
- **Rendering**: dashboard, reports, charts, wording, JSON shapes, logging, the
  demo data, the replacement plan's prices and the r squared of a forecast.
- **Wire protocols**: HTTP, DNS, ping and webhook formats; a check or a delivery
  has an outcome. Log forwarding sends and forgets; `notify.go`'s own
  dispatcher is not called by the program.
- **Storage**: chart queries and schema migrations. SQL is the tables' contents
  with writes that may be refused; a transaction is one action unless its
  reads and writes can be told apart (`SyncAlertStates`).
- **Time**: the clock does not step back, and no stored snapshot is stamped in
  the future. Speed tests start at any moment rather than at their times of
  day; maintenance windows and quiet hours both are the step `Mute` in
  `AlertNotifications` (`QuietHours` has the latter's minutes).
- **Memory**: Go data races on multi-word values are not torn, in-place edits
  of the cached snapshot are steps. A backup is a copy of the file that is
  whole or not; whether one taken during a write can be opened is not.

## 6. Plan

Done, in the order of importance: the speed-test registry with its abstract
specification, its stream and its attempts; the scan cycle, intervals and
cadence; alerts and their notifications; service checks; what runs beside the
scans (fleet, cached snapshot, test stream); the tail of a scan (drives,
retention, backups); the analyzer's rules, drive ratings, forecast, users'
rules and quiet hours; the settings blob, the gauges, the tests' store, and two
backup tools.

Left:

1. The speed-test cadence as a function of time (start-up plan, times of day,
   the disabled sentinel), checked against a reference definition.
2. The remaining tables of the two stores in `StoreContract`.
3. The rows of Restic and Proxmox Backup Server.
