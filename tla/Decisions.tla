----------------------------- MODULE Decisions ------------------------------
(***************************************************************************)
(* What the program goes on from one step to the next: when a subsystem is *)
(* due (ScanCadence), the checks' history, the settings, the quiet hours   *)
(* and the gauges, and what each of these promises.  They share no state.  *)
(***************************************************************************)
EXTENDS ScanCadence

CONSTANTS CheckList, Loop, Others, Savers, CheckInterval, LastSecond,
          MaxRuns, MaxSaves, MaxFaults
VARIABLES clock, config, lastCheck, runs, saves, history, begun, saved,
          faults, observed, version

Checks == INSTANCE ServiceChecks WITH
  Order <- CheckList, Interval <- CheckInterval, MaxTime <- LastSecond,
  lastRun <- lastCheck

CONSTANTS Requests, Stored, Ages, Keeps, EnvHooks, MaxPageSaves, MaxPatches,
          MaxRestarts
VARIABLES stored, running, up, page, request, pageSaves, patches, restarts

Settings == INSTANCE SettingsStore WITH
  MaxSaves <- MaxPageSaves, saves <- pageSaves

CONSTANT DayLength
VARIABLES start, end, enabled, minute

Quiet == INSTANCE QuietHours WITH Day <- DayLength, now <- minute

CONSTANTS Watched, Contents, Slug, Reasons, Engines, LastUpdate, MaxTests
VARIABLES watched, second, world, snap, prev, stage, gauges, test, samples

Gauges == INSTANCE PrometheusGauges WITH
  MaxTime <- LastUpdate, now <- second

-----------------------------------------------------------------------------
\* ServiceChecks: an alarm is backed by as many failures as it counts, in the
\* history, and only a run that began before a save leaves rows of a check the
\* save removed.
ChecksHistory == Checks!ChecksHistory

\* SettingsStore: reading stored settings, of whatever version, keeps every
\* choice in them (but whether a blob of version 0 has the drives merged), and
\* a restart leaves the running program as it was.
SettingsHold == Settings!SettingsHold

\* QuietHours: the quiet minutes of a day are one span from start to end,
\* also over midnight.
QuietIsOneSpan == Quiet!QuietIsOneSpan

\* PrometheusGauges: after an update the registry holds, in every section but
\* the GPU's, a labelled series for what is in the snapshot and for nothing
\* that has left it.
NoGhostSeries == Gauges!NoGhostSeries
=============================================================================
