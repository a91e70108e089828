------------------------------ MODULE Verdicts ------------------------------
(***************************************************************************)
(* What the program concludes: when a volume will be full, what a check    *)
(* says of its target, what is said of a drive, and what the two stores    *)
(* answer.  The components share no state; each keeps its own variables    *)
(* here, and its property is named once, for the runs and for the proofs.  *)
(***************************************************************************)

\* SystemFindings and AlertRules: the values of each reading, the readings
\* that get worse together, and the user's rules.
CONSTANTS ReadingLevels, ReadingFocuses, AlertRuleSet
VARIABLES reading, moving

Rules == INSTANCE AlertRules WITH
  Levels <- ReadingLevels, Focuses <- ReadingFocuses, Rules <- AlertRuleSet,
  focus <- moving

\* CapacityForecast: the steps a volume grows by in a day, how full it may be
\* on the first day, the days between two scans and the most points kept.
CONSTANTS Growths, FirstUsages, ScanGaps, MaxPoints
VARIABLES growth, points

Volume == INSTANCE CapacityForecast WITH
  Starts <- FirstUsages, Gaps <- ScanGaps

\* CheckOutcomes: the checks a user may configure and the networks they meet.
CONSTANTS CheckConfigs, NetworkStates
VARIABLES check, network

Outcomes == INSTANCE CheckOutcomes WITH
  Configured <- CheckConfigs, Networks <- NetworkStates

\* DriveHealth: the values each attribute of a drive goes through as it wears,
\* and the forms smartctl answers in.
CONSTANTS WearLevels, SmartctlOutputs
VARIABLES drive, output

Drives == INSTANCE DriveHealth WITH
  Levels <- WearLevels, Outputs <- SmartctlOutputs

\* StoreContract: the tables, the keys of their rows, the bounds on saves and
\* rows, the ages a pruning is asked for, and the limits of a list.
CONSTANTS Tables, RowKeys, LastSave, MostRows, PruneAges, ShownByDefault,
          ShownAtMost
VARIABLES area, time, sqlite, fake

Store == INSTANCE StoreContract WITH
  Areas <- Tables, Keys <- RowKeys, MaxTime <- LastSave, MaxRows <- MostRows,
  Ages <- PruneAges, now <- time, DefaultLimit <- ShownByDefault,
  MaxLimit <- ShownAtMost

\* DuplicacyRepos: what a user may configure, the ids of the snapshot files,
\* the days after which a backup is stale, and the bounds.
CONSTANTS DuplicacyEntries, SnapshotSlots, StaleDefault, LastDay, MaxIncidents
VARIABLES entry, disk, day, events

Duplicacy == INSTANCE DuplicacyRepos WITH
  Entries <- DuplicacyEntries, Slots <- SnapshotSlots,
  DefaultStaleAfter <- StaleDefault, MaxDay <- LastDay,
  MaxEvents <- MaxIncidents

\* BorgRepos: what a user may configure, what each part of the host may be,
\* the paths the search may come upon, and how much may be broken at once.
CONSTANTS BorgLists, HostValues, FoundPaths, MaxBroken
VARIABLES entries, host

Borg == INSTANCE BorgRepos WITH
  EntryLists <- BorgLists, Values <- HostValues, Found <- FoundPaths
-----------------------------------------------------------------------------
\* SystemFindings and AlertRules: when one reading gets worse, no finding
\* vanishes or turns milder, and no rule that fires falls silent.
RulesAreMonotone == Rules!RulesAreMonotone

\* CapacityForecast: a volume that grows steadily is full on the day that was
\* forecast, whatever scans were missed.
ForecastComesTrue == Volume!ForecastComesTrue

\* CheckOutcomes: the test button and the schedule judge a check alike, though
\* each has its own defaults, and a network that gets worse never turns a
\* check up.
ChecksAgree == Outcomes!ChecksAgree

\* DriveHealth: the findings, the health score and the replacement planner,
\* each with its own thresholds, rate a drive alike: what is critical for one
\* is planned by the other, and wear never makes a drive look better.
DrivesRatedAlike == Drives!DrivesRatedAlike

\* StoreContract: after whatever saves, edits and prunings the tests' store
\* answers as the database may, but for the exceptions the module names.
DoubleAgrees == Store!DoubleAgrees

\* DuplicacyRepos and BorgRepos: the row of a backup repository tells of the
\* newest backup that can be read, or names what is broken; a backup that ends
\* is in it at once, and what the user watches has one row, under whatever
\* spelling and with however many entries.
BackupRowsAreTrue ==
  /\ [][Duplicacy!RowsAreTrue]_(Duplicacy!vars)
  /\ [][Borg!RowsAreTrue]_(Borg!vars)
=============================================================================
