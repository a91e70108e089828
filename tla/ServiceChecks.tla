--------------------------- MODULE ServiceChecks ----------------------------
(***************************************************************************)
(* Service checks and their history (internal/scheduler/checks.go:         *)
(* RunDueChecks; scheduler.go: runServiceChecks, UpdateServiceChecks;      *)
(* internal/storage/db.go: SaveServiceCheckResults and the queries of the  *)
(* same table).  The check loop, the scan and POST /service-checks/run     *)
(* check the same targets at the same time, while settings saves replace   *)
(* the configuration and purge the history of what it dropped.             *)
(*                                                                         *)
(* A check stands for its key (CheckKey); a target is found up or down at  *)
(* will.                                                                   *)
(***************************************************************************)
EXTENDS Naturals, Sequences

CONSTANTS
  Order,         \* the checks, as they are listed in the settings
  Loop,          \* the 30 s loop
  Others,        \* the scan and API requests
  Savers,        \* settings requests
  Interval,      \* IntervalSec
  MaxTime,       \* bound: the clock, in seconds
  MaxRuns,       \* bound: runs begun
  MaxSaves,      \* bound: settings saved
  MaxFaults      \* bound: store errors and restarts

Keys == {Order[i] : i \in DOMAIN Order}
Runners == {Loop} \cup Others
Configs == [Keys -> {"absent", "disabled", "enabled"}]

VARIABLES
  clock,
  config,        \* s.serviceChecks
  lastRun,       \* the checker's lastRun; 0: none
  runs,          \* what each runner is doing
  saves,         \* each saver's configuration while it still has to purge
  history,       \* the rows of the table; rows alike are one
  begun, saved, faults,
  \* for the properties:
  observed,      \* how often each target was found down
  version        \* number of the configuration in force

vars == <<clock, config, lastRun, runs, saves, history, begun, saved,
          faults, observed, version>>

\* "late" is no column: the row's run began under an older configuration.
Row(k, t, isDown, n) ==
  [key |-> k, at |-> t, down |-> isDown, count |-> n, late |-> FALSE]
Idle == [at |-> "idle", now |-> 0, todo |-> {}, results |-> {},
         version |-> 0]
NoSave == [k \in Keys |-> "none"]

Init ==
  /\ clock = 1
  /\ config \in Configs
  /\ lastRun = [k \in Keys |-> 0]
  /\ runs = [r \in Runners |-> Idle]
  /\ saves = [s \in Savers |-> NoSave]
  /\ history = {}
  /\ begun = 0
  /\ saved = 0
  /\ faults = 0
  /\ observed = [k \in Keys |-> 0]
  /\ version = 0

Fail == faults < MaxFaults /\ faults' = faults + 1

Tick ==
  /\ clock < MaxTime
  /\ clock' = clock + 1
  /\ UNCHANGED <<config, lastRun, runs, saves, history, begun, saved, faults,
                 observed, version>>

-----------------------------------------------------------------------------
(* Runs.                                                                   *)

\* Where in the list a runner finds a check to make.
Enabled == {i \in DOMAIN Order : config[Order[i]] = "enabled"}
Due == {i \in Enabled : \/ lastRun[Order[i]] = 0
                        \/ clock - lastRun[Order[i]] >= Interval}

\* Runner r copies the configuration and begins with the checks in todo; with
\* nothing to do it returns.
Begin(r, todo) ==
  /\ runs[r].at = "idle"
  /\ begun < MaxRuns
  /\ todo # {}
  /\ begun' = begun + 1
  /\ runs' = [runs EXCEPT ![r] = [at |-> "checking", now |-> clock,
                                  todo |-> todo, results |-> {},
                                  version |-> version]]
  /\ UNCHANGED <<clock, config, lastRun, saves, history, saved, faults,
                 observed, version>>

RunDueChecks == Begin(Loop, Due)
RunServiceChecks(r) == r \in Others /\ Begin(r, Enabled)

\* GetLatestServiceCheckState: a row with the greatest checked_at, which is
\* a number of seconds: which one of several is up to the index.
Latest(k) ==
  LET of == {row \in history : row.key = k} IN
  {row \in of : \A other \in of : other.at <= row.at}

\* The consecutive failures up to the previous state; if there is none, or it
\* cannot be read, they are counted anew.
Failures(row) == IF row.down THEN row.count ELSE 0
Previous(k, before) ==
  \/ (\E row \in Latest(k) : before = Failures(row)) /\ UNCHANGED faults
  \/ before = 0 /\ IF Latest(k) = {} THEN UNCHANGED faults ELSE Fail
Counted(before, isDown) == IF isDown THEN before + 1 ELSE 0

\* RunCheck finds the next check up or down; then its previous state is read,
\* and its failures are counted.
Check(r, isDown) ==
  \E i \in runs[r].todo :
    /\ \A j \in runs[r].todo : i <= j
    /\ LET k == Order[i] IN
       /\ \E before \in {0} \cup {row.count : row \in Latest(k)} :
            /\ Previous(k, before)
            /\ runs' = [runs EXCEPT
                 ![r].todo = @ \ {i},
                 ![r].results = @ \cup {Row(k, runs[r].now, isDown,
                                            Counted(before, isDown))}]
       /\ lastRun' = IF r = Loop THEN [lastRun EXCEPT ![k] = runs[r].now]
                                 ELSE lastRun
       /\ observed' = IF isDown THEN [observed EXCEPT ![k] = @ + 1]
                                ELSE observed
    /\ UNCHANGED <<clock, config, saves, history, begun, saved, version>>

\* SaveServiceCheckResults: all rows or, if the store fails, none.
Save(r) ==
  /\ runs[r].at = "checking"
  /\ runs[r].todo = {}
  /\ runs' = [runs EXCEPT ![r] = Idle]
  /\ \/ /\ history' = history \cup
              {[row EXCEPT !.late = runs[r].version < version] :
                 row \in runs[r].results}
        /\ UNCHANGED faults
     \/ Fail /\ UNCHANGED history
  /\ UNCHANGED <<clock, config, lastRun, saves, begun, saved, observed,
                 version>>

-----------------------------------------------------------------------------
(* Settings, users and restarts.                                           *)

\* UpdateServiceChecks sets the configuration under the lock ...
SetChecks(s, c) ==
  /\ saves[s] = NoSave
  /\ saved < MaxSaves
  /\ c # config
  /\ saved' = saved + 1
  /\ config' = c
  /\ version' = version + 1
  /\ saves' = [saves EXCEPT ![s] = c]
  /\ UNCHANGED <<clock, lastRun, runs, history, begun, faults,
                 observed>>

\* Mutant: an empty list of keys deletes nothing.
KeptUnlessEmpty(c) ==
  LET keep == {k \in Keys : c[k] # "absent"} IN
  IF keep = {} THEN history
               ELSE {row \in history : row.key \in keep}

\* DeleteServiceChecksNotIn: the rows it leaves.
Kept(c) == {row \in history : c[row.key] # "absent"}

\* ... and then purges the history of the checks it has dropped.
Purge(s) ==
  /\ saves[s] # NoSave
  /\ saves' = [saves EXCEPT ![s] = NoSave]
  /\ history' = Kept(saves[s])
  /\ UNCHANGED <<clock, config, lastRun, runs, begun, saved, faults,
                 observed, version>>

\* handleDeleteServiceCheck.
DeleteCheck(k) ==
  /\ \E row \in history : row.key = k
  /\ history' = {row \in history : row.key # k}
  /\ UNCHANGED <<clock, config, lastRun, runs, saves, begun, saved,
                 faults, observed, version>>

\* PruneServiceCheckHistory.
Prune(cutoff) ==
  /\ \E row \in history : row.at < cutoff
  /\ history' = {row \in history : row.at >= cutoff}
  /\ UNCHANGED <<clock, config, lastRun, runs, saves, begun, saved,
                 faults, observed, version>>

\* The process starts again: main applies the stored checks, and purges.
Restart ==
  /\ Fail
  /\ lastRun' = [k \in Keys |-> 0]
  /\ runs' = [r \in Runners |-> Idle]
  /\ saves' = [s \in Savers |-> NoSave]
  /\ history' = Kept(config)
  /\ UNCHANGED <<clock, config, begun, saved, observed, version>>

Next ==
  \/ Tick
  \/ RunDueChecks
  \/ \E r \in Others : RunServiceChecks(r)
  \/ \E r \in Runners, isDown \in BOOLEAN : Check(r, isDown)
  \/ \E r \in Runners : Save(r)
  \/ \E s \in Savers :
       \/ \E c \in Configs : SetChecks(s, c)
       \/ Purge(s)
  \/ \E k \in Keys : DeleteCheck(k)
  \/ Prune(clock)
  \/ Restart

Spec == Init /\ [][Next]_vars

-----------------------------------------------------------------------------
(* Properties.                                                             *)

\* However runs overlap, share a previous state, fail or are purged, a row
\* never counts more consecutive failures than its target was found down:
\* no finding is raised before its threshold was really reached.
AlarmIsBacked ==
  \A row \in history : row.count <= observed[row.key]

\* A row of a check that is no longer configured comes from a run that was
\* under way when its configuration was replaced: with no such run, and the
\* purges done, the history has only configured checks.
OnlyOldRunsLeaveOrphans ==
  (\A s \in Savers : saves[s] = NoSave)
    => \A row \in history : config[row.key] # "absent" \/ row.late

\* The history can be trusted: both of the above.
ChecksHistory == AlarmIsBacked /\ OnlyOldRunsLeaveOrphans
=============================================================================
