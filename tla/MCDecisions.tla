---------------------------- MODULE MCDecisions -----------------------------
(***************************************************************************)
(* What the program decides from what it has read or stored: findings and  *)
(* alert rules, drives to replace, the verdicts of checks, quiet hours,    *)
(* forecasts, what is due, settings, gauges, the two stores, and the rows  *)
(* of backup repositories.  The components share no state; "focus" names   *)
(* the one that moves while the others stay where they begin.              *)
(***************************************************************************)
EXTENDS MCInputs, Decisions, Verdicts

CONSTANTS smart, docker, k1, k2, web

VARIABLE focus

rulesVars == <<reading, moving>>
drivesVars == <<drive, output>>
outcomesVars == <<check, network>>
quietVars == <<start, end, enabled, minute>>
forecastVars == <<growth, points>>
settingsVars == <<stored, running, up, page, request, pageSaves, patches,
                  restarts>>
gaugesVars == <<watched, second, world, snap, prev, stage, gauges, test,
                samples>>
storeVars == <<area, time, sqlite, fake>>
checksVars == <<clock, config, lastCheck, runs, saves, history, begun, saved,
                faults, observed, version>>
duplicacyVars == <<entry, disk, day, events>>
borgVars == <<entries, host>>
repoVars == <<duplicacyVars, borgVars>>
cadenceVars == vars

MCSubsystems == {smart, docker}
MCCheckList == <<web>>
MCSlots == <<"photos", "system">>
MCFoundPaths == {<<>>, <<"r", "r">>}
MCInterval == [n \in MCSubsystems |-> IF n = smart THEN 3 ELSE 7]

\* Checks has three runs and one save of the settings, this one two and two.
Purges == INSTANCE ServiceChecks WITH
  Order <- CheckList, Interval <- CheckInterval, MaxTime <- LastSecond,
  lastRun <- lastCheck, MaxRuns <- 2, MaxSaves <- 2

\* What the proofs assume of the constants holds of these.
ASSUME
  /\ Quiet!QuietAssumption
  /\ Settings!SettingsAssumption
  /\ Gauges!GaugesAssumption
  /\ Volume!ForecastAssumption
  /\ Outcomes!OutcomesAssumption
  /\ Drives!DrivesAssumption
  /\ Store!StoreAssumption
  /\ Duplicacy!DuplicacyAssumption
  /\ Borg!BorgAssumption
  /\ Rules!HostAssumption
  /\ Rules!RulesAssumption
-----------------------------------------------------------------------------
\* Where the components that do not move begin.
HostAtRest == reading = [f \in DOMAIN HostLevels |-> HostLevels[f][1]]
                /\ moving = {"mem", "swap", "iowait", "load"}
DriveAtRest == Drives!Init /\ drive.assessment = "passed"
                 /\ drive.kind = "hdd"
                 /\ output = "json"
CheckAtRest == check = PlainCheck /\ network = FineNetwork
ClockAtRest == start = 0 /\ end = 0 /\ enabled = FALSE /\ minute = 0
VolumeAtRest == growth = 0 /\ points = <<[day |-> 0, used |-> 0]>>
SettingsAtRest == Settings!Init /\ stored = Settings!NoBlob
GaugesAtRest == Gauges!Init /\ watched = {"smart"}
StoreAtRest == Store!Init /\ area = "log"
ChecksAtRest == Checks!Init /\ config[web] = "absent"
CadenceAtRest == Init /\ free = 0
BorgAtRest == Borg!Init /\ host.found = <<>>

Starts(name, First, Rest) == IF focus = name THEN First ELSE Rest

InitAll ==
  /\ focus \in {"rules", "drives", "outcomes", "quiet", "forecast",
                "settings", "gauges", "store", "checks", "purges",
                "cadence", "duplicacy", "borg"}
  /\ Starts("rules", Rules!Init, HostAtRest)
  /\ Starts("drives", Drives!Init, DriveAtRest)
  /\ Starts("outcomes", Outcomes!Init, CheckAtRest)
  /\ Starts("quiet", Quiet!Init, ClockAtRest)
  /\ Starts("forecast", Volume!Init, VolumeAtRest)
  /\ Starts("settings", Settings!Init, SettingsAtRest)
  /\ Starts("gauges", Gauges!Init, GaugesAtRest)
  /\ Starts("store", Store!Init, StoreAtRest)
  /\ IF focus \in {"checks", "purges"} THEN Checks!Init ELSE ChecksAtRest
  /\ Starts("cadence", Init, CadenceAtRest)
  /\ Duplicacy!Init
  /\ Starts("borg", Borg!Init, BorgAtRest)

NextAll ==
  \/ /\ focus = "rules" /\ Rules!Next
     /\ UNCHANGED <<focus, drivesVars, outcomesVars, quietVars, forecastVars,
                  settingsVars, gaugesVars, storeVars, checksVars,
                  cadenceVars, repoVars>>
  \/ /\ focus = "drives" /\ Drives!Next
     /\ UNCHANGED <<focus, rulesVars, outcomesVars, quietVars, forecastVars,
                  settingsVars, gaugesVars, storeVars, checksVars,
                  cadenceVars, repoVars>>
  \/ /\ focus = "outcomes" /\ Outcomes!Next
     /\ UNCHANGED <<focus, rulesVars, drivesVars, quietVars, forecastVars,
                  settingsVars, gaugesVars, storeVars, checksVars,
                  cadenceVars, repoVars>>
  \/ /\ focus = "quiet" /\ Quiet!Tick
     /\ UNCHANGED <<focus, rulesVars, drivesVars, outcomesVars, forecastVars,
                  settingsVars, gaugesVars, storeVars, checksVars,
                  cadenceVars, repoVars>>
  \/ /\ focus = "forecast" /\ Volume!Next
     /\ UNCHANGED <<focus, rulesVars, drivesVars, outcomesVars, quietVars,
                  settingsVars, gaugesVars, storeVars, checksVars,
                  cadenceVars, repoVars>>
  \/ /\ focus = "settings" /\ Settings!Next
     /\ UNCHANGED <<focus, rulesVars, drivesVars, outcomesVars, quietVars,
                  forecastVars, gaugesVars, storeVars, checksVars,
                  cadenceVars, repoVars>>
  \/ /\ focus = "gauges" /\ Gauges!Next
     /\ UNCHANGED <<focus, rulesVars, drivesVars, outcomesVars, quietVars,
                  forecastVars, settingsVars, storeVars, checksVars,
                  cadenceVars, repoVars>>
  \/ /\ focus = "store" /\ Store!Next
     /\ UNCHANGED <<focus, rulesVars, drivesVars, outcomesVars, quietVars,
                  forecastVars, settingsVars, gaugesVars, checksVars,
                  cadenceVars, repoVars>>
  \/ /\ \/ focus = "checks" /\ Checks!Next
        \/ focus = "purges" /\ Purges!Next
     /\ UNCHANGED <<focus, rulesVars, drivesVars, outcomesVars, quietVars,
                  forecastVars, settingsVars, gaugesVars, storeVars,
                  cadenceVars, repoVars>>
  \/ /\ focus = "cadence" /\ Scan
     /\ UNCHANGED <<focus, rulesVars, drivesVars, outcomesVars, quietVars,
                  forecastVars, settingsVars, gaugesVars, storeVars,
                  checksVars, repoVars>>
  \/ /\ \/ focus = "duplicacy" /\ Duplicacy!Next /\ UNCHANGED borgVars
        \/ focus = "borg" /\ Borg!Next /\ UNCHANGED duplicacyVars
     /\ UNCHANGED <<focus, rulesVars, drivesVars, outcomesVars, quietVars,
                  forecastVars, settingsVars, gaugesVars, storeVars,
                  checksVars, cadenceVars>>

SpecAll ==
  InitAll /\ [][NextAll]_<<focus, rulesVars, drivesVars, outcomesVars,
                       quietVars, forecastVars, settingsVars, gaugesVars,
                       storeVars, checksVars, cadenceVars, repoVars>>

-----------------------------------------------------------------------------
(* What comments say and the code refutes.                                 *)

\* checks.go:619: a stored status is trusted for thirty days, which "is
\* generous enough to cover weekly cadences": the check of a speed test that
\* met its thresholds stays up until the next week's.
WeeklyTestCounts == Outcomes!WeeklyTestCounts

\* api_extended.go:1330: "Only write if we actually had to migrate": reading
\* settings of the current version writes nothing over what is stored.
OnlyMigrationsWrite == Settings!OnlyMigrationsWrite
=============================================================================
