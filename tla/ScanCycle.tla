----------------------------- MODULE ScanCycle ------------------------------
(***************************************************************************)
(* One scan after another (internal/scheduler/scheduler.go: RunOnce,       *)
(* carryForwardSubsystems, runWithRecover; scan_dispatcher.go: Tick,       *)
(* MarkRan, LastRunMap) and the snapshot it leaves in the scheduler's      *)
(* cache and in the store.  RunOnce is called by the main loop and by the  *)
(* goroutines handleTriggerScan launches; ensureLatestSnapshot (api.go)    *)
(* fills an empty cache from the store.                                    *)
(*                                                                         *)
(* Time is counted in scans: a scan's timestamp is its number, and a       *)
(* subsystem's data in a snapshot is the number of the scan that looked at *)
(* it (even if it found nothing, or failed), 0 when none did.              *)
(***************************************************************************)
EXTENDS Naturals

CONSTANTS
  Main,            \* the main loop
  Triggers,        \* POST /api/v1/scan requests
  Subsystems,      \* configurableSubsystems
  MaxScans,        \* bound: scans begun
  MaxPanics,       \* bound: collectors or later phases that panic
  MaxErrors,       \* bound: snapshots the store refuses
  MaxRestarts      \* bound: process restarts, besides those panics cause

ASSUME ScanAssumption ==
  /\ Main \notin Triggers
  /\ MaxScans \in Nat /\ MaxPanics \in Nat
  /\ MaxErrors \in Nat /\ MaxRestarts \in Nat

Callers == {Main} \cup Triggers

Times == [Subsystems -> 0..MaxScans]
Snapshots == [at : 1..MaxScans, data : Times, ran : Times]
None == [at |-> 0, data |-> [n \in Subsystems |-> 0],
         ran |-> [n \in Subsystems |-> 0]]

VARIABLES
  running,      \* s.running
  begun,        \* number of the last scan begun
  scan,         \* each caller's RunOnce: where it is, its due list and snap
  lastRun,      \* the dispatcher's lastRun; 0 is the zero time
  latest,       \* s.latest
  disk,         \* the newest stored snapshot
  reader,       \* the reader in ensureLatestSnapshot's slow path; late: one
                \* has filled the cache during a scan or over its snapshot
  panics, errors, restarts

memory == <<running, scan, lastRun, latest, reader>>
faults == <<panics, errors, restarts>>
vars == <<memory, begun, disk, faults>>

ScanStates == [at : {"idle", "launched", "collected", "ticked", "running",
                     "analysed", "saved", "published"},
               due : SUBSET Subsystems, snap : Snapshots \cup {None}]
NoScan == [at |-> "idle", due |-> {}, snap |-> None]
ReaderStates == [at : {"idle", "missed", "loaded"},
                 seen : Snapshots \cup {None}, late : BOOLEAN]
NoReader == [at |-> "idle", seen |-> None, late |-> FALSE]

Init ==
  /\ running = FALSE
  /\ begun = 0
  /\ scan = [c \in Callers |-> NoScan]
  /\ lastRun = [n \in Subsystems |-> 0]
  /\ latest = None
  /\ disk = None
  /\ reader = NoReader
  /\ panics = 0
  /\ errors = 0
  /\ restarts = 0

\* Caller c's scan goes on at "at", with the due list and snapshot given.
To(c, at, due, snap) ==
  scan' = [scan EXCEPT ![c] = [at |-> at, due |-> due, snap |-> snap]]

-----------------------------------------------------------------------------
(* Who calls RunOnce.                                                      *)

\* handleTriggerScan: IsRunning said no, the goroutine is on its way.
Trigger(c) ==
  /\ c \in Triggers
  /\ scan[c].at = "idle"
  /\ ~running
  /\ scan' = [scan EXCEPT ![c] = [NoScan EXCEPT !.at = "launched"]]
  /\ UNCHANGED <<running, begun, lastRun, latest, disk, reader, faults>>

MayBegin(c) == scan[c].at = (IF c = Main THEN "idle" ELSE "launched")

\* The running guard let the caller in; Collect stamps the new snapshot.
Begin(c) ==
  /\ MayBegin(c)
  /\ ~running
  /\ begun < MaxScans
  /\ running' = TRUE
  /\ begun' = begun + 1
  /\ To(c, "collected", {}, [None EXCEPT !.at = begun'])
  /\ UNCHANGED <<lastRun, latest, disk, reader, faults>>

\* Mutant: the deferred reset is registered before the guard.
SkipResets(c) ==
  /\ MayBegin(c)
  /\ running
  /\ scan' = [scan EXCEPT ![c] = NoScan]
  /\ running' = FALSE
  /\ UNCHANGED <<begun, lastRun, latest, disk, reader, faults>>

\* "collection already in progress, skipping"
Skip(c) ==
  /\ MayBegin(c)
  /\ running
  /\ scan' = [scan EXCEPT ![c] = NoScan]
  /\ UNCHANGED <<running, begun, lastRun, latest, disk, reader, faults>>

-----------------------------------------------------------------------------
(* The phases of RunOnce.                                                  *)

\* dispatcher.Tick: a subsystem that never ran is due, of the others those
\* whose interval has passed.
Tick(c) ==
  /\ scan[c].at = "collected"
  /\ \E more \in SUBSET Subsystems :
       To(c, "ticked", more \cup {n \in Subsystems : lastRun[n] = 0},
          scan[c].snap)
  /\ UNCHANGED <<running, begun, lastRun, latest, disk, reader, faults>>

\* Mutant: nothing is carried forward.
CarryNothing(c) ==
  /\ scan[c].at = "ticked"
  /\ To(c, "running", scan[c].due, scan[c].snap)
  /\ UNCHANGED <<running, begun, lastRun, latest, disk, reader, faults>>

\* Subsystems that are not due keep the cached snapshot's data.
CarryForward(c) ==
  /\ scan[c].at = "ticked"
  /\ To(c, "running", scan[c].due,
        [scan[c].snap EXCEPT !.data =
           [n \in Subsystems |->
              IF n \in scan[c].due THEN @[n] ELSE latest.data[n]]])
  /\ UNCHANGED <<running, begun, lastRun, latest, disk, reader, faults>>

\* runSubsystem and MarkRan with the scan's timestamp.
RunSubsystem(c, n) ==
  /\ scan[c].at = "running"
  /\ n \in scan[c].due
  /\ To(c, "running", scan[c].due \ {n},
        [scan[c].snap EXCEPT !.data[n] = scan[c].snap.at])
  /\ lastRun' = [lastRun EXCEPT ![n] = scan[c].snap.at]
  /\ UNCHANGED <<running, begun, latest, disk, reader, faults>>

\* Mutant: every subsystem is stamped with the scan's time.
StampAll(c) ==
  /\ scan[c].at = "running"
  /\ scan[c].due = {}
  /\ To(c, "analysed", {},
        [scan[c].snap EXCEPT !.ran = [n \in Subsystems |-> scan[c].snap.at]])
  /\ UNCHANGED <<running, begun, lastRun, latest, disk, reader, faults>>

\* SubsystemLastRan, then the analysis.
Stamp(c) ==
  /\ scan[c].at = "running"
  /\ scan[c].due = {}
  /\ To(c, "analysed", {}, [scan[c].snap EXCEPT !.ran = lastRun])
  /\ UNCHANGED <<running, begun, lastRun, latest, disk, reader, faults>>

\* SaveSnapshot; an error is logged and the scan goes on.
Save(c) ==
  /\ scan[c].at = "analysed"
  /\ To(c, "saved", {}, scan[c].snap)
  /\ \/ disk' = scan[c].snap /\ UNCHANGED errors
     \/ errors < MaxErrors /\ errors' = errors + 1 /\ UNCHANGED disk
  /\ UNCHANGED <<running, begun, lastRun, latest, reader, panics, restarts>>

\* Mutant: the snapshot is cached before it is saved.
PublishUnsaved(c) ==
  /\ scan[c].at = "analysed"
  /\ To(c, "published", {}, scan[c].snap)
  /\ latest' = scan[c].snap
  /\ UNCHANGED <<running, begun, lastRun, disk, reader, faults>>

\* s.latest = snap
Publish(c) ==
  /\ scan[c].at = "saved"
  /\ To(c, "published", {}, scan[c].snap)
  /\ latest' = scan[c].snap
  /\ UNCHANGED <<running, begun, lastRun, disk, reader, faults>>

\* Alerts, notifications, forwarding, pruning and backup are behind; the
\* deferred reset of the running flag.
Finish(c) ==
  /\ scan[c].at = "published"
  /\ scan' = [scan EXCEPT ![c] = NoScan]
  /\ running' = FALSE
  /\ UNCHANGED <<begun, lastRun, latest, disk, reader, faults>>

Active(c) == scan[c].at \notin {"idle", "launched"}

\* Mutant: the running flag is reset by a last statement, not by a defer.
PanicKeepsFlag ==
  /\ Active(Main)
  /\ panics < MaxPanics
  /\ panics' = panics + 1
  /\ scan' = [scan EXCEPT ![Main] = NoScan]
  /\ UNCHANGED <<running, begun, lastRun, latest, disk, reader, errors,
                 restarts>>

\* A panic in the main loop's scan runs the deferred reset and is recovered.
RecoveredPanic ==
  /\ Active(Main)
  /\ panics < MaxPanics
  /\ panics' = panics + 1
  /\ scan' = [scan EXCEPT ![Main] = NoScan]
  /\ running' = FALSE
  /\ UNCHANGED <<begun, lastRun, latest, disk, reader, errors, restarts>>

Work(c) ==
  \/ Tick(c) \/ CarryForward(c) \/ Stamp(c) \/ Save(c) \/ Publish(c)
  \/ Finish(c)
  \/ \E n \in Subsystems : RunSubsystem(c, n)

-----------------------------------------------------------------------------
(* Restarts.                                                               *)

MemoryLost ==
  /\ running' = FALSE
  /\ scan' = [c \in Callers |-> NoScan]
  /\ lastRun' = [n \in Subsystems |-> 0]
  /\ latest' = None
  /\ reader' = [NoReader EXCEPT !.late = reader.late]

Restart ==
  /\ restarts < MaxRestarts
  /\ restarts' = restarts + 1
  /\ MemoryLost
  /\ UNCHANGED <<begun, disk, panics, errors>>

\* A goroutine of handleTriggerScan recovers nothing: its panic ends the
\* process.
FatalPanic ==
  /\ \E c \in Triggers : Active(c)
  /\ panics < MaxPanics
  /\ panics' = panics + 1
  /\ MemoryLost
  /\ UNCHANGED <<begun, disk, errors, restarts>>

-----------------------------------------------------------------------------
(* ensureLatestSnapshot's slow path, one reader at a time under its mutex. *)

ReaderMisses ==
  /\ reader.at = "idle"
  /\ latest = None
  /\ reader' = [reader EXCEPT !.at = "missed"]
  /\ UNCHANGED <<running, begun, scan, lastRun, latest, disk, faults>>

\* GetLatestSnapshot
ReaderLoads ==
  /\ reader.at = "missed"
  /\ reader' = IF disk = None
                 THEN [reader EXCEPT !.at = "idle"]
                 ELSE [reader EXCEPT !.at = "loaded", !.seen = disk]
  /\ UNCHANGED <<running, begun, scan, lastRun, latest, disk, faults>>

\* SetLatest
ReaderSeeds ==
  /\ reader.at = "loaded"
  /\ latest' = reader.seen
  /\ reader' = [NoReader EXCEPT
                  !.late = reader.late \/ running \/ latest # None]
  /\ UNCHANGED <<running, begun, scan, lastRun, disk, faults>>

-----------------------------------------------------------------------------
Next ==
  \/ \E c \in Callers : Trigger(c) \/ Begin(c) \/ Skip(c) \/ Work(c)
  \/ RecoveredPanic \/ FatalPanic \/ Restart
  \/ ReaderMisses \/ ReaderLoads \/ ReaderSeeds

Spec == Init /\ [][Next]_vars

\* Collectors bound their external commands with timeouts, so a scan that
\* began goes on.
FairSpec == Spec /\ \A c \in Callers : WF_vars(Work(c))

-----------------------------------------------------------------------------
(* Properties.                                                             *)

TypeOK ==
  /\ running \in BOOLEAN
  /\ begun \in 0..MaxScans
  /\ scan \in [Callers -> ScanStates]
  /\ lastRun \in Times
  /\ latest \in Snapshots \cup {None}
  /\ disk \in Snapshots \cup {None}
  /\ reader \in ReaderStates
  /\ panics \in 0..MaxPanics
  /\ errors \in 0..MaxErrors
  /\ restarts \in 0..MaxRestarts

\* Two scans never overlap, whoever asks for them, and the flag that keeps
\* them apart is up exactly while one runs: a panic or a skipped request
\* neither leaves it up nor takes it from the scan in progress.
OneScan ==
  /\ \A c, d \in Callers : Active(c) /\ Active(d) => c = d
  /\ running <=> \E c \in Callers : Active(c)

\* What a dashboard is shown for a subsystem never goes back in time while
\* the process lives, even when scans panic half-way: a skipped subsystem
\* keeps its data.  (A late reader is the exception, see below.)
DataNeverRegresses ==
  [][(latest # None /\ latest' # None /\ ~reader'.late) =>
       /\ latest'.at >= latest.at
       /\ \A n \in Subsystems : latest'.data[n] >= latest.data[n]]_vars

\* A snapshot that was shown is in the store, or a newer one is,
\* unless the store refused one: after a crash nobody is shown an older
\* state than before.
ServedIsStored == errors = 0 => latest.at <= disk.at

\* Without panics (and late readers) the time on each subsystem is the time
\* of its data, also for the ones carried forward from scan to scan.
StampIsDataTime ==
  (latest # None /\ panics = 0 /\ ~reader.late) =>
    \A n \in Subsystems : latest.ran[n] = latest.data[n]

\* A scan that began ends and lets the next one in.
ScanEnds == running ~> ~running
=============================================================================
