-------------------------- MODULE DatabaseBackups ---------------------------
(***************************************************************************)
(* Copies of the database file (storage/backup.go): the scan makes one     *)
(* when the interval has passed (Scheduler.checkBackup and                 *)
(* RetentionManager.RunBackup), a request makes one at once                *)
(* (handleCreateBackup), and whoever has made one deletes the oldest.  A   *)
(* file is named after the second it was begun in.                         *)
(***************************************************************************)
EXTENDS Naturals, FiniteSets

CONSTANTS
  Scanner, Request,    \* who makes backups
  Interval,         \* IntervalH
  KeepCount,
  MaxTime, MaxClashes, MaxFaults   \* bounds

None == 0
Writers == {Scanner, Request}
Times == 1 .. MaxTime

\* What the constants must be.
BackupAssumption ==
  /\ Scanner # Request
  /\ KeepCount \in Nat /\ MaxTime \in Nat \ {0}

VARIABLES
  clock,
  files,        \* the backup of each second: none, partial, torn or whole
  writer,       \* what each writer does: [at, stage]
  lastBackup,   \* s.backup.LastBackup
  lastAuto,     \* the scan's newest success since a save or a start (a ghost)
  clashes,      \* backups begun in the second of another one
  faults

vars == <<clock, files, writer, lastBackup, lastAuto, clashes, faults>>

Idle == [at |-> None, stage |-> "idle"]
Exists(t) == files[t] # "none"

Init ==
  /\ clock = 1
  /\ files = [t \in Times |-> "none"]
  /\ writer = [w \in Writers |-> Idle]
  /\ lastBackup = None /\ lastAuto = None
  /\ clashes = 0 /\ faults = 0

Fault == faults < MaxFaults /\ faults' = faults + 1

Tick ==
  /\ clock < MaxTime
  /\ clock' = clock + 1
  /\ UNCHANGED <<files, writer, lastBackup, lastAuto, clashes, faults>>

Due(w) ==
  w = Scanner => lastBackup = None \/ clock - lastBackup >= Interval

\* CreateBackup: os.Create empties the file of this second, though another
\* writer may be at it.
Begin(w) ==
  /\ writer[w] = Idle
  /\ Due(w)
  /\ IF Exists(clock) THEN clashes < MaxClashes /\ clashes' = clashes + 1
                      ELSE UNCHANGED clashes
  /\ files' = [files EXCEPT ![clock] =
       IF \E v \in Writers : writer[v] = [at |-> clock, stage |-> "copying"]
         THEN "torn" ELSE "partial"]
  /\ writer' = [writer EXCEPT ![w] = [at |-> clock, stage |-> "copying"]]
  /\ UNCHANGED <<clock, lastBackup, lastAuto, faults>>

\* The copy is complete; the file may have been deleted meanwhile, which
\* os.Stat reports.
Finish(w) ==
  LET t == writer[w].at
  IN /\ writer[w].stage = "copying"
     /\ files' = [files EXCEPT ![t] = IF @ = "partial" THEN "whole" ELSE @]
     /\ writer' = [writer EXCEPT ![w] =
          IF Exists(t) THEN [@ EXCEPT !.stage = "pruning"] ELSE Idle]
     /\ UNCHANGED <<clock, lastBackup, lastAuto, clashes, faults>>

\* The copy fails and what there is of the file is removed.
Fail(w) ==
  /\ writer[w].stage = "copying"
  /\ Fault
  /\ files' = [files EXCEPT ![writer[w].at] = "none"]
  /\ writer' = [writer EXCEPT ![w] = Idle]
  /\ UNCHANGED <<clock, lastBackup, lastAuto, clashes>>

\* The names sort as the times: PruneBackups keeps the newest files, those
\* somebody is still writing among them.
Kept(w) ==
  {t \in Times : Exists(t) /\
     Cardinality({u \in Times : u > t /\ Exists(u)}) < KeepCount}

\* Mutant: a scan's backup does not count until the next settings save.
PruneUndated(w) ==
  /\ writer[w].stage = "pruning"
  /\ files' = [t \in Times |-> IF t \in Kept(w) THEN files[t] ELSE "none"]
  /\ writer' = [writer EXCEPT ![w] = Idle]
  /\ lastAuto' = IF w = Scanner THEN writer[w].at ELSE lastAuto
  /\ UNCHANGED <<clock, lastBackup, clashes, faults>>

\* The oldest files go; the scan notes the time its backup has begun.
Prune(w) ==
  /\ writer[w].stage = "pruning"
  /\ files' = [t \in Times |-> IF t \in Kept(w) THEN files[t] ELSE "none"]
  /\ writer' = [writer EXCEPT ![w] = Idle]
  /\ IF w = Scanner THEN lastBackup' = writer[w].at /\ lastAuto' = writer[w].at
                 ELSE UNCHANGED <<lastBackup, lastAuto>>
  /\ UNCHANGED <<clock, clashes, faults>>

\* UpdateBackup: a settings save knows no LastBackup.
SaveSettings ==
  /\ lastBackup' = None /\ lastAuto' = None
  /\ UNCHANGED <<clock, files, writer, clashes, faults>>

\* The process dies, with files half written, and starts again.
Crash ==
  /\ Fault
  /\ writer' = [w \in Writers |-> Idle]
  /\ lastBackup' = None /\ lastAuto' = None
  /\ UNCHANGED <<clock, files, clashes>>

Next ==
  \/ Tick
  \/ \E w \in Writers : Begin(w) \/ Finish(w) \/ Fail(w) \/ Prune(w)
  \/ SaveSettings
  \/ Crash

Spec == Init /\ [][Next]_vars

-----------------------------------------------------------------------------
(* Properties.                                                             *)

HasWhole == \E t \in Times : files[t] = "whole"

\* How many files as new as the one that ends may be incomplete: the other
\* writer's; and once two backups were begun in one second that file itself,
\* with the two a crash has left.
Incomplete ==
  1 + IF clashes' = 0 THEN 0 ELSE clashes' + 2 * faults'

\* Once there is a complete backup there always is one, though two writers
\* delete files and begin new ones beside each other, copies fail and the
\* process dies, while KeepCount is over the files that may be incomplete.
\* Only a backup begun in the very second of the only one empties it.
GoodBackupSurvives ==
  [][(HasWhole /\ KeepCount > Incomplete)
       => HasWhole' \/ clashes' # clashes]_vars

\* Between two settings saves or starts the scan's backups are an interval
\* apart, although a save may come between the beginning of one and the
\* moment it is noted.
BackupsAreSpaced ==
  [][(/\ writer[Scanner] = Idle /\ writer'[Scanner].stage = "copying"
      /\ lastAuto # None)
        => clock - lastAuto >= Interval]_vars

\* Both of the above.
BackupsAreSafe == GoodBackupSurvives /\ BackupsAreSpaced
=============================================================================
