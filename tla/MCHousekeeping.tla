--------------------------- MODULE MCHousekeeping ---------------------------
(***************************************************************************)
(* The tail of a scan: drives, retention and backups.  They share no       *)
(* state; "focus" names the one that moves while the others stay where     *)
(* they begin.                                                             *)
(***************************************************************************)
EXTENDS Housekeeping

CONSTANTS disk1, a

VARIABLE focus

driveVars == <<bay, asleep, swaps, scan, since, snap, standby, latest, todo,
               states, events, row, unread, notes, driveFaults>>
backupVars == <<second, files, writer, lastBackup, lastAuto, clashes,
                backupFaults>>
houseVars == <<focus, driveVars, vars, backupVars>>

\* What the proofs about the two assume holds of these instances.
ASSUME HouseAssumption == Drive!DriveAssumption /\ Backup!BackupAssumption

HouseInit ==
  /\ Init /\ Drive!Init /\ Backup!Init
  /\ \/ focus = "drives" /\ newest = 0
     \/ focus = "retention" /\ bay[disk1] = a
     \/ focus = "backups" /\ newest = 0 /\ bay[disk1] = a

HouseNext ==
  \/ focus = "drives" /\ Drive!Next
     /\ UNCHANGED <<focus, vars, backupVars>>
  \/ focus = "retention" /\ Next
     /\ UNCHANGED <<focus, driveVars, backupVars>>
  \/ focus = "backups" /\ Backup!Next
     /\ UNCHANGED <<focus, driveVars, vars>>

Scanning(A) ==
  focus = "drives" /\ A /\ UNCHANGED <<focus, vars, backupVars>>

\* Scans follow each other and end; failures are few, so that from some point
\* on every read and every write succeeds.
HouseSpec ==
  /\ HouseInit
  /\ [][HouseNext]_houseVars
  /\ WF_houseVars(Scanning(Drive!StartScan({})))
  /\ WF_houseVars(Scanning(Drive!Wake({})))
  /\ WF_houseVars(Scanning(Drive!Observe(disk1)))
  /\ WF_houseVars(Scanning(Drive!SaveEvent(disk1)))
  /\ WF_houseVars(Scanning(Drive!SaveState(disk1)))
  /\ WF_houseVars(Scanning(Drive!EndScan(TRUE)))

-----------------------------------------------------------------------------
\* A drive that stays in a bay for good is the one the bay's state names in
\* the end, though detection and saving fail and scans find it asleep.
SwapIsNoticed == focus = "drives" => Drive!SwapIsNoticed
=============================================================================
