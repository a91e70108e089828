---------------------------- MODULE Housekeeping ----------------------------
(***************************************************************************)
(* What the tail of a scan looks after: the database's rows (Retention),   *)
(* the drive in each bay and its SMART data, and the database's backups,   *)
(* and what the last two promise.  The three share no state.               *)
(***************************************************************************)
EXTENDS Retention

CONSTANTS Slots, Drives, NoDrive, SmartEvery, SmartMaxAge, Retain, MaxSwaps,
          MaxNotes, MaxDriveFaults
VARIABLES bay, asleep, swaps, scan, since, snap, standby, latest, todo,
          states, events, row, unread, notes, driveFaults

Drive == INSTANCE DriveHistory WITH
  MaxAge <- SmartMaxAge, MaxFaults <- MaxDriveFaults, faults <- driveFaults

CONSTANTS Scanner, Request, Interval, KeepCount, MaxTime, MaxClashes,
          MaxBackupFaults
VARIABLES second, files, writer, lastBackup, lastAuto, clashes, backupFaults

Backup == INSTANCE DatabaseBackups WITH
  MaxFaults <- MaxBackupFaults, clock <- second, faults <- backupFaults

-----------------------------------------------------------------------------
\* DriveHistory: however writes fail between the event and the slot's state,
\* each automatic event of a slot begins with the drive the one before ended
\* with, and a drive that always sleeps when SMART is collected is woken at
\* most two collections after its data was too old, unless waking is off.
DriveIsFollowed == Drive!DriveIsFollowed

\* DatabaseBackups: with settings saves, requests and the scheduler's own
\* backups racing, once there is a complete backup there always is one, unless
\* two were begun in one second, and automatic ones keep their distance.
BackupsAreSafe == Backup!BackupsAreSafe
=============================================================================
