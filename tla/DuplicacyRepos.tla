--------------------------- MODULE DuplicacyRepos ---------------------------
(***************************************************************************)
(* What a scan reports of a Duplicacy repository it reads from the disk    *)
(* (collector/duplicacy_runner.go), while Duplicacy writes snapshots there *)
(* and directories come, go and lose their permissions.                    *)
(*                                                                         *)
(* Days are counted from 1; 0 is the zero time.                            *)
(***************************************************************************)
EXTENDS Integers, Sequences, FiniteSetsExt

CONSTANTS
  Entries,               \* what a user may configure
  Slots,                 \* the id of each snapshot file, in reading order
  DefaultStaleAfter, MaxDay,
  MaxEvents              \* bound on what happens, but for days that pass

VARIABLES
  entry,                 \* a DuplicacyEntry: enabled, kind, path, storageID,
                         \* staleAfter
  disk,                  \* the directories and files below its path
  day,
  events

vars == <<entry, disk, day, events>>

Files == 1 .. Len(Slots)
NoFile == [is |-> "none", start |-> 0, end |-> 0]

\* What the proofs assume of these.
DuplicacyAssumption ==
  /\ DefaultStaleAfter \in Nat
  /\ \A e \in Entries : e.staleAfter \in Int

\* The places a stat looks at, each "dir", "file", "absent" or "unreadable".
Places == {"path", "repo", "snapshots"}

-----------------------------------------------------------------------------
(* The runner.                                                             *)

\* endTime: a backup that never finished counts from its start.
EndTime(file) == IF file.end > 0 THEN file.end ELSE file.start

\* readCLIRepoStorageName: what the preferences name, or "default".
StorageName(d) == IF d.preferences THEN d.storage ELSE "default"

\* Where an entry leads below its path.  Joining an empty storage_id gives the
\* path itself, which holds no snapshots.
RepoDir(e, d) ==
  IF e.kind = "web-cache" /\ e.storageID = "blank" THEN "dir" ELSE d.repo

LeadsToStorage(e, d) ==
  IF e.kind = "web-cache" THEN e.storageID # "blank"
                          ELSE StorageName(d) = d.storage

SnapshotsDir(e, d) ==
  IF LeadsToStorage(e, d) THEN d.snapshots ELSE "absent"

\* walkSnapshotsDir: the files of every id whose directory can be read; what
\* has no revision for a name, and what is no file, is passed over.
Read(d) == {i \in Files : Slots[i] \notin d.closed}
Corrupt(d) == {i \in Read(d) : d.files[i].is = "corrupt"}
Parsed(d) == {i \in Read(d) : d.files[i].is = "snapshot"}

\* Mutant: the last file read is taken for the newest.
LatestIsLastRead(d) ==
  IF Parsed(d) = {} THEN 0 ELSE EndTime(d.files[Max(Parsed(d))])

Latest(d) == Max({0} \cup {EndTime(d.files[i]) : i \in Parsed(d)})

StaleAfter(e) == IF e.staleAfter <= 0 THEN DefaultStaleAfter ELSE e.staleAfter

\* classifyPathPrecondition
PathReason(e, d) ==
  IF e.path = "blank" \/ d.path = "absent" THEN "path_not_found"
  ELSE IF d.path # "dir" THEN "path_unreadable" ELSE "fine"

\* Read, readCLIRepo and readWebCache, up to the walk.
RepoReason(e, d) ==
  IF PathReason(e, d) # "fine" THEN PathReason(e, d)
  ELSE IF e.kind \notin {"cli-repo", "web-cache"} THEN "not_a_duplicacy_repo"
  ELSE IF RepoDir(e, d) = "unreadable" THEN "path_unreadable"
  ELSE IF RepoDir(e, d) = "dir" THEN "fine"
  ELSE IF e.kind = "cli-repo" THEN "not_a_duplicacy_repo"
  ELSE "storage_id_not_found"

Walked(e, d) == RepoReason(e, d) = "fine" /\ SnapshotsDir(e, d) = "dir"

\* walkSnapshotsDir without a directory to walk, and classifySnapshotWalkAt.
Reason(e, d) ==
  IF RepoReason(e, d) # "fine" THEN RepoReason(e, d)
  ELSE IF SnapshotsDir(e, d) = "unreadable" THEN "path_unreadable"
  ELSE IF SnapshotsDir(e, d) # "dir" THEN "no_snapshots_yet"
  ELSE IF Corrupt(d) # {} THEN "corrupt_snapshot"
  ELSE IF Latest(d) = 0 THEN "no_snapshots_yet"
  ELSE IF day - Latest(d) > StaleAfter(e) THEN "stale"
  ELSE "ok"

\* detectCLIRepoRunning, detectWebCacheRunning: a marker in the storage.
Running(e, d) ==
  RepoReason(e, d) = "fine" /\ LeadsToStorage(e, d) /\ d.incomplete

\* collectDuplicacyEntries: no row for an entry that is not enabled.
HasRow(e) == e.enabled
Row(e, d) ==
  [reason |-> Reason(e, d),
   latest |-> IF Walked(e, d) THEN Latest(d) ELSE 0,
   count |-> IF Walked(e, d) THEN Cardinality(Parsed(d)) ELSE 0,
   running |-> Running(e, d)]

-----------------------------------------------------------------------------
(* The disk.                                                               *)

Init ==
  /\ entry = [enabled |-> TRUE, kind |-> "cli-repo", path |-> "set",
              storageID |-> "set", staleAfter |-> 0]
  /\ disk = [path |-> "dir", repo |-> "dir", snapshots |-> "dir",
             preferences |-> TRUE, storage |-> "nas", closed |-> {},
             files |-> [i \in Files |-> NoFile], incomplete |-> FALSE]
  /\ day = 1 /\ events = 0

Happens == events < MaxEvents /\ events' = events + 1 /\ UNCHANGED day
Event == Happens /\ UNCHANGED entry

\* The settings take any entry; only its Test button looks at it first.
Save == Happens /\ entry' \in Entries \ {entry} /\ UNCHANGED disk

\* A mount goes, a permission changes, and someone puts it right.
Breaks ==
  /\ Event
  /\ \/ \E place \in Places, state \in {"absent", "file", "unreadable"} :
          disk[place] = "dir" /\ disk' = [disk EXCEPT ![place] = state]
     \/ disk.preferences /\ disk' = [disk EXCEPT !.preferences = FALSE]
     \/ \E i \in Files :
          disk' = [disk EXCEPT !.closed = @ \cup {Slots[i]}]
     \/ \E i \in Files :
          /\ disk.files[i].is = "snapshot"
          /\ disk' = [disk EXCEPT !.files[i].is = "corrupt"]

Repairs ==
  /\ Event
  /\ \/ \E place \in Places :
          disk[place] # "dir" /\ disk' = [disk EXCEPT ![place] = "dir"]
     \/ ~disk.preferences /\ disk' = [disk EXCEPT !.preferences = TRUE]

Reopens ==
  Event /\ disk.closed # {} /\ disk' = [disk EXCEPT !.closed = {}]

\* A backup writes its snapshot, and the end when it has one.
Starts ==
  /\ Event
  /\ \E i \in Files :
       /\ disk.files[i].is = "none"
       /\ disk' = [disk EXCEPT
            !.incomplete = TRUE,
            !.files[i] = [is |-> "snapshot", start |-> day, end |-> 0]]

Finishes ==
  /\ Event
  /\ \E i \in Files :
       /\ disk.files[i].is = "snapshot" /\ disk.files[i].end = 0
       /\ disk' = [disk EXCEPT !.incomplete = FALSE, !.files[i].end = day]

\* Something else is put into the directory, or a snapshot is pruned.
Replaces ==
  /\ Event
  /\ \E i \in Files :
       \/ /\ disk.files[i].is = "none"
          /\ disk' = [disk EXCEPT !.files[i].is = "alien"]
       \/ /\ disk.files[i].is # "none"
          /\ disk' = [disk EXCEPT !.files[i] = NoFile]

Day == day < MaxDay /\ day' = day + 1 /\ UNCHANGED <<entry, disk, events>>

Next ==
  Save \/ Breaks \/ Repairs \/ Reopens \/ Starts \/ Finishes \/ Replaces
  \/ Day

Spec == Init /\ [][Next]_vars

-----------------------------------------------------------------------------
(* Properties.                                                             *)

\* The row is true: it names the newest snapshot of those that can be read,
\* whatever order they are in, and is "ok" only for one that is recent, in a
\* repository where nothing that was read is damaged.
RowIsTrue ==
  LET readable == {i \in Files : Slots[i] \notin disk.closed
                                   /\ disk.files[i].is = "snapshot"}
  IN \A row \in {Row(entry, disk)} :
       /\ row.count > 0 =>
            \A i \in readable : EndTime(disk.files[i]) <= row.latest
       /\ row.latest > 0 =>
            \E i \in readable : EndTime(disk.files[i]) = row.latest
       /\ row.reason = "ok" =>
            /\ \E i \in readable :
                 day - EndTime(disk.files[i]) <= StaleAfter(entry)
            /\ \A i \in Files :
                 disk.files[i].is = "corrupt" => Slots[i] \in disk.closed

\* A backup that ends where the scan reads is in the row at once, and nothing
\* that goes well - a backup, a repair - takes an "ok" away.
SuccessIsNoticed ==
  \A old \in {Row(entry, disk)}, new \in {Row(entry, disk)'} :
    /\ (Finishes /\ disk.closed = {} /\ Walked(entry, disk)) =>
         /\ new.latest = day /\ ~new.running
         /\ new.reason \in {"ok", "corrupt_snapshot"}
    /\ ((Repairs \/ Starts \/ Finishes) /\ old.reason = "ok") =>
         new.reason = "ok"

\* Both, of an entry that has a row.
RowsAreTrue ==
  vars' # vars /\ HasRow(entry)' => RowIsTrue' /\ SuccessIsNoticed
=============================================================================
