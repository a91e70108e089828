------------------------------ MODULE BorgRepos -----------------------------
(***************************************************************************)
(* The rows a scan makes of Borg repositories, found and configured        *)
(* (collector/backup.go, collector/borg_runner.go, api/backup_monitor.go), *)
(* while what they depend on breaks and is put right.  A probe calls borg  *)
(* twice, and the world may have changed in between.                       *)
(*                                                                         *)
(* One repository is spelled "r" or "r/", another one "s".                 *)
(***************************************************************************)
EXTENDS Integers, Sequences, FiniteSetsExt

CONSTANTS
  EntryLists,  \* what a user may configure
  Values,      \* of each field of host, what it may be
  Found,       \* the paths the search may come upon
  MaxBroken    \* bound on what is broken at once

VARIABLES
  entries,     \* Settings.BackupMonitor.Borg
  host        \* the binaries, the link, the repositories, the environment

vars == <<entries, host>>

None == -1

\* A BorgExternalRepo, of any strings.
Entry == [enabled : BOOLEAN, path : STRING, binary : STRING, env : STRING,
          label : STRING]

\* What the proofs assume of these: entries and paths are lists, the search
\* keeps finding what it finds, and an archive began some hours ago or never.
BorgAssumption ==
  /\ EntryLists \subseteq Seq(Entry)
  /\ Found \subseteq Seq(STRING)
  /\ "found" \notin DOMAIN Values
  /\ "last" \in DOMAIN Values => Values["last"] \subseteq Nat \cup {None}

CanonicalRepoPath(path) == IF path = "r/" THEN "r" ELSE path

-----------------------------------------------------------------------------
(* Settings.                                                               *)

\* validateBackupMonitorBorg
Accepted(list, w) ==
  \A i \in DOMAIN list :
    /\ list[i].enabled => list[i].path # "blank"
    /\ list[i].binary = "override" => w.override # "absent"

-----------------------------------------------------------------------------
(* One probe.                                                              *)

\* buildBorgEnv: a variable that is named decides alone, also when it is
\* unset; otherwise BORG_PASSPHRASE is inherited.
Passphrase(e, w) == IF e.env = "named" THEN w.named ELSE w.ambient

\* borg itself: how a call ends and what it writes.  An override that is gone
\* or built for another C library fails to start, which is no exec.Error.
Call(e, w) ==
  IF e.binary = "" /\ ~w.onPath THEN "exec.Error"
  ELSE IF e.binary = "override" /\ w.override # "works" THEN "PathError"
  ELSE IF w.link = "hangs" THEN "signal: killed"
  ELSE IF w.link = "refused" THEN "connection refused"
  ELSE IF w.repo = "absent" THEN "does not exist"
  ELSE IF w.repo = "readonly" THEN "read-only file system"
  ELSE IF Passphrase(e, w) # "right" THEN "passphrase is incorrect"
  ELSE IF w.repo = "damaged" THEN "corruption"
  ELSE "ok"

\* classifyBorgError.  The process a deadline kills leaves an ExitError, so
\* its test for DeadlineExceeded never holds.
Classify(outcome) ==
  IF outcome = "exec.Error" THEN "binary_not_found"
  ELSE IF outcome = "read-only file system" THEN "repo_readonly"
  ELSE IF outcome = "passphrase is incorrect" THEN "passphrase_rejected"
  ELSE IF outcome = "connection refused" THEN "ssh_timeout"
  ELSE IF outcome = "corruption" THEN "corrupt_repo"
  ELSE IF outcome = "does not exist" THEN "repo_inaccessible"
  ELSE "unknown"

\* Info: borg list sees one world, borg info another.  An empty repository
\* needs no second answer.
Info(e, list, info) ==
  LET Failed(w) == [error |-> Classify(Call(e, w)), success |-> None]
  IN IF Call(e, list) # "ok" THEN Failed(list)
     ELSE IF list.last = None THEN [error |-> "", success |-> None]
     ELSE IF Call(e, info) # "ok" THEN Failed(info)
     ELSE [error |-> "", success |-> info.last]

\* backupStatus: hours since the last archive began.
BackupStatus(success) ==
  IF success = None THEN "failed"
  ELSE IF success <= 24 THEN "ok"
  ELSE IF success <= 48 THEN "warning"
  ELSE "stale"

\* queryBorgRepoViaRunner
Job(e, list, info) ==
  LET result == Info(e, list, info)
  IN [path |-> e.path, label |-> "", configured |-> FALSE,
      error |-> result.error,
      status |-> IF result.error = "" THEN BackupStatus(result.success)
                                      ELSE "failed"]

-----------------------------------------------------------------------------
(* A scan.                                                                 *)

Speculative(path) ==
  [enabled |-> TRUE, path |-> path, binary |-> "", env |-> "", label |-> ""]

\* findBorgRepos, collectBorg: without borg nothing is looked for, and what
\* cannot be read makes no row.  What is found is all in the one state w.repo,
\* so either every path has a row or none has; BORG_REPO may name one again.
Detected(list, info) ==
  IF \/ ~list.onPath
     \/ \E i \in DOMAIN list.found :
          Info(Speculative(list.found[i]), list, info).error # ""
  THEN <<>>
  ELSE [i \in DOMAIN list.found |->
          Job(Speculative(list.found[i]), list, info)]

\* apiBorgReposToCollector, collectBorgExternal
Polled(e) == e.enabled /\ e.path # "blank"
External(e, list, info) ==
  [Job(e, list, info) EXCEPT !.configured = TRUE, !.label = e.label]

\* One step of mergeBorgJobs: the last row of the same path is kept, and is
\* now a configured one; without such a row the job gets its own.
Same(rows, job) ==
  {i \in DOMAIN rows :
     CanonicalRepoPath(rows[i].path) = CanonicalRepoPath(job.path)}
Merge(rows, job) ==
  IF Same(rows, job) = {} THEN Append(rows, job)
  ELSE [rows EXCEPT
          ![Max(Same(rows, job))].configured = TRUE,
          ![Max(Same(rows, job))].label = IF job.label = "" THEN @
                                          ELSE job.label]

\* CollectBackups, of Borg: the rows after the first i entries.
Rows(configured, list, info) ==
  LET merged[i \in 0 .. Len(configured)] ==
        IF i = 0 THEN Detected(list, info)
        ELSE IF ~Polled(configured[i]) THEN merged[i - 1]
        ELSE Merge(merged[i - 1], External(configured[i], list, info))
  IN merged[Len(configured)]

-----------------------------------------------------------------------------
(* What changes.                                                           *)

Good == [onPath |-> TRUE, override |-> "works", link |-> "up",
         repo |-> "fine", ambient |-> "right", named |-> "right"]

Init ==
  /\ \E found \in Found :
       host = [onPath |-> Good.onPath, override |-> Good.override,
               link |-> Good.link, repo |-> Good.repo,
               ambient |-> Good.ambient, named |-> Good.named,
               last |-> None, found |-> found]
  /\ entries = <<>>

Save ==
  /\ entries' \in {l \in EntryLists : l # entries /\ Accepted(l, host)}
  /\ UNCHANGED host

\* One thing breaks, is put right, or moves on; what can be found stays.
Change ==
  /\ \E f \in DOMAIN Values : \E value \in Values[f] :
       value # host[f] /\ host' = [host EXCEPT ![f] = value]
  /\ Cardinality({f \in DOMAIN Good : host'[f] # Good[f]}) <= MaxBroken
  /\ UNCHANGED entries

Next == Save \/ Change

Spec == Init /\ [][Next]_vars

-----------------------------------------------------------------------------
(* Properties, of a scan whose probes see the world change in the middle.  *)

\* Every repository the user watches has exactly one row that says so, under
\* whatever spelling and with however many entries, and nothing else has.
EachHasOneRow(rows, configured) ==
  LET Paths == {CanonicalRepoPath(configured[i].path) :
                  i \in {j \in DOMAIN configured : configured[j].enabled}}
      Of(path) == {i \in DOMAIN rows : rows[i].configured
                     /\ CanonicalRepoPath(rows[i].path) = path}
  IN /\ \A path \in Paths : Cardinality(Of(path)) = 1
     /\ \A i \in DOMAIN rows :
          rows[i].configured => CanonicalRepoPath(rows[i].path) \in Paths

\* What a reason tells the user to repair was broken when it was looked at.
\* "unknown" is left for an override that does not start and for a timeout.
Broken(reason, w) ==
  \/ reason = "binary_not_found" /\ ~w.onPath
  \/ reason = "repo_readonly" /\ w.repo = "readonly"
  \/ /\ reason = "passphrase_rejected"
     /\ "right" \notin {w.ambient, w.named} \/ w.ambient # w.named
  \/ reason = "ssh_timeout" /\ w.link = "refused"
  \/ reason = "corrupt_repo" /\ w.repo = "damaged"
  \/ reason = "repo_inaccessible" /\ w.repo = "absent"
  \/ reason = "unknown" /\ (w.override # "works" \/ w.link = "hangs")

\* A row without an error was backed up when it says it was.
RowIsTrue(row, list, info) ==
  IF row.error # ""
  THEN row.configured /\ (Broken(row.error, list) \/ Broken(row.error, info))
  ELSE /\ row.status = "ok" => info.last \in 0 .. 24
       /\ row.status = "failed" => None \in {list.last, info.last}

RowsAreTrue ==
  vars' # vars =>
    \A rows \in {Rows(entries, host, host')} :
      /\ EachHasOneRow(rows, entries)
      /\ \A i \in DOMAIN rows : RowIsTrue(rows[i], host, host')
=============================================================================
