----------------------------- MODULE Retention ------------------------------
(***************************************************************************)
(* What every scan prunes from the database (scheduler/retention.go and    *)
(* the Prune functions of storage/db.go): old snapshots, the rows of the   *)
(* five-minute loops, and, while the file is over its size cap, the oldest *)
(* snapshots batch by batch, each in several statements.  A statement that *)
(* deletes frees pages of the file for later rows; only VACUUM makes the   *)
(* file smaller.                                                           *)
(***************************************************************************)
EXTENDS Naturals, FiniteSets

CONSTANTS
  First,           \* snapshots the database may begin with: 1 .. n
  MaxAge,          \* SnapshotDays, in scans
  KeepMin,         \* snapshots kept however old (10)
  Horizon,         \* age of the loops' rows (30 days), in scans
  Cap,             \* MaxDBSizeMB, in pages; 0: no cap
  Floor,           \* snapshots PruneToSizeMB leaves alone (5)
  Batch,           \* the least it deletes at once (5)
  Rounds,          \* its iterations (20)
  MaxScans, MaxRows, MaxFaults    \* bounds

\* The least batch is within the floor, so that PruneToSizeMB never takes all
\* there is, and PruneSnapshots keeps some.
ASSUME RetentionAssumption ==
  /\ First \subseteq Nat
  /\ {MaxAge, Horizon, Cap, Floor, Rounds, MaxScans, MaxRows, MaxFaults}
       \subseteq Nat
  /\ KeepMin \in Nat \ {0}
  /\ Batch \in 1 .. Floor

VARIABLES
  clock,           \* the time of the newest scan
  snapshots,       \* by their time
  hollow,          \* those whose findings and history are gone
  statRows,        \* rows of the five-minute loops: [id, at]
  free,            \* pages of the file on its free list
  stage,           \* what the scan does next
  round,           \* iterations of PruneToSizeMB so far
  sizePruned,      \* its totalPruned
  needsVacuum,
  newest,          \* the newest snapshot ever stored (a ghost)
  faults

vars == <<clock, snapshots, hollow, statRows, free, stage, round, sizePruned,
          needsVacuum, newest, faults>>

\* A snapshot has a page, and another one for its findings and history.
Live ==
  2 * Cardinality(snapshots) - Cardinality(hollow) + Cardinality(statRows)

\* GetDBStats: page_count counts the free pages too.
FileSize == Live + free

Init ==
  /\ \E n \in First : snapshots = 1 .. n /\ clock = n /\ newest = n
  /\ hollow = {} /\ statRows = {} /\ free = 0
  /\ stage = "idle" /\ round = 0 /\ sizePruned = 0 /\ needsVacuum = FALSE
  /\ faults = 0

Fault == faults < MaxFaults /\ faults' = faults + 1

\* Rows that come take free pages first; rows that go leave them.
Takes(n) == free' = IF free > n THEN free - n ELSE 0
Leaves(n) == free' = free + n

Oldest(n) ==
  {s \in snapshots : Cardinality({t \in snapshots : t < s}) < n}

-----------------------------------------------------------------------------

\* SaveStats: a row of the container, process or speed-test history, written
\* by its own loop at any moment.
SaveStats ==
  /\ Cardinality(statRows) < MaxRows
  /\ \E id \in 1 .. MaxRows :
       /\ \A r \in statRows : r.id # id
       /\ statRows' = statRows \cup {[id |-> id, at |-> clock]}
  /\ Takes(1)
  /\ UNCHANGED <<clock, snapshots, hollow, stage, round, sizePruned,
                 needsVacuum, newest, faults>>

\* A scan has stored its snapshot, in one transaction, or failed to.
Scan(stored) ==
  /\ stage = "idle" /\ clock < MaxScans
  /\ clock' = clock + 1
  /\ IF stored
       THEN /\ snapshots' = snapshots \cup {clock'}
            /\ newest' = clock' /\ Takes(2) /\ UNCHANGED faults
       ELSE Fault /\ UNCHANGED <<snapshots, newest, free>>
  /\ stage' = "age"
  /\ round' = 0 /\ sizePruned' = 0 /\ needsVacuum' = FALSE
  /\ UNCHANGED <<hollow, statRows>>

\* Snapshots that are too old, but for the KeepMin newest ones.
Expired ==
  {s \in snapshots :
     /\ s + MaxAge < clock
     /\ Cardinality({t \in snapshots : t > s}) >= KeepMin}

\* PruneSnapshots, one transaction: with all that belongs to them.
PruneSnapshots(ok) ==
  /\ stage = "age"
  /\ stage' = "stats"
  /\ IF ok
       THEN /\ snapshots' = snapshots \ Expired
            /\ hollow' = hollow \ Expired
            /\ Leaves(2 * Cardinality(Expired)
                        - Cardinality(hollow \cap Expired))
            /\ needsVacuum' = (Expired # {})
            /\ UNCHANGED faults
       ELSE Fault /\ UNCHANGED <<snapshots, hollow, free, needsVacuum>>
  /\ UNCHANGED <<clock, statRows, round, sizePruned, newest>>

\* The loops' rows, which no snapshot owns, have their own horizon.
PruneStats(ok) ==
  LET old == {r \in statRows : r.at + Horizon < clock}
  IN /\ stage = "stats"
     /\ stage' = "size"
     /\ IF ok
          THEN /\ statRows' = statRows \ old
               /\ Leaves(Cardinality(old))
               /\ needsVacuum' = (needsVacuum \/ old # {})
               /\ UNCHANGED faults
          ELSE Fault /\ UNCHANGED <<statRows, free, needsVacuum>>
     /\ UNCHANGED <<clock, snapshots, hollow, round, sizePruned, newest>>

\* PruneToSizeMB goes on.
OverCap ==
  /\ Cap > 0 /\ round < Rounds
  /\ FileSize > Cap
  /\ Cardinality(snapshots) > Floor

BatchSize == LET tenth == Cardinality(snapshots) \div 10
             IN IF tenth < Batch THEN Batch ELSE tenth

Doomed == Oldest(BatchSize)

\* A round: findings and history of the oldest snapshots first ...
PruneChildren ==
  /\ stage = "size" /\ OverCap
  /\ stage' = "rows"
  /\ hollow' = hollow \cup Doomed
  /\ Leaves(Cardinality(Doomed \ hollow))
  /\ UNCHANGED <<clock, snapshots, statRows, round, sizePruned, needsVacuum,
                 newest, faults>>

\* ... and then the snapshots themselves.
PruneRows ==
  /\ stage = "rows"
  /\ stage' = "size"
  /\ snapshots' = snapshots \ Doomed
  /\ hollow' = hollow \ Doomed
  /\ Leaves(Cardinality(Doomed))
  /\ round' = round + 1
  /\ sizePruned' = sizePruned + Cardinality(Doomed)
  /\ UNCHANGED <<clock, statRows, needsVacuum, newest, faults>>

\* A statement fails: PruneToSizeMB returns at once, without its VACUUM.
PruneToSizeFails ==
  /\ stage = "rows" \/ (stage = "size" /\ OverCap)
  /\ Fault
  /\ stage' = "vacuum"
  /\ UNCHANGED <<clock, snapshots, hollow, statRows, free, round, sizePruned,
                 needsVacuum, newest>>

\* Mutant: RunRetention leaves the VACUUM to itself and then skips it.
PruneToSizeUnpacked ==
  /\ stage = "size" /\ ~OverCap
  /\ stage' = "vacuum"
  /\ needsVacuum' = (needsVacuum /\ sizePruned = 0)
  /\ UNCHANGED <<clock, snapshots, hollow, statRows, free, round, sizePruned,
                 newest, faults>>

\* It is done, and vacuums itself when it deleted anything.
PruneToSizeEnds ==
  /\ stage = "size" /\ ~OverCap
  /\ stage' = "vacuum"
  /\ IF sizePruned > 0 THEN free' = 0 /\ needsVacuum' = FALSE
                       ELSE UNCHANGED <<free, needsVacuum>>
  /\ UNCHANGED <<clock, snapshots, hollow, statRows, round, sizePruned,
                 newest, faults>>

\* The last step of RunRetention.
Vacuum(ok) ==
  /\ stage = "vacuum"
  /\ stage' = "idle"
  /\ IF ok THEN free' = (IF needsVacuum THEN 0 ELSE free) /\ UNCHANGED faults
           ELSE needsVacuum /\ Fault /\ UNCHANGED free
  /\ UNCHANGED <<clock, snapshots, hollow, statRows, round, sizePruned,
                 needsVacuum, newest>>

\* The process dies: statements done so far stay done.
Crash ==
  /\ stage # "idle"
  /\ Fault
  /\ stage' = "idle"
  /\ UNCHANGED <<clock, snapshots, hollow, statRows, free, round, sizePruned,
                 needsVacuum, newest>>

Next ==
  \/ SaveStats
  \/ \E ok \in BOOLEAN :
       \/ Scan(ok)
       \/ PruneSnapshots(ok)
       \/ PruneStats(ok)
       \/ Vacuum(ok)
  \/ PruneChildren
  \/ PruneRows
  \/ PruneToSizeFails
  \/ PruneToSizeEnds
  \/ Crash

Spec == Init /\ [][Next]_vars

-----------------------------------------------------------------------------
(* Properties.                                                             *)

\* However small the cap and however many rounds a retention runs, the newest
\* snapshot stays, with its findings: it is what a restart shows.
NewestSurvives == newest # 0 => newest \in snapshots \ hollow

\* A crash or an error between the statements of a round leaves snapshots
\* without findings and history; they are older than every intact one, so
\* no gap opens in the history and the next round takes them first.
HollowAreOldest == \A h \in hollow, s \in snapshots \ hollow : h < s

\* The pages a retention without failures has freed go back to the file
\* system when it ends, whichever of its steps freed them: deleted rows do
\* not go on counting against the cap.
SpaceIsReturned == (stage = "idle" /\ faults = 0) => free = 0

\* All three, for every scan and every failure of its retention.
RetentionIsSafe == NewestSurvives /\ HollowAreOldest /\ SpaceIsReturned

\* "deletes the oldest snapshots until the DB is under the target size": no
\* round begins when what the database holds is under the cap already.
StopsUnderCap == [][stage = "size" /\ stage' = "rows" => Live > Cap]_vars
=============================================================================
