--------------------------- MODULE StoreContract ----------------------------
(***************************************************************************)
(* The two implementations of storage.Store: the SQLite database the       *)
(* program runs on (db.go, db_drive_events.go) and the in-memory FakeStore *)
(* the tests of the scheduler and the API run on (fake.go).  Both take the *)
(* same sequence of calls; what the tests establish carries over to the    *)
(* program only as far as both then answer alike, which is not everywhere. *)
(* One table is used in one behaviour (area).  A row is [id, key, at,      *)
(* kind], id naming it: the ids of log lines, which the double gives twice *)
(* after a pruning (fake.go:832), are shown and never asked for.  The      *)
(* database keeps a set of rows it sorts by query.  The double keeps a     *)
(* slice, here a function from the places where rows were appended: what   *)
(* is removed leaves a gap, and the order stays.                           *)
(***************************************************************************)
EXTENDS Naturals, FiniteSets, Sequences, Functions

CONSTANTS
  Areas,         \* the tables to look at
  Keys,          \* check keys, slots or process names
  MaxTime,       \* bound on the clock
  MaxRows,       \* bound on the rows ever saved
  Ages,          \* the retention ages asked for
  DefaultLimit,  \* rows of a list asked for without a limit (200)
  MaxLimit       \* the greatest limit the database takes (500 or 1000)

StoreAssumption ==
  DefaultLimit \in Nat /\ MaxLimit \in Nat /\ DefaultLimit <= MaxLimit

VARIABLES area, now, sqlite, fake
vars == <<area, now, sqlite, fake>>

Kinds == CASE area = "speedtests" -> {"success", "cancelled"}
           [] area = "events" -> {"note", "auto"}
           [] OTHER -> {"row"}

Init ==
  /\ area \in Areas
  /\ now = 1
  /\ sqlite = [rows |-> {}, next |-> 1, samples |-> {}, said |-> "ok"]
  /\ fake = [rows |-> <<>>, next |-> 1, samples |-> {}, said |-> "ok"]

Slice == DOMAIN fake.rows

(***************************************************************************)
(* Saving.  An INSERT takes the next AUTOINCREMENT id, which a delete      *)
(* never gives back; the double counts on its own.                         *)
(***************************************************************************)
Row(n, key, at, kind) == [id |-> n, key |-> key, at |-> at, kind |-> kind]

SqliteSave(keys, at, kind) ==
  [sqlite EXCEPT
     !.rows = @ \cup {Row(sqlite.next + i - 1, keys[i], at, kind) :
                        i \in DOMAIN keys},
     !.next = @ + Len(keys), !.said = "ok"]
FakeSave(keys, at, kind) ==
  LET end == fake.next .. fake.next + Len(keys) - 1
  IN  [fake EXCEPT
         !.rows = [i \in Slice \cup end |->
                     IF i \in Slice THEN fake.rows[i]
                     ELSE Row(i, keys[i - fake.next + 1], at, kind)],
         !.next = @ + Len(keys), !.said = "ok"]

\* When what is saved at now was dated: log lines and processes as they are
\* saved; scans, which run one at a time, after all before them; checks and
\* speed tests when they began, so that runs that overlap are saved in any
\* order or in the same second; events as the user likes.
Dates ==
  CASE area \in {"log", "processes"} -> {now}
    [] area = "snapshots" ->
         {at \in 1 .. now : \A r \in sqlite.rows : r.at < at}
    [] OTHER -> 1 .. now

\* A batch of check results or of processes, a snapshot, a finished or a
\* cancelled speed test, an event of a slot, a line of the log.  Snapshots,
\* speed tests and the log have no key.
KeysOfRows == IF area \in {"checks", "events", "processes"} THEN Keys
              ELSE {CHOOSE k \in Keys : TRUE}
Batches ==
  {<<k>> : k \in KeysOfRows} \cup {<<j, k>> : j, k \in KeysOfRows}

Save ==
  \E keys \in Batches, kind \in Kinds, at \in Dates :
    /\ sqlite.next + Len(keys) <= MaxRows + 1
    /\ Len(keys) = 1 \/ area \in {"checks", "processes"}
    /\ area = "checks" /\ Len(keys) = 2 => keys[1] # keys[2]
    /\ sqlite' = SqliteSave(keys, at, kind)
    /\ fake' = FakeSave(keys, at, kind)
    /\ UNCHANGED <<area, now>>

Tick == now < MaxTime /\ now' = now + 1 /\ UNCHANGED <<area, sqlite, fake>>

(***************************************************************************)
(* The samples of a speed test: <<test, index>>.  Without the parent row   *)
(* or with an index taken, by an earlier call or by this one, nothing of   *)
(* the batch is kept.                                                      *)
(***************************************************************************)
\* The foreign key and the primary key, in one transaction.
SqliteInsertSamples(test, batch) ==
  IF /\ \E r \in sqlite.rows : r.id = test
     /\ IsInjective(batch)
     /\ \A i \in DOMAIN batch : <<test, batch[i]>> \notin sqlite.samples
  THEN [sqlite EXCEPT !.samples = @ \cup {<<test, i>> : i \in Range(batch)},
                      !.said = "ok"]
  ELSE [sqlite EXCEPT !.said = "constraint failed"]

\* The double looks for the parent, then walks the batch with a set of the
\* indices taken so far.
FakeInsertSamples(test, batch) ==
  LET stored == {s[2] : s \in {x \in fake.samples : x[1] = test}}
      taken(i) == stored \cup {batch[j] : j \in 1 .. i - 1}
      parent == \E i \in Slice : fake.rows[i].id = test
      dup == \E i \in DOMAIN batch : batch[i] \in taken(i)
  IN  IF ~parent \/ dup THEN [fake EXCEPT !.said = "constraint failed"]
      ELSE [fake EXCEPT !.samples = @ \cup {<<test, i>> : i \in Range(batch)},
                        !.said = "ok"]

InsertSamples ==
  /\ area = "speedtests"
  /\ \E test \in 1 .. MaxRows, batch \in {<<0>>, <<1>>, <<0, 1>>, <<0, 0>>} :
       /\ sqlite' = SqliteInsertSamples(test, batch)
       /\ fake' = FakeInsertSamples(test, batch)
  /\ UNCHANGED <<area, now>>

(***************************************************************************)
(* Pruning by age.  Snapshots keep the newest keepMin; a pruned speed test *)
(* takes its samples along.                                                *)
(***************************************************************************)
Cutoff(age) == IF age > now THEN 0 ELSE now - age
Newest(rows, n) ==
  {r \in rows : Cardinality({o \in rows : o.at > r.at}) < n}

SqlitePrune(age, keepMin) ==
  LET rows == {r \in sqlite.rows :
                 r.at >= Cutoff(age) \/ r \in Newest(sqlite.rows, keepMin)}
      ids == {r.id : r \in rows}
  IN  [sqlite EXCEPT !.rows = rows, !.said = "ok",
                     !.samples = {s \in @ : s[1] \in ids}]

FakeKept(age, keepMin) ==
  {i \in Slice : \/ fake.rows[i].at >= Cutoff(age)
                 \/ fake.rows[i] \in Newest(Range(fake.rows), keepMin)}

\* Mutant: the double forgets that a row takes its samples along.
FakePruneRowsOnly(age, keepMin) ==
  [fake EXCEPT !.rows = Restrict(@, FakeKept(age, keepMin)), !.said = "ok"]
FakePrune(age, keepMin) ==
  LET kept == FakeKept(age, keepMin)
  IN  [fake EXCEPT !.rows = Restrict(@, kept), !.said = "ok",
                   !.samples = {s \in @ : \E i \in kept :
                                            fake.rows[i].id = s[1]}]

Prune ==
  /\ area # "events"
  /\ \E age \in Ages, keep \in IF area = "snapshots" THEN 0 .. 2 ELSE {0} :
       /\ sqlite' = SqlitePrune(age, keep)
       /\ fake' = FakePrune(age, keep)
  /\ UNCHANGED <<area, now>>

(***************************************************************************)
(* The history of checks that are gone: DeleteServiceCheckByKey and        *)
(* DeleteServiceChecksNotIn, where an empty list keeps nothing.            *)
(***************************************************************************)
KeepKeys(kept) ==
  /\ sqlite' = [sqlite EXCEPT !.rows = {r \in @ : r.key \in kept},
                              !.said = "ok"]
  /\ fake' = [fake EXCEPT
                !.rows = Restrict(@, {i \in Slice : @[i].key \in kept}),
                !.said = "ok"]
Forget ==
  /\ area = "checks"
  /\ \E kept \in SUBSET Keys : KeepKeys(kept)
  /\ UNCHANGED <<area, now>>

(***************************************************************************)
(* The user edits or deletes an event.  The database looks the row up by   *)
(* id, then writes; the double walks its slice.                            *)
(***************************************************************************)
SqliteEdit(slot, id, rows) ==
  LET found == {r \in sqlite.rows : r.id = id}
  IN  IF \A r \in found : r.key # slot
      THEN [sqlite EXCEPT !.said = "not found"]
      ELSE IF \E r \in found : r.kind = "auto"
      THEN [sqlite EXCEPT !.said = "immutable"]
      ELSE [sqlite EXCEPT !.rows = rows, !.said = "ok"]
FakeFound(id) ==
  {i \in Slice : /\ fake.rows[i].id = id
                 /\ \A j \in Slice : fake.rows[j].id = id => i <= j}
FakeEdit(slot, id, rows) ==
  IF \A i \in FakeFound(id) : fake.rows[i].key # slot
  THEN [fake EXCEPT !.said = "not found"]
  ELSE IF \E i \in FakeFound(id) : fake.rows[i].kind = "auto"
  THEN [fake EXCEPT !.said = "immutable"]
  ELSE [fake EXCEPT !.rows = rows, !.said = "ok"]

UpdateEvent ==
  /\ area = "events"
  /\ \E slot \in Keys, id \in 1 .. MaxRows, t \in 1 .. now :
       /\ sqlite' = SqliteEdit(slot, id,
            {IF r.id = id THEN [r EXCEPT !.at = t] ELSE r : r \in sqlite.rows})
       /\ fake' = FakeEdit(slot, id,
            [i \in Slice |-> IF i \in FakeFound(id)
                             THEN [fake.rows[i] EXCEPT !.at = t]
                             ELSE fake.rows[i]])
  /\ UNCHANGED <<area, now>>
DeleteEvent ==
  /\ area = "events"
  /\ \E slot \in Keys, id \in 1 .. MaxRows :
       /\ sqlite' = SqliteEdit(slot, id, {r \in sqlite.rows : r.id # id})
       /\ fake' = FakeEdit(slot, id,
                           Restrict(fake.rows, Slice \ FakeFound(id)))
  /\ UNCHANGED <<area, now>>

Next ==
  \/ Save \/ InsertSamples \/ Prune \/ Forget \/ UpdateEvent \/ DeleteEvent
  \/ Tick
Spec == Init /\ [][Next]_vars

(***************************************************************************)
(* The queries.  One that answers a row is the set of those it may answer. *)
(* A list is given by the rows asked for, what stands before each of them, *)
(* and how many of them the limit shows.                                   *)
(***************************************************************************)
OfKey(k) == {r \in sqlite.rows : r.key = k}
Places(k) == {i \in Slice : fake.rows[i].key = k}

\* GetLatestServiceCheckState: ORDER BY checked_at against a walk from the
\* end of the slice.
SqliteLatestState(k) ==
  {r.id : r \in {x \in OfKey(k) : \A o \in OfKey(k) : x.at >= o.at}}
FakeLatestState(k) ==
  {fake.rows[i].id : i \in {j \in Places(k) : \A n \in Places(k) : j >= n}}

\* ListLatestServiceChecks: the greatest id of each key against the first
\* row of the slice with the latest time.
SqliteLatestOf(k) ==
  {r.id : r \in {x \in OfKey(k) : \A o \in OfKey(k) : x.id >= o.id}}
FakeLatestOf(k) ==
  {fake.rows[i].id : i \in {j \in Places(k) :
     \A n \in Places(k) :
       \/ fake.rows[j].at > fake.rows[n].at
       \/ fake.rows[j].at = fake.rows[n].at /\ j <= n}}
SqliteKeys == {r.key : r \in sqlite.rows}
FakeKeys == {fake.rows[i].key : i \in Slice}

\* The lists: GetServiceCheckHistory and ListDriveEvents of a key,
\* ListSnapshots and GetNotificationLog of all rows, GetSpeedTestHistory and
\* GetProcessHistory of the last hours, which the double asked for processes
\* does not look at.
SqliteListed(k, hours) ==
  IF area \in {"checks", "events"} THEN OfKey(k)
  ELSE IF area \in {"speedtests", "processes"}
  THEN {r \in sqlite.rows : r.at >= Cutoff(hours)}
  ELSE sqlite.rows
FakeListed(k, hours) ==
  IF area \in {"checks", "events"} THEN Places(k)
  ELSE IF area = "speedtests"
  THEN {i \in Slice : fake.rows[i].at >= Cutoff(hours)}
  ELSE Slice

\* Tests oldest first, processes so within each name; the rest newest first.
Precedes(a, b) ==
  CASE area = "speedtests" -> a.at < b.at
    [] area = "processes" -> a.key = b.key /\ a.at < b.at
    [] area = "events" -> a.at > b.at \/ (a.at = b.at /\ a.id > b.id)
    [] OTHER -> a.at > b.at

\* The double sorts too, but the history of a check it reads from the end.
FakePrecedes(i, j) ==
  IF area = "checks" THEN i > j ELSE Precedes(fake.rows[i], fake.rows[j])

\* What a limit shows of n rows: the queries on checks put a default in the
\* place of one out of range, LIMIT 0 shows nothing, and the double takes 0 for
\* no limit.  A negative limit is like 0 to the lists of checks, and none to
\* the others in both stores.
Least(m, n) == IF m < n THEN m ELSE n
SqliteShown(n, limit) ==
  IF area = "checks"
  THEN Least(n, IF limit = 0 \/ limit > MaxLimit THEN DefaultLimit ELSE limit)
  ELSE IF area \in {"snapshots", "log"} THEN Least(n, limit) ELSE n
FakeShown(n, limit) ==
  IF area \in {"snapshots", "checks", "log"} /\ limit > 0 THEN Least(n, limit)
  ELSE n

\* GetLatestSpeedTestHistoryID.
SqliteLatestId ==
  {r.id : r \in {x \in sqlite.rows : \A o \in sqlite.rows : x.id >= o.id}}
FakeLatestId ==
  {fake.rows[i].id : i \in {j \in Slice : \A n \in Slice : j >= n}}

\* GetLatestSpeedTestResult and GetLatestSnapshot: the database leaves
\* cancelled tests out, the double does not; of equal times the database
\* answers any, the double the first.
Measured == {r \in sqlite.rows : r.kind # "cancelled"}
SqliteLatestResults ==
  {r.id : r \in {m \in Measured : \A o \in Measured : m.at >= o.at}}
FakeLatestResults ==
  LET newest == {i \in Slice : \A j \in Slice :
                   fake.rows[i].at >= fake.rows[j].at}
  IN  {fake.rows[i].id : i \in {n \in newest : \A o \in newest : n <= o}}

(***************************************************************************)
(* Properties.                                                             *)
(***************************************************************************)

\* No run of a check was saved before one that had begun earlier; and no two
\* began in the same second either.
SavedInTime(k) ==
  \A r, o \in OfKey(k) : r.id < o.id => r.at <= o.at
SavedApart(k) ==
  \A r, o \in OfKey(k) : r.id < o.id => r.at < o.at

\* A list of the double has the rows of the database's, in an order the
\* database may give them in.  Excepted are processes older than the hours
\* asked for, and checks whose runs were saved out of time.
ListsAgree(k, hours) ==
  (/\ area = "processes" => \A r \in sqlite.rows : r.at >= Cutoff(hours)
   /\ area = "checks" => SavedInTime(k))
  => /\ {r.id : r \in SqliteListed(k, hours)}
          = {fake.rows[i].id : i \in FakeListed(k, hours)}
     /\ Cardinality(SqliteListed(k, hours)) = Cardinality(FakeListed(k, hours))
     /\ \A r, o \in SqliteListed(k, hours), i, j \in FakeListed(k, hours) :
          /\ r.id = fake.rows[i].id /\ o.id = fake.rows[j].id
          /\ Precedes(r, o)
          => FakePrecedes(i, j)

\* Both show the same number of the rows of a list, if the limit is positive
\* and one the database takes, or does not matter.
LimitsAgree(n, limit) ==
  \/ limit > 0 /\ limit <= MaxLimit
  \/ limit > 0 /\ area # "checks"
  \/ area = "checks" /\ n <= DefaultLimit
  => SqliteShown(n, limit) = FakeShown(n, limit)

\* The newest row of a check, by either query; in the same second the state
\* of any of its runs is the database's answer, but the list has the last
\* saved where the double has the first.
LatestAgree(k) ==
  /\ SavedInTime(k) => /\ FakeLatestState(k) \subseteq SqliteLatestState(k)
                       /\ FakeLatestState(k) = {} => SqliteLatestState(k) = {}
  /\ SavedApart(k) => SqliteLatestOf(k) = FakeLatestOf(k)
  /\ SqliteKeys = FakeKeys

\* After any sequence of saves, edits and prunes, of runs dated in any order,
\* the double gives the same errors as the database, the same samples, and
\* answers the database may give: lists, limits and latest rows within the
\* exceptions named above, and the newest measurement or snapshot as long as
\* no test was cancelled.
DoubleAgrees ==
  /\ sqlite.said = fake.said
  /\ sqlite.samples = fake.samples
  /\ SqliteLatestId = FakeLatestId
  /\ (area \in {"speedtests", "snapshots"} /\ Measured = sqlite.rows) =>
       /\ FakeLatestResults \subseteq SqliteLatestResults
       /\ FakeLatestResults = {} => SqliteLatestResults = {}
  /\ \A n \in 0 .. MaxRows, limit \in 0 .. MaxLimit + 1 :
       LimitsAgree(n, limit)
  /\ \A k \in Keys :
       /\ \A hours \in 0 .. now : ListsAgree(k, hours)
       /\ area = "checks" => LatestAgree(k)

=============================================================================
