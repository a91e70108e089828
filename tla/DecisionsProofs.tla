--------------------------- MODULE DecisionsProofs --------------------------
(***************************************************************************)
(* Proofs about the modules that MCDecisions runs together.                *)
(*                                                                         *)
(* ScanCadence, for any subsystems, intervals, latencies and scan          *)
(* durations, and without a bound on time: no subsystem is overdue by a    *)
(* whole round of the loop.  After every scan each subsystem is not yet    *)
(* due, and the next timestamp comes at most one round and one latency     *)
(* later.                                                                  *)
(*                                                                         *)
(* ServiceChecks, for any list of checks, runners, requests and bounds:    *)
(* the history can be trusted.  A row is backed when it is counted, before *)
(* it is stored; a run of the configuration in force checks only what that *)
(* one has; and a row of a check that was dropped has its purge to come.   *)
(*                                                                         *)
(* SettingsStore, for any number of requests and bounds: reading the       *)
(* settings keeps every choice in them, and what a save has put in force   *)
(* is in force again after a restart.  What bears the mark of a save was   *)
(* validated, through however many readers and writers it has gone since.  *)
(*                                                                         *)
(* QuietHours, for days of any length: the quiet time is one span a day.   *)
(*                                                                         *)
(* PrometheusGauges, for any snapshots and labels: no scrape, wherever it  *)
(* falls in an update, has a series of what neither of the last two scans  *)
(* found, but in the GPU's section, which is not always reset.  The series *)
(* of a section are the last scan's until they are cleared and this one's  *)
(* from the section's own step on.                                         *)
(*                                                                         *)
(* CapacityForecast, for any growth, gaps and number of scans: the line    *)
(* fitted to points on a line is that line, so that the day it reaches a   *)
(* threshold is the day the volume does.                                   *)
(*                                                                         *)
(* CheckOutcomes, for any checks and networks: every type of check is      *)
(* monotone in the network, and the button judges as the schedule does.    *)
(*                                                                         *)
(* DriveHealth, for any values of the attributes: every tier table is      *)
(* monotone, hence the score, the failure multiplier, the urgency and the  *)
(* findings are.                                                           *)
(*                                                                         *)
(* StoreContract, for any tables, keys, ages, limits and bounds: the       *)
(* double's slice holds the database's rows at the places that are their   *)
(* ids, so that a list is one the database may give.                       *)
(*                                                                         *)
(* DuplicacyRepos, for any entries and files and without a bound on days   *)
(* or events: no file is from the future, so that the newest end is the    *)
(* one the row names.                                                      *)
(*                                                                         *)
(* BorgRepos, for any entries, values of the host and paths found: of the  *)
(* rows merged so far, a configured one is the last of its path, and each  *)
(* path watched so far has one.                                            *)
(*                                                                         *)
(* SystemFindings and AlertRules, for any levels of the readings that go   *)
(* from good to bad and any rules: every finding of a host is made up for  *)
(* by one as grave when the host gets worse, in the same category unless   *)
(* findings move out of that, hence no rule on it falls silent.            *)
(***************************************************************************)
EXTENDS Decisions, Verdicts, Integers, Sequences, TLAPS,
        WellFoundedInduction, FiniteSetTheorems

-----------------------------------------------------------------------------
(* The cadence of the scans.                                               *)

\* The ticker was made before the last tick, the tick came before the scan's
\* timestamp, and the scan took its time; only the first scan, which no tick
\* started, is stamped before the "last tick".
Ordered ==
  /\ base <= received
  /\ now <= free
  /\ now # 0 => received <= now /\ free <= now + MaxDuration

\* After a scan nothing is due.
NothingDue ==
  \A n \in Subsystems : lastRun[n] <= now /\ now - lastRun[n] < Interval[n]

IInv == TypeOK /\ Ordered /\ NothingDue

-----------------------------------------------------------------------------
(* Arithmetic.                                                             *)

\* A set of naturals that is not empty has a least one.
LEMMA LeastNatural ==
  ASSUME NEW S, S \subseteq Nat, S # {}
  PROVE  \E x \in S : \A y \in S : x =< y
  <1>1. PICK x \in S : \A y \in S : ~ (<<y, x>> \in OpToRel(<, Nat))
    BY NatLessThanWellFounded, WFMin, Zenon
  <1>2. ASSUME NEW y \in S
        PROVE  x =< y
    <2>1. x \in Nat /\ y \in Nat
      OBVIOUS
    <2>2. ~ (y < x)
      BY <1>1, <2>1, Zenon DEF OpToRel
    <2> QED
      BY <2>1, <2>2
  <1> QED
    BY <1>2

\* It is the minimum.
LEMMA MinOfNaturals ==
  ASSUME NEW S, S \subseteq Nat, S # {}
  PROVE  Min(S) \in S
  BY LeastNatural DEF Min

\* The ticker has a period.
LEMMA PeriodIsPositive == Period \in Nat \ {0}
  <1>1. Range(Interval) \subseteq Nat \ {0} /\ Range(Interval) # {}
    BY CadenceAssumption DEF Range
  <1>2. Min(Range(Interval)) \in Range(Interval)
    BY <1>1, MinOfNaturals
  <1> QED
    BY <1>1, <1>2 DEF Period

\* A round is no shorter than the period or a scan.
LEMMA RoundBounds ==
  Round \in Nat /\ Period <= Round /\ MaxDuration <= Round
  <1>1. Period \in Nat /\ MaxDuration \in Nat
    BY PeriodIsPositive, CadenceAssumption
  <1>2. \E m \in {Period, MaxDuration} :
           \A y \in {Period, MaxDuration} : m >= y
    BY <1>1
  <1>3. /\ Round \in {Period, MaxDuration}
        /\ \A y \in {Period, MaxDuration} : Round >= y
    BY <1>2 DEF Round, Max
  <1> QED
    BY <1>1, <1>3

\* Whole periods fit into the time they are counted in.
LEMMA WholePeriods ==
  ASSUME NEW x \in Nat, NEW p \in Nat \ {0}
  PROVE  x \div p \in Nat /\ p * (x \div p) <= x /\ p * (x \div p) \in Nat
  OBVIOUS

\* A time a bounded while after another.
LEMMA Within ==
  ASSUME NEW t \in Nat, NEW m \in Nat, NEW u, \E d \in 0..m : u = t + d
  PROVE  u \in Nat /\ t <= u /\ u <= t + m
  OBVIOUS

\* Two bounds, one after the other.
LEMMA Chained ==
  ASSUME NEW t \in Nat, NEW u \in Nat, NEW w \in Nat, NEW m \in Nat,
         NEW n \in Nat, u <= t + m, w <= u + n
  PROVE  w <= t + m + n
  OBVIOUS

\* The next tick comes at most a period after the last one.
LEMMA NextTickSoon ==
  ASSUME TypeOK, Ordered
  PROVE  NextTick \in Nat /\ base <= NextTick /\ NextTick <= received + Period
  <1> DEFINE x == received - base
             k == x \div Period
  <1>1. x \in Nat /\ base \in Nat /\ received = base + x
    BY DEF TypeOK, Ordered
  <1>2. k \in Nat /\ Period * k <= x /\ Period * k \in Nat
    BY <1>1, PeriodIsPositive, WholePeriods
  <1>3. NextTick = base + Period * (1 + k)
    BY DEF NextTick
  <1> HIDE DEF x, k
  <1>4. Period * (1 + k) = Period + Period * k
    BY <1>2, PeriodIsPositive
  <1> QED
    BY <1>1, <1>2, <1>3, <1>4, PeriodIsPositive

-----------------------------------------------------------------------------
(* The theorem.                                                            *)

\* What one scan does to the clock: it is never set back, and after the first
\* scan it moves by one round and one latency at most.
LEMMA ScanMoves ==
  ASSUME TypeOK, Ordered, Scan
  PROVE  /\ received' \in Nat /\ now' \in Nat /\ free' \in Nat
         /\ base' = base /\ base <= received' /\ received' <= now'
         /\ now <= now' /\ now' <= free' /\ free' <= now' + MaxDuration
         /\ now # 0 => now' <= now + Round + MaxDelay
  <1>1. \E delay \in 0..MaxDelay : now' = received' + delay
    BY DEF Scan
  <1>2. \E duration \in 0..MaxDuration : free' = now' + duration
    BY DEF Scan
  <1>3. MaxDelay \in Nat /\ MaxDuration \in Nat
    BY CadenceAssumption
  <1>4. received' = IF NextTick > free THEN NextTick ELSE free
    BY DEF Scan
  <1>5. base \in Nat /\ received \in Nat /\ now \in Nat /\ free \in Nat
    BY DEF TypeOK
  <1>6. received' \in Nat /\ base <= received' /\ free <= received'
    BY <1>4, <1>5, NextTickSoon
  <1>7. now # 0 => received' <= now + Round
    BY <1>3, <1>4, <1>5, NextTickSoon, PeriodIsPositive, RoundBounds
    DEF Ordered
  <1>8. base' = base
    BY DEF Scan
  <1>9. now' \in Nat /\ received' <= now' /\ now' <= received' + MaxDelay
    BY <1>1, <1>3, <1>6, Within
  <1>10. free' \in Nat /\ now' <= free' /\ free' <= now' + MaxDuration
    BY <1>2, <1>3, <1>9, Within
  <1>11. now <= now'
    BY <1>5, <1>6, <1>9 DEF Ordered
  <1>12. ASSUME now # 0 PROVE now' <= now + Round + MaxDelay
    <2>1. received' <= now + Round /\ Round \in Nat
      BY <1>7, <1>12, RoundBounds
    <2> QED
      BY <2>1, <1>3, <1>5, <1>6, <1>9, Chained
  <1> QED
    BY <1>6, <1>8, <1>9, <1>10, <1>11, <1>12

\* The first scan runs everything and is stamped 0.
LEMMA InvInit == Init => IInv
  <1> SUFFICES ASSUME Init PROVE IInv
    OBVIOUS
  <1>1. free \in Nat /\ base = free /\ received = free /\ now = 0
    BY CadenceAssumption DEF Init
  <1>2. lastRun \in [Subsystems -> Nat]
        /\ \A n \in Subsystems : lastRun[n] = 0
    BY DEF Init
  <1>3. \A n \in Subsystems : Interval[n] \in Nat \ {0}
    BY CadenceAssumption
  <1> QED
    BY <1>1, <1>2, <1>3 DEF IInv, TypeOK, Ordered, NothingDue

\* A subsystem that is due is run, one that is not is not overdue.
LEMMA InvNext == IInv /\ [Scan]_vars => IInv'
  <1> SUFFICES ASSUME IInv, [Scan]_vars PROVE IInv'
    OBVIOUS
  <1>1. CASE Scan
    <2>1. /\ received' \in Nat /\ now' \in Nat /\ free' \in Nat
          /\ base' = base /\ base <= received' /\ received' <= now'
          /\ now <= now' /\ now' <= free' /\ free' <= now' + MaxDuration
      BY <1>1, ScanMoves DEF IInv
    <2>2. lastRun' = [n \in Subsystems |->
                        IF n \in Due(now') THEN now' ELSE lastRun[n]]
      BY <1>1 DEF Scan
    <2>3. lastRun \in [Subsystems -> Nat] /\ now \in Nat /\ base \in Nat
      BY DEF IInv, TypeOK
    <2>4. TypeOK'
      BY <2>1, <2>2, <2>3 DEF TypeOK
    <2>5. ASSUME NEW n \in Subsystems
          PROVE  lastRun'[n] <= now' /\ now' - lastRun'[n] < Interval[n]
      <3>1. Interval[n] \in Nat \ {0} /\ lastRun[n] \in Nat
        BY <2>3, CadenceAssumption
      <3>2. lastRun[n] <= now'
        BY <2>1, <2>3, <3>1 DEF IInv, NothingDue
      <3>3. CASE n \in Due(now')
        BY <2>1, <2>2, <3>1, <3>3
      <3>4. CASE n \notin Due(now')
        <4>1. lastRun'[n] = lastRun[n]
          BY <2>2, <3>4
        <4>2. ~ (now' - lastRun[n] >= Interval[n])
          BY <3>4 DEF Due
        <4> QED
          BY <2>1, <3>1, <3>2, <4>1, <4>2
      <3> QED
        BY <3>3, <3>4
    <2> QED
      BY <2>1, <2>4, <2>5 DEF IInv, Ordered, NothingDue
  <1>2. CASE UNCHANGED vars
    BY <1>2 DEF vars, IInv, TypeOK, Ordered, NothingDue
  <1> QED
    BY <1>1, <1>2

\* The clock and the marks stay numbers, and after every scan nothing is due.
THEOREM Invariant == Spec => []IInv
  BY InvInit, InvNext, PTL DEF Spec

\* The next scan comes within a round and a latency, when nothing was due.
LEMMA StepNotOverdue ==
  ASSUME IInv, Scan, now # 0, NEW n \in Subsystems
  PROVE  now' - lastRun[n] < Interval[n] + Round + MaxDelay
  <1>1. now' \in Nat /\ now' <= now + Round + MaxDelay
    BY ScanMoves DEF IInv
  <1>2. lastRun[n] \in Nat /\ now \in Nat /\ Interval[n] \in Nat
        /\ MaxDelay \in Nat /\ Round \in Nat
    BY CadenceAssumption, RoundBounds DEF IInv, TypeOK
  <1>3. now - lastRun[n] < Interval[n]
    BY DEF IInv, NothingDue
  <1> QED
    BY <1>1, <1>2, <1>3

\* Every scan after the first finds each subsystem overdue by less than a
\* round of the loop and a latency.
THEOREM NobodyForgotten == Spec => NeverLongOverdue
  <1>1. IInv /\ [Scan]_vars =>
          [now # 0 => \A n \in Subsystems :
             now' - lastRun[n] < Interval[n] + Round + MaxDelay]_vars
    BY StepNotOverdue
  <1> QED
    BY <1>1, Invariant, PTL DEF Spec, NeverLongOverdue

-----------------------------------------------------------------------------
(* The history of the service checks.                                      *)

\* The rows of the table, and what a runner holds.
CheckRows ==
  [key : Checks!Keys, at : Nat, down : BOOLEAN, count : Nat, late : BOOLEAN]
CheckRuns ==
  [at : {"idle", "checking"}, now : Nat, todo : SUBSET DOMAIN CheckList,
   results : SUBSET CheckRows, version : Nat]

ChecksTypes ==
  /\ clock \in Nat /\ begun \in Nat /\ saved \in Nat /\ faults \in Nat
  /\ version \in Nat
  /\ config \in Checks!Configs
  /\ lastCheck \in [Checks!Keys -> Nat]
  /\ observed \in [Checks!Keys -> Nat]
  /\ runs \in [Checks!Runners -> CheckRuns]
  /\ saves \in [Savers -> Checks!Configs \cup {Checks!NoSave}]
  /\ history \subseteq CheckRows

\* Rows are backed when they are counted, before they are stored.
CountsAreBacked ==
  /\ \A row \in history : row.count <= observed[row.key]
  /\ \A r \in Checks!Runners : \A row \in runs[r].results :
       row.count <= observed[row.key]

\* A run of the configuration in force checks only what that one has.
RunsAreCurrent ==
  \A r \in Checks!Runners :
    /\ runs[r].version <= version
    /\ runs[r].version = version =>
         /\ \A i \in runs[r].todo : config[CheckList[i]] # "absent"
         /\ \A row \in runs[r].results : config[row.key] # "absent"

\* While there is a row of a check that was dropped, other than from an old
\* run, the save that dropped it has its purge to come: a purge of an older
\* save is no substitute.
PurgeIsDue ==
  \A row \in history :
    (config[row.key] = "absent" /\ ~row.late)
      => \E s \in Savers : saves[s] = config

\* The inductive invariant.
ChecksIInv ==
  ChecksTypes /\ CountsAreBacked /\ RunsAreCurrent /\ PurgeIsDue

\* A check adds one row, backed by what has now been found.
LEMMA CheckAddsRow ==
  ASSUME ChecksTypes, CountsAreBacked,
         NEW r \in Checks!Runners, NEW isDown \in BOOLEAN,
         Checks!Check(r, isDown)
  PROVE  /\ \E i \in runs[r].todo, row \in CheckRows :
              /\ row.key = CheckList[i] /\ row.count <= observed'[row.key]
              /\ runs' = [runs EXCEPT
                   ![r].todo = @ \ {i}, ![r].results = @ \cup {row}]
         /\ observed' \in [Checks!Keys -> Nat]
         /\ \A k \in Checks!Keys : observed[k] <= observed'[k]
         /\ lastCheck' \in [Checks!Keys -> Nat] /\ faults' \in Nat
         /\ UNCHANGED <<clock, config, saves, history, begun, saved, version>>
<1> DEFINE k(i) == CheckList[i]
<1>1. PICK i \in runs[r].todo :
        /\ \E before \in {0} \cup {row.count : row \in Checks!Latest(k(i))} :
             /\ Checks!Previous(k(i), before)
             /\ runs' = [runs EXCEPT
                  ![r].todo = @ \ {i},
                  ![r].results = @ \cup {Checks!Row(k(i), runs[r].now, isDown,
                                             Checks!Counted(before, isDown))}]
        /\ lastCheck' = IF r = Loop
                           THEN [lastCheck EXCEPT ![k(i)] = runs[r].now]
                                  ELSE lastCheck
        /\ observed' = IF isDown THEN [observed EXCEPT ![k(i)] = @ + 1]
                                 ELSE observed
        /\ UNCHANGED <<clock, config, saves, history, begun, saved, version>>
  BY DEF Checks!Check
<1> DEFINE key == k(i)
<1>2. runs[r] \in CheckRuns /\ key \in Checks!Keys /\ runs[r].now \in Nat
  BY DEF ChecksTypes, CheckRuns, Checks!Keys
<1> HIDE DEF key
<1>3. /\ observed' \in [Checks!Keys -> Nat]
      /\ \A x \in Checks!Keys : observed[x] <= observed'[x]
      /\ observed'[key] = observed[key] + IF isDown THEN 1 ELSE 0
  BY <1>1, <1>2 DEF ChecksTypes, key
<1>4. lastCheck' \in [Checks!Keys -> Nat]
  BY <1>1, <1>2 DEF ChecksTypes
<1>5. PICK before \in {0} \cup {row.count : row \in Checks!Latest(key)} :
        /\ Checks!Previous(key, before)
        /\ runs' = [runs EXCEPT
             ![r].todo = @ \ {i},
             ![r].results = @ \cup {Checks!Row(key, runs[r].now, isDown,
                                        Checks!Counted(before, isDown))}]
  BY <1>1 DEF key
<1>6. \A row \in Checks!Latest(key) :
        row \in CheckRows /\ row.key = key /\ row.count <= observed[key]
  BY DEF Checks!Latest, ChecksTypes, CountsAreBacked
<1>7. before \in Nat /\ before <= observed[key]
  BY <1>2, <1>5, <1>6 DEF ChecksTypes, CheckRows
<1>8. faults' \in Nat
  BY <1>5 DEF Checks!Previous, Checks!Fail, ChecksTypes
<1> DEFINE row == Checks!Row(key, runs[r].now, isDown,
                             Checks!Counted(before, isDown))
<1>9. Checks!Counted(before, isDown) \in Nat
      /\ Checks!Counted(before, isDown) <= observed'[key]
  BY <1>2, <1>3, <1>7 DEF Checks!Counted, ChecksTypes
<1>10. /\ row \in CheckRows /\ row.key = key
       /\ row.count = Checks!Counted(before, isDown)
  BY <1>2, <1>9 DEF Checks!Row, CheckRows
<1> HIDE DEF row
<1>11. runs' = [runs EXCEPT ![r].todo = @ \ {i}, ![r].results = @ \cup {row}]
  BY <1>5 DEF row
<1>12. row.key = CheckList[i] /\ row.count <= observed'[row.key]
  BY <1>9, <1>10 DEF key
<1> QED
  BY <1>1, <1>3, <1>4, <1>8, <1>10, <1>11, <1>12

\* A row is stored as it was counted, and marked when its run is an old one.
LEMMA SaveAddsRows ==
  ASSUME ChecksTypes, NEW r \in Checks!Runners, Checks!Save(r),
         NEW row \in history' \ history
  PROVE  /\ row \in CheckRows
         /\ \E counted \in runs[r].results :
              row.key = counted.key /\ row.count = counted.count
         /\ ~row.late => ~(runs[r].version < version)
<1> DEFINE late == runs[r].version < version
<1>1. late \in BOOLEAN
  OBVIOUS
<1>2. history' = history \cup
        {[counted EXCEPT !.late = late] : counted \in runs[r].results}
  BY DEF Checks!Save
<1> HIDE DEF late
<1>3. PICK counted \in runs[r].results :
        row = [counted EXCEPT !.late = late]
  BY <1>2
<1>4. counted \in CheckRows
  BY DEF ChecksTypes, CheckRuns
<1>5. /\ row \in CheckRows /\ row.key = counted.key
      /\ row.count = counted.count /\ row.late = late
  BY <1>1, <1>3, <1>4 DEF CheckRows
<1> QED
  BY <1>5 DEF late

\* Every step keeps the types.
LEMMA ChecksTypesStep ==
  ASSUME ChecksTypes, CountsAreBacked, [Checks!Next]_(Checks!vars)
  PROVE  ChecksTypes'
<1>0. Checks!Idle \in CheckRuns
  BY DEF Checks!Idle, CheckRuns
<1>1. CASE Checks!Tick
  BY <1>1 DEF ChecksTypes, Checks!Tick
<1>2. ASSUME NEW r \in Checks!Runners, NEW todo \in SUBSET DOMAIN CheckList,
             Checks!Begin(r, todo)
      PROVE  ChecksTypes'
  <2> DEFINE run == [at |-> "checking", now |-> clock, todo |-> todo,
                     results |-> {}, version |-> version]
  <2>1. run \in CheckRuns
    BY DEF ChecksTypes, CheckRuns
  <2> HIDE DEF run
  <2>2. runs' = [runs EXCEPT ![r] = run]
    BY <1>2 DEF Checks!Begin, run
  <2>3. runs' \in [Checks!Runners -> CheckRuns]
    BY <2>1, <2>2 DEF ChecksTypes
  <2>4. UNCHANGED <<clock, config, lastCheck, saves, history, saved, faults,
                    observed, version>> /\ begun' \in Nat
    BY <1>2 DEF Checks!Begin, ChecksTypes
  <2> QED
    BY <2>3, <2>4 DEF ChecksTypes
<1>3. ASSUME NEW r \in Checks!Runners, NEW isDown \in BOOLEAN,
             Checks!Check(r, isDown)
      PROVE  ChecksTypes'
  <2>1. PICK i \in runs[r].todo, row \in CheckRows :
          runs' = [runs EXCEPT ![r].todo = @ \ {i},
                               ![r].results = @ \cup {row}]
    BY SMTT(30), <1>3, CheckAddsRow
  <2>2. runs[r] \in CheckRuns
    BY DEF ChecksTypes
  <2>3. runs' = [runs EXCEPT ![r] =
                   [runs[r] EXCEPT !.todo = @ \ {i},
                                   !.results = @ \cup {row}]]
    BY <2>1, <2>2 DEF ChecksTypes
  <2>4. [runs[r] EXCEPT !.todo = @ \ {i}, !.results = @ \cup {row}]
          \in CheckRuns
    BY <2>2 DEF CheckRuns
  <2>5. runs' \in [Checks!Runners -> CheckRuns]
    BY <2>3, <2>4 DEF ChecksTypes
  <2> QED
    BY <1>3, <2>5, CheckAddsRow DEF ChecksTypes
<1>4. ASSUME NEW r \in Checks!Runners, Checks!Save(r)
      PROVE  ChecksTypes'
  <2>1. \A row \in history' \ history : row \in CheckRows
    BY <1>4, SaveAddsRows
  <2>2. history' \subseteq CheckRows /\ faults' \in Nat
    BY <1>4, <2>1 DEF ChecksTypes, Checks!Save, Checks!Fail
  <2> QED
    BY <1>0, <1>4, <2>2 DEF ChecksTypes, Checks!Save
<1>5. ASSUME NEW s \in Savers, NEW c \in Checks!Configs, Checks!SetChecks(s, c)
      PROVE  ChecksTypes'
  BY <1>5 DEF ChecksTypes, Checks!SetChecks
<1>6. ASSUME NEW s \in Savers, Checks!Purge(s)
      PROVE  ChecksTypes'
  BY <1>6 DEF ChecksTypes, Checks!Purge, Checks!Kept
<1>7. ASSUME NEW k \in Checks!Keys, Checks!DeleteCheck(k)
      PROVE  ChecksTypes'
  BY <1>7 DEF ChecksTypes, Checks!DeleteCheck
<1>8. CASE Checks!Prune(clock)
  BY <1>8 DEF ChecksTypes, Checks!Prune
<1>9. CASE Checks!Restart
  BY <1>0, <1>9 DEF ChecksTypes, Checks!Restart, Checks!Kept, Checks!Fail
<1>10. CASE UNCHANGED Checks!vars
  BY <1>10 DEF ChecksTypes, Checks!vars
<1>11. /\ Checks!Due \in SUBSET DOMAIN CheckList
       /\ Checks!Enabled \in SUBSET DOMAIN CheckList
       /\ Loop \in Checks!Runners /\ Others \subseteq Checks!Runners
  BY DEF Checks!Due, Checks!Enabled, Checks!Runners
<1> QED
  BY <1>1, <1>2, <1>3, <1>4, <1>5, <1>6, <1>7, <1>8, <1>9, <1>10, <1>11
     DEF Checks!Next, Checks!RunDueChecks, Checks!RunServiceChecks

\* A row is counted when its target has just been found down.
LEMMA BackedStep ==
  ASSUME ChecksTypes, CountsAreBacked, [Checks!Next]_(Checks!vars)
  PROVE  CountsAreBacked'
<1>1. ASSUME NEW r \in Checks!Runners, NEW todo, Checks!Begin(r, todo)
      PROVE  CountsAreBacked'
  <2>1. /\ UNCHANGED <<history, observed>>
        /\ \A q \in Checks!Runners : runs'[q].results \in {runs[q].results, {}}
    BY <1>1 DEF Checks!Begin, ChecksTypes
  <2> QED
    BY <2>1 DEF CountsAreBacked
<1>2. ASSUME NEW r \in Checks!Runners, NEW isDown \in BOOLEAN,
             Checks!Check(r, isDown)
      PROVE  CountsAreBacked'
  <2>1. PICK i \in runs[r].todo, row \in CheckRows :
          /\ row.count <= observed'[row.key]
          /\ runs' = [runs EXCEPT ![r].todo = @ \ {i},
                                  ![r].results = @ \cup {row}]
    BY <1>2, CheckAddsRow
  <2>2. /\ history' = history
        /\ \A k \in Checks!Keys : observed[k] <= observed'[k]
        /\ observed' \in [Checks!Keys -> Nat]
    BY <1>2, CheckAddsRow
  <2>3. \A q \in Checks!Runners :
          runs'[q].results \subseteq runs[q].results \cup {row}
    BY <2>1 DEF ChecksTypes
  <2>4. ASSUME NEW x \in CheckRows, x.count <= observed[x.key]
        PROVE  x.count <= observed'[x.key]
    <3>1. x.count \in Nat /\ x.key \in Checks!Keys
      BY DEF CheckRows
    <3> QED
      BY <2>2, <2>4, <3>1 DEF ChecksTypes
  <2>5. history \subseteq CheckRows
        /\ \A q \in Checks!Runners : runs[q].results \subseteq CheckRows
    BY DEF ChecksTypes, CheckRuns
  <2> QED
    BY <2>1, <2>2, <2>3, <2>4, <2>5 DEF CountsAreBacked
<1>3. ASSUME NEW r \in Checks!Runners, Checks!Save(r)
      PROVE  CountsAreBacked'
  <2>1. \A row \in history' \ history : \E counted \in runs[r].results :
          row.key = counted.key /\ row.count = counted.count
    BY <1>3, SaveAddsRows
  <2>2. /\ observed' = observed
        /\ \A q \in Checks!Runners : runs'[q].results \in {runs[q].results, {}}
    BY <1>3 DEF Checks!Save, ChecksTypes, Checks!Idle
  <2>3. \A row \in history' : row.count <= observed[row.key]
    BY <2>1 DEF CountsAreBacked
  <2> QED
    BY <2>2, <2>3 DEF CountsAreBacked
<1>4. ASSUME history' \subseteq history, observed' = observed,
             \A q \in Checks!Runners :
               runs'[q].results \in {runs[q].results, {}}
      PROVE  CountsAreBacked'
  BY <1>4 DEF CountsAreBacked
<1>5. CASE \/ Checks!Tick \/ UNCHANGED Checks!vars
           \/ Checks!Prune(clock) \/ Checks!Restart
  BY <1>4, <1>5 DEF Checks!Tick, Checks!vars, Checks!Prune, Checks!Restart,
                    Checks!Kept, Checks!Idle
<1>6. ASSUME NEW s \in Savers,
             \/ Checks!Purge(s)
             \/ \E c \in Checks!Configs : Checks!SetChecks(s, c)
      PROVE  CountsAreBacked'
  BY <1>4, <1>6 DEF Checks!Purge, Checks!SetChecks, Checks!Kept
<1>7. ASSUME NEW k \in Checks!Keys, Checks!DeleteCheck(k)
      PROVE  CountsAreBacked'
  BY <1>4, <1>7 DEF Checks!DeleteCheck
<1> QED
  BY <1>1, <1>2, <1>3, <1>5, <1>6, <1>7
     DEF Checks!Next, Checks!RunDueChecks, Checks!RunServiceChecks,
         Checks!Runners

\* A run that begins copies the configuration; one that is replaced is old.
LEMMA CurrentStep ==
  ASSUME ChecksTypes, CountsAreBacked, RunsAreCurrent,
         [Checks!Next]_(Checks!vars)
  PROVE  RunsAreCurrent'
<1>1. ASSUME NEW r \in Checks!Runners, NEW todo \in SUBSET Checks!Enabled,
             Checks!Begin(r, todo)
      PROVE  RunsAreCurrent'
  <2>1. /\ UNCHANGED <<config, version>>
        /\ \A q \in Checks!Runners \ {r} : runs'[q] = runs[q]
        /\ runs'[r].version = version /\ runs'[r].results = {}
        /\ runs'[r].todo = todo
    BY <1>1 DEF Checks!Begin, ChecksTypes
  <2>2. \A i \in todo : config[CheckList[i]] # "absent"
    BY DEF Checks!Enabled
  <2> QED
    BY <2>1, <2>2 DEF RunsAreCurrent, ChecksTypes
<1>2. ASSUME NEW r \in Checks!Runners, NEW isDown \in BOOLEAN,
             Checks!Check(r, isDown)
      PROVE  RunsAreCurrent'
  <2>1. PICK i \in runs[r].todo, row \in CheckRows :
          /\ row.key = CheckList[i]
          /\ runs' = [runs EXCEPT ![r].todo = @ \ {i},
                                  ![r].results = @ \cup {row}]
    BY <1>2, CheckAddsRow
  <2>2. UNCHANGED <<config, version>>
    BY <1>2, CheckAddsRow
  <2>3. \A q \in Checks!Runners :
          /\ runs'[q].version = runs[q].version
          /\ runs'[q].todo \subseteq runs[q].todo
          /\ runs'[q].results \subseteq
               runs[q].results \cup (IF q = r THEN {row} ELSE {})
    BY <2>1 DEF ChecksTypes, CheckRuns
  <2> QED
    BY <2>1, <2>2, <2>3 DEF RunsAreCurrent
<1>3. ASSUME UNCHANGED <<config, version>>,
             \A q \in Checks!Runners :
               runs'[q] = runs[q] \/ runs'[q] = Checks!Idle
      PROVE  RunsAreCurrent'
  BY <1>3 DEF RunsAreCurrent, Checks!Idle, ChecksTypes
<1>4. ASSUME NEW s \in Savers, NEW c \in Checks!Configs, Checks!SetChecks(s, c)
      PROVE  RunsAreCurrent'
  <2>1. runs' = runs /\ version' = version + 1
    BY <1>4 DEF Checks!SetChecks
  <2>2. \A q \in Checks!Runners :
          runs[q].version \in Nat /\ runs[q].version <= version
    BY DEF RunsAreCurrent, ChecksTypes, CheckRuns
  <2> QED
    BY <2>1, <2>2 DEF RunsAreCurrent, ChecksTypes
<1>5. ASSUME \/ Checks!Tick \/ UNCHANGED Checks!vars
             \/ Checks!Prune(clock) \/ Checks!Restart
             \/ \E r \in Checks!Runners : Checks!Save(r)
             \/ \E s \in Savers : Checks!Purge(s)
             \/ \E k \in Checks!Keys : Checks!DeleteCheck(k)
      PROVE  RunsAreCurrent'
  BY <1>3, <1>5 DEF Checks!Tick, Checks!vars, Checks!Prune, Checks!Restart,
                    Checks!Save, Checks!Purge, Checks!DeleteCheck,
                    ChecksTypes
<1>6. /\ Checks!Due \subseteq Checks!Enabled
      /\ Loop \in Checks!Runners /\ Others \subseteq Checks!Runners
  BY DEF Checks!Due, Checks!Runners
<1> QED
  BY <1>1, <1>2, <1>4, <1>5, <1>6 DEF Checks!Next, Checks!RunDueChecks,
                                      Checks!RunServiceChecks

\* A row of a dropped check comes from an old run, or its purge is to come.
LEMMA PurgeStep ==
  ASSUME ChecksTypes, CountsAreBacked, RunsAreCurrent, PurgeIsDue,
         [Checks!Next]_(Checks!vars)
  PROVE  PurgeIsDue'
<1>1. ASSUME history' \subseteq history, UNCHANGED <<config, saves>>
      PROVE  PurgeIsDue'
  BY <1>1 DEF PurgeIsDue
<1>2. ASSUME NEW r \in Checks!Runners, Checks!Save(r)
      PROVE  PurgeIsDue'
  <2>2. UNCHANGED <<config, saves>>
    BY <1>2 DEF Checks!Save
  <2>3. ASSUME NEW row \in history', config[row.key] = "absent", ~row.late
        PROVE  row \in history
    <3>1. SUFFICES ASSUME row \in history' \ history
                   PROVE  FALSE
      BY <2>3
    <3>2. PICK counted \in runs[r].results : row.key = counted.key
      BY <1>2, <3>1, SaveAddsRows
    <3>3. runs[r].version = version
      <4>1. ~(runs[r].version < version)
        BY <1>2, <2>3, <3>1, SaveAddsRows
      <4>2. runs[r].version \in Nat /\ version \in Nat
        BY DEF ChecksTypes, CheckRuns
      <4> QED
        BY <4>1, <4>2 DEF RunsAreCurrent
    <3> QED
      BY <2>3, <3>2, <3>3 DEF RunsAreCurrent
  <2> QED
    BY <2>2, <2>3 DEF PurgeIsDue
<1>3. ASSUME NEW s \in Savers, NEW c \in Checks!Configs, Checks!SetChecks(s, c)
      PROVE  PurgeIsDue'
  BY <1>3 DEF PurgeIsDue, Checks!SetChecks, ChecksTypes
<1>4. ASSUME NEW s \in Savers, Checks!Purge(s)
      PROVE  PurgeIsDue'
  <2>1. /\ history' = Checks!Kept(saves[s]) /\ config' = config
        /\ \A x \in Savers \ {s} : saves'[x] = saves[x]
    BY <1>4 DEF Checks!Purge, ChecksTypes
  <2>2. ASSUME NEW row \in history', config[row.key] = "absent", ~row.late
        PROVE  \E x \in Savers : saves'[x] = config
    <3>1. row \in history /\ saves[s][row.key] # "absent"
      BY <2>1 DEF Checks!Kept
    <3>2. PICK x \in Savers : saves[x] = config
      BY <2>2, <3>1 DEF PurgeIsDue
    <3> QED
      BY <2>1, <2>2, <3>1, <3>2
  <2> QED
    BY <2>1, <2>2 DEF PurgeIsDue
<1>5. CASE Checks!Restart
  BY <1>5 DEF Checks!Restart, Checks!Kept, PurgeIsDue
<1>6. ASSUME NEW r \in Checks!Runners, NEW isDown \in BOOLEAN,
             Checks!Check(r, isDown)
      PROVE  PurgeIsDue'
  BY <1>1, <1>6, CheckAddsRow
<1>7. ASSUME \/ Checks!Tick \/ UNCHANGED Checks!vars \/ Checks!Prune(clock)
             \/ \E k \in Checks!Keys : Checks!DeleteCheck(k)
             \/ \E r, todo : Checks!Begin(r, todo)
      PROVE  PurgeIsDue'
  BY <1>1, <1>7 DEF Checks!Tick, Checks!vars, Checks!Prune, Checks!DeleteCheck,
                    Checks!Begin
<1> QED
  BY <1>2, <1>3, <1>4, <1>5, <1>6, <1>7
     DEF Checks!Next, Checks!RunDueChecks, Checks!RunServiceChecks

\* The four parts hold in every state.
LEMMA ChecksInvariant ==
  Checks!Spec => []ChecksIInv
<1>1. Checks!Init => ChecksIInv
  <2> SUFFICES ASSUME Checks!Init
               PROVE  ChecksIInv
    OBVIOUS
  <2>1. /\ Checks!Idle \in CheckRuns
        /\ Checks!Idle.results = {} /\ Checks!Idle.todo = {}
        /\ Checks!Idle.version = 0
    BY DEF Checks!Idle, CheckRuns
  <2>2. ChecksTypes
    BY <2>1 DEF Checks!Init, ChecksTypes
  <2> QED
    BY <2>1, <2>2 DEF Checks!Init, ChecksIInv, CountsAreBacked, RunsAreCurrent,
                      PurgeIsDue
<1>2. ChecksIInv /\ [Checks!Next]_(Checks!vars) => ChecksIInv'
  BY ChecksTypesStep, BackedStep, CurrentStep, PurgeStep DEF ChecksIInv
<1> QED
  BY <1>1, <1>2, PTL DEF Checks!Spec

\* ServiceChecks: however runs, saves, purges, failed calls and restarts
\* interleave, an alarm is backed by as many failures as it counts, and only a
\* run that began before a save leaves rows of a check the save removed.
THEOREM HistoryIsTrue ==
  Checks!Spec => []ChecksHistory
<1>1. ASSUME ChecksIInv
      PROVE  ChecksHistory
  <2>1. Checks!AlarmIsBacked
    BY <1>1 DEF ChecksIInv, CountsAreBacked, Checks!AlarmIsBacked
  <2>2. ASSUME \A s \in Savers : saves[s] = Checks!NoSave,
               NEW row \in history, config[row.key] = "absent", ~row.late
        PROVE  FALSE
    <3>1. \E s \in Savers : saves[s] = config
      BY <1>1, <2>2 DEF ChecksIInv, PurgeIsDue
    <3>2. row.key \in Checks!Keys
      BY <1>1 DEF ChecksIInv, ChecksTypes, CheckRows
    <3> QED
      BY <2>2, <3>1, <3>2 DEF Checks!NoSave
  <2>3. Checks!OnlyOldRunsLeaveOrphans
    BY <1>1, <2>2 DEF Checks!OnlyOldRunsLeaveOrphans, ChecksIInv, ChecksTypes,
                      CheckRows
  <2> QED
    BY <2>1, <2>3 DEF ChecksHistory, Checks!ChecksHistory
<1> QED
  BY ChecksInvariant, <1>1, PTL

-----------------------------------------------------------------------------
(* The settings.                                                           *)

Shapes == {"flat", "smart", "advanced"}
Blobs ==
  [version : Nat, shape : Shapes, age : Int, keep : Int,
   drives : Settings!Views, cadence : {"daily"},
   hooks : {Settings!NoHooks, Settings!NilHooks}, pref : Nat, save : Nat]

\* A blob that some save has validated: nothing is left to a start to migrate,
\* to clamp or to fill in.
Valid(b) == b.shape = "advanced" /\ b.keep >= 7 /\ b.hooks # Settings!NilHooks

SettingsTypes ==
  /\ stored \in Blobs \cup {Settings!NoBlob}
  /\ page \in Blobs
  /\ request \in
       [Requests -> [stage : {"idle", "read", "have", "save", "apply"},
                     blob : Blobs, raw : Blobs \cup {Settings!NoBlob}]]
  /\ pageSaves \in Nat /\ patches \in Nat

\* A blob with "smart" is from before version 3, so a read moves it.
SmartIsOld ==
  (stored # Settings!NoBlob /\ stored.shape = "smart") => stored.version < 3

\* Between its read and its write a request holds what it read, migrated.
ReadIsMigrated ==
  \A r \in Requests :
    request[r].stage = "read" =>
      request[r].blob = Settings!Read(request[r].raw)

\* The mark of a save is only on what a save has validated, however often it
\* was read, migrated, patched, shown and saved again since.
SavedIsValid ==
  /\ stored # Settings!NoBlob /\ stored.save > 0 => Valid(stored)
  /\ page.shape = "advanced" /\ (page.save > 0 => Valid(page))
  /\ \A r \in Requests :
       /\ request[r].blob.shape = "advanced"
       /\ request[r].blob.save > 0 \/ request[r].stage \in {"save", "apply"}
            => Valid(request[r].blob)

SettingsIInv == SettingsTypes /\ SmartIsOld /\ ReadIsMigrated /\ SavedIsValid

-----------------------------------------------------------------------------
\* The defaults are a blob that no save has marked.
LEMMA DefaultsAreBlob ==
  Settings!Defaults \in Blobs
  /\ Settings!Defaults.shape = "advanced" /\ Settings!Defaults.save = 0
<1> QED
  BY DEF Settings!Defaults, Blobs, Shapes, Settings!Views, Settings!Current,
         Settings!NoHooks

\* Having no blob is not to have one.
LEMMA NoBlobIsNone == Settings!NoBlob \notin Blobs
<1>1. Settings!NoBlob.shape = "none"
  BY DEF Settings!NoBlob
<1> QED
  BY <1>1 DEF Blobs, Shapes

\* What migrating keeps.
LEMMA MigratedIsBlob ==
  ASSUME NEW b \in Blobs
  PROVE  /\ Settings!Migrated(b) \in Blobs
         /\ Settings!Migrated(b).shape = "advanced"
         /\ Settings!Migrated(b).save = b.save
         /\ Settings!Migrated(b).keep = b.keep
         /\ Settings!Migrated(b).hooks = b.hooks
<1> DEFINE age == IF b.shape = "advanced"
                        \/ (b.shape = "smart" /\ b.version < 3)
                  THEN b.age ELSE Settings!Defaults.age
           v == Settings!Larger(b.version, Settings!Current)
           m == IF b.version < 1 THEN "merged" ELSE b.drives
<1>1. age \in Int /\ v \in Nat /\ m \in Settings!Views /\ "advanced" \in Shapes
  BY DefaultsAreBlob 
     DEF Blobs, Settings!Current, Settings!Larger, Settings!Views, Shapes
<1>2. Settings!Migrated(b) = [b EXCEPT !.version = v, !.shape = "advanced",
                                       !.drives = m, !.age = age]
  BY Zenon DEF Settings!Migrated
<1> HIDE DEF age, v, m
<1> QED
  BY <1>1, <1>2 DEF Blobs

\* A read gives a migrated blob, a valid one if a save has marked it.
LEMMA ReadIsBlob ==
  ASSUME NEW b \in Blobs \cup {Settings!NoBlob},
         b # Settings!NoBlob /\ b.save > 0 => Valid(b)
  PROVE  /\ Settings!Read(b) \in Blobs /\ Settings!Read(b).shape = "advanced"
         /\ Settings!Read(b).save > 0 => Valid(Settings!Read(b))
<1>1. CASE b = Settings!NoBlob
  BY <1>1, DefaultsAreBlob DEF Settings!Read
<1>2. CASE b # Settings!NoBlob
  <2>1. b \in Blobs /\ Settings!Read(b) = Settings!Migrated(b)
    BY <1>2 DEF Settings!Read
  <2> QED
    BY <1>2, <2>1, MigratedIsBlob DEF Valid
<1> QED
  BY <1>1, <1>2

\* The page reads a blob without migrating it; a valid one stays itself.
LEMMA RawIsBlob ==
  ASSUME NEW b \in Blobs
  PROVE  /\ Settings!Raw(b) \in Blobs /\ Settings!Raw(b).shape = "advanced"
         /\ Settings!Raw(b).save = b.save
         /\ Valid(b) => Settings!Raw(b) = b
<1>1. CASE b.shape = "advanced"
  BY <1>1 DEF Settings!Raw
<1>2. CASE b.shape # "advanced"
  <2>1. Settings!Raw(b) = [b EXCEPT !.shape = "advanced", !.age = 0]
    BY <1>2 DEF Settings!Raw
  <2>2. "advanced" \in Shapes /\ 0 \in Int
    BY DEF Shapes
  <2> QED
    BY <1>2, <2>1, <2>2 DEF Blobs, Valid
<1> QED
  BY <1>1, <1>2

\* Reading keeps what the blob asks for, but for the first rung.
LEMMA MigratedKeepsChoices ==
  ASSUME NEW b \in Blobs, b.shape = "smart" => b.version < 3
  PROVE  \/ Settings!Choices(Settings!Migrated(b)) = Settings!Choices(b)
         \/ /\ b.version < 1
            /\ Settings!Choices(Settings!Migrated(b))
                 = [Settings!Choices(b) EXCEPT !.drives = "merged"]
<1> DEFINE age == IF b.shape = "flat" THEN Settings!Defaults.age ELSE b.age
<1>1. Settings!Migrated(b).age = age
      /\ Settings!Migrated(b).shape = "advanced"
  BY DEF Settings!Migrated, Blobs, Shapes
<1> QED
  BY <1>1 DEF Settings!Migrated, Settings!Choices, Blobs, Shapes

-----------------------------------------------------------------------------
\* What an earlier version left was marked by no save.
LEMMA SettingsInvInit ==
  ASSUME Settings!SettingsAssumption, Settings!Init
  PROVE  SettingsIInv
<1>1. ASSUME NEW b \in Settings!Left
      PROVE  /\ b \in Blobs /\ b.save = 0
             /\ b.shape = "smart" => b.version < 3
  <2>1. PICK s \in Stored :
          b = [Settings!Defaults EXCEPT !.version = s[1],
                                      !.shape = s[2], !.age = s[3],
                 !.drives = s[4], !.hooks = Settings!NilHooks, !.keep = 30]
    BY <1>1 DEF Settings!Left
  <2>2. /\ s[1] \in Nat /\ s[2] \in Shapes /\ s[3] \in Int
        /\ s[4] \in Settings!Views
        /\ s[2] = "smart" => s[1] < 3
    BY DEF Settings!SettingsAssumption, Shapes
  <2>3. Settings!NilHooks \in {Settings!NoHooks, Settings!NilHooks}
    OBVIOUS
  <2>4. b = [version |-> s[1], shape |-> s[2], age |-> s[3], keep |-> 30,
             drives |-> s[4], cadence |-> "daily",
             hooks |-> Settings!NilHooks, pref |-> 0, save |-> 0]
    BY <2>1 DEF Settings!Defaults
  <2>5. b \in Blobs
    <3> HIDE DEF Settings!NilHooks
    <3> QED
      BY <2>2, <2>3, <2>4 DEF Blobs
  <2> QED
    BY <2>2, <2>4, <2>5
<1>2. stored \in Settings!Left \cup {Settings!NoBlob}
      /\ page = Settings!Defaults
      /\ request = [r \in Requests |-> Settings!Idle] /\ pageSaves = 0
      /\ patches = 0
  BY DEF Settings!Init
<1>3. Settings!Idle.stage = "idle"
      /\ Settings!Idle.blob = Settings!Defaults
      /\ Settings!Idle.raw = Settings!NoBlob
      /\ Settings!Idle \in [stage : {"idle", "read", "have", "save", "apply"},
                   blob : Blobs, raw : Blobs \cup {Settings!NoBlob}]
  BY DefaultsAreBlob DEF Settings!Idle
<1>4. SettingsTypes
  BY <1>1, <1>2, <1>3, DefaultsAreBlob DEF SettingsTypes
<1>5. SmartIsOld /\ ReadIsMigrated
  BY <1>1, <1>2, <1>3 DEF SmartIsOld, ReadIsMigrated
<1>6. SavedIsValid
  BY <1>1, <1>2, <1>3, DefaultsAreBlob DEF SavedIsValid
<1> QED
  BY <1>4, <1>5, <1>6 DEF SettingsIInv

\* What is handed from a request, a page or the table to another keeps being
\* of the settings' form.
Form(b) == b \in Blobs /\ b.shape = "advanced" /\ (b.save > 0 => Valid(b))

\* All blobs there are have the form the invariant speaks of.
LEMMA FormsOf ==
  ASSUME SettingsIInv
  PROVE  /\ Form(page) /\ Form(Settings!Read(stored))
         /\ stored # Settings!NoBlob
               => stored \in Blobs /\ Form(Settings!Raw(stored))
         /\ \A r \in Requests : Form(request[r].blob)
<1>1. Form(page)
  BY DEF SettingsIInv, SettingsTypes, SavedIsValid, Form
<1>2. Form(Settings!Read(stored))
  BY ReadIsBlob DEF SettingsIInv, SettingsTypes, SavedIsValid, Form
<1>3. ASSUME stored # Settings!NoBlob
      PROVE  stored \in Blobs /\ Form(Settings!Raw(stored))
  BY <1>3, RawIsBlob DEF SettingsIInv, SettingsTypes, SavedIsValid, Form
<1>4. \A r \in Requests : Form(request[r].blob)
  BY DEF SettingsIInv, SettingsTypes, SavedIsValid, Form
<1> QED
  BY <1>1, <1>2, <1>3, <1>4

\* A request that does nothing but go on with a blob of that form.
LEMMA RequestKeeps ==
  ASSUME SettingsIInv, NEW r \in Requests,
         NEW q \in [stage : {"idle", "read", "have", "save", "apply"},
                    blob : Blobs, raw : Blobs \cup {Settings!NoBlob}],
         request' = [request EXCEPT ![r] = q],
         Form(q.blob),
         q.stage = "read" => q.blob = Settings!Read(q.raw),
         q.stage \in {"save", "apply"} => Valid(q.blob),
         \/ UNCHANGED stored
         \/ stored' \in Blobs /\ Form(stored'),
         \/ UNCHANGED page
         \/ Form(page'),
         pageSaves' \in Nat, patches' \in Nat
  PROVE  SettingsIInv'
<1> USE DEF SettingsIInv, SettingsTypes
<1>1. /\ \A p \in Requests : request'[p] = IF p = r THEN q ELSE request[p]
      /\ request' \in
           [Requests -> [stage : {"idle", "read", "have", "save", "apply"},
                         blob : Blobs, raw : Blobs \cup {Settings!NoBlob}]]
  OBVIOUS
<1>2. SettingsTypes'
  BY <1>1 DEF Form
<1>3. SmartIsOld'
  BY DEF SmartIsOld, Form
<1>4. ReadIsMigrated'
  BY <1>1 DEF ReadIsMigrated
<1>5. SavedIsValid'
  <2>1. (stored # Settings!NoBlob /\ stored.save > 0 => Valid(stored))'
    BY DEF SavedIsValid, Form, Valid
  <2>2. (page.shape = "advanced" /\ (page.save > 0 => Valid(page)))'
    BY DEF SavedIsValid, Form, Valid
  <2>3. ASSUME NEW p \in Requests
        PROVE  /\ request'[p].blob.shape = "advanced"
               /\ request'[p].blob.save > 0
                    \/ request'[p].stage \in {"save", "apply"}
                  => Valid(request'[p].blob)
    BY <1>1 DEF SavedIsValid, Form
  <2> QED
    BY <2>1, <2>2, <2>3 DEF SavedIsValid, Valid
<1> QED
  BY <1>2, <1>3, <1>4, <1>5

\* A request reads.
LEMMA BeginKeeps ==
  ASSUME SettingsIInv, NEW r \in Requests, Settings!Begin(r)
  PROVE  SettingsIInv'
<1> DEFINE q == [stage |-> "read", blob |-> Settings!Read(stored),
                raw |-> stored]
<1>1. request' = [request EXCEPT ![r] = q]
      /\ UNCHANGED <<stored, page, pageSaves, patches>>
  BY DEF Settings!Begin
<1>2. Form(q.blob) /\ q.stage = "read" /\ q.blob = Settings!Read(q.raw)
      /\ q.raw = stored /\ q.blob = Settings!Read(stored)
  BY FormsOf
<1>3. q \in [stage : {"idle", "read", "have", "save", "apply"},
             blob : Blobs, raw : Blobs \cup {Settings!NoBlob}]
  BY <1>2 DEF Form, SettingsIInv, SettingsTypes
<1>4. pageSaves' \in Nat /\ patches' \in Nat
  BY <1>1 DEF SettingsIInv, SettingsTypes
<1> HIDE DEF q
<1> QED
  BY <1>1, <1>2, <1>3, <1>4, RequestKeeps

\* It writes what it read back, migrated, if there was anything.
LEMMA WriteBackKeeps ==
  ASSUME SettingsIInv, NEW r \in Requests, Settings!WriteBack(r)
  PROVE  SettingsIInv'
<1> DEFINE q == [request[r] EXCEPT !.stage = "have"]
<1>0. request[r] \in [stage : {"idle", "read", "have", "save", "apply"},
                      blob : Blobs, raw : Blobs \cup {Settings!NoBlob}]
      /\ Form(request[r].blob)
  BY FormsOf DEF SettingsIInv, SettingsTypes
<1>1. request' = [request EXCEPT ![r] = q]
      /\ UNCHANGED <<page, pageSaves, patches>>
      /\ stored' \in {stored, request[r].blob}
  BY DEF Settings!WriteBack
<1>2. q.stage = "have" /\ q.blob = request[r].blob
      /\ q \in [stage : {"idle", "read", "have", "save", "apply"},
                blob : Blobs, raw : Blobs \cup {Settings!NoBlob}]
  BY <1>0
<1>3. pageSaves' \in Nat /\ patches' \in Nat
  BY <1>1 DEF SettingsIInv, SettingsTypes
<1>4. UNCHANGED stored \/ (stored' \in Blobs /\ Form(stored'))
  BY <1>0, <1>1 DEF Form, Valid
<1> HIDE DEF q
<1> QED
  BY <1>0, <1>1, <1>2, <1>3, <1>4, RequestKeeps

\* It ends, a patch with one choice written.
LEMMA DoneKeeps ==
  ASSUME SettingsIInv, NEW r \in Requests,
         Settings!Done(r) \/ Settings!Patch(r)
  PROVE  SettingsIInv'
<1>0. Form(request[r].blob)
  BY FormsOf
<1>1. request' = [request EXCEPT ![r] = Settings!Idle]
      /\ UNCHANGED <<page, pageSaves>>
      /\ \/ UNCHANGED <<stored, patches>>
         \/ /\ stored' = [request[r].blob EXCEPT !.pref = patches + 1]
            /\ patches' = patches + 1
  BY DEF Settings!Done, Settings!Patch
<1>2. Settings!Idle.stage = "idle" /\ Form(Settings!Idle.blob)
      /\ Settings!Idle \in [stage : {"idle", "read", "have", "save", "apply"},
                   blob : Blobs, raw : Blobs \cup {Settings!NoBlob}]
  BY DefaultsAreBlob DEF Settings!Idle, Form
<1>3. pageSaves' \in Nat /\ patches' \in Nat
  BY <1>1 DEF SettingsIInv, SettingsTypes
<1>4. UNCHANGED stored \/ (stored' \in Blobs /\ Form(stored'))
  <2>1. CASE stored' = [request[r].blob EXCEPT !.pref = patches + 1]
    <3> DEFINE b == [request[r].blob EXCEPT !.pref = patches + 1]
    <3>1. patches + 1 \in Nat
      BY DEF SettingsIInv, SettingsTypes
    <3>2. b \in Blobs /\ b.shape = request[r].blob.shape
          /\ b.save = request[r].blob.save /\ b.keep = request[r].blob.keep
          /\ b.hooks = request[r].blob.hooks
      BY <1>0, <3>1 DEF Form, Blobs
    <3>3. stored' = b
      BY <2>1
    <3> HIDE DEF b
    <3>4. Form(b)
      BY <1>0, <3>2 DEF Form, Valid
    <3> QED
      BY <3>2, <3>3, <3>4 DEF Form, Valid
  <2> QED
    BY <1>1, <2>1
<1> QED
  BY <1>1, <1>2, <1>3, <1>4, RequestKeeps

\* A save validates what it will store.
LEMMA BeginSaveKeeps ==
  ASSUME Settings!SettingsAssumption, SettingsIInv, NEW r \in Requests,
         NEW age \in Ages, NEW keep \in Keeps, Settings!BeginSave(r, age, keep)
  PROVE  SettingsIInv'
<1> DEFINE v == Settings!Larger(Settings!Current,
                            Settings!Larger(page.version, stored.version))
           b == [page EXCEPT !.version = v,
                   !.hooks = IF @ = Settings!NilHooks
                             THEN Settings!NoHooks ELSE @,
                   !.age = age, !.keep = Settings!Clamped(keep)]
           q == [stage |-> "save", raw |-> stored, blob |-> b]
<1>1. request' = [request EXCEPT ![r] = q]
      /\ UNCHANGED <<stored, page, pageSaves, patches>>
  BY DEF Settings!BeginSave
<1>2. Form(page) /\ stored \in Blobs \cup {Settings!NoBlob}
  BY FormsOf DEF SettingsIInv, SettingsTypes
<1>3. v \in Nat
  <2>1. page.version \in Nat /\ stored.version \in Nat
        /\ Settings!Current \in Nat
    BY <1>2 DEF Form, Blobs, Settings!NoBlob, Settings!Current
  <2> QED
    BY <2>1 DEF Settings!Larger
<1>4. age \in Int /\ Settings!Clamped(keep) \in Int
      /\ Settings!Clamped(keep) >= 7
  BY DEF Settings!SettingsAssumption, Settings!Clamped
<1> HIDE DEF v
<1>5. b \in Blobs /\ Valid(b)
  <2>1. Settings!NoHooks # Settings!NilHooks
    BY DEF Settings!NoHooks, Settings!NilHooks
  <2> QED
    BY <1>2, <1>3, <1>4, <2>1 DEF Form, Blobs, Valid
<1>6. Form(b)
  BY <1>5 DEF Form, Valid
<1> HIDE DEF b
<1>7. q.stage = "save" /\ q.blob = b
      /\ q \in [stage : {"idle", "read", "have", "save", "apply"},
                blob : Blobs, raw : Blobs \cup {Settings!NoBlob}]
  BY <1>2, <1>5
<1>8. pageSaves' \in Nat /\ patches' \in Nat
  BY <1>1 DEF SettingsIInv, SettingsTypes
<1> HIDE DEF q
<1> QED
  BY <1>1, <1>5, <1>6, <1>7, <1>8, RequestKeeps

\* It stores that, under its mark.
LEMMA StoreSaveKeeps ==
  ASSUME SettingsIInv, NEW r \in Requests, Settings!StoreSave(r)
  PROVE  SettingsIInv'
<1> DEFINE b == [request[r].blob EXCEPT !.save = pageSaves + 1]
           q == [request[r] EXCEPT !.stage = "apply", !.blob = b]
<1>0. /\ request[r] \in [stage : {"idle", "read", "have", "save", "apply"},
                         blob : Blobs, raw : Blobs \cup {Settings!NoBlob}]
      /\ Valid(request[r].blob)
      /\ pageSaves + 1 \in Nat
  BY DEF SettingsIInv, SettingsTypes, SavedIsValid, Settings!StoreSave
<1>1. b \in Blobs /\ Valid(b)
  BY <1>0 DEF Blobs, Valid
<1>2. stored' = b /\ request' = [request EXCEPT ![r] = q]
      /\ pageSaves' = pageSaves + 1 /\ UNCHANGED <<page, patches>>
  BY DEF Settings!StoreSave
<1>3. Form(b)
  BY <1>1 DEF Form, Valid
<1>4. stored' \in Blobs /\ Form(stored')
  BY <1>1, <1>2, <1>3 DEF Form, Valid
<1> HIDE DEF b
<1>5. q.stage = "apply" /\ q.blob = b
      /\ q \in [stage : {"idle", "read", "have", "save", "apply"},
                blob : Blobs, raw : Blobs \cup {Settings!NoBlob}]
  BY <1>0, <1>1
<1>6. pageSaves' \in Nat /\ patches' \in Nat
  BY <1>0, <1>2 DEF SettingsIInv, SettingsTypes
<1> HIDE DEF q
<1> QED
  BY <1>1, <1>2, <1>3, <1>4, <1>5, <1>6, RequestKeeps

\* It puts in force what it stored.
LEMMA ApplySaveKeeps ==
  ASSUME SettingsIInv, NEW r \in Requests, Settings!ApplySave(r)
  PROVE  SettingsIInv'
<1>1. request' = [request EXCEPT ![r] = Settings!Idle]
      /\ UNCHANGED <<stored, pageSaves, patches>> /\ page' = request[r].blob
  BY DEF Settings!ApplySave
<1>2. Settings!Idle.stage = "idle" /\ Form(Settings!Idle.blob)
      /\ Settings!Idle \in [stage : {"idle", "read", "have", "save", "apply"},
                   blob : Blobs, raw : Blobs \cup {Settings!NoBlob}]
  BY DefaultsAreBlob DEF Settings!Idle, Form
<1>3. Form(page')
  BY <1>1, FormsOf DEF Form, Valid
<1>4. pageSaves' \in Nat /\ patches' \in Nat
  BY <1>1 DEF SettingsIInv, SettingsTypes
<1> QED
  BY <1>1, <1>2, <1>3, <1>4, RequestKeeps

\* Loading the page, starts and stops read what was stored.
LEMMA OtherKeeps ==
  ASSUME SettingsIInv,
         Settings!LoadPage \/ Settings!Start \/ Settings!Stop
           \/ UNCHANGED Settings!vars
  PROVE  SettingsIInv'
<1>1. UNCHANGED <<stored, pageSaves, patches>>
      /\ (UNCHANGED page \/ Form(page'))
      /\ (UNCHANGED request \/ request' = [r \in Requests |-> Settings!Idle])
  <2>1. CASE Settings!LoadPage
    <3>1. page' = IF stored = Settings!NoBlob THEN Settings!Defaults
                    ELSE Settings!Raw(stored)
      BY <2>1 DEF Settings!LoadPage
    <3>2. Form(IF stored = Settings!NoBlob
               THEN Settings!Defaults ELSE Settings!Raw(stored))
      BY FormsOf, DefaultsAreBlob DEF Form
    <3>3. Form(page')
      BY <3>1, <3>2 DEF Form, Valid
    <3> QED
      BY <2>1, <3>3 DEF Settings!LoadPage
  <2> QED
    BY <2>1 DEF Settings!Start, Settings!Stop, Settings!vars
<1>2. Settings!Idle.stage = "idle" /\ Form(Settings!Idle.blob)
      /\ Settings!Idle \in [stage : {"idle", "read", "have", "save", "apply"},
                   blob : Blobs, raw : Blobs \cup {Settings!NoBlob}]
  BY DefaultsAreBlob DEF Settings!Idle, Form
<1>3. \A r \in Requests : request'[r] = request[r]
          \/ request'[r] = Settings!Idle
  BY <1>1
<1>4. SettingsTypes'
  BY <1>1, <1>2 DEF SettingsIInv, SettingsTypes, Form
<1>5. SmartIsOld'
  BY <1>1 DEF SettingsIInv, SmartIsOld
<1>6. ReadIsMigrated'
  BY <1>2, <1>3 DEF SettingsIInv, ReadIsMigrated
<1>7. SavedIsValid'
  <2>1. (stored # Settings!NoBlob /\ stored.save > 0 => Valid(stored))'
    BY <1>1 DEF SettingsIInv, SavedIsValid, Valid
  <2>2. (page.shape = "advanced" /\ (page.save > 0 => Valid(page)))'
    BY <1>1 DEF SettingsIInv, SavedIsValid, Form, Valid
  <2>3. ASSUME NEW p \in Requests
        PROVE  /\ request'[p].blob.shape = "advanced"
               /\ request'[p].blob.save > 0
                    \/ request'[p].stage \in {"save", "apply"}
                  => Valid(request'[p].blob)
    BY <1>2, <1>3 DEF SettingsIInv, SavedIsValid, Form
  <2> QED
    BY <2>1, <2>2, <2>3 DEF SavedIsValid, Valid
<1> QED
  BY <1>4, <1>5, <1>6, <1>7 DEF SettingsIInv

\* Every step.
LEMMA SettingsInvNext ==
  ASSUME Settings!SettingsAssumption, SettingsIInv,
         [Settings!Next]_(Settings!vars)
  PROVE  SettingsIInv'
<1> QED
  BY BeginKeeps, WriteBackKeeps, DoneKeeps, BeginSaveKeeps, StoreSaveKeeps,
     ApplySaveKeeps, OtherKeeps DEF Settings!Next

-----------------------------------------------------------------------------
\* Only its own write takes a request from reading to having read, and it
\* writes what was stored, migrated.
LEMMA WritesWhatItRead ==
  ASSUME SettingsIInv, [Settings!Next]_(Settings!vars), NEW r \in Requests,
         request[r].stage = "read", request'[r].stage = "have",
         request[r].raw = stored, stored # Settings!NoBlob
  PROVE  stored' = Settings!Migrated(stored)
<1>0. request \in [Requests ->
                  [stage : {"idle", "read", "have", "save", "apply"},
                     blob : Blobs, raw : Blobs \cup {Settings!NoBlob}]]
  BY DEF SettingsIInv, SettingsTypes
<1>1. request[r].blob = Settings!Migrated(stored)
  BY DEF SettingsIInv, ReadIsMigrated, Settings!Read
<1>2. ASSUME NEW p \in Requests, Settings!WriteBack(p)
      PROVE  stored' = Settings!Migrated(stored)
  <2>1. p = r
    BY <1>0, <1>2 DEF Settings!WriteBack
  <2> QED
    BY <1>1, <1>2, <2>1 DEF Settings!WriteBack
<1>3. ASSUME NEW p \in Requests,
             \/ Settings!Begin(p) \/ Settings!Done(p) \/ Settings!Patch(p)
             \/ \E age \in Ages, keep \in Keeps :
                   Settings!BeginSave(p, age, keep)
             \/ Settings!StoreSave(p) \/ Settings!ApplySave(p)
      PROVE  FALSE
  <2>1. \E q : request' = [request EXCEPT ![p] = q] /\ q.stage # "have"
    BY <1>0, <1>3
       DEF Settings!Begin, Settings!Done, Settings!Patch, Settings!BeginSave,
           Settings!StoreSave, Settings!ApplySave, Settings!Idle
  <2> QED
    BY <1>0, <2>1
<1>4. ASSUME Settings!LoadPage \/ Settings!Start \/ Settings!Stop
             \/ UNCHANGED Settings!vars
      PROVE  FALSE
  BY <1>4 DEF Settings!LoadPage, Settings!Start, Settings!Stop, Settings!vars,
              Settings!Idle
<1> QED
  BY <1>2, <1>3, <1>4 DEF Settings!Next

\* A start applies a saved blob as the save has done.
LEMMA StartAppliesSave ==
  ASSUME SettingsIInv, [Settings!Next]_(Settings!vars), ~up, up',
         stored # Settings!NoBlob,
         stored.save > 0,
         running = [age |-> stored.age, keep |-> stored.keep,
                    cadence |-> stored.cadence, hooks |-> stored.hooks]
  PROVE  running' = running
<1>1. Settings!Start
  BY DEF Settings!Next, Settings!Begin, Settings!WriteBack, Settings!Done,
         Settings!Patch, Settings!BeginSave, Settings!StoreSave,
         Settings!ApplySave,
         Settings!LoadPage, Settings!Stop, Settings!vars
<1>2. stored \in Blobs /\ Valid(stored)
  BY DEF SettingsIInv, SettingsTypes, SavedIsValid
<1>3. Settings!Raw(stored) = stored
  BY <1>2, RawIsBlob
<1>4. running' = Settings!Runtime(stored)
  BY <1>1, <1>3 DEF Settings!Start
<1>5. Settings!Clamped(stored.keep) = stored.keep
  BY <1>2 DEF Settings!Clamped, Valid, Blobs
<1> QED
  BY <1>2, <1>4, <1>5 DEF Settings!Runtime, Valid

\* For any requests, bounds and stored blobs: reading the settings changes
\* none of them but the merged drives of a blob of version 0, and a start
\* applies a saved blob as the save itself did (getSettings and
\* handleUpdateSettings, api/api_extended.go; main).
THEOREM SettingsStand ==
  ASSUME Settings!SettingsAssumption
  PROVE  Settings!Spec => SettingsHold
<1>1. Settings!Init => SettingsIInv
  BY SettingsInvInit
<1>2. SettingsIInv /\ [Settings!Next]_(Settings!vars) => SettingsIInv'
  BY SettingsInvNext
<1>3. SettingsIInv /\ [Settings!Next]_(Settings!vars) =>
        [\A r \in Requests :
           (/\ request[r].stage = "read" /\ request'[r].stage = "have"
            /\ request[r].raw = stored /\ stored # Settings!NoBlob)
             => \/ Settings!Choices(stored') = Settings!Choices(stored)
                \/ /\ stored.version < 1
                   /\ Settings!Choices(stored')
                        = [Settings!Choices(stored) EXCEPT !.drives = "merged"]
             ]_(Settings!vars)
  <2> SUFFICES ASSUME SettingsIInv, [Settings!Next]_(Settings!vars),
                      NEW r \in Requests,
                      request[r].stage = "read", request'[r].stage = "have",
                      request[r].raw = stored, stored # Settings!NoBlob
               PROVE  \/ Settings!Choices(stored')
                           = Settings!Choices(stored)
                      \/ /\ stored.version < 1
                         /\ Settings!Choices(stored')
                              = [Settings!Choices(stored)
                                   EXCEPT !.drives = "merged"]
    OBVIOUS
  <2>1. stored' = Settings!Migrated(stored)
    BY WritesWhatItRead
  <2>2. stored \in Blobs /\ (stored.shape = "smart" => stored.version < 3)
    BY DEF SettingsIInv, SettingsTypes, SmartIsOld
  <2> QED
    BY <2>1, <2>2, MigratedKeepsChoices
<1>4. SettingsIInv /\ [Settings!Next]_(Settings!vars) =>
        [(/\ ~up /\ up' /\ stored # Settings!NoBlob
          /\ stored.save = pageSaves /\ pageSaves > 0
          /\ running = [age |-> stored.age, keep |-> stored.keep,
                        cadence |-> stored.cadence, hooks |-> stored.hooks])
           => running' = running]_(Settings!vars)
  BY StartAppliesSave
<1> QED
  BY <1>1, <1>2, <1>3, <1>4, PTL
     DEF Settings!Spec, SettingsHold, Settings!SettingsHold,
         Settings!ReadKeepsChoices,
         Settings!RestartChangesNothing

-----------------------------------------------------------------------------
(* The quiet hours.                                                        *)

\* The remainder of so many times d and a rest is the rest.
LEMMA Remainder ==
  ASSUME NEW d \in Nat \ {0}, NEW q \in Nat, NEW r \in 0 .. d - 1
  PROVE  (d * q + r) % d = r
  BY SMT

\* A number is so many times d, and a rest.
LEMMA Divides ==
  ASSUME NEW n \in Nat, NEW d \in Nat \ {0}
  PROVE  \E q \in Nat, r \in 0 .. d - 1 : n = d * q + r /\ n % d = r
<1> DEFINE q == n \div d
           r == n - d * q
<1>1. q \in Nat
  BY SMT
<1>2. r \in 0 .. d - 1
  BY SMT
<1> HIDE DEF q
<1>3. n = d * q + r /\ d * q \in Nat
  BY <1>1
<1> HIDE DEF r
<1>4. n % d = r
  BY <1>1, <1>2, <1>3, Remainder
<1> QED
  BY <1>1, <1>2, <1>3, <1>4

\* What remains goes on with the number, and begins again at d.
LEMMA Later ==
  ASSUME NEW n \in Nat, NEW d \in Nat \ {0}, NEW k \in 0 .. d - 1
  PROVE  (n + k) % d = IF (n % d) + k < d THEN (n % d) + k ELSE (n % d) + k - d
<1>1. PICK q \in Nat, r \in 0 .. d - 1 : n = d * q + r /\ n % d = r
  BY Divides
<1>2. CASE r + k < d
  <2>1. n + k = d * q + (r + k) /\ r + k \in 0 .. d - 1
    BY <1>1, <1>2
  <2>2. (n + k) % d = r + k
    BY <2>1, Remainder
  <2> QED
    BY <1>1, <1>2, <2>2
<1>3. CASE ~(r + k < d)
  <2>1. r + k - d \in 0 .. d - 1
    BY <1>1, <1>3
  <2>2. d * (q + 1) = d * q + d /\ q + 1 \in Nat
    OBVIOUS
  <2>3. d * q \in Nat
    OBVIOUS
  <2>4. n + k = d * (q + 1) + (r + k - d)
    BY <1>1, <2>2, <2>3
  <2>5. (n + k) % d = r + k - d
    BY <2>1, <2>2, <2>4, Remainder
  <2> QED
    BY <1>1, <1>3, <2>5
<1> QED
  BY <1>2, <1>3

QuietTypes ==
  /\ start \in 0 .. DayLength - 1 /\ end \in 0 .. DayLength - 1
  /\ minute \in Nat

\* The bounds of the quiet time are the minutes at which it changes.
LEMMA ChangesAtBounds ==
  ASSUME Quiet!QuietAssumption, QuietTypes, Quiet!Tick,
         Quiet!InQuietHours(minute) # Quiet!InQuietHours(minute')
  PROVE  minute' % DayLength =
           IF Quiet!InQuietHours(minute') THEN start ELSE end
<1> USE DEF Quiet!QuietAssumption
<1> DEFINE a == minute % DayLength
           b == minute' % DayLength
<1>1. a \in 0 .. DayLength - 1
  BY SMT DEF QuietTypes
<1>2. b = IF a + 1 < DayLength THEN a + 1 ELSE 0
  <2>1. CASE DayLength = 1
    <3>1. minute' \in Nat
      BY DEF QuietTypes, Quiet!Tick
    <3>2. PICK r \in 0 .. DayLength - 1 : minute' % DayLength = r
      BY <3>1, Divides
    <3> QED
      BY <1>1, <2>1, <3>2
  <2>2. CASE DayLength # 1
    <3>1. minute \in Nat /\ minute' = minute + 1 /\ 1 \in 0 .. DayLength - 1
      BY <2>2 DEF QuietTypes, Quiet!Tick
    <3>2. (minute + 1) % DayLength = IF (minute % DayLength) + 1 < DayLength
                           THEN (minute % DayLength) + 1
                            ELSE (minute % DayLength) + 1 - DayLength
      BY <3>1, Later
    <3> QED
      BY <1>1, <3>1, <3>2
  <2> QED
    BY <2>1, <2>2
<1>3. enabled /\ start # end
  BY DEF Quiet!InQuietHours, Quiet!Tick
<1> DEFINE IsQuiet(x) == IF start < end THEN start <= x /\ x < end
                                        ELSE start <= x \/ x < end
<1>4. ~(IsQuiet(a) <=> IsQuiet(b))
      /\ (Quiet!InQuietHours(minute') <=> IsQuiet(b))
  BY <1>3 DEF Quiet!InQuietHours
<1> HIDE DEF a, b
<1>5. CASE IsQuiet(b)
  <2>1. b = start
    BY <1>1, <1>2, <1>3, <1>4, <1>5 DEF QuietTypes
  <2> QED
    BY <1>4, <1>5, <2>1 DEF b
<1>6. CASE ~IsQuiet(b)
  <2>1. b = end
    BY <1>1, <1>2, <1>3, <1>4, <1>6 DEF QuietTypes
  <2> QED
    BY <1>4, <1>6, <2>1 DEF b
<1> QED
  BY <1>5, <1>6

\* From its start on, the quiet time lasts as long as it should.
LEMMA LastsToItsEnd ==
  ASSUME Quiet!QuietAssumption, QuietTypes, enabled, start # end,
         NEW n \in Nat, n % DayLength = start,
         NEW t \in n .. n + ((end + DayLength - start) % DayLength) - 1
  PROVE  Quiet!InQuietHours(t)
<1> USE DEF Quiet!QuietAssumption
<1> DEFINE length == (end + DayLength - start) % DayLength
           k == t - n
<1>1. length = IF start < end THEN end - start ELSE end + DayLength - start
  <2>1. CASE start < end
    <3>1. /\ end + DayLength - start = DayLength * 1 + (end - start)
          /\ end - start \in 0 .. DayLength - 1
      BY <2>1 DEF QuietTypes
    <3>2. (DayLength * 1 + (end - start)) % DayLength = end - start
      BY <3>1, Remainder
    <3> QED
      BY <2>1, <3>1, <3>2
  <2>2. CASE end < start
    <3>1. /\ end + DayLength - start =
            DayLength * 0 + (end + DayLength - start)
          /\ end + DayLength - start \in 0 .. DayLength - 1
      BY <2>2 DEF QuietTypes
    <3> QED
      BY <2>2, <3>1, Remainder DEF QuietTypes
  <2> QED
    BY <2>1, <2>2 DEF QuietTypes
<1>2. length \in 0 .. DayLength - 1 /\ t \in n .. n + length - 1
  BY <1>1 DEF QuietTypes
<1> HIDE DEF length
<1>3. t \in Nat /\ k \in 0 .. DayLength - 1 /\ t = n + k /\ k < length
  BY <1>2
<1> HIDE DEF k
<1>4. t % DayLength =
        IF start + k < DayLength THEN start + k ELSE start + k - DayLength
  BY <1>3, Later
<1>5. IF start < end THEN start <= t % DayLength /\ t % DayLength < end
      ELSE start <= t % DayLength \/ t % DayLength < end
  BY <1>1, <1>3, <1>4 DEF QuietTypes
<1> QED
  BY <1>5 DEF Quiet!InQuietHours

\* For days of any length and any two times of day, also across midnight: the
\* quiet time begins at its start, ends at its end, and lasts from the one to
\* the other (inQuietHours, scheduler/rules.go).
THEOREM QuietOnceADay ==
  ASSUME Quiet!QuietAssumption
  PROVE  Quiet!Spec => QuietIsOneSpan
<1>1. Quiet!Init => QuietTypes
  BY DEF Quiet!Init, QuietTypes, Quiet!QuietAssumption
<1>2. QuietTypes /\ [Quiet!Tick]_(Quiet!vars) => QuietTypes'
  BY DEF QuietTypes, Quiet!Tick, Quiet!vars
<1>3. QuietTypes /\ [Quiet!Tick]_(Quiet!vars) =>
        [ /\ Quiet!ChangesOnTime /\ Quiet!LastsToTheEnd
          /\ Quiet!EndsAtItsEnd ]_(Quiet!vars)
  <2> SUFFICES ASSUME QuietTypes, Quiet!Tick
               PROVE  /\ Quiet!ChangesOnTime /\ Quiet!LastsToTheEnd
                      /\ Quiet!EndsAtItsEnd
    OBVIOUS
  <2>1. minute' \in Nat
    BY DEF QuietTypes, Quiet!Tick
  <2>2. Quiet!ChangesOnTime
    BY ChangesAtBounds DEF Quiet!ChangesOnTime
  <2>3. enabled /\ start # end /\ minute' % DayLength = start =>
          \A t \in minute' ..
                    minute' + ((end + DayLength - start) % DayLength) - 1 :
            Quiet!InQuietHours(t)
    BY <2>1, LastsToItsEnd
  <2>4. Quiet!LastsToTheEnd
    BY <2>3 DEF Quiet!LastsToTheEnd
  <2>5. Quiet!EndsAtItsEnd
    <3> DEFINE b == minute' % DayLength
    <3>1. Quiet!InQuietHours(minute')
            => /\ start # end
               /\ IF start < end THEN start <= b /\ b < end
                  ELSE start <= b \/ b < end
      BY DEF Quiet!InQuietHours, Quiet!Tick
    <3>2. b = end => ~Quiet!InQuietHours(minute')
      <4> HIDE DEF b
      <4> QED
        BY <3>1 DEF QuietTypes
    <3> QED
      BY <3>2 DEF Quiet!EndsAtItsEnd, Quiet!Tick
  <2> QED
    BY <2>2, <2>4, <2>5
<1> QED
  BY <1>1, <1>2, <1>3, PTL
     DEF Quiet!Spec, QuietIsOneSpan, Quiet!QuietIsOneSpan

-----------------------------------------------------------------------------
(* The gauges.                                                             *)

\* Where the series are of what a scan found, and nothing else.
Kept == Gauges!ResetFirst \cup Gauges!ResetInPlace

GaugeTypes ==
  /\ stage \in -1 .. Len(Gauges!Order)
  /\ gauges = [s \in watched |-> gauges[s]]
  /\ world = [s \in watched |-> world[s]]
  /\ \A s \in watched :
       /\ world[s] \in Contents[s] \cup {Gauges!Nothing}
       /\ snap.of[s] \in Contents[s] \cup {Gauges!Nothing}

\* The samples are those of one test, and gone before the next one's come.
OneTest == (stage = -1 => samples = {}) /\ \E t : samples \subseteq {t}

\* A section's series are the last scan's until Update clears them, and this
\* one's from its own step on.
SectionHolds(s) ==
  \A i \in DOMAIN Gauges!Order :
    Gauges!Order[i] = s =>
      IF stage <= 0 \/ stage > i THEN gauges[s] = Gauges!Replace(s)
      ELSE IF s \in Gauges!ResetFirst /\ stage > 2
           THEN gauges[s] = Gauges!NoSeries
      ELSE Gauges!Exported(s) \subseteq Gauges!Labels(prev.of[s])

EngineLabels == {<<"engine", e>> : e \in Engines}

\* Of the known engines, and there are no others, one at most is in use.
OneEngine ==
  "speedtest" \in watched =>
    /\ DOMAIN gauges["speedtest"] \subseteq EngineLabels
    /\ \E l : \A x \in DOMAIN gauges["speedtest"] :
         gauges["speedtest"][x] = 1 => x = l

GaugesIInv ==
  /\ GaugeTypes /\ OneTest /\ OneEngine
  /\ \A s \in watched \cap Kept : SectionHolds(s)

-----------------------------------------------------------------------------
\* The sections are updated in one order, each once.
LEMMA OrderOfUpdate ==
  /\ DOMAIN Gauges!Order = 1 .. 18 /\ Len(Gauges!Order) = 18
  /\ \A i, j \in 1 .. 18 : Gauges!Order[i] = Gauges!Order[j] => i = j
  /\ Gauges!Order[1] = "system" /\ Gauges!Order[2] = "reset"
<1> QED
  BY DEF Gauges!Order

\* The sections that are cleared come after the two first ones.
LEMMA KeptAreLater ==
  /\ \A s \in Kept : \E i \in 3 .. 18 : Gauges!Order[i] = s
  /\ \A i \in 1 .. 18 : Gauges!Order[i] \in Kept => i > 2
  /\ "reset" \notin Kept /\ "gpu" \notin Kept /\ "speedtest" \notin Kept
<1>1. ASSUME NEW s \in Kept
      PROVE  \E i \in 3 .. 18 : Gauges!Order[i] = s
  <2>1. /\ Gauges!Order[3] = "disks" /\ Gauges!Order[4] = "smart"
        /\ Gauges!Order[5] = "docker"
        /\ Gauges!Order[6] = "network" /\ Gauges!Order[9] = "zfs"
        /\ Gauges!Order[10] = "services"
        /\ Gauges!Order[12] = "tunnels" /\ Gauges!Order[13] = "proxmox"
        /\ Gauges!Order[14] = "kubernetes" /\ Gauges!Order[15] = "backup"
        /\ Gauges!Order[16] = "duplicacy"
    BY DEF Gauges!Order
  <2>2. s \in {"disks", "smart", "docker", "network", "zfs", "services",
               "tunnels", "proxmox", "kubernetes", "backup", "duplicacy"}
    BY DEF Kept, Gauges!ResetFirst, Gauges!ResetInPlace
  <2> QED
    BY <2>1, <2>2
<1>2. "system" \notin Kept /\ "reset" \notin Kept /\ "gpu" \notin Kept
      /\ "speedtest" \notin Kept
  BY DEF Kept, Gauges!ResetFirst, Gauges!ResetInPlace
<1>3. \A i \in 1 .. 18 : Gauges!Order[i] \in Kept => i > 2
  BY <1>2, OrderOfUpdate
<1> QED
  BY <1>1, <1>2, <1>3

\* What is written is written under the labels of the items.
LEMMA SeriesLabels ==
  ASSUME NEW s, s # "speedtest", NEW item, NEW v,
         NEW x \in DOMAIN Gauges!Series(s, item, v)
  PROVE  x[2] = Slug[item]
<1>1. \E values : Gauges!Series(s, item, v)
                 = Gauges!Labelled(Slug[item], values)
  BY DEF Gauges!Series
<1>2. PICK values : Gauges!Series(s, item, v)
                 = Gauges!Labelled(Slug[item], values)
  BY <1>1
<1>3. x \in {<<family, Slug[item]>> : family \in DOMAIN values}
  BY <1>2 DEF Gauges!Labelled
<1> QED
  BY <1>3

\* A section that was replaced has no series but those of the scan.
LEMMA ReplaceLabels ==
  ASSUME NEW s \in Kept, gauges[s] = Gauges!Replace(s)
  PROVE  Gauges!Exported(s) \subseteq Gauges!Labels(snap.of[s])
<1>1. CASE Gauges!Available(s)
  <2> DEFINE items == snap.of[s].items
             made(i) == Gauges!Series(s, items[i][1], items[i][2])
  <2>1. DOMAIN gauges[s] = DOMAIN Gauges!NoSeries
                             \cup UNION {DOMAIN made(i) : i \in DOMAIN items}
    BY <1>1 DEF Gauges!Replace, Gauges!Written
  <2>2. DOMAIN Gauges!NoSeries = {}
    BY DEF Gauges!NoSeries
  <2>3. ASSUME NEW x \in DOMAIN gauges[s]
        PROVE  x[2] \in Gauges!Labels(snap.of[s])
    <3>1. PICK i \in DOMAIN items : x \in DOMAIN made(i)
      BY <2>1, <2>2
    <3>2. x[2] = Slug[items[i][1]]
      BY <3>1, SeriesLabels, KeptAreLater
    <3>3. items[i] \in Gauges!Range(items)
      BY <3>1 DEF Gauges!Range
    <3> QED
      BY <1>1, <3>2, <3>3 DEF Gauges!Labels, Gauges!Available
  <2> QED
    BY <2>3 DEF Gauges!Exported
<1>2. CASE ~Gauges!Available(s)
  <2>1. DOMAIN gauges[s] = {}
    BY <1>2 DEF Gauges!Replace, Gauges!NoSeries
  <2> QED
    BY <2>1 DEF Gauges!Exported
<1> QED
  BY <1>1, <1>2

\* Update goes to the next section that is watched.
LEMMA NextStage ==
  ASSUME GaugeTypes, Gauges!Update
  PROVE  /\ stage \in 1 .. 18 /\ stage' \in 0 .. 18
         /\ stage' = 0 \/ stage' > stage
         /\ \A i \in 1 .. 18 :
              (i > stage /\ Gauges!Order[i] \in watched \cup {"reset"})
                => stage' # 0 /\ stage' <= i
<1>1. stage \in 1 .. 18
  BY OrderOfUpdate DEF GaugeTypes, Gauges!Update
<1>2. /\ Gauges!Later(stage) \subseteq stage + 1 .. 18
      /\ \A i \in 1 .. 18 :
           (i > stage /\ Gauges!Order[i] \in watched \cup {"reset"})
             => i \in Gauges!Later(stage)
  BY <1>1, OrderOfUpdate DEF Gauges!Later
<1>3. CASE Gauges!Later(stage) = {}
  BY <1>1, <1>2, <1>3 DEF Gauges!Update
<1>4. CASE Gauges!Later(stage) # {}
  <2> DEFINE S == Gauges!Later(stage)
  <2>1. S \subseteq Nat /\ S # {}
    BY <1>1, <1>2, <1>4
  <2>2. \E j \in S : \A k \in S : j <= k
    <3> HIDE DEF S
    <3>1. PICK x \in S : \A y \in S : ~ (<<y, x>> \in OpToRel(<, Nat))
      BY <2>1, NatLessThanWellFounded, WFMin, Zenon
    <3>2. ASSUME NEW y \in S
          PROVE  x <= y
      <4>1. x \in Nat /\ y \in Nat
        BY <2>1
      <4>2. ~ (y < x)
        BY <3>1, <4>1, Zenon DEF OpToRel
      <4> QED
        BY <4>1, <4>2
    <3> QED
      BY <3>2
  <2>3. stage' = CHOOSE j \in S : \A k \in S : j <= k
    BY <1>4 DEF Gauges!Update
  <2>4. stage' \in S /\ \A k \in S : stage' <= k
    BY <2>2, <2>3
  <2> QED
    BY <1>1, <1>2, <2>4
<1> QED
  BY <1>1, <1>3, <1>4

\* What a step of Update does to a section that is kept.
LEMMA StepOfSection ==
  ASSUME GaugeTypes, NEW s \in watched \cap Kept, NEW i \in 1 .. 18,
         Gauges!Order[i] = s, Gauges!Update
  PROVE  /\ stage = 2 => gauges'[s] = IF s \in Gauges!ResetFirst
                                          THEN Gauges!NoSeries
                                      ELSE gauges[s]
         /\ stage = i => gauges'[s] = IF s \in Gauges!ResetInPlace
                                          THEN Gauges!Replace(s)
                                      ELSE Gauges!Fill(s)
         /\ stage \notin {2, i} => gauges'[s] = gauges[s]
<1>1. /\ stage \in 1 .. 18 /\ gauges' = Gauges!Step(Gauges!Order[stage])
      /\ gauges = [x \in watched |-> gauges[x]] /\ s \in watched
  BY NextStage DEF Gauges!Update, GaugeTypes
<1>2. CASE stage = 2
  <2>0. Gauges!Order[stage] = "reset"
    BY <1>2, OrderOfUpdate
  <2>1. gauges' = Gauges!Clear
    BY <1>1, <2>0 DEF Gauges!Step
  <2>2. i # 2
    BY KeptAreLater
  <2> QED
    BY <1>1, <1>2, <2>1, <2>2 DEF Gauges!Clear
<1>3. CASE stage # 2
  <2>1. Gauges!Order[stage] # "reset"
    BY <1>1, <1>3, OrderOfUpdate
  <2>2. CASE stage = i
    <3>1. Gauges!Order[stage] = s /\ s # "gpu"
      BY <2>2, KeptAreLater
    <3>2. gauges'[s] = Gauges!Section(s)
      BY <1>1, <2>1, <3>1 DEF Gauges!Step
    <3>3. Gauges!Section(s) = IF s \in Gauges!ResetInPlace
                        THEN Gauges!Replace(s) ELSE Gauges!Fill(s)
      BY <3>1 DEF Gauges!Section
    <3> QED
      BY <1>3, <2>2, <3>2, <3>3
  <2>3. CASE stage # i
    <3>1. Gauges!Order[stage] # s
      BY <1>1, <2>3, OrderOfUpdate
    <3>2. gauges'[s] = gauges[s]
      BY <1>1, <2>1, <3>1 DEF Gauges!Step
    <3> QED
      BY <1>3, <2>3, <3>2
  <2> QED
    BY <2>2, <2>3
<1> QED
  BY <1>2, <1>3

\* The step of the speed test puts every known engine to 0 but the latest.
LEMMA EngineStep ==
  ASSUME Gauges!GaugesAssumption, GaugeTypes, OneEngine, Gauges!Update,
         "speedtest" \in watched
  PROVE  OneEngine'
<1> DEFINE st == "speedtest"
           items == snap.of[st].items
           made(i) == Gauges!Series(st, items[i][1], items[i][2])
           label(i) == Slug[items[i][1]]
<1>1. gauges' = Gauges!Step(Gauges!Order[stage]) /\ watched' = watched
  BY DEF Gauges!Update
<1>2. \A i : made(i) = Gauges!EngineSeries(label(i))
  BY DEF Gauges!Series
<1>3. \A i \in DOMAIN items : label(i) \in Engines
  <2>1. snap.of[st] \in Contents[st] \cup {Gauges!Nothing}
    BY DEF GaugeTypes
  <2>2. DOMAIN Gauges!Nothing.items = {}
    BY DEF Gauges!Nothing
  <2> QED
    BY <2>1, <2>2 DEF Gauges!GaugesAssumption
<1>4. \A i \in DOMAIN items : DOMAIN made(i) = EngineLabels
  <2>1. ASSUME NEW i \in DOMAIN items
        PROVE  DOMAIN made(i) = EngineLabels
    <3>1. Engines \cup {label(i)} = Engines
      BY <1>3
    <3>2. DOMAIN Gauges!EngineSeries(label(i))
            = {<<"engine", e>> : e \in Engines \cup {label(i)}}
      BY DEF Gauges!EngineSeries
    <3> QED
      BY <1>2, <3>1, <3>2 DEF EngineLabels
  <2> QED
    BY <2>1
<1>5. ASSUME NEW i, NEW x \in EngineLabels, made(i)[x] = 1
      PROVE  x = <<"engine", label(i)>>
  <2>1. PICK e \in Engines : x = <<"engine", e>>
    BY DEF EngineLabels
  <2>2. x \in {<<"engine", f>> : f \in Engines \cup {label(i)}}
    BY <2>1
  <2>3. Gauges!EngineSeries(label(i))[x] = IF x[2] = label(i) THEN 1 ELSE 0
    BY <2>2 DEF Gauges!EngineSeries
  <2>4. Gauges!EngineSeries(label(i))[x] = 1
    <3>1. made(i) = Gauges!EngineSeries(label(i))
      BY <1>2
    <3> HIDE DEF made
    <3> QED
      BY <1>5, <3>1
  <2>5. x[2] = e
    BY <2>1
  <2> HIDE DEF label
  <2>6. x[2] = label(i)
    BY <2>3, <2>4
  <2> QED
    BY <2>1, <2>5, <2>6
<1>6. \/ gauges'[st] = gauges[st]
      \/ gauges'[st] = Gauges!Written(st, gauges[st])
  <2>1. Gauges!Clear[st] = gauges[st]
    BY DEF Gauges!Clear, Gauges!ResetFirst
  <2>2. Gauges!Section(st) = Gauges!Fill(st)
    BY DEF Gauges!Section, Gauges!ResetInPlace
  <2> QED
    BY <1>1, <2>1, <2>2 DEF Gauges!Step, Gauges!Fill
<1>7. CASE gauges'[st] = gauges[st]
  BY <1>1, <1>7 DEF OneEngine, EngineLabels
<1>8. CASE gauges'[st] = Gauges!Written(st, gauges[st])
  <2> DEFINE g == gauges[st]
             set(x) == {i \in DOMAIN items : x \in DOMAIN made(i)}
             D == DOMAIN g \cup UNION {DOMAIN made(i) : i \in DOMAIN items}
             m == Gauges!Max(DOMAIN items)
  <2>1. gauges'[st]
          = [x \in D |-> IF set(x) = {} THEN g[x]
                       ELSE made(Gauges!Max(set(x)))[x]]
    BY <1>8 DEF Gauges!Written
  <2>2. D \subseteq EngineLabels
    BY <1>4 DEF OneEngine
  <2>3. \A x \in EngineLabels : set(x) = DOMAIN items
    BY <1>4
  <2>4. DOMAIN gauges'[st] \subseteq EngineLabels
    BY <2>1, <2>2
  <2>5. \A x \in DOMAIN gauges'[st] :
          gauges'[st][x] = IF DOMAIN items = {} THEN g[x] ELSE made(m)[x]
    <3> HIDE DEF set, D, g
    <3>1. ASSUME NEW x \in DOMAIN gauges'[st]
          PROVE  gauges'[st][x] = IF DOMAIN items = {} THEN g[x]
                                  ELSE made(m)[x]
      <4>1. x \in D /\ x \in EngineLabels
        BY <2>1, <2>2
      <4>2. set(x) = DOMAIN items
        BY <2>3, <4>1
      <4>3. gauges'[st][x]
              = IF set(x) = {} THEN g[x] ELSE made(Gauges!Max(set(x)))[x]
        BY <2>1, <4>1
      <4> QED
        BY <4>2, <4>3
    <3> QED
      BY <3>1
  <2>6. \E l : \A x \in DOMAIN gauges'[st] : gauges'[st][x] = 1 => x = l
    <3>1. CASE DOMAIN items = {}
      <4>1. DOMAIN gauges'[st] = DOMAIN g
        BY <2>1, <3>1
      <4> QED
        BY <2>5, <3>1, <4>1 DEF OneEngine
    <3>2. CASE DOMAIN items # {}
      <4>1. \A x \in DOMAIN gauges'[st] :
              gauges'[st][x] = 1 => x = <<"engine", label(m)>>
        BY <1>5, <2>4, <2>5, <3>2
      <4> QED
        BY <4>1
    <3> QED
      BY <3>1, <3>2
  <2> QED
    BY <1>1, <2>4, <2>6 DEF OneEngine, EngineLabels
<1> QED
  BY <1>6, <1>7, <1>8

\* What is to be written depends on the snapshot alone.
LEMMA ReplaceRests ==
  ASSUME NEW s, snap' = snap
  PROVE  Gauges!Replace(s)' = Gauges!Replace(s)
  BY DEF Gauges!Replace, Gauges!Written, Gauges!Series, Gauges!Available,
         Gauges!DuplicacySeries

\* Update keeps what is known of each section.
LEMMA UpdateKeepsSection ==
  ASSUME GaugeTypes, NEW s \in watched \cap Kept, SectionHolds(s),
         Gauges!Update
  PROVE  SectionHolds(s)'
<1>1. SUFFICES ASSUME NEW i \in 1 .. 18, Gauges!Order[i] = s
      PROVE  IF stage' <= 0 \/ stage' > i THEN gauges'[s] = Gauges!Replace(s)
             ELSE IF s \in Gauges!ResetFirst /\ stage' > 2
                  THEN gauges'[s] = Gauges!NoSeries
                  ELSE Gauges!Exported(s)' \subseteq Gauges!Labels(prev.of[s])
  <2>1. Gauges!Replace(s)' = Gauges!Replace(s)
    BY ReplaceRests DEF Gauges!Update
  <2>2. DOMAIN Gauges!Order = 1 .. 18 /\ prev' = prev
    BY OrderOfUpdate DEF Gauges!Update
  <2> QED
    BY <1>1, <2>1, <2>2 DEF SectionHolds
<1>2. i > 2 /\ s \in watched
      /\ (s \in Gauges!ResetFirst <=> s \notin Gauges!ResetInPlace)
  BY <1>1, KeptAreLater DEF Kept, Gauges!ResetFirst, Gauges!ResetInPlace
<1>3. /\ stage \in 1 .. 18 /\ stage' \in 0 .. 18
      /\ stage' = 0 \/ stage' > stage
      /\ i > stage => stage' # 0 /\ stage' <= i
      /\ 2 > stage => stage' # 0 /\ stage' <= 2
  BY <1>1, <1>2, NextStage, OrderOfUpdate
<1>4. IF stage > i THEN gauges[s] = Gauges!Replace(s)
      ELSE IF s \in Gauges!ResetFirst /\ stage > 2
           THEN gauges[s] = Gauges!NoSeries
           ELSE Gauges!Exported(s) \subseteq Gauges!Labels(prev.of[s])
  BY <1>1, <1>3, OrderOfUpdate DEF SectionHolds
<1>5. gauges'[s] = gauges[s] => Gauges!Exported(s)' = Gauges!Exported(s)
  BY DEF Gauges!Exported
<1>6. CASE stage = 2
  <2>1. stage' \in 3 .. i
    BY <1>2, <1>3, <1>6
  <2>2. gauges'[s] = IF s \in Gauges!ResetFirst THEN Gauges!NoSeries
                    ELSE gauges[s]
    BY <1>1, <1>6, StepOfSection
  <2> QED
    BY <1>2, <1>4, <1>5, <1>6, <2>1, <2>2
<1>7. CASE stage = i
  <2>1. stage' = 0 \/ stage' > i
    BY <1>3, <1>7
  <2>2. gauges'[s] = IF s \in Gauges!ResetInPlace THEN Gauges!Replace(s)
                    ELSE Gauges!Fill(s)
    BY <1>1, <1>7, StepOfSection
  <2>3. s \in Gauges!ResetFirst => gauges[s] = Gauges!NoSeries
    BY <1>2, <1>4, <1>7
  <2>4. s \in Gauges!ResetFirst => Gauges!Fill(s) = Gauges!Replace(s)
    BY <2>3 DEF Gauges!Fill, Gauges!Replace
  <2> QED
    BY <1>2, <1>3, <2>1, <2>2, <2>4
<1>8. CASE stage \notin {2, i}
  <2>1. gauges'[s] = gauges[s]
    BY <1>1, <1>8, StepOfSection
  <2> QED
    BY <1>2, <1>3, <1>4, <1>5, <1>8, <2>1
<1> QED
  BY <1>6, <1>7, <1>8

\* While no section is being written and nothing is scanned, all stays.
LEMMA SectionsRest ==
  ASSUME NEW s, SectionHolds(s), UNCHANGED <<snap, prev, gauges>>,
         stage' = stage \/ (stage <= 0 /\ stage' <= 0)
  PROVE  SectionHolds(s)'
<1>1. Gauges!Replace(s)' = Gauges!Replace(s)
  BY DEF Gauges!Replace, Gauges!Written, Gauges!Series, Gauges!Available,
         Gauges!DuplicacySeries
<1>2. Gauges!Exported(s)' = Gauges!Exported(s)
  BY DEF Gauges!Exported
<1> QED
  BY <1>1, <1>2 DEF SectionHolds

\* At first there are no series.
LEMMA GaugesBegin ==
  ASSUME Gauges!GaugesAssumption, Gauges!Init
  PROVE  GaugesIInv
<1>1. GaugeTypes
  BY OrderOfUpdate DEF Gauges!Init, GaugeTypes
<1>2. OneTest
  BY DEF Gauges!Init, OneTest
<1>3. OneEngine
  BY DEF Gauges!Init, OneEngine, Gauges!NoSeries
<1>4. ASSUME NEW s \in watched \cap Kept
      PROVE  SectionHolds(s)
  <2>1. gauges[s] = Gauges!NoSeries /\ stage = 0 /\ ~ Gauges!Available(s)
    BY DEF Gauges!Init, Gauges!Available, Gauges!Nothing
  <2> QED
    BY <2>1 DEF SectionHolds, Gauges!Replace
<1> QED
  BY <1>1, <1>2, <1>3, <1>4 DEF GaugesIInv

\* A step touches the series of one section.
LEMMA GaugesStep ==
  ASSUME Gauges!GaugesAssumption, GaugesIInv, [Gauges!Next]_(Gauges!vars)
  PROVE  GaugesIInv'
<1> USE DEF GaugesIInv
<1>1. ASSUME UNCHANGED <<watched, snap, prev, stage, gauges, samples>>,
             GaugeTypes'
      PROVE  GaugesIInv'
  <2>1. OneTest' /\ OneEngine'
    BY <1>1 DEF OneTest, OneEngine, EngineLabels
  <2>2. \A s \in watched' \cap Kept : SectionHolds(s)'
    BY <1>1, SectionsRest
  <2> QED
    BY <1>1, <2>1, <2>2
<1>2. CASE Gauges!Tick \/ UNCHANGED Gauges!vars
  <2>1. GaugeTypes'
    BY <1>2 DEF GaugeTypes, Gauges!Tick, Gauges!vars
  <2> QED
    BY <1>1, <1>2, <2>1 DEF Gauges!Tick, Gauges!vars
<1>3. ASSUME NEW s \in watched, Gauges!Change(s)
      PROVE  GaugesIInv'
  <2>1. GaugeTypes'
    BY <1>3 DEF GaugeTypes, Gauges!Change
  <2> QED
    BY <1>1, <1>3, <2>1 DEF Gauges!Change
<1>4. CASE Gauges!Begin
  <2>1. GaugeTypes'
    BY <1>4, OrderOfUpdate DEF GaugeTypes, Gauges!Begin
  <2>2. OneTest' /\ OneEngine'
    BY <1>4 DEF Gauges!Begin, OneTest, OneEngine, EngineLabels
  <2>3. ASSUME NEW s \in watched \cap Kept
        PROVE  SectionHolds(s)'
    <3>1. gauges[s] = Gauges!Replace(s)
      <4>1. PICK i \in DOMAIN Gauges!Order : Gauges!Order[i] = s
        BY KeptAreLater, OrderOfUpdate
      <4> QED
        BY <1>4, <4>1 DEF SectionHolds, Gauges!Begin
    <3>2. Gauges!Exported(s) \subseteq Gauges!Labels(snap.of[s])
      BY <3>1, ReplaceLabels
    <3>3. Gauges!Exported(s)' = Gauges!Exported(s)
          /\ prev' = snap /\ stage' = 1
      BY <1>4 DEF Gauges!Begin, Gauges!Exported
    <3>4. \A i \in DOMAIN Gauges!Order : Gauges!Order[i] = s => i > 2
      BY KeptAreLater, OrderOfUpdate
    <3> QED
      BY <3>2, <3>3, <3>4, OrderOfUpdate DEF SectionHolds, Gauges!Labels
  <2> QED
    BY <1>4, <2>1, <2>2, <2>3 DEF Gauges!Begin
<1>5. CASE Gauges!Update
  <2>1. GaugeTypes'
    <3>1. stage' \in -1 .. Len(Gauges!Order)
      BY <1>5, NextStage, OrderOfUpdate
    <3>2. gauges' = [s \in watched |-> gauges'[s]]
      <4>1. gauges' = Gauges!Step(Gauges!Order[stage])
        BY <1>5 DEF Gauges!Update
      <4>2. CASE Gauges!Order[stage] = "reset"
        BY <4>1, <4>2 DEF Gauges!Step, Gauges!Clear
      <4>3. CASE Gauges!Order[stage] # "reset"
        BY <4>1, <4>3 DEF Gauges!Step
      <4> QED
        BY <4>2, <4>3
    <3> QED
      BY <1>5, <3>1, <3>2 DEF GaugeTypes, Gauges!Update
  <2>2. OneTest'
    <3>1. stage' \in 0 .. 18 /\ samples' = samples
      BY <1>5, NextStage DEF Gauges!Update
    <3>2. stage' # -1
      BY <3>1
    <3> QED
      BY <3>1, <3>2 DEF OneTest
  <2>3. OneEngine'
    BY <1>5, EngineStep DEF OneEngine, Gauges!Update
  <2>4. \A s \in watched' \cap Kept : SectionHolds(s)'
    BY <1>5, UpdateKeepsSection DEF Gauges!Update
  <2> QED
    BY <2>1, <2>2, <2>3, <2>4
<1>6. CASE Gauges!ResetSamples \/ Gauges!SetSpeedTestSamplesCount
  <2>1. GaugeTypes'
    BY <1>6, OrderOfUpdate DEF GaugeTypes, Gauges!ResetSamples,
                               Gauges!SetSpeedTestSamplesCount
  <2>2. OneTest' /\ OneEngine'
    BY <1>6 DEF Gauges!ResetSamples, Gauges!SetSpeedTestSamplesCount, OneTest,
                OneEngine,
                EngineLabels
  <2>3. \A s \in watched' \cap Kept : SectionHolds(s)'
    BY <1>6, SectionsRest DEF Gauges!ResetSamples,
                              Gauges!SetSpeedTestSamplesCount
  <2> QED
    BY <2>1, <2>2, <2>3
<1> QED
  BY <1>2, <1>3, <1>4, <1>5, <1>6 DEF Gauges!Next

\* A set with one member at most has a cardinality of one at most.
LEMMA OneAtMost ==
  ASSUME NEW S, NEW x, S \subseteq {x}
  PROVE  Cardinality(S) <= 1
<1>1. IsFiniteSet({x}) /\ Cardinality({x}) = 1
  BY FS_Singleton
<1> QED
  BY <1>1, FS_Subset

\* What was replaced is of the last scan, the rest of the one before.
LEMMA GaugesSafe == ASSUME GaugesIInv PROVE NoGhostSeries
<1> USE DEF GaugesIInv
<1>1. Cardinality(samples) <= 1
  BY OneAtMost DEF OneTest
<1>2. ASSUME NEW s \in watched \cap Kept
      PROVE  /\ Gauges!Exported(s)
                  \subseteq Gauges!Labels(snap.of[s])
                              \cup Gauges!Labels(prev.of[s])
             /\ stage <= 0 => gauges[s] = Gauges!Replace(s)
  <2>1. PICK i \in DOMAIN Gauges!Order : Gauges!Order[i] = s
    BY KeptAreLater, OrderOfUpdate
  <2>2. stage <= 0 => gauges[s] = Gauges!Replace(s)
    BY <2>1 DEF SectionHolds
  <2>3. gauges[s] = Gauges!Replace(s)
        => Gauges!Exported(s) \subseteq Gauges!Labels(snap.of[s])
    BY ReplaceLabels
  <2>4. gauges[s] = Gauges!NoSeries => Gauges!Exported(s) = {}
    BY DEF Gauges!Exported, Gauges!NoSeries
  <2>5. \/ gauges[s] = Gauges!Replace(s) \/ gauges[s] = Gauges!NoSeries
        \/ Gauges!Exported(s) \subseteq Gauges!Labels(prev.of[s])
    BY <2>1 DEF SectionHolds
  <2> QED
    BY <2>2, <2>3, <2>4, <2>5
<1>3. ASSUME "speedtest" \in watched
      PROVE  Cardinality({e \in DOMAIN gauges["speedtest"] :
                            gauges["speedtest"][e] = 1}) <= 1
  <2>1. PICK l : \A x \in DOMAIN gauges["speedtest"] :
                   gauges["speedtest"][x] = 1 => x = l
    BY <1>3 DEF OneEngine
  <2>2. {e \in DOMAIN gauges["speedtest"] : gauges["speedtest"][e] = 1}
          \subseteq {l}
    BY <2>1
  <2> QED
    BY <2>2, OneAtMost
<1>4. \A S : Gauges!Cardinality(S) = Cardinality(S)
  BY DEF Gauges!Cardinality, Cardinality
<1> QED
  BY <1>1, <1>2, <1>3, <1>4 DEF NoGhostSeries, Gauges!NoGhostSeries, Kept

\* For any snapshots and labels: whenever a scrape falls, each series of the
\* sections that are reset is of something the scan that is exported or the
\* one before it found, between updates they are what the last scan alone
\* would write, the samples are of one test and one engine at most is in use
\* (Metrics.Update, notifier/prometheus.go).  The GPU is not one of them.
THEOREM GaugesAreTrue ==
  ASSUME Gauges!GaugesAssumption
  PROVE  Gauges!Spec => []NoGhostSeries
<1>1. Gauges!Init => GaugesIInv
  BY GaugesBegin
<1>2. GaugesIInv /\ [Gauges!Next]_(Gauges!vars) => GaugesIInv'
  BY GaugesStep
<1>3. GaugesIInv => NoGhostSeries
  BY GaugesSafe
<1> QED
  BY <1>1, <1>2, <1>3, PTL DEF Gauges!Spec

-----------------------------------------------------------------------------
(* Forecasts: induction, and sums.                                         *)

\* Induction: a set that has 0, and with a number below the bound the next
\* one, has all up to the bound.
LEMMA UpTo ==
  ASSUME NEW n \in Nat, NEW S, 0 \in S,
         \A i \in 0 .. n - 1 : i \in S => i + 1 \in S
  PROVE  0 .. n \subseteq S
  <1> DEFINE Missing == {i \in 0 .. n : i \notin S}
  <1>1. SUFFICES ASSUME Missing # {} PROVE FALSE
    OBVIOUS
  <1>2. Missing \subseteq Nat
    OBVIOUS
  <1>3. PICK m \in Missing : \A i \in Missing : m <= i
    <2> HIDE DEF Missing
    <2> QED
      BY <1>1, <1>2, LeastNatural
  <1>4. m \in 0 .. n /\ m \notin S /\ m # 0
    OBVIOUS
  <1>5. m - 1 \in 0 .. n - 1 /\ (m - 1) + 1 = m
    BY <1>4
  <1>6. m - 1 \in S
    <2>1. m - 1 \notin Missing
      <3> HIDE DEF Missing
      <3> QED
        BY <1>3, <1>4
    <2> QED
      BY <2>1, <1>4
  <1> QED
    BY <1>4, <1>5, <1>6

\* A sum has its partial sums.
LEMMA PartialSums ==
  ASSUME NEW n \in Nat, NEW f, \A i \in 1 .. n : f[i] \in Int
  PROVE  \E u \in [0 .. n -> Int] :
           /\ u[0] = 0
           /\ \A i \in 1 .. n : u[i] = u[i - 1] + f[i]
           /\ Volume!Sum(n, f) = u[n]
  <1> DEFINE Sums(k, u) == u[0] = 0 /\ \A i \in 1 .. k : u[i] = u[i - 1] + f[i]
             S == {k \in 0 .. n : \E u \in [0 .. k -> Int] : Sums(k, u)}
             R(u) == [i \in 0 .. n |-> IF i = 0 THEN 0 ELSE u[i - 1] + f[i]]
  <1>1. 0 \in S
    <2>1. [i \in 0 .. 0 |-> 0] \in [0 .. 0 -> Int]
      OBVIOUS
    <2>2. Sums(0, [i \in 0 .. 0 |-> 0])
      OBVIOUS
    <2>3. 0 \in 0 .. n /\ \E u \in [0 .. 0 -> Int] : Sums(0, u)
      <3> HIDE DEF Sums
      <3> QED
        BY <2>1, <2>2
    <2> QED
      BY <2>3
  <1>2. ASSUME NEW k \in 0 .. n - 1, k \in S
        PROVE  k + 1 \in S
    <2>1. PICK u \in [0 .. k -> Int] : Sums(k, u)
      BY <1>2
    <2> DEFINE v == [i \in 0 .. k + 1 |-> IF i = k + 1 THEN u[k] + f[k + 1]
                                                    ELSE u[i]]
    <2>2. v \in [0 .. k + 1 -> Int]
      BY <2>1
    <2>3. Sums(k + 1, v)
      BY <2>1
    <2>4. k + 1 \in 0 .. n
      OBVIOUS
    <2> HIDE DEF v
    <2> QED
      BY <2>2, <2>3, <2>4
  <1>3. n \in S
    <2> HIDE DEF S
    <2> QED
      BY <1>1, <1>2, UpTo
  <1>4. PICK u \in [0 .. n -> Int] : Sums(n, u)
    BY <1>3
  <1>5. u = R(u)
    <2>1. \A i \in 0 .. n : u[i] = R(u)[i]
      BY <1>4
    <2> QED
      BY <2>1
  <1> DEFINE w == CHOOSE x : x = R(x)
  <1>6. w = R(w)
    <2> HIDE DEF R
    <2> QED
      BY <1>5
  <1>7. w[0] = 0 /\ \A i \in 1 .. n : w[i] = w[i - 1] + f[i]
    <2> HIDE DEF w
    <2>1. \A i \in 0 .. n : w[i] = R(w)[i]
      BY <1>6
    <2> QED
      BY <2>1
  <1>8. \A i \in 0 .. n : w[i] = u[i]
    <2> HIDE DEF w
    <2> DEFINE T == {i \in 0 .. n : w[i] = u[i]}
    <2>1. 0 \in T
      BY <1>4, <1>7
    <2>2. ASSUME NEW i \in 0 .. n - 1, i \in T
          PROVE  i + 1 \in T
      <3>1. i + 1 \in 1 .. n /\ (i + 1) - 1 = i
        OBVIOUS
      <3> QED
        BY <1>4, <1>7, <2>2, <3>1
    <2> HIDE DEF T
    <2>3. 0 .. n \subseteq T
      BY <2>1, <2>2, UpTo
    <2> QED
      BY <2>3 DEF T
  <1>9. Volume!Sum(n, f) = w[n]
    BY DEF Volume!Sum
  <1> HIDE DEF w
  <1> QED
    BY <1>4, <1>8, <1>9

-----------------------------------------------------------------------------
(* The forecast.                                                           *)

\* The next point on the line, added to the sum of the usages.
LEMMA LineY ==
  ASSUME NEW k \in Int, NEW s \in Int, NEW g \in Int, NEW sx \in Int,
         NEW x \in Int
  PROVE  (k * s + g * sx) + (s + g * x) = (k + 1) * s + g * (sx + x)
  OBVIOUS

\* ... and to the sum of day times usage.
LEMMA LineXY ==
  ASSUME NEW s \in Int, NEW g \in Int, NEW sx \in Int, NEW sxx \in Int,
         NEW x \in Int
  PROVE  (s * sx + g * sxx) + x * (s + g * x)
           = s * (sx + x) + g * (sxx + x * x)
  OBVIOUS

\* A sum of squared distances from z, and its next square.
LEMMA Square ==
  ASSUME NEW k \in Int, NEW z \in Int, NEW x \in Int, NEW sx \in Int,
         NEW sxx \in Int
  PROVE  (k + 1) * (z * z) - 2 * z * (sx + x) + (sxx + x * x)
           = (k * (z * z) - 2 * z * sx + sxx) + (z - x) * (z - x)
  OBVIOUS

\* A square is positive but of zero.
LEMMA SquareSign ==
  ASSUME NEW a \in Int
  PROVE  a * a >= 0 /\ (a # 0 => a * a > 0)
  OBVIOUS

\* n times the sum of squares less the square of the sum grows by the
\* squared distances of the next point from all before it.
LEMMA RunGrows ==
  ASSUME NEW k \in Int, NEW x \in Int, NEW sx \in Int, NEW sxx \in Int
  PROVE  (k + 1) * (sxx + x * x) - (sx + x) * (sx + x)
           = (k * sxx - sx * sx) + (k * (x * x) - 2 * x * sx + sxx)
  OBVIOUS

\* linearRegression on a line: the rise is the growth times the run,
LEMMA RiseIsSteady ==
  ASSUME NEW n \in Int, NEW s \in Int, NEW g \in Int, NEW sx \in Int,
         NEW sxx \in Int
  PROVE  n * (s * sx + g * sxx) - sx * (n * s + g * sx)
           = g * (n * sxx - sx * sx)
  OBVIOUS

\* and the level is the last usage.
LEMMA LevelIsLatest ==
  ASSUME NEW n \in Int, NEW s \in Int, NEW g \in Int, NEW sx \in Int,
         NEW r \in Int, NEW x \in Int
  PROVE  (g * r) * n * x + (n * s + g * sx) * r - (g * r) * sx
           = (n * r) * (s + g * x)
  OBVIOUS

\* A common factor does not matter to a quotient.
LEMMA CommonFactor ==
  ASSUME NEW a \in Int, NEW b \in Int, b > 0, NEW c \in Int, c > 0
  PROVE  (c * a) \div (c * b) = a \div b
  <1> DEFINE q == a \div b
             r == a % b
  <1>1. q \in Int /\ r \in 0 .. b - 1 /\ a = b * q + r
    OBVIOUS
  <1> HIDE DEF q, r
  <1>2. c * b > 0 /\ c * r >= 0 /\ c * r < c * b
    <2>1. c * b > 0
      OBVIOUS
    <2>2. c * r >= 0
      BY <1>1
    <2>3. c * (b - r) > 0
      BY <1>1
    <2>4. c * (b - r) = c * b - c * r
      BY <1>1
    <2> QED
      BY <1>1, <2>1, <2>2, <2>3, <2>4
  <1>3. c * a = (c * b) * q + c * r
    BY <1>1
  <1> DEFINE m == c * b
             l == c * r
             p == c * a
  <1>4. m \in Int /\ l \in Int /\ p \in Int
    BY <1>1
  <1>5. m > 0 /\ l >= 0 /\ l < m /\ p = m * q + l
    BY <1>2, <1>3
  <1>6. p \div m = q
    <2> HIDE DEF m, l, p
    <2> DEFINE v == p \div m
    <2>1. v \in Int /\ m * v <= p /\ p < m * v + m
      BY <1>4, <1>5
    <2> HIDE DEF v
    <2>2. m * (v - q) = m * v - m * q
      BY <1>1, <1>4, <2>1
    <2>3. m * (v - q) <= l /\ l < m * (v - q) + m
      BY <1>1, <1>4, <1>5, <2>1, <2>2
    <2>4. ~ (v - q >= 1)
      <3>1. SUFFICES ASSUME v - q >= 1 PROVE FALSE
        OBVIOUS
      <3>2. m * (v - q) >= m
        BY <1>1, <1>4, <1>5, <2>1, <3>1
      <3> QED
        BY <1>1, <1>4, <1>5, <2>1, <2>3, <3>2
    <2>5. ~ (v - q <= -1)
      <3>1. SUFFICES ASSUME v - q <= -1 PROVE FALSE
        OBVIOUS
      <3>2. m * (v - q) <= -m
        BY <1>1, <1>4, <1>5, <2>1, <3>1
      <3> QED
        BY <1>1, <1>4, <1>5, <2>1, <2>3, <3>2
    <2>6. v = q
      BY <1>1, <2>1, <2>4, <2>5
    <2> QED
      BY <2>6 DEF v
  <1> QED
    BY <1>6 DEF q

\* u has the partial sums of f.
Sums(n, f, u) ==
  /\ u \in [0 .. n -> Int] /\ u[0] = 0
  /\ \A i \in 1 .. n : u[i] = u[i - 1] + f[i]

\* Every sum has its partial sums.
LEMMA SumOf ==
  ASSUME NEW n \in Nat, NEW f, \A i \in 1 .. n : f[i] \in Int
  PROVE  \E u : Sums(n, f, u) /\ Volume!Sum(n, f) = u[n]
  BY PartialSums DEF Sums

\* One summand more.
LEMMA SumStep ==
  ASSUME NEW n \in Nat, NEW f, NEW u, Sums(n, f, u), NEW k \in 0 .. n - 1
  PROVE  u[k] \in Int /\ u[k + 1] \in Int /\ u[k + 1] = u[k] + f[k + 1]
  <1>1. k \in 0 .. n /\ k + 1 \in 1 .. n /\ (k + 1) - 1 = k
    OBVIOUS
  <1> QED
    BY <1>1 DEF Sums

\* n points (x, y) on a line, their products and squares, on several days.
OnALine(n, x, y, xy, xx, s, g) ==
  /\ s \in Int /\ g \in Int
  /\ \A i \in 1 .. n : /\ x[i] \in Int
                       /\ y[i] = s + g * x[i]
                       /\ xy[i] = x[i] * y[i]
                       /\ xx[i] = x[i] * x[i]
  /\ \A i \in 2 .. n : x[i] # x[1]

\* The sums over points on a line, and that the days differ.
LEMMA SumsOnALine ==
  ASSUME NEW n \in Nat, n >= 2, NEW x, NEW y, NEW xy, NEW xx,
         NEW s, NEW g, OnALine(n, x, y, xy, xx, s, g),
         NEW X, Sums(n, x, X), NEW Y, Sums(n, y, Y),
         NEW P, Sums(n, xy, P), NEW Q, Sums(n, xx, Q)
  PROVE  /\ Y[n] = n * s + g * X[n]
         /\ P[n] = s * X[n] + g * Q[n]
         /\ n * Q[n] - X[n] * X[n] > 0
         /\ X[n] \in Int /\ Q[n] \in Int
  <1> DEFINE OnLine(k) == Y[k] = k * s + g * X[k] /\ P[k] = s * X[k] + g * Q[k]
             Spread(k, z) == k * (z * z) - 2 * z * X[k] + Q[k]
             Run(k) == k * Q[k] - X[k] * X[k]
  <1>0. s \in Int /\ g \in Int
    BY DEF OnALine
  <1>d. ASSUME NEW k \in 0 .. n - 1
        PROVE  x[k + 1] \in Int
    <2>1. k + 1 \in 1 .. n
      OBVIOUS
    <2> QED
      BY <2>1, Zenon DEF OnALine
  <1>1. ASSUME NEW k \in 0 .. n - 1
        PROVE  /\ k \in Int /\ k + 1 \in 1 .. n
               /\ X[k] \in Int /\ Y[k] \in Int /\ P[k] \in Int /\ Q[k] \in Int
               /\ x[k + 1] \in Int
               /\ X[k + 1] = X[k] + x[k + 1]
               /\ Y[k + 1] = Y[k] + (s + g * x[k + 1])
               /\ P[k + 1] = P[k] + x[k + 1] * (s + g * x[k + 1])
               /\ Q[k + 1] = Q[k] + x[k + 1] * x[k + 1]
    <2>1. k \in Int /\ k + 1 \in 1 .. n
      OBVIOUS
    <2>2. /\ X[k] \in Int /\ Y[k] \in Int /\ P[k] \in Int /\ Q[k] \in Int
          /\ X[k + 1] = X[k] + x[k + 1] /\ Y[k + 1] = Y[k] + y[k + 1]
          /\ P[k + 1] = P[k] + xy[k + 1] /\ Q[k + 1] = Q[k] + xx[k + 1]
      BY SumStep
    <2>3. /\ x[k + 1] \in Int /\ y[k + 1] = s + g * x[k + 1]
          /\ xy[k + 1] = x[k + 1] * y[k + 1]
          /\ xx[k + 1] = x[k + 1] * x[k + 1]
      BY <2>1, Zenon DEF OnALine
    <2> QED
      BY <2>1, <2>2, <2>3
  <1>z. X[0] = 0 /\ Y[0] = 0 /\ P[0] = 0 /\ Q[0] = 0
    BY DEF Sums
  <1>2. \A k \in 0 .. n : OnLine(k)
    <2> DEFINE S == {k \in 0 .. n : OnLine(k)}
    <2>1. 0 \in S
      BY <1>0, <1>z
    <2>2. ASSUME NEW k \in 0 .. n - 1, k \in S
          PROVE  k + 1 \in S
      <3>1. Y[k] = k * s + g * X[k] /\ P[k] = s * X[k] + g * Q[k]
        BY <2>2
      <3>2. Y[k + 1] = (k + 1) * s + g * X[k + 1]
        BY <1>0, <1>1, <3>1, LineY
      <3>3. P[k + 1] = s * X[k + 1] + g * Q[k + 1]
        BY <1>0, <1>1, <3>1, LineXY
      <3>4. k + 1 \in 0 .. n
        OBVIOUS
      <3> QED
        BY <3>2, <3>3, <3>4
    <2> HIDE DEF S
    <2>3. 0 .. n \subseteq S
      BY <2>1, <2>2, UpTo
    <2> QED
      BY <2>3 DEF S
  <1>3. ASSUME NEW z \in Int
        PROVE  \A k \in 0 .. n : /\ Spread(k, z) \in Int /\ Spread(k, z) >= 0
                                 /\ k > 0 /\ z # x[1] => Spread(k, z) > 0
    <2> DEFINE S == {k \in 0 .. n : /\ Spread(k, z) \in Int
                                    /\ Spread(k, z) >= 0
                                    /\ k > 0 /\ z # x[1] => Spread(k, z) > 0}
    <2>1. 0 \in S
      BY <1>0, <1>z
    <2>2. ASSUME NEW k \in 0 .. n - 1, k \in S
          PROVE  k + 1 \in S
      <3>1. Spread(k + 1, z)
              = Spread(k, z) + (z - x[k + 1]) * (z - x[k + 1])
        BY <1>1, Square
      <3>2. /\ Spread(k, z) \in Int /\ Spread(k, z) >= 0
            /\ k > 0 /\ z # x[1] => Spread(k, z) > 0
        BY <2>2
      <3> DEFINE d == z - x[k + 1]
      <3>3. d \in Int /\ d * d \in Int /\ d * d >= 0 /\ (d # 0 => d * d > 0)
        <4>1. d \in Int
          BY <1>d
        <4> HIDE DEF d
        <4> QED
          BY <4>1, SquareSign
      <3>4. Spread(k + 1, z) \in Int /\ Spread(k + 1, z) >= 0
        <4> HIDE DEF Spread, d
        <4>1. Spread(k + 1, z) = Spread(k, z) + d * d
          BY <3>1 DEF d
        <4> QED
          BY <4>1, <3>2, <3>3
      <3>5. ASSUME z # x[1]
            PROVE  Spread(k + 1, z) > 0
        <4>1. k > 0 \/ d # 0
          BY SMTT(30), <3>5, <1>1
        <4> HIDE DEF Spread, d
        <4>2. Spread(k + 1, z) = Spread(k, z) + d * d
          BY <3>1 DEF d
        <4> QED
          BY <4>1, <4>2, <3>2, <3>3, <3>5
      <3>6. k + 1 \in 0 .. n
        OBVIOUS
      <3> HIDE DEF Spread, d
      <3> QED
        BY <3>4, <3>5, <3>6
    <2> HIDE DEF S
    <2>3. 0 .. n \subseteq S
      BY <2>1, <2>2, UpTo
    <2> QED
      BY <2>3 DEF S
  <1>4. ASSUME NEW k \in 0 .. n - 1
        PROVE  /\ Run(k) \in Int /\ Spread(k, x[k + 1]) \in Int
               /\ Run(k + 1) = Run(k) + Spread(k, x[k + 1])
    BY <1>1, RunGrows
  <1>5. \A k \in 0 .. n :
           Run(k) \in Int /\ Run(k) >= 0 /\ (k >= 2 => Run(k) > 0)
    <2> DEFINE S == {k \in 0 .. n : /\ Run(k) \in Int /\ Run(k) >= 0
                                    /\ k >= 2 => Run(k) > 0}
    <2>1. 0 \in S
      BY <1>0, <1>z
    <2>2. ASSUME NEW k \in 0 .. n - 1, k \in S
          PROVE  k + 1 \in S
      <3> DEFINE z == x[k + 1]
      <3>1. z \in Int
        BY <1>1
      <3>2. k \in 0 .. n /\ k + 1 \in 0 .. n
        OBVIOUS
      <3>3. /\ Spread(k, z) >= 0
            /\ k > 0 /\ z # x[1] => Spread(k, z) > 0
        <4> HIDE DEF Spread, z
        <4> QED
          BY <1>3, <3>1, <3>2
      <3>4. k > 0 => z # x[1]
        <4>1. k > 0 => k + 1 \in 2 .. n
          OBVIOUS
        <4> QED
          BY <4>1 DEF OnALine
      <3>5. Run(k) >= 0
        BY <2>2
      <3> HIDE DEF Spread, z, Run
      <3>6. Run(k + 1) \in Int /\ Run(k + 1) >= 0 /\ (k > 0 => Run(k + 1) > 0)
        BY <1>4, <3>3, <3>4, <3>5 DEF z
      <3> QED
        BY <3>2, <3>6
    <2> HIDE DEF S
    <2>3. 0 .. n \subseteq S
      BY <2>1, <2>2, UpTo
    <2> QED
      BY <2>3 DEF S
  <1>6. n \in 0 .. n
    OBVIOUS
  <1>7. X[n] \in Int /\ Q[n] \in Int
    BY <1>6, Zenon DEF Sums
  <1> QED
    BY <1>2, <1>5, <1>6, <1>7

-----------------------------------------------------------------------------

\* A stored scan.
Point == [day : Int, used : 0 .. 100]

\* What the volume has stored: scans on different days, of a steady growth.
ForecastIInv ==
  /\ growth \in Int
  /\ Len(points) \in Nat \ {0}
  /\ points \in Seq(Point)
  /\ \A i \in 2 .. Len(points) : points[i].day > points[1].day
  /\ \A i \in 1 .. Len(points) :
       points[i].used
         = points[1].used + growth * (points[i].day - points[1].day)

\* The fields of a stored scan.
LEMMA PointTypes ==
  ASSUME NEW p \in Point
  PROVE  /\ p.day \in Int /\ p.used \in Int /\ p.used \in 0 .. 100
         /\ p.used >= 0 /\ p.used <= 100
  <1>1. p.day \in Int /\ p.used \in 0 .. 100
    BY DEF Point
  <1> QED
    BY <1>1

\* An element of a sequence.
LEMMA InSequence ==
  ASSUME NEW T, NEW s \in Seq(T), NEW i \in 1 .. Len(s)
  PROVE  s[i] \in T
  OBVIOUS

\* What ForecastIInv says of a point.
LEMMA PointFacts ==
  ASSUME ForecastIInv, NEW i \in 1 .. Len(points)
  PROVE  /\ growth \in Int /\ points[i].day \in Int
         /\ points[i].used \in 0 .. 100
         /\ points[1].day \in Int /\ points[1].used \in 0 .. 100
         /\ points[i].day >= points[1].day
         /\ points[i].used
              = points[1].used + growth * (points[i].day - points[1].day)
  <1>1. /\ Len(points) \in Nat \ {0} /\ 1 \in 1 .. Len(points)
        /\ points \in Seq(Point)
        /\ growth \in Int
    <2>1. /\ Len(points) \in Nat \ {0}
          /\ points \in Seq(Point) /\ growth \in Int
      BY DEF ForecastIInv
    <2> QED
      BY <2>1
  <1>2. /\ points[i] \in Point /\ points[i].day \in Int
        /\ points[i].used \in 0 .. 100
        /\ points[1] \in Point /\ points[1].day \in Int
        /\ points[1].used \in 0 .. 100
    <2>1. points[i] \in Point /\ points[1] \in Point
      BY <1>1, InSequence, Zenon
    <2> QED
      BY <2>1 DEF Point
  <1>3. points[i].used
          = points[1].used + growth * (points[i].day - points[1].day)
    BY Zenon DEF ForecastIInv
  <1>4. points[i].day >= points[1].day
    <2>1. i = 1 \/ i \in 2 .. Len(points)
      BY <1>1
    <2>2. i \in 2 .. Len(points) => points[i].day > points[1].day
      BY Zenon DEF ForecastIInv
    <2> QED
      BY <1>2, <2>1, <2>2
  <1> QED
    BY <1>1, <1>2, <1>3, <1>4

\* The invariant holds of the first scan,
LEMMA ForecastInit ==
  ASSUME Volume!ForecastAssumption, Volume!Init
  PROVE  ForecastIInv
  <1>1. PICK s \in FirstUsages : points = <<[day |-> 0, used |-> s]>>
    BY DEF Volume!Init
  <1>2. s \in 0 .. 100 /\ s \in Int /\ growth \in Int
    BY DEF Volume!Init, Volume!ForecastAssumption
  <1>3. /\ points \in Seq(Point)
        /\ Len(points) = 1 /\ points[1] = [day |-> 0, used |-> s]
    BY <1>1, <1>2 DEF Point
  <1> QED
    BY <1>2, <1>3 DEF ForecastIInv

\* The line goes on.
LEMMA OneDayMore ==
  ASSUME NEW s \in Int, NEW g \in Int, NEW x \in Int, NEW e \in Int
  PROVE  (s + g * x) + g * e = s + g * (x + e)
  OBVIOUS

\* and every further scan keeps it, whatever days were missed.
LEMMA ForecastStep ==
  ASSUME Volume!ForecastAssumption, ForecastIInv,
         NEW gap \in ScanGaps, Volume!Scan(gap)
  PROVE  ForecastIInv'
  <1> DEFINE n == Len(points)
             new == [day |-> points[n].day + gap,
                     used |-> points[n].used + growth * gap]
  <1>1. /\ growth' = growth /\ points' = Append(points, new)
        /\ new.used \in 0 .. 100 /\ gap \in Nat \ {0}
    BY DEF Volume!Scan, Volume!Latest, Volume!ForecastAssumption
  <1>2. /\ n \in Nat \ {0} /\ n \in 1 .. n /\ 1 \in 1 .. n
        /\ points \in Seq(Point)
        /\ points[n] \in Point
        /\ points[1] \in Point
    <2>1. /\ n \in Nat \ {0}
          /\ points \in Seq(Point)
      BY DEF ForecastIInv
    <2>2. n \in 1 .. n /\ 1 \in 1 .. n
      BY <2>1
    <2>3. points[n] \in Point /\ points[1] \in Point
      BY <2>1, <2>2, InSequence, Zenon
    <2> QED
      BY <2>1, <2>2, <2>3
  <1>g. gap \in Nat \ {0} /\ gap \in Int
    BY DEF Volume!ForecastAssumption
  <1>p. /\ growth \in Int /\ points[n].day \in Int
        /\ points[1].day \in Int /\ points[1].used \in 0 .. 100
        /\ points[n].day >= points[1].day
    BY <1>2, PointFacts, Zenon
  <1>u. points[1].used \in Int
    BY <1>2, PointTypes
  <1>3. new \in Point
    BY <1>1, <1>2 DEF Point
  <1>4. new.used = points[1].used + growth * (new.day - points[1].day)
    <2> DEFINE s == points[1].used
               x == points[n].day - points[1].day
    <2>1. s \in Int /\ growth \in Int /\ gap \in Int
      BY <1>g, <1>p, <1>u
    <2>x. x \in Int
      BY <1>p
    <2>2. points[n].used = s + growth * x
      BY <1>2, PointFacts
    <2>3. new.used = (s + growth * x) + growth * gap
      BY <2>2
    <2>4. new.day - points[1].day = x + gap
      BY <1>1, <1>2 DEF Point
    <2> HIDE DEF s, x, new
    <2>5. new.used = s + growth * (x + gap)
      BY <2>1, <2>x, <2>3, OneDayMore
    <2> QED
      BY <2>4, <2>5 DEF s
  <1>5. new.day > points[1].day
    BY <1>g, <1>p
  <1> HIDE DEF new
  <1>6. /\ points' \in Seq(Point)
        /\ Len(points') = n + 1 /\ points'[n + 1] = new
        /\ \A i \in 1 .. n : points'[i] = points[i]
    BY <1>1, <1>2, <1>3
  <1>7. /\ growth' \in Int /\ Len(points') \in Nat \ {0}
        /\ points'[1] = points[1]
    BY <1>1, <1>2, <1>6, PointFacts
  <1>8. ASSUME NEW i \in 2 .. Len(points')
        PROVE  points'[i].day > points'[1].day
    <2>1. i = n + 1 \/ (i \in 2 .. n /\ i \in 1 .. n)
      BY <1>2, <1>6
    <2>2. i \in 2 .. n => points[i].day > points[1].day
      BY Zenon DEF ForecastIInv
    <2> QED
      BY <1>5, <1>6, <1>7, <2>1, <2>2
  <1>9. ASSUME NEW i \in 1 .. Len(points')
        PROVE  points'[i].used
                 = points'[1].used
                   + growth' * (points'[i].day - points'[1].day)
    <2>1. CASE i = n + 1
      BY <1>1, <1>4, <1>6, <1>7, <2>1, Zenon
    <2>2. CASE i \in 1 .. n
      BY <1>1, <1>6, <1>7, <2>2, PointFacts, Zenon
    <2> QED
      BY <1>2, <1>6, <2>1, <2>2
  <1>10. points' \in Seq(Point)
    BY <1>6
  <1> QED
    BY <1>7, <1>8, <1>9, <1>10, Zenon DEF ForecastIInv

\* The line through what the volume has stored is its growth, and goes through
\* the latest point.
LEMMA LineIsTrue ==
  ASSUME ForecastIInv, NEW n, n = Len(points), n >= 2
  PROVE  \E r \in Int :
           /\ r > 0
           /\ Volume!Line(points)
                = [n |-> n, rise |-> growth * r, run |-> r,
                   level |-> (n * r) * points[n].used]
  <1> DEFINE x == Volume!Days(points)
             y == [i \in 1 .. n |-> points[i].used]
             xy == [i \in 1 .. n |-> x[i] * points[i].used]
             xx == [i \in 1 .. n |-> x[i] * x[i]]
             s == points[1].used
             g == growth
  <1>1. n \in Nat /\ n \in 1 .. n /\ 1 \in 1 .. n
    BY DEF ForecastIInv
  <1>2. g \in Int /\ s \in Int
    <2>1. points \in Seq(Point) /\ g \in Int
      BY DEF ForecastIInv
    <2>2. points[1] \in Point
      BY <1>1, <2>1, InSequence, Zenon
    <2> QED
      BY <2>1, <2>2, PointTypes
  <1>3. ASSUME NEW i \in 1 .. n
        PROVE  /\ x[i] = points[i].day - points[1].day /\ x[i] \in Int
               /\ y[i] = points[i].used /\ y[i] \in Int
               /\ y[i] = s + g * x[i]
    <2>1. x[i] = points[i].day - points[1].day
      BY DEF Volume!Days
    <2>2. y[i] = points[i].used
      OBVIOUS
    <2>3. /\ points[i].day \in Int /\ points[1].day \in Int
          /\ points[i].used
               = points[1].used + growth * (points[i].day - points[1].day)
      BY PointFacts, Zenon
    <2>4. points[i].used \in Int
      <3>1. points[i] \in Point
        BY InSequence, Zenon DEF ForecastIInv
      <3> QED
        BY <3>1, PointTypes
    <2> HIDE DEF x, y
    <2>5. x[i] \in Int
      BY <2>1, <2>3
    <2>6. y[i] = s + g * x[i]
      BY <2>1, <2>2, <2>3, Zenon
    <2> QED
      BY <2>1, <2>2, <2>4, <2>5, <2>6, Zenon
  <1>4. ASSUME NEW i \in 1 .. n
        PROVE  xy[i] = x[i] * y[i] /\ xx[i] = x[i] * x[i]
    BY <1>3
  <1>5. \A i \in 2 .. n : x[i] # x[1]
    <2>1. ASSUME NEW i \in 2 .. n
          PROVE  x[i] # x[1]
      <3>1. i \in 1 .. n /\ points[i].day > points[1].day
        BY <1>1 DEF ForecastIInv
      <3>2. /\ x[i] = points[i].day - points[1].day /\ x[i] \in Int
            /\ x[1] = points[1].day - points[1].day /\ x[1] \in Int
        BY <1>1, <1>3, <3>1, Zenon
      <3>3. points[i].day \in Int /\ points[1].day \in Int
        BY <3>1, PointFacts, Zenon
      <3> HIDE DEF x
      <3> QED
        BY <3>1, <3>2, <3>3
    <2> QED
      BY <2>1
  <1> HIDE DEF x
  <1>6. OnALine(n, x, y, xy, xx, s, g)
    <2> HIDE DEF y, xy, xx, s, g
    <2> QED
      BY <1>2, <1>3, <1>4, <1>5, Zenon DEF OnALine
  <1>7. ASSUME NEW i \in 1 .. n
        PROVE  xy[i] \in Int /\ xx[i] \in Int
    <2>1. x[i] \in Int /\ y[i] \in Int
      BY <1>3, Zenon
    <2>2. x[i] * y[i] \in Int /\ x[i] * x[i] \in Int
      BY <2>1
    <2> QED
      BY <1>4, <2>2, Zenon
  <1>8. PICK X : Sums(n, x, X) /\ Volume!Sum(n, x) = X[n]
    BY <1>1, <1>3, SumOf, Zenon
  <1>9. PICK Y : Sums(n, y, Y) /\ Volume!Sum(n, y) = Y[n]
    <2> HIDE DEF y
    <2> QED
      BY <1>1, <1>3, SumOf, Zenon
  <1>10. PICK P : Sums(n, xy, P) /\ Volume!Sum(n, xy) = P[n]
    <2> HIDE DEF xy
    <2> QED
      BY <1>1, <1>7, SumOf, Zenon
  <1>11. PICK Q : Sums(n, xx, Q) /\ Volume!Sum(n, xx) = Q[n]
    <2> HIDE DEF xx
    <2> QED
      BY <1>1, <1>7, SumOf, Zenon
  <1> DEFINE r == n * Q[n] - X[n] * X[n]
  <1>12. /\ Y[n] = n * s + g * X[n] /\ P[n] = s * X[n] + g * Q[n]
         /\ r > 0 /\ X[n] \in Int /\ Q[n] \in Int
    <2> HIDE DEF y, xy, xx, s, g
    <2> QED
      BY <1>1, <1>6, <1>8, <1>9, <1>10, <1>11, SumsOnALine
  <1>13. r \in Int /\ r # 0
    BY <1>1, <1>12
  <1>t. /\ n \in Int /\ s \in Int /\ g \in Int
        /\ X[n] \in Int /\ Q[n] \in Int
    BY <1>1, <1>2, <1>12
  <1>14. n * P[n] - X[n] * Y[n] = g * r
    <2> DEFINE sx == X[n]
               sxx == Q[n]
    <2>1. sx \in Int /\ sxx \in Int
      BY <1>t
    <2> HIDE DEF s, g, sx, sxx
    <2>2. n * (s * sx + g * sxx) - sx * (n * s + g * sx)
            = g * (n * sxx - sx * sx)
      BY <1>t, <2>1, RiseIsSteady
    <2> QED
      BY <1>12, <2>2, Zenon DEF sx, sxx
  <1>15. (g * r) * n * x[n] + Y[n] * r - (g * r) * X[n]
           = (n * r) * points[n].used
    <2> DEFINE sx == X[n]
               xn == x[n]
    <2>1. points[n].used = s + g * xn /\ xn \in Int
      BY <1>1, <1>3, Zenon
    <2>2. sx \in Int
      BY <1>t
    <2> HIDE DEF s, g, r, sx, xn
    <2>3. (g * r) * n * xn + (n * s + g * sx) * r - (g * r) * sx
            = (n * r) * (s + g * xn)
      BY <1>t, <1>13, <2>1, <2>2, LevelIsLatest
    <2> QED
      BY <1>12, <2>1, <2>3, Zenon DEF sx, xn
  <1>16. Volume!Line(points)
           = [n |-> n, rise |-> g * r, run |-> r,
              level |-> (n * r) * points[n].used]
    <2>1. Volume!Line(points)
            = IF r = 0 THEN [n |-> n, rise |-> 0, run |-> 1, level |-> Y[n]]
              ELSE [n |-> n, rise |-> n * P[n] - X[n] * Y[n], run |-> r,
                    level |-> (n * P[n] - X[n] * Y[n]) * n * x[n] + Y[n] * r
                              - (n * P[n] - X[n] * Y[n]) * X[n]]
      BY <1>8, <1>9, <1>10, <1>11, Zenon DEF Volume!Line, x
    <2> HIDE DEF r, s, g
    <2> QED
      BY <1>13, <1>14, <1>15, <2>1, Zenon
  <1> HIDE DEF r
  <1> QED
    BY <1>12, <1>13, <1>16

\* A quotient rounded up.
LEMMA RoundedUp ==
  ASSUME NEW t \in Int, NEW u \in Int, NEW g \in Int, g > 0, u < t,
         t - u <= 100
  PROVE  LET d == -((-(t - u)) \div g)
         IN d \in 1 .. 100 /\ u + g * d >= t /\ u + g * (d - 1) < t
  <1> DEFINE a == -(t - u)
             q == a \div g
  <1>1. q \in Int /\ g * q <= a /\ a < g * q + g
    OBVIOUS
  <1>2. a \in Int /\ a < 0 /\ a >= -100 /\ a = u - t
    OBVIOUS
  <1> HIDE DEF q, a
  <1>3. q <= -1
    <2>1. ~ (q >= 0)
      <3>1. SUFFICES ASSUME q >= 0 PROVE FALSE
        OBVIOUS
      <3>2. g * q >= 0
        BY <1>1, <3>1
      <3> QED
        BY <1>1, <1>2, <3>2
    <2> QED
      BY <1>1, <2>1
  <1>4. q >= -100
    <2>1. SUFFICES ASSUME q <= -101 PROVE FALSE
      BY <1>1
    <2>2. g * q + g = g * (q + 1) /\ g * (q + 1) <= -100
      BY <1>1, <2>1
    <2> QED
      BY <1>1, <1>2, <2>2
  <1> DEFINE d == -q
  <1>5. d \in 1 .. 100
    BY <1>1, <1>3, <1>4
  <1>6. g * d = -(g * q) /\ g * (d - 1) = -(g * q) - g
    BY <1>1
  <1>7. u + g * d >= t /\ u + g * (d - 1) < t
    <2> DEFINE m == g * q
    <2>1. m \in Int
      BY <1>1
    <2>2. g * d = -m /\ g * (d - 1) = -m - g /\ m <= a /\ a < m + g
      BY <1>1, <1>6
    <2> HIDE DEF m, d
    <2> QED
      BY <1>2, <2>1, <2>2
  <1> QED
    BY <1>5, <1>7 DEF q, a

\* There is one such day.
LEMMA OneSuchDay ==
  ASSUME NEW t \in Int, NEW u \in Int, NEW g \in Int, g > 0,
         NEW d \in 1 .. 100, u + g * d >= t, u + g * (d - 1) < t,
         NEW e \in 1 .. 100, u + g * e >= t, u + g * (e - 1) < t
  PROVE  d = e
  <1>1. ASSUME NEW x \in Int, NEW y \in Int, u + g * x >= t,
               u + g * (y - 1) < t, x < y
        PROVE  FALSE
    <2>1. g * (y - 1) = g * x + g * (y - 1 - x) /\ g * (y - 1 - x) >= 0
      BY <1>1
    <2> DEFINE m == g * x
               l == g * (y - 1)
               k == g * (y - 1 - x)
    <2>2. m \in Int /\ l \in Int /\ k \in Int /\ l = m + k /\ k >= 0
          /\ u + m >= t /\ u + l < t
      BY <1>1, <2>1
    <2> HIDE DEF m, l, k
    <2> QED
      BY <2>2
  <1>2. d \in Int /\ e \in Int
    OBVIOUS
  <1>3. ~ (d < e) /\ ~ (e < d)
    BY <1>1, <1>2
  <1> QED
    BY <1>2, <1>3

\* A positive factor keeps the sign.
LEMMA SignOfProduct ==
  ASSUME NEW c \in Int, c > 0, NEW a \in Int
  PROVE  /\ c * a \in Int
         /\ c * a > 0 <=> a > 0
         /\ c * a <= 0 <=> a <= 0
  OBVIOUS

\* daysToThreshold of a line given by its parts.
LEMMA DaysOfLine ==
  ASSUME NEW n, NEW rise, NEW run, NEW level, NEW t
  PROVE  LET s == t * n * run - level
             days == -((-s) \div (n * rise))
         IN Volume!DaysToThreshold([n |-> n, rise |-> rise, run |-> run,
                                    level |-> level], t)
              = IF s <= 0 THEN 0
                ELSE IF rise <= 0 \/ days > 3650 THEN -1 ELSE days
  <1> DEFINE line == [n |-> n, rise |-> rise, run |-> run, level |-> level]
  <1>1. line.n = n /\ line.rise = rise /\ line.run = run /\ line.level = level
    BY Zenon
  <1> HIDE DEF line
  <1>2. LET s == t * n * run - level
            days == -((-s) \div (n * rise))
        IN Volume!DaysToThreshold(line, t)
             = IF s <= 0 THEN 0
               ELSE IF rise <= 0 \/ days > 3650 THEN -1 ELSE days
    BY <1>1 DEF Volume!DaysToThreshold
  <1> QED
    BY <1>2 DEF line

\* On its line, every threshold is forecast for the day it is reached.
LEMMA ForecastIsRight ==
  ASSUME ForecastIInv, Len(points) >= 2, NEW t \in 90 .. 100
  PROVE  Volume!Forecast(t) = Volume!DaysLeft(t)
  <1> DEFINE n == Len(points)
             u == points[n].used
             g == growth
             short == t - u
  <1>1. PICK r \in Int :
          /\ r > 0
          /\ Volume!Line(points) = [n |-> n, rise |-> g * r, run |-> r,
                                    level |-> (n * r) * points[n].used]
    BY LineIsTrue
  <1>2. n \in Nat /\ n >= 2 /\ n \in 1 .. n
    BY DEF ForecastIInv
  <1>3. u \in Int /\ u >= 0 /\ u <= 100 /\ g \in Int /\ t \in Int
        /\ t <= 100 /\ t > 0
    <2>1. g \in Int /\ points[n] \in Point
      <3>1. points \in Seq(Point) /\ g \in Int
        BY DEF ForecastIInv
      <3> QED
        BY <1>2, <3>1, InSequence, Zenon
    <2>2. t \in Int /\ t <= 100 /\ t > 0
      OBVIOUS
    <2> QED
      BY <2>1, <2>2, PointTypes
  <1> DEFINE c == n * r
  <1>4. c \in Int /\ c > 0
    BY <1>1, <1>2
  <1> DEFINE S == t * n * r - c * u
             R == n * (g * r)
  <1>5. S = c * short /\ R = c * g
    <2> HIDE DEF u, g, n
    <2> QED
      BY <1>1, <1>2, <1>3
  <1> DEFINE q == -((-S) \div R)
  <1>6. Volume!Forecast(t)
          = IF S <= 0 THEN 0
            ELSE IF g * r <= 0 \/ q > 3650 THEN -1 ELSE q
    <2> DEFINE rise == g * r
               level == c * u
    <2>1. Volume!Line(points) = [n |-> n, rise |-> rise, run |-> r,
                                 level |-> level]
      BY <1>1
    <2> HIDE DEF rise, level, n
    <2>2. LET s == t * n * r - level
              days == -((-s) \div (n * rise))
          IN Volume!Forecast(t)
               = IF s <= 0 THEN 0
                 ELSE IF rise <= 0 \/ days > 3650 THEN -1 ELSE days
      BY <2>1, DaysOfLine DEF Volume!Forecast
    <2> QED
      BY <2>2, Zenon DEF rise, level
  <1>7. /\ S <= 0 <=> short <= 0
        /\ g * r <= 0 <=> g <= 0
    <2>1. short \in Int
      BY <1>3
    <2>2. g * r = r * g
      BY <1>1, <1>3
    <2> HIDE DEF S, c, u, g, short
    <2>3. r * g <= 0 <=> g <= 0
      BY <1>1, <1>3, SignOfProduct
    <2>4. c * short <= 0 <=> short <= 0
      BY <1>4, <2>1, SignOfProduct
    <2> QED
      BY <1>5, <2>2, <2>3, <2>4, Zenon
  <1>8. Volume!DaysLeft(t)
          = IF u >= t THEN 0
            ELSE IF g <= 0 THEN -1
            ELSE CHOOSE d \in 1 .. 100 : u + g * d >= t /\ u + g * (d - 1) < t
    BY Zenon DEF Volume!DaysLeft, Volume!Latest
  <1>9. CASE u >= t
    <2>1. short <= 0
      BY <1>3, <1>9
    <2>2. S <= 0
      <3> HIDE DEF S, short
      <3> QED
        BY <1>7, <2>1, Zenon
    <2> HIDE DEF S, q, u, g
    <2> QED
      BY <1>6, <1>8, <1>9, <2>2, Zenon
  <1>10. CASE ~ (u >= t) /\ g <= 0
    <2>1. ~ (short <= 0)
      BY <1>3, <1>10
    <2>2. ~ (S <= 0) /\ g * r <= 0
      <3> HIDE DEF S, short, g
      <3> QED
        BY <1>7, <1>10, <2>1, Zenon
    <2>3. Volume!Forecast(t) = -1
      <3> HIDE DEF S, q, g
      <3> QED
        BY <1>6, <2>2
    <2>4. Volume!DaysLeft(t) = -1
      <3> HIDE DEF u, g
      <3> QED
        BY <1>8, <1>10, Zenon
    <2> QED
      BY <2>3, <2>4, Zenon
  <1>11. CASE ~ (u >= t) /\ ~ (g <= 0)
    <2>1. ~ (short <= 0) /\ short \in Int /\ g > 0 /\ u < t /\ short <= 100
      BY <1>3, <1>11
    <2> DEFINE d == -((-short) \div g)
    <2>2. (-S) \div R = (-short) \div g
      <3>1. -S = c * (-short)
        <4> HIDE DEF S, c, short
        <4> QED
          BY <1>4, <1>5, <2>1
      <3>2. -short \in Int
        BY <2>1
      <3> HIDE DEF S, R, c, short, g
      <3>3. (c * (-short)) \div (c * g) = (-short) \div g
        BY <1>3, <1>4, <2>1, <3>2, CommonFactor
      <3> QED
        BY <1>5, <3>1, <3>3, Zenon
    <2>3. d \in 1 .. 100 /\ u + g * d >= t /\ u + g * (d - 1) < t
      <3> HIDE DEF u, g
      <3> QED
        BY <1>3, <2>1, RoundedUp
    <2>4. ~ (d > 3650)
      <3> HIDE DEF d
      <3>1. d \in 1 .. 100
        BY <2>3, Zenon
      <3> HIDE <2>3
      <3> QED
        BY <3>1
    <2> DEFINE D(e) == u + g * e >= t /\ u + g * (e - 1) < t
               chosen == CHOOSE e \in 1 .. 100 : D(e)
    <2>5. chosen \in 1 .. 100 /\ D(chosen)
      <3>1. D(d) /\ d \in 1 .. 100
        BY <2>3
      <3> HIDE DEF D, d
      <3> QED
        BY <3>1, Zenon
    <2>6. chosen = d
      <3> HIDE DEF chosen, d, u, g
      <3> QED
        BY <1>3, <2>1, <2>3, <2>5, OneSuchDay
    <2>7. Volume!DaysLeft(t) = chosen
      BY <1>8, <1>11, Zenon
    <2>8. Volume!Forecast(t) = d
      <3>1. ~ (S <= 0) /\ ~ (g * r <= 0)
        <4> HIDE DEF S, short, g
        <4> QED
          BY <1>7, <1>11, <2>1, Zenon
      <3>2. q = d
        <4> HIDE DEF S, R, short, g
        <4> QED
          BY <2>2, Zenon DEF q, d
      <3> HIDE DEF S, q, d, g
      <3> QED
        BY <1>6, <2>4, <3>1, <3>2
    <2> QED
      BY <2>6, <2>7, <2>8, Zenon
  <1> QED
    BY <1>9, <1>10, <1>11, Zenon

\* ForecastComesTrue: a steadily growing volume is full when the forecast says
\* (forecast.go), for any growth, any first usage and any days between scans.
THEOREM FullOnTheDay ==
  ASSUME Volume!ForecastAssumption
  PROVE  Volume!Spec => []ForecastComesTrue
  <1>1. ASSUME ForecastIInv
        PROVE  ForecastComesTrue
    <2>1. SUFFICES ASSUME Len(points) >= 2
                   PROVE  /\ \A t \in {90, 95, 100} :
                               Volume!Forecast(t) = Volume!DaysLeft(t)
                          /\ Volume!DaysLeft(100) \in 0 .. 29
                               => Volume!Urgency = "critical"
      BY DEF ForecastComesTrue, Volume!ForecastComesTrue
    <2>2. 90 \in 90 .. 100 /\ 95 \in 90 .. 100 /\ 100 \in 90 .. 100
      OBVIOUS
    <2>3. \A t \in {90, 95, 100} : Volume!Forecast(t) = Volume!DaysLeft(t)
      <3>1. /\ Volume!Forecast(90) = Volume!DaysLeft(90)
            /\ Volume!Forecast(95) = Volume!DaysLeft(95)
            /\ Volume!Forecast(100) = Volume!DaysLeft(100)
        BY <1>1, <2>1, <2>2, ForecastIsRight, Zenon
      <3> QED
        BY <3>1, Zenon
    <2>4. Volume!DaysLeft(100) \in 0 .. 29 => Volume!Urgency = "critical"
      BY <2>3, Zenon DEF Volume!Urgency
    <2> QED
      BY <2>3, <2>4
  <1>2. Volume!Init => ForecastIInv
    BY ForecastInit
  <1>3. ForecastIInv /\ [Volume!Next]_(Volume!vars) => ForecastIInv'
    <2>1. ASSUME ForecastIInv, Volume!Next
          PROVE  ForecastIInv'
      BY <2>1, ForecastStep DEF Volume!Next
    <2>2. ASSUME ForecastIInv, UNCHANGED Volume!vars
          PROVE  ForecastIInv'
      BY <2>2 DEF Volume!vars, ForecastIInv
    <2> QED
      BY <2>1, <2>2
  <1> QED
    BY <1>1, <1>2, <1>3, PTL DEF Volume!Spec

-----------------------------------------------------------------------------
\* The network m is no better than n, one step later.
Worse(n, m) ==
  /\ n \in Outcomes!Network /\ m \in Outcomes!Network
  /\ m.code = n.code
  /\ m.delay >= n.delay /\ m.loss >= n.loss
  /\ m.records <= n.records
  /\ Outcomes!Slower(m.speed, n.speed)
  /\ m.attemptHours >= n.attemptHours /\ m.rowHours >= n.rowHours
  /\ m.readable \subseteq n.readable
  /\ m.connects => n.connects
  /\ m.mtr => n.mtr
  /\ m.attempt \in {n.attempt, "failed"}

\* The fields of a network.
LEMMA NetworkTypes ==
  ASSUME NEW n \in Outcomes!Network
  PROVE  /\ n.delay \in Nat /\ n.connects \in BOOLEAN /\ n.code \in Nat
         /\ n.records \in Nat /\ n.attempt \in Outcomes!Attempts
         /\ n.attemptHours \in Nat /\ n.rowHours \in Nat
         /\ n.readable \in SUBSET {"attempt", "history"}
         /\ n.speed.down \in Nat /\ n.speed.up \in Nat
         /\ n.mtr \in BOOLEAN /\ n.loss \in Nat
  BY DEF Outcomes!Network

\* The fields of a check.
LEMMA ConfigTypes ==
  ASSUME NEW c \in Outcomes!Config
  PROVE  /\ c.type \in Outcomes!Types /\ c.target \in Outcomes!Targets
         /\ c.port \in Int /\ c.timeout \in Int /\ c.min \in Int
         /\ c.max \in Int /\ c.down \in Int /\ c.up \in Int
         /\ c.margin \in Int /\ c.maxLoss \in Int
  BY DEF Outcomes!Config

\* normalizeServiceCheckConfig makes a check of a check.
LEMMA NormalizedType ==
  ASSUME NEW c \in Outcomes!Config
  PROVE  Outcomes!Normalized(c) \in Outcomes!Config
  <1> DEFINE N == Outcomes!Normalized(c)
  <1>1. \A a, b \in Int : /\ Outcomes!Default(a, b) \in Int
                          /\ Outcomes!Larger(a, b) \in Int
                          /\ Outcomes!Smaller(a, b) \in Int
    BY DEF Outcomes!Default, Outcomes!Larger, Outcomes!Smaller
  <1>2. ASSUME NEW d \in Outcomes!Config, NEW i \in Int, NEW t \in Int,
               NEW h \in Int
        PROVE  [d EXCEPT !.interval = i, !.timeout = t, !.threshold = h]
                 \in Outcomes!Config
    BY DEF Outcomes!Config
  <1>3. ASSUME NEW d \in Outcomes!Config, NEW i \in Int, NEW t \in Int
        PROVE  [d EXCEPT !.min = i, !.max = t] \in Outcomes!Config
    BY DEF Outcomes!Config
  <1>4. ASSUME NEW d \in Outcomes!Config, NEW t \in Int
        PROVE  [d EXCEPT !.max = t] \in Outcomes!Config
    BY DEF Outcomes!Config
  <1> DEFINE ranged == [c EXCEPT !.min = Outcomes!Default(@, 200),
                                 !.max = Outcomes!Default(@, 399)]
             http == [ranged EXCEPT !.max = Outcomes!Larger(@, ranged.min)]
             d == IF c.type = "http" THEN http ELSE c
  <1>5. ranged \in Outcomes!Config
    <2>1. /\ Outcomes!Default(c.min, 200) \in Int
          /\ Outcomes!Default(c.max, 399) \in Int
      BY ConfigTypes DEF Outcomes!Default
    <2> QED
      BY ZenonT(30), <1>3, <2>1
  <1>6. http \in Outcomes!Config
    <2> HIDE DEF ranged
    <2> QED
      BY <1>1, <1>4, <1>5, ConfigTypes
  <1>7. d \in Outcomes!Config
    <2> HIDE DEF http
    <2> QED
      BY <1>6
  <1>8. d.interval \in Int /\ d.timeout \in Int /\ d.threshold \in Int
    <2> HIDE DEF d
    <2> QED
      BY <1>7 DEF Outcomes!Config
  <1>9. N = [d EXCEPT !.interval =
                        Outcomes!Larger(Outcomes!Default(@, 300), 30),
                      !.timeout =
                        Outcomes!Smaller(Outcomes!Default(@, 5), 30),
                      !.threshold = Outcomes!Default(@, 1)]
    BY Zenon DEF Outcomes!Normalized
  <1> HIDE DEF N, d
  <1> QED
    <2>1. /\ Outcomes!Larger(Outcomes!Default(d.interval, 300), 30) \in Int
          /\ Outcomes!Smaller(Outcomes!Default(d.timeout, 5), 30) \in Int
          /\ Outcomes!Default(d.threshold, 1) \in Int
      BY <1>8
      DEF Outcomes!Larger, Outcomes!Smaller, Outcomes!Default
    <2>2. N \in Outcomes!Config
      BY ZenonT(30), <1>2, <1>7, <1>9, <2>1
    <2> QED
      BY <2>2 DEF N

\* An answer in time was in time before.
LEMMA InTimeBefore ==
  ASSUME NEW c \in Outcomes!Config, NEW n, NEW m, Worse(n, m),
         Outcomes!InTime(c, m)
  PROVE  Outcomes!InTime(c, n)
  <1>1. Outcomes!Default(c.timeout, 5) \in Int
    BY ConfigTypes DEF Outcomes!Default
  <1>2. n.delay \in Nat /\ m.delay \in Nat /\ m.delay >= n.delay
    BY NetworkTypes DEF Worse
  <1> QED
    BY <1>1, <1>2 DEF Outcomes!InTime

\* runHTTPCheck: a network that got worse turns no check up.
LEMMA HTTPNoMoreUp ==
  ASSUME NEW c \in Outcomes!Config, NEW n, NEW m, Worse(n, m)
  PROVE  /\ Outcomes!RunHTTPCheck(c, n) \in {"up", "down"}
         /\ Outcomes!RunHTTPCheck(c, m) \in {"up", "down"}
         /\ Outcomes!RunHTTPCheck(c, m) = "up"
              => Outcomes!RunHTTPCheck(c, n) = "up"
  BY InTimeBefore, ZenonT(30) DEF Outcomes!RunHTTPCheck, Worse

\* runDNSCheck.
LEMMA DNSNoMoreUp ==
  ASSUME NEW c \in Outcomes!Config, NEW n, NEW m, Worse(n, m)
  PROVE  /\ Outcomes!RunDNSCheck(c, n) \in {"up", "down"}
         /\ Outcomes!RunDNSCheck(c, m) \in {"up", "down"}
         /\ Outcomes!RunDNSCheck(c, m) = "up"
              => Outcomes!RunDNSCheck(c, n) = "up"
  <1>1. m.records > 0 => n.records > 0
    BY NetworkTypes DEF Worse
  <1> QED
    BY <1>1, InTimeBefore, Zenon DEF Outcomes!RunDNSCheck

\* runTCPCheck.
LEMMA TCPNoMoreUp ==
  ASSUME NEW c \in Outcomes!Config, NEW n, NEW m, Worse(n, m)
  PROVE  /\ Outcomes!RunTCPCheck(c, n) \in {"up", "down"}
         /\ Outcomes!RunTCPCheck(c, m) \in {"up", "down"}
         /\ Outcomes!RunTCPCheck(c, m) = "up"
              => Outcomes!RunTCPCheck(c, n) = "up"
  BY InTimeBefore, Zenon DEF Outcomes!RunTCPCheck, Worse

\* runPingCheck.
LEMMA PingNoMoreUp ==
  ASSUME NEW c \in Outcomes!Config, NEW n, NEW m, Worse(n, m)
  PROVE  /\ Outcomes!RunPingCheck(c, n) \in {"up", "down"}
         /\ Outcomes!RunPingCheck(c, m) \in {"up", "down"}
         /\ Outcomes!RunPingCheck(c, m) = "up"
              => Outcomes!RunPingCheck(c, n) = "up"
  BY InTimeBefore, Zenon DEF Outcomes!RunPingCheck, Worse

\* What a check may report, and that the second report is no better.
Statuses == {"up", "degraded", "down"}
NoBetterThan(before, after) ==
  /\ before \in Statuses /\ after \in Statuses
  /\ Outcomes!StatusRank(before) <= Outcomes!StatusRank(after)

\* The ranks of the reports.
LEMMA Ranks ==
  /\ Outcomes!StatusRank("up") = 0 /\ Outcomes!StatusRank("degraded") = 1
  /\ Outcomes!StatusRank("down") = 2
  BY DEF Outcomes!StatusRank

\* Of two statuses, up before if up after is no better.
LEMMA UpOrDown ==
  ASSUME NEW b, NEW a, b \in {"up", "down"}, a \in {"up", "down"},
         a = "up" => b = "up"
  PROVE  NoBetterThan(b, a)
  BY Ranks DEF NoBetterThan, Statuses

\* A contracted speed that is met was met by what was faster.
LEMMA MetBefore ==
  ASSUME NEW k \in Int, NEW v \in Int, NEW w \in Int, v <= w, NEW g \in Int,
         Outcomes!Met(k, v, g)
  PROVE  Outcomes!Met(k, w, g)
  <1> DEFINE p == k * (100 - g)
  <1>1. p \in Int
    OBVIOUS
  <1> HIDE DEF p
  <1>2. k > 0 => 100 * v >= p
    BY DEF Outcomes!Met, p
  <1>3. k > 0 => 100 * w >= p
    BY <1>1, <1>2
  <1> QED
    BY <1>3 DEF Outcomes!Met, p

\* A speed has been met or not.
LEMMA MetType ==
  ASSUME NEW k, NEW v, NEW g
  PROVE  Outcomes!Met(k, v, g) \in BOOLEAN
  BY DEF Outcomes!Met

\* Whoever meets fewer of the contracted speeds is judged no better.
LEMMA VerdictNoBetter ==
  ASSUME NEW a \in BOOLEAN, NEW b \in BOOLEAN, NEW e \in BOOLEAN,
         NEW f \in BOOLEAN, e => a, f => b
  PROVE  NoBetterThan(Outcomes!Verdict({a, b}), Outcomes!Verdict({e, f}))
  <1>1. ASSUME NEW x \in BOOLEAN, NEW y \in BOOLEAN
        PROVE  Outcomes!Verdict({x, y})
                 = IF x /\ y THEN "up" ELSE IF x \/ y THEN "degraded"
                   ELSE "down"
    BY DEF Outcomes!Verdict
  <1> QED
    BY <1>1, Ranks DEF NoBetterThan, Statuses

\* Nothing is worse than down,
LEMMA DownIsLast ==
  ASSUME NEW s \in Statuses
  PROVE  NoBetterThan(s, "down")
  BY Ranks DEF NoBetterThan, Statuses

\* and nothing better than up.
LEMMA UpIsFirst ==
  ASSUME NEW s \in Statuses
  PROVE  NoBetterThan("up", s)
  BY Ranks DEF NoBetterThan, Statuses

\* A verdict is a status.
LEMMA VerdictType ==
  ASSUME NEW met
  PROVE  Outcomes!Verdict(met) \in Statuses
  BY DEF Outcomes!Verdict, Statuses

\* What the two thresholds make of two measurements.
LEMMA SpeedsNoBetter ==
  ASSUME NEW c \in Outcomes!Config, NEW n, NEW m, Worse(n, m)
  PROVE  LET g == Outcomes!Default(c.margin, 10)
             V(k) == Outcomes!Verdict({Outcomes!Met(c.down, k.speed.down, g),
                                       Outcomes!Met(c.up, k.speed.up, g)})
         IN NoBetterThan(V(n), V(m))
  <1> DEFINE g == Outcomes!Default(c.margin, 10)
             A(k) == Outcomes!Met(c.down, k.speed.down, g)
             B(k) == Outcomes!Met(c.up, k.speed.up, g)
  <1>1. g \in Int /\ c.down \in Int /\ c.up \in Int
    BY ConfigTypes DEF Outcomes!Default
  <1>2. /\ n.speed.down \in Int /\ n.speed.up \in Int
        /\ m.speed.down \in Int /\ m.speed.up \in Int
        /\ m.speed.down <= n.speed.down /\ m.speed.up <= n.speed.up
    BY NetworkTypes DEF Worse, Outcomes!Slower
  <1> HIDE DEF g
  <1>3. (A(m) => A(n)) /\ (B(m) => B(n))
    BY <1>1, <1>2, MetBefore
  <1>4. A(n) \in BOOLEAN /\ B(n) \in BOOLEAN /\ A(m) \in BOOLEAN
        /\ B(m) \in BOOLEAN
    BY MetType, Zenon
  <1> HIDE DEF A, B
  <1>5. NoBetterThan(Outcomes!Verdict({A(n), B(n)}),
                     Outcomes!Verdict({A(m), B(m)}))
    BY <1>3, <1>4, VerdictNoBetter
  <1> QED
    BY <1>5, Zenon DEF A, B, g

\* runSpeedCheck, which judges the last stored test,
LEMMA SpeedNoMoreUp ==
  ASSUME NEW c \in Outcomes!Config, NEW n, NEW m, Worse(n, m)
  PROVE  NoBetterThan(Outcomes!RunSpeedCheck(c, n),
                      Outcomes!RunSpeedCheck(c, m))
  <1> DEFINE g == Outcomes!Default(c.margin, 10)
             V(k) == Outcomes!Verdict({Outcomes!Met(c.down, k.speed.down, g),
                                       Outcomes!Met(c.up, k.speed.up, g)})
             Now(k) == Outcomes!AttemptIsCurrent(k)
             Row(k) == Outcomes!HasRow(k)
  <1>1. NoBetterThan(V(n), V(m)) /\ V(n) \in Statuses /\ V(m) \in Statuses
    BY SpeedsNoBetter, VerdictType, Zenon
  <1>2. /\ m.attempt = n.attempt \/ m.attempt = "failed"
        /\ Now(m) /\ m.attempt # "failed" => Now(n)
        /\ Row(m) => Row(n)
    BY NetworkTypes
    DEF Worse, Outcomes!Slower, Outcomes!AttemptIsCurrent, Outcomes!HasRow
  <1> HIDE DEF V
  <1>3. \A k : Outcomes!RunSpeedCheck(c, k)
           = IF ~Now(k) THEN "down"
             ELSE IF k.attempt = "pending" THEN "up"
             ELSE IF k.attempt # "success" \/ ~Row(k) THEN "down" ELSE V(k)
    BY DEF Outcomes!RunSpeedCheck, V
  <1> HIDE DEF Now, Row
  <1> DEFINE R(k) == Outcomes!RunSpeedCheck(c, k)
  <1>4. R(n) \in Statuses /\ R(m) \in Statuses
    BY <1>1, <1>3 DEF Statuses
  <1>5. R(n) = "up" \/ R(m) = "down" \/ (R(n) = V(n) /\ R(m) = V(m))
    BY <1>2, <1>3
  <1> HIDE DEF R
  <1> QED
    BY <1>1, <1>4, <1>5, DownIsLast, UpIsFirst DEF R

\* and runSpeedCheckViaRunner, which runs one.
LEMMA SpeedRunnerNoMoreUp ==
  ASSUME NEW c \in Outcomes!Config, NEW n, NEW m, Worse(n, m)
  PROVE  NoBetterThan(Outcomes!RunSpeedCheckViaRunner(c, n),
                      Outcomes!RunSpeedCheckViaRunner(c, m))
  <1> DEFINE g == Outcomes!Default(c.margin, 10)
             V(k) == Outcomes!Verdict({Outcomes!Met(c.down, k.speed.down, g),
                                       Outcomes!Met(c.up, k.speed.up, g)})
             Zero(k) == k.speed.down <= 0 /\ k.speed.up <= 0
  <1>1. NoBetterThan(V(n), V(m)) /\ V(n) \in Statuses /\ V(m) \in Statuses
    BY SpeedsNoBetter, VerdictType, Zenon
  <1>2. Zero(n) => Zero(m)
    BY NetworkTypes DEF Worse, Outcomes!Slower
  <1> HIDE DEF V
  <1>3. \A k : Outcomes!RunSpeedCheckViaRunner(c, k)
           = IF Zero(k) THEN "down" ELSE V(k)
    BY DEF Outcomes!RunSpeedCheckViaRunner, V
  <1> HIDE DEF Zero
  <1> DEFINE R(k) == Outcomes!RunSpeedCheckViaRunner(c, k)
  <1>4. R(n) \in Statuses /\ R(m) \in Statuses
    BY <1>1, <1>3 DEF Statuses
  <1>5. R(m) = "down" \/ (R(n) = V(n) /\ R(m) = V(m))
    BY <1>2, <1>3
  <1> HIDE DEF R
  <1> QED
    BY <1>1, <1>4, <1>5, DownIsLast DEF R

\* runTraceCheck.
LEMMA TraceNoMoreUp ==
  ASSUME NEW c \in Outcomes!Config, NEW n, NEW m, Worse(n, m)
  PROVE  NoBetterThan(Outcomes!RunTraceCheck(c, n),
                      Outcomes!RunTraceCheck(c, m))
  <1>1. /\ n.loss \in Nat /\ m.loss \in Nat /\ m.loss >= n.loss
        /\ c.maxLoss \in Int /\ (m.mtr => n.mtr)
    BY NetworkTypes, ConfigTypes DEF Worse
  <1> QED
    BY <1>1, Ranks
    DEF NoBetterThan, Statuses, Outcomes!RunTraceCheck, Outcomes!Reached,
        Outcomes!EndToEndLoss

\* executeServiceCheck: every type of check.
LEMMA RunsNoMoreUp ==
  ASSUME NEW c \in Outcomes!Config, NEW n, NEW m, Worse(n, m),
         NEW b, NEW a, NoBetterThan(b, a)
  PROVE  NoBetterThan(Outcomes!Runs(c, n, b), Outcomes!Runs(c, m, a))
  <1>1. /\ NoBetterThan(Outcomes!RunHTTPCheck(c, n),
                        Outcomes!RunHTTPCheck(c, m))
        /\ NoBetterThan(Outcomes!RunDNSCheck(c, n), Outcomes!RunDNSCheck(c, m))
        /\ NoBetterThan(Outcomes!RunTCPCheck(c, n), Outcomes!RunTCPCheck(c, m))
        /\ NoBetterThan(Outcomes!RunPingCheck(c, n),
                        Outcomes!RunPingCheck(c, m))
    BY HTTPNoMoreUp, DNSNoMoreUp, TCPNoMoreUp, PingNoMoreUp, UpOrDown, Zenon
  <1>2. NoBetterThan(Outcomes!RunTraceCheck(c, n),
                     Outcomes!RunTraceCheck(c, m))
    BY TraceNoMoreUp
  <1>3. c.type \in Outcomes!Types
    BY ConfigTypes
  <1> QED
    BY <1>1, <1>2, <1>3 DEF Outcomes!Runs, Outcomes!Types

\* The schedule and the button, on a network that got worse.
LEMMA OutcomesStep ==
  ASSUME NEW c \in Outcomes!Config, NEW n, NEW m, Worse(n, m)
  PROVE  /\ NoBetterThan(Outcomes!Scheduled(c, n), Outcomes!Scheduled(c, m))
         /\ NoBetterThan(Outcomes!Button(c, n), Outcomes!Button(c, m))
  <1>1. Outcomes!Normalized(c) \in Outcomes!Config
    BY NormalizedType
  <1> QED
    BY <1>1, RunsNoMoreUp, SpeedNoMoreUp, SpeedRunnerNoMoreUp, Zenon
    DEF Outcomes!Scheduled, Outcomes!Button

\* The button on a check as it was typed and the schedule on the normalized
\* one report the same of a speed test whose row the schedule can read.
LEMMA ButtonAgrees ==
  ASSUME NEW c \in Outcomes!Config, NEW n \in Outcomes!Network,
         n.attempt = "success", n.attemptHours <= 30 * 24, n.rowHours <= 48,
         n.readable = {"attempt", "history"}
  PROVE  Outcomes!Button(c, n) = Outcomes!Scheduled(c, n)
  <1> DEFINE d == Outcomes!Normalized(c)
  <1>1. Outcomes!RunSpeedCheckViaRunner(d, n) = Outcomes!RunSpeedCheck(d, n)
    <2>1. /\ Outcomes!AttemptIsCurrent(n)
          /\ Outcomes!HasRow(n)
               <=> ~(n.speed.down <= 0 /\ n.speed.up <= 0)
      BY NetworkTypes DEF Outcomes!AttemptIsCurrent, Outcomes!HasRow
    <2> HIDE DEF d
    <2> QED
      BY <2>1 DEF Outcomes!RunSpeedCheckViaRunner, Outcomes!RunSpeedCheck
  <1> QED
    BY <1>1, Zenon DEF Outcomes!Button, Outcomes!Scheduled

\* A check the settings accept, and a network there is.
OutcomesTypes ==
  check \in Outcomes!Config /\ network \in Outcomes!Network

\* For any checks and networks: the test button and the schedule
\* (api_extended.go, scheduler/checks.go), two copies of the code with defaults
\* of their own, report the same of a check while the schedule can read what
\* it judges (a successful test's row of the last 48 hours), and no network
\* that gets worse turns a check up under either.
THEOREM ChecksAreAlike ==
  ASSUME Outcomes!OutcomesAssumption
  PROVE  Outcomes!Spec => ChecksAgree
  <1>1. Outcomes!Init => OutcomesTypes
    BY DEF Outcomes!Init, Outcomes!OutcomesAssumption, OutcomesTypes
  <1>2. OutcomesTypes /\ [Outcomes!Next]_(Outcomes!vars) => OutcomesTypes'
    BY DEF Outcomes!Next, Outcomes!vars, Outcomes!OutcomesAssumption,
           OutcomesTypes
  <1>3. OutcomesTypes => Outcomes!ButtonAgreesWithSchedule
    BY ButtonAgrees DEF Outcomes!ButtonAgreesWithSchedule, OutcomesTypes
  <1>4. OutcomesTypes /\ [Outcomes!Next]_(Outcomes!vars)
          => [Outcomes!NoMoreUp]_(Outcomes!vars)
    <2>1. ASSUME OutcomesTypes, Outcomes!Next
          PROVE  Outcomes!NoMoreUp
      <3>1. Worse(network, network') /\ check' = check
        BY <2>1 DEF Outcomes!Next, Worse, OutcomesTypes,
                    Outcomes!OutcomesAssumption
      <3>2. check \in Outcomes!Config
        BY <2>1 DEF OutcomesTypes
      <3> QED
        BY <3>1, <3>2, OutcomesStep, Zenon DEF Outcomes!NoMoreUp, NoBetterThan
    <2> QED
      BY <2>1
  <1> QED
    BY <1>1, <1>2, <1>3, <1>4, PTL
    DEF Outcomes!Spec, ChecksAgree, Outcomes!ChecksAgree

-----------------------------------------------------------------------------
(* The tables.                                                             *)

\* The i-th of k tiers holds the value, and none before it does.
FirstToHold(tiers, k, n, i) ==
  /\ k \in Nat /\ DOMAIN tiers = 1 .. k /\ i \in 1 .. k
  /\ tiers[i].min <= n /\ n <= tiers[i].max
  /\ \A j \in 1 .. k : j < i => ~ (tiers[j].min <= n /\ n <= tiers[j].max)

\* The lookup returns it.
LEMMA TierIs ==
  ASSUME NEW tiers, NEW k, NEW n, NEW i, FirstToHold(tiers, k, n, i)
  PROVE  Drives!Tier(tiers, n) = tiers[i]
  <1> DEFINE Holds(j) == tiers[j].min <= n /\ n <= tiers[j].max
             c == CHOOSE j \in DOMAIN tiers :
                    Holds(j) /\ \A l \in 1 .. j - 1 : ~Holds(l)
  <1>0. k \in Nat /\ i \in 1 .. k /\ DOMAIN tiers = 1 .. k
    BY DEF FirstToHold
  <1>1. Holds(i) /\ \A l \in 1 .. i - 1 : ~Holds(l)
    BY <1>0 DEF FirstToHold
  <1>2. c \in 1 .. k /\ Holds(c) /\ \A l \in 1 .. c - 1 : ~Holds(l)
    <2> HIDE DEF Holds
    <2> QED
      BY <1>0, <1>1
  <1>3. c = i
    <2> HIDE DEF c, Holds
    <2>1. ~ (c < i) /\ ~ (i < c)
      BY <1>0, <1>1, <1>2
    <2> QED
      BY <1>0, <1>2, <2>1
  <1>4. Drives!Tier(tiers, n) = tiers[c]
    <2>1. \E j \in DOMAIN tiers : Holds(j)
      BY <1>0, <1>1
    <2> QED
      BY <2>1, Zenon DEF Drives!Tier
  <1> HIDE DEF c
  <1> QED
    BY <1>3, <1>4

\* No tier holds the value: the last one is taken.
LEMMA TierIsLast ==
  ASSUME NEW tiers, NEW k \in Nat, k # 0, DOMAIN tiers = 1 .. k, NEW n,
         \A j \in 1 .. k : ~ (tiers[j].min <= n /\ n <= tiers[j].max)
  PROVE  Drives!Tier(tiers, n) = tiers[k]
  <1> DEFINE c == CHOOSE j \in DOMAIN tiers : j + 1 \notin DOMAIN tiers
  <1>1. c = k
    <2>1. k \in DOMAIN tiers /\ k + 1 \notin DOMAIN tiers
      OBVIOUS
    <2>2. c \in DOMAIN tiers /\ c + 1 \notin DOMAIN tiers
      BY <2>1
    <2> HIDE DEF c
    <2> QED
      BY <2>2
  <1>2. ~ \E j \in DOMAIN tiers : tiers[j].min <= n /\ n <= tiers[j].max
    OBVIOUS
  <1>3. Drives!Tier(tiers, n) = tiers[c]
    BY <1>2, Zenon DEF Drives!Tier
  <1> HIDE DEF c
  <1> QED
    BY <1>1, <1>3

\* The tiers of reallocated sectors: the severity and the failure rate.
LEMMA ReallocatedTable ==
  ASSUME NEW n \in Int
  PROVE  LET g == Drives!GetReallocatedTier(n)
         IN  /\ n <= 0 => g.sev = "none" /\ g.mult = 0
             /\ n > 0 /\ n <= 4 => g.sev = "warning" /\ g.mult = 5
             /\ n > 4 /\ n <= 19 => g.sev = "warning" /\ g.mult = 10
             /\ n > 19 /\ n <= 99 => g.sev = "critical" /\ g.mult = 16
             /\ n > 99 => g.sev = "critical" /\ g.mult = 24
  <1> DEFINE t == Drives!ReallocatedTiers
  <1>d. DOMAIN t = 1 .. 4 /\ 4 \in Nat /\ 4 # 0
    BY SMT DEF Drives!ReallocatedTiers
  <1>1. /\ t[1].min = 1 /\ t[1].max = 4
        /\ t[2].min = 5 /\ t[2].max = 19
        /\ t[3].min = 20 /\ t[3].max = 99
        /\ t[4].min = 100 /\ t[4].max = 1000000000
    BY SMT DEF Drives!ReallocatedTiers, Drives!T, Drives!Top
  <1>s. /\ t[1].sev = "warning" /\ t[1].mult = 5
        /\ t[2].sev = "warning" /\ t[2].mult = 10
        /\ t[3].sev = "critical" /\ t[3].mult = 16
        /\ t[4].sev = "critical" /\ t[4].mult = 24
    BY SMT DEF Drives!ReallocatedTiers, Drives!T, Drives!Top
  <1>j. \A j \in 1 .. 4 : j = 1 \/ j = 2 \/ j = 3 \/ j = 4
    OBVIOUS
  <1> HIDE DEF t
  <1>2. n > 0 /\ n <= 4 => Drives!Tier(t, n) = t[1]
    <2>1. SUFFICES ASSUME n > 0 /\ n <= 4
                   PROVE  Drives!Tier(t, n) = t[1]
      OBVIOUS
    <2>2. 1 \in 1 .. 4 /\ t[1].min <= n /\ n <= t[1].max
      BY <1>1, <2>1, SMT
    <2>3. \A j \in 1 .. 4 :
           j < 1 => ~ (t[j].min <= n /\ n <= t[j].max)
      BY <1>1, <1>j, <2>1, SMT
    <2>4. FirstToHold(t, 4, n, 1)
      BY <1>d, <2>2, <2>3 DEF FirstToHold
    <2> QED
      BY <2>4, TierIs, Zenon
  <1>3. n > 4 /\ n <= 19 => Drives!Tier(t, n) = t[2]
    <2>1. SUFFICES ASSUME n > 4 /\ n <= 19
                   PROVE  Drives!Tier(t, n) = t[2]
      OBVIOUS
    <2>2. 2 \in 1 .. 4 /\ t[2].min <= n /\ n <= t[2].max
      BY <1>1, <2>1, SMT
    <2>3. \A j \in 1 .. 4 :
           j < 2 => ~ (t[j].min <= n /\ n <= t[j].max)
      BY <1>1, <1>j, <2>1, SMT
    <2>4. FirstToHold(t, 4, n, 2)
      BY <1>d, <2>2, <2>3 DEF FirstToHold
    <2> QED
      BY <2>4, TierIs, Zenon
  <1>4. n > 19 /\ n <= 99 => Drives!Tier(t, n) = t[3]
    <2>1. SUFFICES ASSUME n > 19 /\ n <= 99
                   PROVE  Drives!Tier(t, n) = t[3]
      OBVIOUS
    <2>2. 3 \in 1 .. 4 /\ t[3].min <= n /\ n <= t[3].max
      BY <1>1, <2>1, SMT
    <2>3. \A j \in 1 .. 4 :
           j < 3 => ~ (t[j].min <= n /\ n <= t[j].max)
      BY <1>1, <1>j, <2>1, SMT
    <2>4. FirstToHold(t, 4, n, 3)
      BY <1>d, <2>2, <2>3 DEF FirstToHold
    <2> QED
      BY <2>4, TierIs, Zenon
  <1>5. n > 99 => Drives!Tier(t, n) = t[4]
    <2>1. n > 99 /\ n <= 1000000000 => Drives!Tier(t, n) = t[4]
      <3>1. SUFFICES ASSUME n > 99, n <= 1000000000
                     PROVE  Drives!Tier(t, n) = t[4]
        OBVIOUS
      <3>2. 4 \in 1 .. 4 /\ t[4].min <= n /\ n <= t[4].max
        BY <1>1, <3>1, SMT
      <3>3. \A j \in 1 .. 4 :
             j < 4 => ~ (t[j].min <= n /\ n <= t[j].max)
        BY <1>1, <1>j, <3>1, SMT
      <3>4. FirstToHold(t, 4, n, 4)
        BY <1>d, <3>2, <3>3 DEF FirstToHold
      <3> QED
        BY <3>4, TierIs, Zenon
    <2>2. n > 1000000000 => Drives!Tier(t, n) = t[4]
      <3>1. SUFFICES ASSUME n > 1000000000 PROVE Drives!Tier(t, n) = t[4]
        OBVIOUS
      <3>2. \A j \in 1 .. 4 : ~ (t[j].min <= n /\ n <= t[j].max)
        BY <1>1, <1>j, <3>1, SMT
      <3> QED
        BY <1>d, <3>2, TierIsLast, Zenon
    <2> QED
      BY <2>1, <2>2, SMT
  <1>6. n <= 0 => Drives!GetReallocatedTier(n) = Drives!NoTier
    BY SMT DEF Drives!GetReallocatedTier
  <1>7. n > 0 => Drives!GetReallocatedTier(n) = Drives!Tier(t, n)
    BY SMT DEF Drives!GetReallocatedTier, t
  <1> QED
    BY <1>s, <1>2, <1>3, <1>4, <1>5, <1>6, <1>7, SMT
    DEF Drives!NoTier, Drives!T

\* The tiers of pending sectors.
LEMMA PendingTable ==
  ASSUME NEW n \in Int
  PROVE  LET g == Drives!GetPendingTier(n)
         IN  /\ n <= 0 => g.sev = "none" /\ g.mult = 0
             /\ n > 0 /\ n <= 4 => g.sev = "critical" /\ g.mult = 4
             /\ n > 4 /\ n <= 19 => g.sev = "critical" /\ g.mult = 8
             /\ n > 19 => g.sev = "critical" /\ g.mult = 15
  <1> DEFINE t == Drives!PendingTiers
  <1>d. DOMAIN t = 1 .. 3 /\ 3 \in Nat /\ 3 # 0
    BY SMT DEF Drives!PendingTiers
  <1>1. /\ t[1].min = 1 /\ t[1].max = 4
        /\ t[2].min = 5 /\ t[2].max = 19
        /\ t[3].min = 20 /\ t[3].max = 1000000000
    BY SMT DEF Drives!PendingTiers, Drives!T, Drives!Top
  <1>s. /\ t[1].sev = "critical" /\ t[1].mult = 4
        /\ t[2].sev = "critical" /\ t[2].mult = 8
        /\ t[3].sev = "critical" /\ t[3].mult = 15
    BY SMT DEF Drives!PendingTiers, Drives!T, Drives!Top
  <1>j. \A j \in 1 .. 3 : j = 1 \/ j = 2 \/ j = 3
    OBVIOUS
  <1> HIDE DEF t
  <1>2. n > 0 /\ n <= 4 => Drives!Tier(t, n) = t[1]
    <2>1. SUFFICES ASSUME n > 0 /\ n <= 4
                   PROVE  Drives!Tier(t, n) = t[1]
      OBVIOUS
    <2>2. 1 \in 1 .. 3 /\ t[1].min <= n /\ n <= t[1].max
      BY <1>1, <2>1, SMT
    <2>3. \A j \in 1 .. 3 :
           j < 1 => ~ (t[j].min <= n /\ n <= t[j].max)
      BY <1>1, <1>j, <2>1, SMT
    <2>4. FirstToHold(t, 3, n, 1)
      BY <1>d, <2>2, <2>3 DEF FirstToHold
    <2> QED
      BY <2>4, TierIs, Zenon
  <1>3. n > 4 /\ n <= 19 => Drives!Tier(t, n) = t[2]
    <2>1. SUFFICES ASSUME n > 4 /\ n <= 19
                   PROVE  Drives!Tier(t, n) = t[2]
      OBVIOUS
    <2>2. 2 \in 1 .. 3 /\ t[2].min <= n /\ n <= t[2].max
      BY <1>1, <2>1, SMT
    <2>3. \A j \in 1 .. 3 :
           j < 2 => ~ (t[j].min <= n /\ n <= t[j].max)
      BY <1>1, <1>j, <2>1, SMT
    <2>4. FirstToHold(t, 3, n, 2)
      BY <1>d, <2>2, <2>3 DEF FirstToHold
    <2> QED
      BY <2>4, TierIs, Zenon
  <1>4. n > 19 => Drives!Tier(t, n) = t[3]
    <2>1. n > 19 /\ n <= 1000000000 => Drives!Tier(t, n) = t[3]
      <3>1. SUFFICES ASSUME n > 19, n <= 1000000000
                     PROVE  Drives!Tier(t, n) = t[3]
        OBVIOUS
      <3>2. 3 \in 1 .. 3 /\ t[3].min <= n /\ n <= t[3].max
        BY <1>1, <3>1, SMT
      <3>3. \A j \in 1 .. 3 :
             j < 3 => ~ (t[j].min <= n /\ n <= t[j].max)
        BY <1>1, <1>j, <3>1, SMT
      <3>4. FirstToHold(t, 3, n, 3)
        BY <1>d, <3>2, <3>3 DEF FirstToHold
      <3> QED
        BY <3>4, TierIs, Zenon
    <2>2. n > 1000000000 => Drives!Tier(t, n) = t[3]
      <3>1. SUFFICES ASSUME n > 1000000000 PROVE Drives!Tier(t, n) = t[3]
        OBVIOUS
      <3>2. \A j \in 1 .. 3 : ~ (t[j].min <= n /\ n <= t[j].max)
        BY <1>1, <1>j, <3>1, SMT
      <3> QED
        BY <1>d, <3>2, TierIsLast, Zenon
    <2> QED
      BY <2>1, <2>2, SMT
  <1>5. n <= 0 => Drives!GetPendingTier(n) = Drives!NoTier
    BY SMT DEF Drives!GetPendingTier
  <1>6. n > 0 => Drives!GetPendingTier(n) = Drives!Tier(t, n)
    BY SMT DEF Drives!GetPendingTier, t
  <1> QED
    BY <1>s, <1>2, <1>3, <1>4, <1>5, <1>6, SMT
    DEF Drives!NoTier, Drives!T

\* The tiers of CRC errors.
LEMMA CRCTable ==
  ASSUME NEW n \in Int
  PROVE  LET g == Drives!GetCRCTier(n)
         IN  /\ n <= 0 => g.sev = "none" /\ g.mult = 0
             /\ n > 0 /\ n <= 9 => g.sev = "info" /\ g.mult = 0
             /\ n > 9 /\ n <= 99 => g.sev = "warning" /\ g.mult = 0
             /\ n > 99 => g.sev = "warning" /\ g.mult = 0
  <1> DEFINE t == Drives!CRCTiers
  <1>d. DOMAIN t = 1 .. 3 /\ 3 \in Nat /\ 3 # 0
    BY SMT DEF Drives!CRCTiers
  <1>1. /\ t[1].min = 1 /\ t[1].max = 9
        /\ t[2].min = 10 /\ t[2].max = 99
        /\ t[3].min = 100 /\ t[3].max = 1000000000
    BY SMT DEF Drives!CRCTiers, Drives!T, Drives!Top
  <1>s. /\ t[1].sev = "info" /\ t[1].mult = 0
        /\ t[2].sev = "warning" /\ t[2].mult = 0
        /\ t[3].sev = "warning" /\ t[3].mult = 0
    BY SMT DEF Drives!CRCTiers, Drives!T, Drives!Top
  <1>j. \A j \in 1 .. 3 : j = 1 \/ j = 2 \/ j = 3
    OBVIOUS
  <1> HIDE DEF t
  <1>2. n > 0 /\ n <= 9 => Drives!Tier(t, n) = t[1]
    <2>1. SUFFICES ASSUME n > 0 /\ n <= 9
                   PROVE  Drives!Tier(t, n) = t[1]
      OBVIOUS
    <2>2. 1 \in 1 .. 3 /\ t[1].min <= n /\ n <= t[1].max
      BY <1>1, <2>1, SMT
    <2>3. \A j \in 1 .. 3 :
           j < 1 => ~ (t[j].min <= n /\ n <= t[j].max)
      BY <1>1, <1>j, <2>1, SMT
    <2>4. FirstToHold(t, 3, n, 1)
      BY <1>d, <2>2, <2>3 DEF FirstToHold
    <2> QED
      BY <2>4, TierIs, Zenon
  <1>3. n > 9 /\ n <= 99 => Drives!Tier(t, n) = t[2]
    <2>1. SUFFICES ASSUME n > 9 /\ n <= 99
                   PROVE  Drives!Tier(t, n) = t[2]
      OBVIOUS
    <2>2. 2 \in 1 .. 3 /\ t[2].min <= n /\ n <= t[2].max
      BY <1>1, <2>1, SMT
    <2>3. \A j \in 1 .. 3 :
           j < 2 => ~ (t[j].min <= n /\ n <= t[j].max)
      BY <1>1, <1>j, <2>1, SMT
    <2>4. FirstToHold(t, 3, n, 2)
      BY <1>d, <2>2, <2>3 DEF FirstToHold
    <2> QED
      BY <2>4, TierIs, Zenon
  <1>4. n > 99 => Drives!Tier(t, n) = t[3]
    <2>1. n > 99 /\ n <= 1000000000 => Drives!Tier(t, n) = t[3]
      <3>1. SUFFICES ASSUME n > 99, n <= 1000000000
                     PROVE  Drives!Tier(t, n) = t[3]
        OBVIOUS
      <3>2. 3 \in 1 .. 3 /\ t[3].min <= n /\ n <= t[3].max
        BY <1>1, <3>1, SMT
      <3>3. \A j \in 1 .. 3 :
             j < 3 => ~ (t[j].min <= n /\ n <= t[j].max)
        BY <1>1, <1>j, <3>1, SMT
      <3>4. FirstToHold(t, 3, n, 3)
        BY <1>d, <3>2, <3>3 DEF FirstToHold
      <3> QED
        BY <3>4, TierIs, Zenon
    <2>2. n > 1000000000 => Drives!Tier(t, n) = t[3]
      <3>1. SUFFICES ASSUME n > 1000000000 PROVE Drives!Tier(t, n) = t[3]
        OBVIOUS
      <3>2. \A j \in 1 .. 3 : ~ (t[j].min <= n /\ n <= t[j].max)
        BY <1>1, <1>j, <3>1, SMT
      <3> QED
        BY <1>d, <3>2, TierIsLast, Zenon
    <2> QED
      BY <2>1, <2>2, SMT
  <1>5. n <= 0 => Drives!GetCRCTier(n) = Drives!NoTier
    BY SMT DEF Drives!GetCRCTier
  <1>6. n > 0 => Drives!GetCRCTier(n) = Drives!Tier(t, n)
    BY SMT DEF Drives!GetCRCTier, t
  <1> QED
    BY <1>s, <1>2, <1>3, <1>4, <1>5, <1>6, SMT
    DEF Drives!NoTier, Drives!T

\* The tiers of command timeouts.
LEMMA CmdTimeoutTable ==
  ASSUME NEW n \in Int
  PROVE  LET g == Drives!GetCmdTimeoutTier(n)
         IN  /\ n <= 0 => g.sev = "none" /\ g.mult = 0
             /\ n > 0 /\ n <= 5 => g.sev = "info" /\ g.mult = 0
             /\ n > 5 /\ n <= 25 => g.sev = "warning" /\ g.mult = 0
             /\ n > 25 /\ n <= 99 => g.sev = "warning" /\ g.mult = 0
             /\ n > 99 => g.sev = "critical" /\ g.mult = 0
  <1> DEFINE t == Drives!CmdTimeoutTiers
  <1>d. DOMAIN t = 1 .. 4 /\ 4 \in Nat /\ 4 # 0
    BY SMT DEF Drives!CmdTimeoutTiers
  <1>1. /\ t[1].min = 1 /\ t[1].max = 5
        /\ t[2].min = 6 /\ t[2].max = 25
        /\ t[3].min = 26 /\ t[3].max = 99
        /\ t[4].min = 100 /\ t[4].max = 1000000000
    BY SMT DEF Drives!CmdTimeoutTiers, Drives!T, Drives!Top
  <1>s. /\ t[1].sev = "info" /\ t[1].mult = 0
        /\ t[2].sev = "warning" /\ t[2].mult = 0
        /\ t[3].sev = "warning" /\ t[3].mult = 0
        /\ t[4].sev = "critical" /\ t[4].mult = 0
    BY SMT DEF Drives!CmdTimeoutTiers, Drives!T, Drives!Top
  <1>j. \A j \in 1 .. 4 : j = 1 \/ j = 2 \/ j = 3 \/ j = 4
    OBVIOUS
  <1> HIDE DEF t
  <1>2. n > 0 /\ n <= 5 => Drives!Tier(t, n) = t[1]
    <2>1. SUFFICES ASSUME n > 0 /\ n <= 5
                   PROVE  Drives!Tier(t, n) = t[1]
      OBVIOUS
    <2>2. 1 \in 1 .. 4 /\ t[1].min <= n /\ n <= t[1].max
      BY <1>1, <2>1, SMT
    <2>3. \A j \in 1 .. 4 :
           j < 1 => ~ (t[j].min <= n /\ n <= t[j].max)
      BY <1>1, <1>j, <2>1, SMT
    <2>4. FirstToHold(t, 4, n, 1)
      BY <1>d, <2>2, <2>3 DEF FirstToHold
    <2> QED
      BY <2>4, TierIs, Zenon
  <1>3. n > 5 /\ n <= 25 => Drives!Tier(t, n) = t[2]
    <2>1. SUFFICES ASSUME n > 5 /\ n <= 25
                   PROVE  Drives!Tier(t, n) = t[2]
      OBVIOUS
    <2>2. 2 \in 1 .. 4 /\ t[2].min <= n /\ n <= t[2].max
      BY <1>1, <2>1, SMT
    <2>3. \A j \in 1 .. 4 :
           j < 2 => ~ (t[j].min <= n /\ n <= t[j].max)
      BY <1>1, <1>j, <2>1, SMT
    <2>4. FirstToHold(t, 4, n, 2)
      BY <1>d, <2>2, <2>3 DEF FirstToHold
    <2> QED
      BY <2>4, TierIs, Zenon
  <1>4. n > 25 /\ n <= 99 => Drives!Tier(t, n) = t[3]
    <2>1. SUFFICES ASSUME n > 25 /\ n <= 99
                   PROVE  Drives!Tier(t, n) = t[3]
      OBVIOUS
    <2>2. 3 \in 1 .. 4 /\ t[3].min <= n /\ n <= t[3].max
      BY <1>1, <2>1, SMT
    <2>3. \A j \in 1 .. 4 :
           j < 3 => ~ (t[j].min <= n /\ n <= t[j].max)
      BY <1>1, <1>j, <2>1, SMT
    <2>4. FirstToHold(t, 4, n, 3)
      BY <1>d, <2>2, <2>3 DEF FirstToHold
    <2> QED
      BY <2>4, TierIs, Zenon
  <1>5. n > 99 => Drives!Tier(t, n) = t[4]
    <2>1. n > 99 /\ n <= 1000000000 => Drives!Tier(t, n) = t[4]
      <3>1. SUFFICES ASSUME n > 99, n <= 1000000000
                     PROVE  Drives!Tier(t, n) = t[4]
        OBVIOUS
      <3>2. 4 \in 1 .. 4 /\ t[4].min <= n /\ n <= t[4].max
        BY <1>1, <3>1, SMT
      <3>3. \A j \in 1 .. 4 :
             j < 4 => ~ (t[j].min <= n /\ n <= t[j].max)
        BY <1>1, <1>j, <3>1, SMT
      <3>4. FirstToHold(t, 4, n, 4)
        BY <1>d, <3>2, <3>3 DEF FirstToHold
      <3> QED
        BY <3>4, TierIs, Zenon
    <2>2. n > 1000000000 => Drives!Tier(t, n) = t[4]
      <3>1. SUFFICES ASSUME n > 1000000000 PROVE Drives!Tier(t, n) = t[4]
        OBVIOUS
      <3>2. \A j \in 1 .. 4 : ~ (t[j].min <= n /\ n <= t[j].max)
        BY <1>1, <1>j, <3>1, SMT
      <3> QED
        BY <1>d, <3>2, TierIsLast, Zenon
    <2> QED
      BY <2>1, <2>2, SMT
  <1>6. n <= 0 => Drives!GetCmdTimeoutTier(n) = Drives!NoTier
    BY SMT DEF Drives!GetCmdTimeoutTier
  <1>7. n > 0 => Drives!GetCmdTimeoutTier(n) = Drives!Tier(t, n)
    BY SMT DEF Drives!GetCmdTimeoutTier, t
  <1> QED
    BY <1>s, <1>2, <1>3, <1>4, <1>5, <1>6, <1>7, SMT
    DEF Drives!NoTier, Drives!T

\* The tiers of the temperature.
LEMMA TempTable ==
  ASSUME NEW n \in Nat
  PROVE  LET g == Drives!GetTempTier(n)
         IN  /\ n <= 34 => g.sev = "none" /\ g.mult = 2
             /\ n > 34 /\ n <= 39 => g.sev = "none" /\ g.mult = 2
             /\ n > 39 /\ n <= 44 => g.sev = "info" /\ g.mult = 3
             /\ n > 44 /\ n <= 49 => g.sev = "warning" /\ g.mult = 4
             /\ n > 49 /\ n <= 54 => g.sev = "warning" /\ g.mult = 6
             /\ n > 54 /\ n <= 59 => g.sev = "critical" /\ g.mult = 10
             /\ n > 59 => g.sev = "critical" /\ g.mult = 20
  <1> DEFINE t == Drives!TempTiers
  <1>d. DOMAIN t = 1 .. 7 /\ 7 \in Nat /\ 7 # 0
    BY SMT DEF Drives!TempTiers
  <1>1. /\ t[1].min = 0 /\ t[1].max = 34
        /\ t[2].min = 35 /\ t[2].max = 39
        /\ t[3].min = 40 /\ t[3].max = 44
        /\ t[4].min = 45 /\ t[4].max = 49
        /\ t[5].min = 50 /\ t[5].max = 54
        /\ t[6].min = 55 /\ t[6].max = 59
        /\ t[7].min = 60 /\ t[7].max = 999
    BY SMT DEF Drives!TempTiers, Drives!T, Drives!Top
  <1>s. /\ t[1].sev = "none" /\ t[1].mult = 2
        /\ t[2].sev = "none" /\ t[2].mult = 2
        /\ t[3].sev = "info" /\ t[3].mult = 3
        /\ t[4].sev = "warning" /\ t[4].mult = 4
        /\ t[5].sev = "warning" /\ t[5].mult = 6
        /\ t[6].sev = "critical" /\ t[6].mult = 10
        /\ t[7].sev = "critical" /\ t[7].mult = 20
    BY SMT DEF Drives!TempTiers, Drives!T, Drives!Top
  <1>j. \A j \in 1 .. 7 :
          \/ j = 1 \/ j = 2 \/ j = 3 \/ j = 4 \/ j = 5 \/ j = 6 \/ j = 7
    OBVIOUS
  <1> HIDE DEF t
  <1>2. n <= 34 => Drives!Tier(t, n) = t[1]
    <2>1. SUFFICES ASSUME n <= 34
                   PROVE  Drives!Tier(t, n) = t[1]
      OBVIOUS
    <2>2. 1 \in 1 .. 7 /\ t[1].min <= n /\ n <= t[1].max
      BY <1>1, <2>1, SMT
    <2>3. \A j \in 1 .. 7 :
           j < 1 => ~ (t[j].min <= n /\ n <= t[j].max)
      BY <1>1, <1>j, <2>1, SMT
    <2>4. FirstToHold(t, 7, n, 1)
      BY <1>d, <2>2, <2>3 DEF FirstToHold
    <2> QED
      BY <2>4, TierIs, Zenon
  <1>3. n > 34 /\ n <= 39 => Drives!Tier(t, n) = t[2]
    <2>1. SUFFICES ASSUME n > 34 /\ n <= 39
                   PROVE  Drives!Tier(t, n) = t[2]
      OBVIOUS
    <2>2. 2 \in 1 .. 7 /\ t[2].min <= n /\ n <= t[2].max
      BY <1>1, <2>1, SMT
    <2>3. \A j \in 1 .. 7 :
           j < 2 => ~ (t[j].min <= n /\ n <= t[j].max)
      BY <1>1, <1>j, <2>1, SMT
    <2>4. FirstToHold(t, 7, n, 2)
      BY <1>d, <2>2, <2>3 DEF FirstToHold
    <2> QED
      BY <2>4, TierIs, Zenon
  <1>4. n > 39 /\ n <= 44 => Drives!Tier(t, n) = t[3]
    <2>1. SUFFICES ASSUME n > 39 /\ n <= 44
                   PROVE  Drives!Tier(t, n) = t[3]
      OBVIOUS
    <2>2. 3 \in 1 .. 7 /\ t[3].min <= n /\ n <= t[3].max
      BY <1>1, <2>1, SMT
    <2>3. \A j \in 1 .. 7 :
           j < 3 => ~ (t[j].min <= n /\ n <= t[j].max)
      BY <1>1, <1>j, <2>1, SMT
    <2>4. FirstToHold(t, 7, n, 3)
      BY <1>d, <2>2, <2>3 DEF FirstToHold
    <2> QED
      BY <2>4, TierIs, Zenon
  <1>5. n > 44 /\ n <= 49 => Drives!Tier(t, n) = t[4]
    <2>1. SUFFICES ASSUME n > 44 /\ n <= 49
                   PROVE  Drives!Tier(t, n) = t[4]
      OBVIOUS
    <2>2. 4 \in 1 .. 7 /\ t[4].min <= n /\ n <= t[4].max
      BY <1>1, <2>1, SMT
    <2>3. \A j \in 1 .. 7 :
           j < 4 => ~ (t[j].min <= n /\ n <= t[j].max)
      BY <1>1, <1>j, <2>1, SMT
    <2>4. FirstToHold(t, 7, n, 4)
      BY <1>d, <2>2, <2>3 DEF FirstToHold
    <2> QED
      BY <2>4, TierIs, Zenon
  <1>6. n > 49 /\ n <= 54 => Drives!Tier(t, n) = t[5]
    <2>1. SUFFICES ASSUME n > 49 /\ n <= 54
                   PROVE  Drives!Tier(t, n) = t[5]
      OBVIOUS
    <2>2. 5 \in 1 .. 7 /\ t[5].min <= n /\ n <= t[5].max
      BY <1>1, <2>1, SMT
    <2>3. \A j \in 1 .. 7 :
           j < 5 => ~ (t[j].min <= n /\ n <= t[j].max)
      BY <1>1, <1>j, <2>1, SMT
    <2>4. FirstToHold(t, 7, n, 5)
      BY <1>d, <2>2, <2>3 DEF FirstToHold
    <2> QED
      BY <2>4, TierIs, Zenon
  <1>7. n > 54 /\ n <= 59 => Drives!Tier(t, n) = t[6]
    <2>1. SUFFICES ASSUME n > 54 /\ n <= 59
                   PROVE  Drives!Tier(t, n) = t[6]
      OBVIOUS
    <2>2. 6 \in 1 .. 7 /\ t[6].min <= n /\ n <= t[6].max
      BY <1>1, <2>1, SMT
    <2>3. \A j \in 1 .. 7 :
           j < 6 => ~ (t[j].min <= n /\ n <= t[j].max)
      BY <1>1, <1>j, <2>1, SMT
    <2>4. FirstToHold(t, 7, n, 6)
      BY <1>d, <2>2, <2>3 DEF FirstToHold
    <2> QED
      BY <2>4, TierIs, Zenon
  <1>8. n > 59 => Drives!Tier(t, n) = t[7]
    <2>1. n > 59 /\ n <= 999 => Drives!Tier(t, n) = t[7]
      <3>1. SUFFICES ASSUME n > 59, n <= 999
                     PROVE  Drives!Tier(t, n) = t[7]
        OBVIOUS
      <3>2. 7 \in 1 .. 7 /\ t[7].min <= n /\ n <= t[7].max
        BY <1>1, <3>1, SMT
      <3>3. \A j \in 1 .. 7 :
             j < 7 => ~ (t[j].min <= n /\ n <= t[j].max)
        BY <1>1, <1>j, <3>1, SMT
      <3>4. FirstToHold(t, 7, n, 7)
        BY <1>d, <3>2, <3>3 DEF FirstToHold
      <3> QED
        BY <3>4, TierIs, Zenon
    <2>2. n > 999 => Drives!Tier(t, n) = t[7]
      <3>1. SUFFICES ASSUME n > 999 PROVE Drives!Tier(t, n) = t[7]
        OBVIOUS
      <3>2. \A j \in 1 .. 7 : ~ (t[j].min <= n /\ n <= t[j].max)
        BY <1>1, <1>j, <3>1, SMT
      <3> QED
        BY <1>d, <3>2, TierIsLast, Zenon
    <2> QED
      BY <2>1, <2>2, SMT
  <1>9. Drives!GetTempTier(n) = Drives!Tier(t, n)
    BY SMT DEF Drives!GetTempTier, t
  <1> QED
    BY <1>s, <1>2, <1>3, <1>4, <1>5, <1>6, <1>7, <1>8, <1>9, SMT

\* The tiers of the age, in hours.
LEMMA AgeTable ==
  ASSUME NEW n \in Nat
  PROVE  LET g == Drives!GetAgeTier(n)
         IN  /\ n <= 8766 => g.sev = "none" /\ g.mult = 10
             /\ n > 8766 /\ n <= 13000 => g.sev = "none" /\ g.mult = 10
             /\ n > 13000 /\ n <= 35000 => g.sev = "none" /\ g.mult = 10
             /\ n > 35000 /\ n <= 44000 => g.sev = "info" /\ g.mult = 13
             /\ n > 44000 /\ n <= 61000 => g.sev = "warning" /\ g.mult = 18
             /\ n > 61000 => g.sev = "warning" /\ g.mult = 25
  <1> DEFINE t == Drives!AgeTiers
  <1>d. DOMAIN t = 1 .. 6 /\ 6 \in Nat /\ 6 # 0
    BY SMT DEF Drives!AgeTiers
  <1>1. /\ t[1].min = 0 /\ t[1].max = 8766
        /\ t[2].min = 8767 /\ t[2].max = 13000
        /\ t[3].min = 13001 /\ t[3].max = 35000
        /\ t[4].min = 35001 /\ t[4].max = 44000
        /\ t[5].min = 44001 /\ t[5].max = 61000
        /\ t[6].min = 61001 /\ t[6].max = 1000000000
    BY SMT DEF Drives!AgeTiers, Drives!T, Drives!Top
  <1>s. /\ t[1].sev = "none" /\ t[1].mult = 10
        /\ t[2].sev = "none" /\ t[2].mult = 10
        /\ t[3].sev = "none" /\ t[3].mult = 10
        /\ t[4].sev = "info" /\ t[4].mult = 13
        /\ t[5].sev = "warning" /\ t[5].mult = 18
        /\ t[6].sev = "warning" /\ t[6].mult = 25
    BY SMT DEF Drives!AgeTiers, Drives!T, Drives!Top
  <1>j. \A j \in 1 .. 6 : j = 1 \/ j = 2 \/ j = 3 \/ j = 4 \/ j = 5 \/ j = 6
    OBVIOUS
  <1> HIDE DEF t
  <1>2. n <= 8766 => Drives!Tier(t, n) = t[1]
    <2>1. SUFFICES ASSUME n <= 8766
                   PROVE  Drives!Tier(t, n) = t[1]
      OBVIOUS
    <2>2. 1 \in 1 .. 6 /\ t[1].min <= n /\ n <= t[1].max
      BY <1>1, <2>1, SMT
    <2>3. \A j \in 1 .. 6 :
           j < 1 => ~ (t[j].min <= n /\ n <= t[j].max)
      BY <1>1, <1>j, <2>1, SMT
    <2>4. FirstToHold(t, 6, n, 1)
      BY <1>d, <2>2, <2>3 DEF FirstToHold
    <2> QED
      BY <2>4, TierIs, Zenon
  <1>3. n > 8766 /\ n <= 13000 => Drives!Tier(t, n) = t[2]
    <2>1. SUFFICES ASSUME n > 8766 /\ n <= 13000
                   PROVE  Drives!Tier(t, n) = t[2]
      OBVIOUS
    <2>2. 2 \in 1 .. 6 /\ t[2].min <= n /\ n <= t[2].max
      BY <1>1, <2>1, SMT
    <2>3. \A j \in 1 .. 6 :
           j < 2 => ~ (t[j].min <= n /\ n <= t[j].max)
      BY <1>1, <1>j, <2>1, SMT
    <2>4. FirstToHold(t, 6, n, 2)
      BY <1>d, <2>2, <2>3 DEF FirstToHold
    <2> QED
      BY <2>4, TierIs, Zenon
  <1>4. n > 13000 /\ n <= 35000 => Drives!Tier(t, n) = t[3]
    <2>1. SUFFICES ASSUME n > 13000 /\ n <= 35000
                   PROVE  Drives!Tier(t, n) = t[3]
      OBVIOUS
    <2>2. 3 \in 1 .. 6 /\ t[3].min <= n /\ n <= t[3].max
      BY <1>1, <2>1, SMT
    <2>3. \A j \in 1 .. 6 :
           j < 3 => ~ (t[j].min <= n /\ n <= t[j].max)
      BY <1>1, <1>j, <2>1, SMT
    <2>4. FirstToHold(t, 6, n, 3)
      BY <1>d, <2>2, <2>3 DEF FirstToHold
    <2> QED
      BY <2>4, TierIs, Zenon
  <1>5. n > 35000 /\ n <= 44000 => Drives!Tier(t, n) = t[4]
    <2>1. SUFFICES ASSUME n > 35000 /\ n <= 44000
                   PROVE  Drives!Tier(t, n) = t[4]
      OBVIOUS
    <2>2. 4 \in 1 .. 6 /\ t[4].min <= n /\ n <= t[4].max
      BY <1>1, <2>1, SMT
    <2>3. \A j \in 1 .. 6 :
           j < 4 => ~ (t[j].min <= n /\ n <= t[j].max)
      BY <1>1, <1>j, <2>1, SMT
    <2>4. FirstToHold(t, 6, n, 4)
      BY <1>d, <2>2, <2>3 DEF FirstToHold
    <2> QED
      BY <2>4, TierIs, Zenon
  <1>6. n > 44000 /\ n <= 61000 => Drives!Tier(t, n) = t[5]
    <2>1. SUFFICES ASSUME n > 44000 /\ n <= 61000
                   PROVE  Drives!Tier(t, n) = t[5]
      OBVIOUS
    <2>2. 5 \in 1 .. 6 /\ t[5].min <= n /\ n <= t[5].max
      BY <1>1, <2>1, SMT
    <2>3. \A j \in 1 .. 6 :
           j < 5 => ~ (t[j].min <= n /\ n <= t[j].max)
      BY <1>1, <1>j, <2>1, SMT
    <2>4. FirstToHold(t, 6, n, 5)
      BY <1>d, <2>2, <2>3 DEF FirstToHold
    <2> QED
      BY <2>4, TierIs, Zenon
  <1>7. n > 61000 => Drives!Tier(t, n) = t[6]
    <2>1. n > 61000 /\ n <= 1000000000 => Drives!Tier(t, n) = t[6]
      <3>1. SUFFICES ASSUME n > 61000, n <= 1000000000
                     PROVE  Drives!Tier(t, n) = t[6]
        OBVIOUS
      <3>2. 6 \in 1 .. 6 /\ t[6].min <= n /\ n <= t[6].max
        BY <1>1, <3>1, SMT
      <3>3. \A j \in 1 .. 6 :
             j < 6 => ~ (t[j].min <= n /\ n <= t[j].max)
        BY <1>1, <1>j, <3>1, SMT
      <3>4. FirstToHold(t, 6, n, 6)
        BY <1>d, <3>2, <3>3 DEF FirstToHold
      <3> QED
        BY <3>4, TierIs, Zenon
    <2>2. n > 1000000000 => Drives!Tier(t, n) = t[6]
      <3>1. SUFFICES ASSUME n > 1000000000 PROVE Drives!Tier(t, n) = t[6]
        OBVIOUS
      <3>2. \A j \in 1 .. 6 : ~ (t[j].min <= n /\ n <= t[j].max)
        BY <1>1, <1>j, <3>1, SMT
      <3> QED
        BY <1>d, <3>2, TierIsLast, Zenon
    <2> QED
      BY <2>1, <2>2, SMT
  <1>8. Drives!GetAgeTier(n) = Drives!Tier(t, n)
    BY SMT DEF Drives!GetAgeTier, t
  <1> QED
    BY <1>s, <1>2, <1>3, <1>4, <1>5, <1>6, <1>7, <1>8, SMT

-----------------------------------------------------------------------------
(* Drives.                                                                 *)

\* The severities of the tiers.
Sevs == {"none", "info", "warning", "critical"}

\* Their ranks.
LEMMA SeverityRanks ==
  /\ Drives!Rank("none") = 0 /\ Drives!Rank("info") = 1
  /\ Drives!Rank("warning") = 2 /\ Drives!Rank("critical") = 3
  BY DEF Drives!Rank

\* The tier u is no milder than t.
NoMilderTier(t, u) ==
  /\ t.sev \in Sevs /\ u.sev \in Sevs
  /\ Drives!Rank(t.sev) <= Drives!Rank(u.sev)
  /\ t.mult \in Nat /\ u.mult \in Nat /\ t.mult <= u.mult

\* More reallocated sectors are in no milder a tier.
LEMMA ReallocatedNoMilder ==
  ASSUME NEW n \in Nat, NEW m \in Nat, n <= m
  PROVE  NoMilderTier(Drives!GetReallocatedTier(n),
                      Drives!GetReallocatedTier(m))
  <1> DEFINE g == Drives!GetReallocatedTier(n)
             h == Drives!GetReallocatedTier(m)
  <1>1. NoMilderTier(g, h)
    BY ReallocatedTable, SeverityRanks, SMT DEF NoMilderTier, Sevs
  <1> QED
    BY <1>1

\* ... nor more pending ones,
LEMMA PendingNoMilder ==
  ASSUME NEW n \in Nat, NEW m \in Nat, n <= m
  PROVE  NoMilderTier(Drives!GetPendingTier(n), Drives!GetPendingTier(m))
  <1> DEFINE g == Drives!GetPendingTier(n)
             h == Drives!GetPendingTier(m)
  <1>1. NoMilderTier(g, h)
    BY PendingTable, SeverityRanks, SMT DEF NoMilderTier, Sevs
  <1> QED
    BY <1>1

\* ... nor more CRC errors,
LEMMA CRCNoMilder ==
  ASSUME NEW n \in Nat, NEW m \in Nat, n <= m
  PROVE  NoMilderTier(Drives!GetCRCTier(n), Drives!GetCRCTier(m))
  <1> DEFINE g == Drives!GetCRCTier(n)
             h == Drives!GetCRCTier(m)
  <1>1. NoMilderTier(g, h)
    BY CRCTable, SeverityRanks, SMT DEF NoMilderTier, Sevs
  <1> QED
    BY <1>1

\* ... nor more command timeouts,
LEMMA CmdTimeoutNoMilder ==
  ASSUME NEW n \in Nat, NEW m \in Nat, n <= m
  PROVE  NoMilderTier(Drives!GetCmdTimeoutTier(n), Drives!GetCmdTimeoutTier(m))
  <1> DEFINE g == Drives!GetCmdTimeoutTier(n)
             h == Drives!GetCmdTimeoutTier(m)
  <1>1. NoMilderTier(g, h)
    BY CmdTimeoutTable, SeverityRanks, SMT DEF NoMilderTier, Sevs
  <1> QED
    BY <1>1

\* ... nor a higher temperature,
LEMMA TempNoMilder ==
  ASSUME NEW n \in Nat, NEW m \in Nat, n <= m
  PROVE  NoMilderTier(Drives!GetTempTier(n), Drives!GetTempTier(m))
  <1> DEFINE g == Drives!GetTempTier(n)
             h == Drives!GetTempTier(m)
  <1>1. NoMilderTier(g, h)
    BY TempTable, SeverityRanks, SMT DEF NoMilderTier, Sevs
  <1> QED
    BY <1>1

\* ... nor more hours.
LEMMA AgeNoMilder ==
  ASSUME NEW n \in Nat, NEW m \in Nat, n <= m
  PROVE  NoMilderTier(Drives!GetAgeTier(n), Drives!GetAgeTier(m))
  <1> DEFINE g == Drives!GetAgeTier(n)
             h == Drives!GetAgeTier(m)
  <1>1. NoMilderTier(g, h)
    BY AgeTable, SeverityRanks, SMT DEF NoMilderTier, Sevs
  <1> QED
    BY <1>1

\* A drive as it was read, and one that is no better.
Read(d) ==
  /\ d.reallocated \in Nat /\ d.pending \in Nat /\ d.crc \in Nat
  /\ d.timeout \in Nat /\ d.temp \in Nat /\ d.hours \in Nat
  /\ d.passed \in BOOLEAN /\ d.available \in BOOLEAN /\ d.flash \in BOOLEAN

\* The drive e is d, or d after some wear or a failure.
WorseDrive(d, e) ==
  /\ Read(d) /\ Read(e)
  /\ d.reallocated <= e.reallocated /\ d.pending <= e.pending
  /\ d.crc <= e.crc /\ d.timeout <= e.timeout
  /\ d.temp <= e.temp /\ d.hours <= e.hours
  /\ e.passed => d.passed
  /\ e.available = d.available /\ e.flash = d.flash

\* All six tables at once.
LEMMA TiersNoMilder ==
  ASSUME NEW d, NEW e, WorseDrive(d, e)
  PROVE  /\ NoMilderTier(Drives!GetReallocatedTier(d.reallocated),
                         Drives!GetReallocatedTier(e.reallocated))
         /\ NoMilderTier(Drives!GetPendingTier(d.pending),
                         Drives!GetPendingTier(e.pending))
         /\ NoMilderTier(Drives!GetCRCTier(d.crc), Drives!GetCRCTier(e.crc))
         /\ NoMilderTier(Drives!GetCmdTimeoutTier(d.timeout),
                         Drives!GetCmdTimeoutTier(e.timeout))
         /\ NoMilderTier(Drives!GetTempTier(d.temp),
                         Drives!GetTempTier(e.temp))
         /\ NoMilderTier(Drives!GetAgeTier(d.hours),
                         Drives!GetAgeTier(e.hours))
  BY ReallocatedNoMilder, PendingNoMilder, CRCNoMilder, CmdTimeoutNoMilder,
     TempNoMilder, AgeNoMilder, Zenon DEF WorseDrive, Read

-----------------------------------------------------------------------------
(* The score.                                                              *)

\* What computeHealthScore takes off for CRC errors,
LinkPoints(d) == IF d.crc > 200 THEN 100 ELSE IF d.crc > 50 THEN 60
                 ELSE IF d.crc > 0 THEN 30 ELSE 0
\* for command timeouts,
TimeoutPoints(d) == IF d.timeout > 100 THEN 150
                    ELSE IF d.timeout > 25 THEN 80
                    ELSE IF d.timeout > 0 THEN 30 ELSE 0
\* and in all.
Penalty(d) ==
  (IF d.passed THEN 0 ELSE 500)
  + Drives!Capped(Drives!GetReallocatedTier(d.reallocated).mult * 15, 360)
  + Drives!Capped(Drives!GetPendingTier(d.pending).mult * 25, 380)
  + LinkPoints(d) + TimeoutPoints(d)
  + (Drives!GetTempTier(d.temp).mult - 2) * 20
  + (Drives!GetAgeTier(d.hours).mult - 10) * 5

\* The score is what the penalty leaves of a thousand.
LEMMA ScoreOf ==
  ASSUME NEW d
  PROVE  Drives!HealthScore(d) = Drives!Least(1000 - Penalty(d), 0) \div 10
  BY Zenon DEF Drives!HealthScore, Penalty, LinkPoints, TimeoutPoints

\* A worse drive is taken more off.
LEMMA PenaltyGrows ==
  ASSUME NEW d, NEW e, WorseDrive(d, e)
  PROVE  Penalty(d) \in Int /\ Penalty(e) \in Int /\ Penalty(d) <= Penalty(e)
  <1> DEFINE R(x) == Drives!GetReallocatedTier(x.reallocated).mult
             P(x) == Drives!GetPendingTier(x.pending).mult
             T(x) == Drives!GetTempTier(x.temp).mult
             A(x) == Drives!GetAgeTier(x.hours).mult
  <1>1. /\ R(d) \in Nat /\ R(e) \in Nat /\ R(d) <= R(e)
        /\ P(d) \in Nat /\ P(e) \in Nat /\ P(d) <= P(e)
        /\ T(d) \in Nat /\ T(e) \in Nat /\ T(d) <= T(e)
        /\ A(d) \in Nat /\ A(e) \in Nat /\ A(d) <= A(e)
    BY TiersNoMilder, Zenon DEF NoMilderTier
  <1>2. /\ LinkPoints(d) \in Nat /\ LinkPoints(e) \in Nat
        /\ LinkPoints(d) <= LinkPoints(e)
    BY DEF WorseDrive, Read, LinkPoints
  <1>3. /\ TimeoutPoints(d) \in Nat /\ TimeoutPoints(e) \in Nat
        /\ TimeoutPoints(d) <= TimeoutPoints(e)
    BY DEF WorseDrive, Read, TimeoutPoints
  <1>4. e.passed => d.passed
    BY DEF WorseDrive
  <1>5. \A x : Penalty(x)
           = (IF x.passed THEN 0 ELSE 500) + Drives!Capped(R(x) * 15, 360)
             + Drives!Capped(P(x) * 25, 380) + LinkPoints(x)
             + TimeoutPoints(x) + (T(x) - 2) * 20 + (A(x) - 10) * 5
    BY Zenon DEF Penalty
  <1> HIDE DEF R, P, T, A
  <1>6. /\ Drives!Capped(R(d) * 15, 360) \in Int
        /\ Drives!Capped(R(e) * 15, 360) \in Int
        /\ Drives!Capped(R(d) * 15, 360) <= Drives!Capped(R(e) * 15, 360)
        /\ Drives!Capped(P(d) * 25, 380) \in Int
        /\ Drives!Capped(P(e) * 25, 380) \in Int
        /\ Drives!Capped(P(d) * 25, 380) <= Drives!Capped(P(e) * 25, 380)
    BY <1>1 DEF Drives!Capped
  <1> QED
    BY <1>1, <1>2, <1>3, <1>4, <1>5, <1>6, SMT

\* The health score of a worse drive is no higher.
LEMMA ScoreFalls ==
  ASSUME NEW d, NEW e, WorseDrive(d, e)
  PROVE  /\ Drives!HealthScore(d) \in Int /\ Drives!HealthScore(e) \in Int
         /\ Drives!HealthScore(e) <= Drives!HealthScore(d)
  <1>1. Penalty(d) \in Int /\ Penalty(e) \in Int /\ Penalty(d) <= Penalty(e)
    BY PenaltyGrows
  <1> QED
    BY <1>1, ScoreOf, SMT DEF Drives!Least

-----------------------------------------------------------------------------
(* The planner.                                                            *)

\* A product of greater factors.
LEMMA ProductGrows ==
  ASSUME NEW a \in Nat, NEW b \in Nat, NEW c \in Nat, NEW d \in Nat,
         a <= c, b <= d
  PROVE  a * b \in Nat /\ c * d \in Nat /\ a * b <= c * d
  <1>1. a * b \in Nat /\ c * d \in Nat
    OBVIOUS
  <1>2. c * d - a * b = c * (d - b) + (c - a) * b
    OBVIOUS
  <1>3. c * (d - b) >= 0 /\ (c - a) * b >= 0
    OBVIOUS
  <1> DEFINE p == a * b
             q == c * d
             r == c * (d - b)
             s == (c - a) * b
  <1>4. p \in Int /\ q \in Int /\ r \in Int /\ s \in Int
    OBVIOUS
  <1> HIDE DEF p, q, r, s
  <1>5. p <= q
    BY <1>2, <1>3, <1>4 DEF p, q, r, s
  <1> QED
    BY <1>1, <1>5 DEF p, q

\* Five of them.
LEMMA FiveFactors ==
  ASSUME NEW a \in Nat, NEW b \in Nat, NEW c \in Nat, NEW d \in Nat,
         NEW e \in Nat, NEW k \in Nat, NEW l \in Nat, NEW m \in Nat,
         NEW n \in Nat, NEW o \in Nat, a <= k, b <= l, c <= m, d <= n, e <= o
  PROVE  /\ a * b * c * d * e \in Nat /\ k * l * m * n * o \in Nat
         /\ a * b * c * d * e <= k * l * m * n * o
  <1>1. a * b \in Nat /\ k * l \in Nat /\ a * b <= k * l
    BY ProductGrows
  <1>2. /\ (a * b) * c \in Nat /\ (k * l) * m \in Nat
        /\ (a * b) * c <= (k * l) * m
    BY <1>1, ProductGrows
  <1>3. /\ ((a * b) * c) * d \in Nat /\ ((k * l) * m) * n \in Nat
        /\ ((a * b) * c) * d <= ((k * l) * m) * n
    BY <1>2, ProductGrows
  <1> QED
    BY <1>3, ProductGrows

\* The factors of the failure multiplier.
Self(d) == IF d.passed THEN 1 ELSE 10
ByReallocated(d) == Drives!Factor(Drives!GetReallocatedTier(d.reallocated), 2)
ByPending(d) == Drives!Factor(Drives!GetPendingTier(d.pending), 1)
ByTemp(d) == Drives!Factor(Drives!GetTempTier(d.temp), 2)
ByAge(d) == Drives!Factor(Drives!GetAgeTier(d.hours), 10)

\* The failure multiplier is their product.
LEMMA MultOf ==
  ASSUME NEW d
  PROVE  Drives!FailureMult(d) = Self(d) * ByReallocated(d) * ByPending(d)
                                 * ByTemp(d) * ByAge(d)
  BY Zenon
  DEF Drives!FailureMult, Self, ByReallocated, ByPending, ByTemp, ByAge

\* A tier of a higher rate gives no smaller factor.
LEMMA FactorGrows ==
  ASSUME NEW t, NEW u, NoMilderTier(t, u), NEW unit \in Nat
  PROVE  /\ Drives!Factor(t, unit) \in Nat /\ Drives!Factor(u, unit) \in Nat
         /\ Drives!Factor(t, unit) <= Drives!Factor(u, unit)
         /\ unit <= Drives!Factor(t, unit)
         /\ t.mult <= Drives!Factor(t, unit)
  BY DEF NoMilderTier, Drives!Factor

\* Every factor of a worse drive is no smaller,
LEMMA FactorsGrow ==
  ASSUME NEW d, NEW e, WorseDrive(d, e)
  PROVE  /\ Self(d) \in Nat /\ Self(e) \in Nat /\ Self(d) <= Self(e)
         /\ 1 <= Self(d)
         /\ ByReallocated(d) \in Nat /\ ByReallocated(e) \in Nat
         /\ ByReallocated(d) <= ByReallocated(e) /\ 2 <= ByReallocated(d)
         /\ Drives!GetReallocatedTier(d.reallocated).mult <= ByReallocated(d)
         /\ ByPending(d) \in Nat /\ ByPending(e) \in Nat
         /\ ByPending(d) <= ByPending(e) /\ 1 <= ByPending(d)
         /\ Drives!GetPendingTier(d.pending).mult <= ByPending(d)
         /\ ByTemp(d) \in Nat /\ ByTemp(e) \in Nat
         /\ ByTemp(d) <= ByTemp(e) /\ 2 <= ByTemp(d)
         /\ Drives!GetTempTier(d.temp).mult <= ByTemp(d)
         /\ ByAge(d) \in Nat /\ ByAge(e) \in Nat
         /\ ByAge(d) <= ByAge(e) /\ 10 <= ByAge(d)
  <1>1. /\ Self(d) \in Nat /\ Self(e) \in Nat /\ Self(d) <= Self(e)
        /\ 1 <= Self(d)
    BY DEF Self, WorseDrive
  <1>2. 1 \in Nat /\ 2 \in Nat /\ 10 \in Nat
    OBVIOUS
  <1> QED
    BY <1>1, <1>2, TiersNoMilder, FactorGrows, Zenon
    DEF ByReallocated, ByPending, ByTemp, ByAge

\* nor is the multiplier.
LEMMA MultGrows ==
  ASSUME NEW d, NEW e, WorseDrive(d, e)
  PROVE  /\ Drives!FailureMult(d) \in Nat /\ Drives!FailureMult(e) \in Nat
         /\ Drives!FailureMult(d) <= Drives!FailureMult(e)
  BY FactorsGrow, FiveFactors, MultOf

\* An older drive has no longer to live.
LEMMA EndGetsNearer ==
  ASSUME NEW d, NEW e, WorseDrive(d, e), NEW q \in {1, 4},
         Drives!EndsWithin(d, q)
  PROVE  Drives!EndsWithin(e, q)
  <1> DEFINE L(x) == Drives!Least(Drives!AvgLifeHours(x) - x.hours, 0) * 160
             m == Drives!FailureMult(d)
             n == Drives!FailureMult(e)
  <1>1. m \in Nat /\ n \in Nat /\ m <= n
    BY MultGrows
  <1>2. L(d) \in Int /\ L(e) \in Int /\ L(e) <= L(d)
    BY SMT DEF WorseDrive, Read, Drives!Least, Drives!AvgLifeHours
  <1>3. L(d) \div (8766 * q) < m
    BY SMT DEF Drives!EndsWithin
  <1> HIDE DEF L, m, n
  <1>4. L(e) \div (8766 * q) < n
    <2>1. CASE q = 1
      BY <1>1, <1>2, <1>3, <2>1, SMT
    <2>2. CASE q = 4
      BY <1>1, <1>2, <1>3, <2>2, SMT
    <2> QED
      BY <2>1, <2>2
  <1> QED
    BY <1>4, SMT DEF Drives!EndsWithin, L, n

\* computeUrgency, by what it asks of a drive.
Now(d) == \/ ~d.passed \/ Drives!HealthScore(d) < 30
          \/ d.pending > 0 /\ d.reallocated > 19
          \/ Drives!FailureMult(d) >= 600
Soon(d) == \/ Drives!HealthScore(d) < 60
           \/ d.hours >= Drives!AvgLifeHours(d)
           \/ Drives!EndsWithin(d, 1)
           \/ Drives!EndsWithin(d, 4) /\ Drives!HealthScore(d) < 80
           \/ Drives!FailureMult(d) >= 200
Watch(d) == \/ Drives!HealthScore(d) < 80
            \/ 10 * d.hours > 8 * Drives!AvgLifeHours(d)
            \/ Drives!FailureMult(d) >= 80

\* It is just that.
LEMMA UrgencyOf ==
  ASSUME NEW d
  PROVE  Drives!Urgency(d)
           = CASE Now(d) -> "replace_now"
               [] ~Now(d) /\ Soon(d) -> "replace_soon"
               [] ~Now(d) /\ ~Soon(d) /\ Watch(d) -> "monitor"
               [] OTHER -> "healthy"
  BY Zenon DEF Drives!Urgency, Now, Soon, Watch

\* The ranks of the urgencies.
LEMMA UrgencyIs ==
  ASSUME NEW d
  PROVE  /\ Now(d) => Drives!Urgency(d) = "replace_now"
         /\ ~Now(d) /\ Soon(d) => Drives!Urgency(d) = "replace_soon"
         /\ ~Now(d) /\ ~Soon(d) /\ Watch(d) => Drives!Urgency(d) = "monitor"
         /\ ~Now(d) /\ ~Soon(d) /\ ~Watch(d) => Drives!Urgency(d) = "healthy"
  BY UrgencyOf

\* A worse drive is no less urgent to replace.
LEMMA MoreUrgent ==
  ASSUME NEW d, NEW e, WorseDrive(d, e)
  PROVE  Drives!UrgencyRank(Drives!Urgency(d))
           <= Drives!UrgencyRank(Drives!Urgency(e))
  <1>1. /\ Drives!HealthScore(d) \in Int /\ Drives!HealthScore(e) \in Int
        /\ Drives!HealthScore(e) <= Drives!HealthScore(d)
    BY ScoreFalls
  <1>2. /\ Drives!FailureMult(d) \in Nat /\ Drives!FailureMult(e) \in Nat
        /\ Drives!FailureMult(d) <= Drives!FailureMult(e)
    BY MultGrows
  <1>3. /\ Drives!EndsWithin(d, 1) => Drives!EndsWithin(e, 1)
        /\ Drives!EndsWithin(d, 4) => Drives!EndsWithin(e, 4)
    BY EndGetsNearer, SMT
  <1>4. /\ Drives!AvgLifeHours(d) \in Int
        /\ Drives!AvgLifeHours(e) = Drives!AvgLifeHours(d)
    BY SMT DEF Drives!AvgLifeHours, WorseDrive
  <1>5. Now(d) => Now(e)
    BY <1>1, <1>2, SMT DEF Now, WorseDrive, Read
  <1>6. Soon(d) => Soon(e)
    BY <1>1, <1>2, <1>3, <1>4, SMT DEF Soon, WorseDrive, Read
  <1>7. Watch(d) => Watch(e)
    BY <1>1, <1>2, <1>4, SMT DEF Watch, WorseDrive, Read
  <1>8. /\ Drives!UrgencyRank("replace_now") = 3
        /\ Drives!UrgencyRank("replace_soon") = 2
        /\ Drives!UrgencyRank("monitor") = 1
        /\ Drives!UrgencyRank("healthy") = 0
    BY DEF Drives!UrgencyRank
  <1> QED
    BY <1>5, <1>6, <1>7, <1>8, UrgencyIs

-----------------------------------------------------------------------------
(* The findings.                                                           *)

\* Every finding of F has one in G that is no milder.
Covered(F, G) ==
  \A f \in F : \E g \in G : Drives!Rank(f.sev) <= Drives!Rank(g.sev)

\* The finding of a higher tier is no milder.
LEMMA RatedCovered ==
  ASSUME NEW rule, NEW t, NEW u, NoMilderTier(t, u)
  PROVE  Covered(Drives!Rated(rule, t), Drives!Rated(rule, u))
  <1>1. \A sev : Drives!Finding(rule, sev).sev = sev
    BY DEF Drives!Finding
  <1>2. t.sev # "none" => u.sev # "none"
    BY SeverityRanks DEF NoMilderTier, Sevs
  <1>3. Drives!Rank(t.sev) <= Drives!Rank(u.sev)
    BY DEF NoMilderTier
  <1>4. CASE t.sev = "none"
    BY <1>4, Zenon DEF Covered, Drives!Rated
  <1>5. CASE t.sev # "none"
    <2>1. Drives!Rated(rule, u) = {Drives!Finding(rule, u.sev)}
          /\ Drives!Rated(rule, t) = {Drives!Finding(rule, t.sev)}
      BY <1>2, <1>5, Zenon DEF Drives!Rated
    <2> QED
      BY <1>1, <1>3, <2>1, Zenon DEF Covered
  <1> QED
    BY <1>4, <1>5

\* Findings are covered part by part.
LEMMA CoveredUnion ==
  ASSUME NEW F, NEW G, NEW H, NEW I, Covered(F, G), Covered(H, I)
  PROVE  Covered(F \cup H, G \cup I)
  BY Zenon DEF Covered

\* analyzeSMART and analyzeThermal: no finding gets milder.
LEMMA SMARTCovered ==
  ASSUME NEW d, NEW e, WorseDrive(d, e)
  PROVE  Covered(Drives!AnalyzeSMART(d), Drives!AnalyzeSMART(e))
  <1> DEFINE Health(x) == IF x.passed THEN {}
                          ELSE {Drives!Finding("health", "critical")}
             Re(x) == Drives!Rated("reallocated",
                                   Drives!GetReallocatedTier(x.reallocated))
             Pe(x) == Drives!Rated("pending",
                                   Drives!GetPendingTier(x.pending))
             Cr(x) == Drives!Rated("crc", Drives!GetCRCTier(x.crc))
             Ti(x) == Drives!Rated("timeout",
                                   Drives!GetCmdTimeoutTier(x.timeout))
             Ag(x) == Drives!Rated("age", Drives!GetAgeTier(x.hours))
             Sc(x) == IF Drives!HealthScore(x) < 50 /\ x.passed
                        THEN {Drives!Finding("score", "critical")} ELSE {}
             Un == {Drives!Finding("unavailable", "warning")}
  <1>1. \A x : Drives!AnalyzeSMART(x)
           = IF ~x.available THEN Un
             ELSE Health(x) \cup Re(x) \cup Pe(x) \cup Cr(x) \cup Ti(x)
                  \cup Ag(x) \cup Sc(x)
    BY Zenon DEF Drives!AnalyzeSMART
  <1>2. /\ Covered(Re(d), Re(e)) /\ Covered(Pe(d), Pe(e))
        /\ Covered(Cr(d), Cr(e)) /\ Covered(Ti(d), Ti(e))
        /\ Covered(Ag(d), Ag(e))
    BY TiersNoMilder, RatedCovered, Zenon
  <1>3. Covered(Health(d), Health(e))
    <2>1. e.passed => d.passed
      BY DEF WorseDrive
    <2>2. Drives!Rank(Drives!Finding("health", "critical").sev) = 3
      BY SeverityRanks DEF Drives!Finding
    <2> QED
      BY <2>1, <2>2 DEF Covered
  <1>4. Covered(Sc(d), Health(e) \cup Sc(e))
    <2>1. /\ Drives!HealthScore(d) \in Int /\ Drives!HealthScore(e) \in Int
          /\ Drives!HealthScore(e) <= Drives!HealthScore(d)
      BY ScoreFalls
    <2>2. /\ Drives!Rank(Drives!Finding("health", "critical").sev) = 3
          /\ Drives!Rank(Drives!Finding("score", "critical").sev) = 3
      BY SeverityRanks DEF Drives!Finding
    <2> QED
      BY <2>1, <2>2 DEF Covered
  <1>5. Covered(Un, Un)
    <2>1. Drives!Rank(Drives!Finding("unavailable", "warning").sev) = 2
      BY SeverityRanks DEF Drives!Finding
    <2> QED
      BY <2>1 DEF Covered
  <1>6. e.available = d.available
    BY DEF WorseDrive
  <1> HIDE DEF Health, Re, Pe, Cr, Ti, Ag, Sc, Un
  <1>7. Covered(Health(d) \cup Re(d) \cup Pe(d) \cup Cr(d) \cup Ti(d)
                  \cup Ag(d) \cup Sc(d),
                Health(e) \cup Re(e) \cup Pe(e) \cup Cr(e) \cup Ti(e)
                  \cup Ag(e) \cup Sc(e))
    BY <1>2, <1>3, <1>4, Zenon DEF Covered
  <1> QED
    BY <1>1, <1>5, <1>6, <1>7, Zenon

\* What a drive's history says, from its first row on.
Grows(d, e, a) == d[a] \in Nat /\ e[a] \in Nat /\ d[a] <= e[a]

\* buildSMARTTrendFindings: whether a history worsens,
Worsening(first, last) ==
  \/ last["reallocated"] - first["reallocated"] > 0
  \/ last["pending"] - first["pending"] > 0
  \/ last["crc"] - first["crc"] > 0
  \/ last["temp"] - first["temp"] >= 4 /\ last.temp >= 45

\* the risk it adds up,
Risk(first, last) ==
  (IF last.pending > 0 THEN 40 ELSE 0)
  + (IF last["pending"] - first["pending"] > 0 THEN 25 ELSE 0)
  + (IF last["reallocated"] - first["reallocated"] > 0
       THEN Drives!Capped(last["reallocated"] - first["reallocated"], 20)
       ELSE 0)
  + (IF last["crc"] - first["crc"] > 5 THEN 10 ELSE 0)
  + (IF last.temp >= 50 THEN 15 ELSE IF last.temp >= 45 THEN 8 ELSE 0)
  + (IF last["temp"] - first["temp"] >= 4 THEN 10 ELSE 0)

\* and the severity that has.
Trend(risk) == IF risk >= 70 THEN "critical"
               ELSE IF risk >= 40 THEN "warning" ELSE "info"

\* The trend of a history is just that.
LEMMA TrendOf ==
  ASSUME NEW first, NEW last
  PROVE  Drives!TrendFindings(first, last)
           = IF ~Worsening(first, last) THEN {}
             ELSE {Drives!Finding("trend", Trend(Risk(first, last)))}
  BY Zenon DEF Drives!TrendFindings, Worsening, Risk, Trend

\* The oldest row of the history.
FirstRow(first) ==
  /\ first["reallocated"] \in Nat /\ first["pending"] \in Nat
  /\ first["crc"] \in Nat /\ first["temp"] \in Nat

\* A later row that is worse adds no less risk.
LEMMA RiskGrows ==
  ASSUME NEW d, NEW e, WorseDrive(d, e), NEW first, FirstRow(first)
  PROVE  /\ Worsening(first, d) => Worsening(first, e)
         /\ Risk(first, d) \in Int /\ Risk(first, e) \in Int
         /\ Risk(first, d) <= Risk(first, e)
  <1>1. /\ d.reallocated \in Nat /\ e.reallocated \in Nat
        /\ d.reallocated <= e.reallocated
        /\ d.pending \in Nat /\ e.pending \in Nat /\ d.pending <= e.pending
        /\ d.crc \in Nat /\ e.crc \in Nat /\ d.crc <= e.crc
        /\ d.temp \in Nat /\ e.temp \in Nat /\ d.temp <= e.temp
    BY DEF WorseDrive, Read
  <1>2. /\ d["reallocated"] \in Nat /\ e["reallocated"] \in Nat
        /\ d["reallocated"] <= e["reallocated"]
        /\ d["pending"] \in Nat /\ e["pending"] \in Nat
        /\ d["pending"] <= e["pending"]
        /\ d["crc"] \in Nat /\ e["crc"] \in Nat /\ d["crc"] <= e["crc"]
        /\ d["temp"] \in Nat /\ e["temp"] \in Nat /\ d["temp"] <= e["temp"]
    BY <1>1
  <1> DEFINE A(x) == IF x.pending > 0 THEN 40 ELSE 0
             B(x) == IF x["pending"] - first["pending"] > 0 THEN 25 ELSE 0
             C(x) == IF x["reallocated"] - first["reallocated"] > 0
                       THEN Drives!Capped(x["reallocated"]
                                            - first["reallocated"], 20)
                       ELSE 0
             D(x) == IF x["crc"] - first["crc"] > 5 THEN 10 ELSE 0
             E(x) == IF x.temp >= 50 THEN 15 ELSE IF x.temp >= 45 THEN 8 ELSE 0
             F(x) == IF x["temp"] - first["temp"] >= 4 THEN 10 ELSE 0
  <1>3. /\ first["reallocated"] \in Nat /\ first["pending"] \in Nat
        /\ first["crc"] \in Nat /\ first["temp"] \in Nat
    BY DEF FirstRow
  <1>4. A(d) \in Int /\ A(e) \in Int /\ A(d) <= A(e)
    BY <1>1
  <1>5. B(d) \in Int /\ B(e) \in Int /\ B(d) <= B(e)
    BY <1>2, <1>3
  <1>6. C(d) \in Int /\ C(e) \in Int /\ C(d) <= C(e)
    BY <1>2, <1>3 DEF Drives!Capped
  <1>7. D(d) \in Int /\ D(e) \in Int /\ D(d) <= D(e)
    BY <1>2, <1>3
  <1>8. E(d) \in Int /\ E(e) \in Int /\ E(d) <= E(e)
    BY <1>1
  <1>9. F(d) \in Int /\ F(e) \in Int /\ F(d) <= F(e)
    BY <1>2, <1>3
  <1>10. \A x : Risk(first, x) = A(x) + B(x) + C(x) + D(x) + E(x) + F(x)
    BY Zenon DEF Risk
  <1>11. Worsening(first, d) => Worsening(first, e)
    BY <1>1, <1>2, <1>3 DEF Worsening
  <1> HIDE DEF A, B, C, D, E, F
  <1> QED
    BY <1>4, <1>5, <1>6, <1>7, <1>8, <1>9, <1>10, <1>11

\* The finding of the trend gets no milder.
LEMMA TrendCovered ==
  ASSUME NEW d, NEW e, WorseDrive(d, e), NEW first, FirstRow(first)
  PROVE  Covered(Drives!TrendFindings(first, d),
                 Drives!TrendFindings(first, e))
  <1> DEFINE T(x) == Trend(Risk(first, x))
  <1>1. /\ Worsening(first, d) => Worsening(first, e)
        /\ Risk(first, d) \in Int /\ Risk(first, e) \in Int
        /\ Risk(first, d) <= Risk(first, e)
    BY RiskGrows
  <1>2. Drives!Rank(T(d)) <= Drives!Rank(T(e))
    BY <1>1, SeverityRanks DEF Trend
  <1>3. \A sev : Drives!Finding("trend", sev).sev = sev
    BY DEF Drives!Finding
  <1> HIDE DEF T
  <1>4. \A x : Drives!TrendFindings(first, x)
           = IF ~Worsening(first, x) THEN {}
             ELSE {Drives!Finding("trend", T(x))}
    BY TrendOf, Zenon DEF T
  <1> QED
    BY <1>1, <1>2, <1>3, <1>4, Zenon DEF Covered

\* All findings about a drive.
LEMMA FindingsCovered ==
  ASSUME NEW d, NEW e, WorseDrive(d, e), FirstRow(Drives!First)
  PROVE  Covered(Drives!Findings(d), Drives!Findings(e))
  <1>1. Covered(Drives!AnalyzeSMART(d), Drives!AnalyzeSMART(e))
    BY SMARTCovered
  <1>2. Covered(Drives!AnalyzeThermal(d), Drives!AnalyzeThermal(e))
    BY TiersNoMilder, RatedCovered, Zenon DEF Drives!AnalyzeThermal
  <1>3. Covered(Drives!TrendFindings(Drives!First, d),
                Drives!TrendFindings(Drives!First, e))
    BY TrendCovered
  <1> QED
    BY <1>1, <1>2, <1>3, CoveredUnion, Zenon DEF Drives!Findings

\* What is critical of a drive, command timeouts apart, the planner sees.
LEMMA CriticalIsSeen ==
  ASSUME NEW d, Read(d), FirstRow(Drives!First),
         NEW f \in Drives!Findings(d), f.sev = "critical",
         f.rule # "timeout"
  PROVE  Drives!Urgency(d) # "healthy"
  <1> DEFINE re == Drives!GetReallocatedTier(d.reallocated)
             pe == Drives!GetPendingTier(d.pending)
             cr == Drives!GetCRCTier(d.crc)
             te == Drives!GetTempTier(d.temp)
             ag == Drives!GetAgeTier(d.hours)
             score == Drives!HealthScore(d)
             mult == Drives!FailureMult(d)
  <1>1. WorseDrive(d, d)
    BY DEF WorseDrive, Read
  <1>2. score \in Int /\ mult \in Nat
    BY <1>1, ScoreFalls, MultGrows
  <1>3. ~d.passed \/ score < 50 \/ mult >= 80 => Drives!Urgency(d) # "healthy"
    BY <1>2, UrgencyIs DEF Now, Soon, Watch
  <1>4. /\ Self(d) \in Nat /\ 1 <= Self(d)
        /\ ByReallocated(d) \in Nat /\ 2 <= ByReallocated(d)
        /\ re.mult <= ByReallocated(d)
        /\ ByPending(d) \in Nat /\ 1 <= ByPending(d)
        /\ pe.mult <= ByPending(d)
        /\ ByTemp(d) \in Nat /\ 2 <= ByTemp(d) /\ te.mult <= ByTemp(d)
        /\ ByAge(d) \in Nat /\ 10 <= ByAge(d)
    BY <1>1, FactorsGrow, Zenon
  <1>5. mult = Self(d) * ByReallocated(d) * ByPending(d) * ByTemp(d) * ByAge(d)
    BY MultOf
  <1> HIDE DEF score, mult
  <1>6. re.sev = "critical" => mult >= 80
    <2>1. SUFFICES ASSUME re.sev = "critical" PROVE mult >= 80
      OBVIOUS
    <2>2. re.mult >= 16 /\ re.mult \in Nat
      BY <2>1, ReallocatedTable DEF Read
    <2>3. 16 <= ByReallocated(d)
      BY <1>4, <2>2
    <2>4. 1 * 16 * 1 * 2 * 10 <= mult
      BY <1>4, <1>5, <2>3, FiveFactors
    <2> QED
      BY <1>2, <2>4
  <1>7. d.pending > 0 => mult >= 80
    <2>1. SUFFICES ASSUME d.pending > 0 PROVE mult >= 80
      OBVIOUS
    <2>2. pe.mult >= 4 /\ pe.mult \in Nat
      BY <2>1, PendingTable DEF Read
    <2>3. 4 <= ByPending(d)
      BY <1>4, <2>2
    <2>4. 1 * 2 * 4 * 2 * 10 <= mult
      BY <1>4, <1>5, <2>3, FiveFactors
    <2> QED
      BY <1>2, <2>4
  <1>8. te.sev = "critical" => mult >= 80
    <2>1. SUFFICES ASSUME te.sev = "critical" PROVE mult >= 80
      OBVIOUS
    <2>2. te.mult >= 10 /\ te.mult \in Nat
      BY <2>1, TempTable, SMT DEF Read
    <2>3. 10 <= ByTemp(d)
      BY <1>4, <2>2
    <2>4. 1 * 2 * 1 * 10 * 10 <= mult
      BY <1>4, <1>5, <2>3, FiveFactors
    <2> QED
      BY <1>2, <2>4
  <1>9. pe.sev = "critical" => d.pending > 0
    BY PendingTable DEF Read
  <1>10. cr.sev # "critical" /\ ag.sev # "critical"
    BY CRCTable, AgeTable, SMT DEF Read
  <1>11. Trend(Risk(Drives!First, d)) = "critical" => d.pending > 0
    <2>1. SUFFICES ASSUME ~ (d.pending > 0)
                   PROVE  Risk(Drives!First, d) < 70
      BY SMT DEF Trend, Risk, Read, FirstRow, Drives!Capped
    <2> QED
      BY <2>1, SMT DEF Risk, Read, FirstRow, Drives!Capped
  <1>12. \A rule, sev : /\ Drives!Finding(rule, sev).rule = rule
                        /\ Drives!Finding(rule, sev).sev = sev
    BY DEF Drives!Finding
  <1>13. ASSUME NEW rule, NEW t, f \in Drives!Rated(rule, t)
         PROVE  t.sev = "critical" /\ f.rule = rule
    <2>1. f = Drives!Finding(rule, t.sev)
      BY <1>13, Zenon DEF Drives!Rated
    <2> QED
      BY <1>12, <2>1, Zenon
  <1> HIDE DEF re, pe, cr, te, ag
  <1>14. CASE f \in Drives!AnalyzeSMART(d)
    <2>1. f # Drives!Finding("unavailable", "warning")
      BY <1>12, SMT
    <2>2. \/ ~d.passed \/ Drives!HealthScore(d) < 50
          \/ f \in Drives!Rated("reallocated", re)
          \/ f \in Drives!Rated("pending", pe)
          \/ f \in Drives!Rated("crc", cr)
          \/ f \in Drives!Rated("timeout", Drives!GetCmdTimeoutTier(d.timeout))
          \/ f \in Drives!Rated("age", ag)
      BY <1>14, <2>1, Zenon DEF Drives!AnalyzeSMART, re, pe, cr, ag
    <2> QED
      BY <1>3, <1>6, <1>7, <1>9, <1>10, <1>13, <2>2, Zenon DEF score
  <1>15. CASE f \in Drives!AnalyzeThermal(d)
    BY <1>3, <1>8, <1>13, <1>15, Zenon DEF Drives!AnalyzeThermal, te
  <1>16. CASE f \in Drives!TrendFindings(Drives!First, d)
    <2>1. /\ Worsening(Drives!First, d)
          /\ f = Drives!Finding("trend", Trend(Risk(Drives!First, d)))
      BY <1>16, TrendOf, Zenon
    <2> QED
      BY <1>3, <1>7, <1>11, <1>12, <2>1, Zenon
  <1> QED
    BY <1>14, <1>15, <1>16, Zenon DEF Drives!Findings

-----------------------------------------------------------------------------
(* Reading a drive that wears.                                             *)

\* What the proof needs to know of a state.
DriveTypes ==
  /\ drive.level \in [Drives!Attributes -> Nat]
  /\ \A a \in Drives!Attributes : drive.level[a] \in DOMAIN WearLevels[a]
  /\ drive.assessment \in {"passed", "absent", "failed"}
  /\ drive \in [level : [Drives!Attributes -> Nat], kind : Drives!Kinds,
                assessment : {"passed", "absent", "failed"}]
  /\ output \in {"json", "text"}

\* A later level of an attribute is no lower.
LEMMA LevelsRise ==
  ASSUME Drives!DrivesAssumption, NEW a \in Drives!Attributes
  PROVE  /\ DOMAIN WearLevels[a] \subseteq Nat \ {0}
         /\ 1 \in DOMAIN WearLevels[a]
         /\ \A i \in DOMAIN WearLevels[a] : WearLevels[a][i] \in Nat
         /\ \A i, j \in DOMAIN WearLevels[a] :
              i <= j => WearLevels[a][i] <= WearLevels[a][j]
  <1> DEFINE s == WearLevels[a]
  <1>1. s \in Seq(Nat) /\ s # <<>>
        /\ \A i, j \in DOMAIN s : i <= j => s[i] <= s[j]
    BY DEF Drives!DrivesAssumption
  <1> HIDE DEF s
  <1>2. /\ DOMAIN s \subseteq Nat \ {0} /\ 1 \in DOMAIN s
        /\ \A i \in DOMAIN s : s[i] \in Nat
    BY <1>1
  <1> QED
    BY <1>1, <1>2 DEF s

\* The oldest row is a reading,
LEMMA FirstRowRead ==
  ASSUME Drives!DrivesAssumption
  PROVE  FirstRow(Drives!First)
  <1>1. \A a \in Drives!Attributes : WearLevels[a][1] \in Nat
    BY LevelsRise
  <1>2. /\ "reallocated" \in Drives!Attributes
        /\ "pending" \in Drives!Attributes
        /\ "crc" \in Drives!Attributes /\ "temp" \in Drives!Attributes
    BY DEF Drives!Attributes
  <1> QED
    BY <1>1, <1>2 DEF Drives!First, FirstRow

\* and so are the values of the drive now.
LEMMA ValuesRead ==
  ASSUME Drives!DrivesAssumption, DriveTypes, NEW a \in Drives!Attributes
  PROVE  Drives!Value(a) \in Nat
  BY LevelsRise DEF DriveTypes, Drives!Value

\* What is read of a drive.
LEMMA InfoFields ==
  /\ Drives!info.reallocated = Drives!Value("reallocated")
  /\ Drives!info.pending = Drives!Value("pending")
  /\ Drives!info.crc = Drives!Value("crc")
  /\ Drives!info.timeout = Drives!Value("timeout")
  /\ Drives!info.temp = Drives!Value("temp")
  /\ Drives!info.hours = Drives!Value("hours")
  /\ Drives!info.passed = (\/ drive.assessment = "passed"
                           \/ drive.assessment = "absent" /\ output = "json")
  /\ Drives!info.available = (/\ output = "json"
                              /\ \/ Drives!Value("temp") > 0
                                 \/ Drives!Value("hours") > 0)
  /\ Drives!info.flash = Drives!IsFlash(output)
  BY Zenon DEF Drives!info, Drives!Parsed

\* Nothing but the six attributes wears.
LEMMA SixAttributes ==
  /\ "reallocated" \in Drives!Attributes /\ "pending" \in Drives!Attributes
  /\ "crc" \in Drives!Attributes /\ "timeout" \in Drives!Attributes
  /\ "temp" \in Drives!Attributes /\ "hours" \in Drives!Attributes
  BY DEF Drives!Attributes

\* What is read of it is a reading.
LEMMA InfoRead ==
  ASSUME Drives!DrivesAssumption, DriveTypes
  PROVE  Read(Drives!info)
  <1>1. \A a \in Drives!Attributes : Drives!Value(a) \in Nat
    BY ValuesRead
  <1>2. /\ Drives!info.passed \in BOOLEAN /\ Drives!info.available \in BOOLEAN
        /\ Drives!info.flash \in BOOLEAN
    BY InfoFields, Zenon DEF DriveTypes, Drives!IsFlash
  <1> QED
    BY <1>1, <1>2, InfoFields, SixAttributes, Zenon DEF Read

\* A drive that was read has a temperature, or has been on, from then on.
LEMMA StaysReadable ==
  ASSUME Drives!DrivesAssumption, DriveTypes
  PROVE  Drives!Value("temp") > 0 \/ Drives!Value("hours") > 0
  <1>1. ASSUME NEW a \in Drives!Attributes, WearLevels[a][1] > 0
        PROVE  Drives!Value(a) > 0
    <2>1. /\ drive.level[a] \in DOMAIN WearLevels[a]
          /\ 1 \in DOMAIN WearLevels[a] /\ 1 <= drive.level[a]
          /\ WearLevels[a][1] \in Nat
          /\ WearLevels[a][drive.level[a]] \in Nat
      BY LevelsRise DEF DriveTypes
    <2>2. WearLevels[a][1] <= WearLevels[a][drive.level[a]]
      BY <2>1, LevelsRise
    <2> QED
      BY <1>1, <2>1, <2>2 DEF Drives!Value
  <1> QED
    BY <1>1, SixAttributes DEF Drives!DrivesAssumption

\* The types hold in the beginning.
LEMMA DriveInit ==
  ASSUME Drives!DrivesAssumption, Drives!Init
  PROVE  DriveTypes
  <1>1. \A a \in Drives!Attributes : 1 \in DOMAIN WearLevels[a]
    BY LevelsRise
  <1>2. /\ drive.level = [a \in Drives!Attributes |-> 1]
        /\ drive.assessment \in {"passed", "absent"}
        /\ drive \in [level : [Drives!Attributes -> Nat], kind : Drives!Kinds,
                      assessment : {"passed", "absent", "failed"}]
        /\ output \in {"json", "text"}
    BY DEF Drives!Init, Drives!DrivesAssumption
  <1> QED
    BY <1>1, <1>2 DEF DriveTypes

\* An attribute that wears makes a worse drive,
LEMMA DriveWears ==
  ASSUME Drives!DrivesAssumption, DriveTypes, NEW a \in Drives!Attributes,
         Drives!Wear(a)
  PROVE  /\ DriveTypes'
         /\ \A b \in Drives!Attributes :
              Drives!Value(b) <= Drives!Value(b)'
         /\ drive'.assessment = drive.assessment
         /\ drive'.kind = drive.kind /\ output' = output
  <1> DEFINE l == [drive.level EXCEPT ![a] = @ + 1]
  <1>1. /\ drive' = [drive EXCEPT !.level = l] /\ output' = output
        /\ drive.level[a] + 1 \in DOMAIN WearLevels[a]
    BY DEF Drives!Wear
  <1>2. drive.level[a] \in Nat
    BY DEF DriveTypes
  <1>3. /\ l \in [Drives!Attributes -> Nat] /\ l[a] = drive.level[a] + 1
        /\ \A b \in Drives!Attributes : b # a => l[b] = drive.level[b]
    BY <1>2 DEF DriveTypes
  <1> HIDE DEF l
  <1>4. /\ drive'.level = l /\ drive'.assessment = drive.assessment
        /\ drive'.kind = drive.kind
        /\ drive' \in [level : [Drives!Attributes -> Nat],
                       kind : Drives!Kinds,
                       assessment : {"passed", "absent", "failed"}]
    BY <1>1, <1>3 DEF DriveTypes
  <1>5. \A b \in Drives!Attributes : l[b] \in DOMAIN WearLevels[b]
    BY <1>1, <1>3 DEF DriveTypes
  <1>6. DriveTypes'
    BY <1>1, <1>3, <1>4, <1>5 DEF DriveTypes
  <1>7. ASSUME NEW b \in Drives!Attributes
        PROVE  Drives!Value(b) <= Drives!Value(b)'
    <2>1. /\ Drives!Value(b) = WearLevels[b][drive.level[b]]
          /\ Drives!Value(b)' = WearLevels[b][l[b]]
      BY <1>4 DEF Drives!Value
    <2>2. /\ drive.level[b] \in DOMAIN WearLevels[b]
          /\ l[b] \in DOMAIN WearLevels[b]
          /\ drive.level[b] <= l[b]
      <3>1. drive.level[b] \in DOMAIN WearLevels[b] /\ drive.level[b] \in Nat
        BY DEF DriveTypes
      <3>2. l[b] = drive.level[b] \/ l[b] = drive.level[b] + 1
        BY <1>3
      <3>3. drive.level[b] <= l[b]
        BY <3>1, <3>2
      <3> QED
        BY <1>5, <3>1, <3>3, Zenon
    <2> QED
      BY <2>1, <2>2, LevelsRise
  <1> QED
    BY <1>1, <1>4, <1>6, <1>7

\* and so does a failed self-assessment.
LEMMA DriveFails ==
  ASSUME DriveTypes, Drives!Fail
  PROVE  /\ DriveTypes' /\ drive'.level = drive.level
         /\ drive.assessment = "passed" /\ drive'.assessment = "failed"
         /\ drive'.kind = drive.kind /\ output' = output
  BY DEF DriveTypes, Drives!Fail

\* Every step does.
LEMMA DriveStep ==
  ASSUME Drives!DrivesAssumption, DriveTypes, Drives!Next
  PROVE  DriveTypes' /\ WorseDrive(Drives!info, Drives!info')
  <1>1. /\ DriveTypes' /\ drive'.kind = drive.kind /\ output' = output
        /\ \A b \in Drives!Attributes : Drives!Value(b) <= Drives!Value(b)'
        /\ \/ drive'.assessment = drive.assessment
           \/ drive.assessment = "passed" /\ drive'.assessment = "failed"
    <2>1. CASE Drives!Fail
      <3>1. /\ DriveTypes' /\ drive'.level = drive.level
            /\ drive.assessment = "passed" /\ drive'.assessment = "failed"
            /\ drive'.kind = drive.kind /\ output' = output
        BY <2>1, DriveFails
      <3>2. ASSUME NEW b \in Drives!Attributes
            PROVE  Drives!Value(b) <= Drives!Value(b)'
        <4>1. Drives!Value(b)' = Drives!Value(b)
          BY <3>1 DEF Drives!Value
        <4> QED
          BY <4>1, ValuesRead
      <3> QED
        BY <3>1, <3>2
    <2>2. CASE \E a \in Drives!Attributes : Drives!Wear(a)
      BY <2>2, DriveWears
    <2> QED
      BY <2>1, <2>2 DEF Drives!Next
  <1>2. Read(Drives!info)
    BY InfoRead
  <1>3. /\ \A b \in Drives!Attributes : Drives!Value(b)' \in Nat
        /\ Drives!Value("temp") > 0 \/ Drives!Value("hours") > 0
        /\ \A b \in Drives!Attributes : Drives!Value(b) \in Nat
    <2>1. ASSUME NEW b \in Drives!Attributes
          PROVE  Drives!Value(b)' \in Nat
      <3>1. drive'.level[b] \in DOMAIN WearLevels[b]
        BY <1>1 DEF DriveTypes
      <3> QED
        BY <3>1, LevelsRise DEF Drives!Value
    <2> QED
      BY <2>1, StaysReadable, ValuesRead
  <1>4. Drives!Value("temp")' > 0 \/ Drives!Value("hours")' > 0
    BY <1>1, <1>3, SixAttributes
  <1>5. /\ drive'.assessment \in {"passed", "absent", "failed"}
        /\ output \in {"json", "text"}
        /\ output' = output
    BY <1>1 DEF DriveTypes
  <1> DEFINE d == Drives!info
             e == Drives!info'
  <1>6. /\ e.reallocated = Drives!Value("reallocated")'
        /\ e.pending = Drives!Value("pending")'
        /\ e.crc = Drives!Value("crc")'
        /\ e.timeout = Drives!Value("timeout")'
        /\ e.temp = Drives!Value("temp")'
        /\ e.hours = Drives!Value("hours")'
        /\ e.passed = (\/ drive'.assessment = "passed"
                       \/ drive'.assessment = "absent" /\ output' = "json")
        /\ e.available = (/\ output' = "json"
                          /\ \/ Drives!Value("temp")' > 0
                             \/ Drives!Value("hours")' > 0)
        /\ e.flash = Drives!IsFlash(output)'
    BY Zenon DEF Drives!info, Drives!Parsed
  <1> HIDE DEF d, e
  <1>7. Read(e)
    <2>1. /\ e.passed \in BOOLEAN /\ e.available \in BOOLEAN
          /\ e.flash \in BOOLEAN
      BY <1>5, <1>6, Zenon DEF Drives!IsFlash
    <2> QED
      BY <1>3, <1>6, <2>1, SixAttributes, Zenon DEF Read
  <1>8. e.available = d.available
    <2>1. e.available = (output = "json")
      BY <1>4, <1>5, <1>6, Zenon
    <2>2. d.available = (output = "json")
      BY <1>3, InfoFields, Zenon DEF d
    <2> QED
      BY <2>1, <2>2
  <1>9. /\ e.passed => d.passed
        /\ e.flash = d.flash
    BY <1>1, <1>5, <1>6, InfoFields, Zenon DEF d, Drives!IsFlash
  <1>10. /\ d.reallocated <= e.reallocated /\ d.pending <= e.pending
         /\ d.crc <= e.crc /\ d.timeout <= e.timeout
         /\ d.temp <= e.temp /\ d.hours <= e.hours
    BY <1>1, <1>6, InfoFields, SixAttributes, Zenon DEF d
  <1>11. WorseDrive(d, e)
    BY <1>2, <1>7, <1>8, <1>9, <1>10, Zenon DEF WorseDrive, d
  <1> QED
    BY <1>1, <1>11 DEF d, e

\* For any values an attribute goes through: a drive that wears is never rated
\* less severe, nor less urgent, nor healthier, by thirteen tables and formulas
\* of analyzer.go, backblaze_thresholds.go and replacement.go; and what has a
\* critical finding the planner does not call healthy.
THEOREM RatedAlike ==
  ASSUME Drives!DrivesAssumption
  PROVE  Drives!Spec => DrivesRatedAlike
  <1>1. Drives!Init => DriveTypes
    BY DriveInit
  <1>2. DriveTypes /\ [Drives!Next]_(Drives!vars) => DriveTypes'
    <2>1. ASSUME DriveTypes, Drives!Next
          PROVE  DriveTypes'
      BY <2>1, DriveStep
    <2>2. ASSUME DriveTypes, UNCHANGED Drives!vars
          PROVE  DriveTypes'
      BY <2>2 DEF Drives!vars, DriveTypes
    <2> QED
      BY <2>1, <2>2
  <1>3. DriveTypes => Drives!CriticalIsPlanned
    BY CriticalIsSeen, InfoRead, FirstRowRead, Zenon
    DEF Drives!CriticalIsPlanned
  <1>4. DriveTypes /\ [Drives!Next]_(Drives!vars)
          => [Drives!NoBetter]_(Drives!vars)
    <2>1. ASSUME DriveTypes, Drives!Next
          PROVE  Drives!NoBetter
      <3>1. WorseDrive(Drives!info, Drives!info')
        BY <2>1, DriveStep
      <3>2. ASSUME NEW n \in 1 .. 3, Drives!AtLeast(Drives!info, n)
            PROVE  Drives!AtLeast(Drives!info', n)
        <4>1. PICK f \in Drives!Findings(Drives!info) : Drives!Rank(f.sev) >= n
          BY <3>2 DEF Drives!AtLeast
        <4>2. PICK g \in Drives!Findings(Drives!info') :
                Drives!Rank(f.sev) <= Drives!Rank(g.sev)
          BY <3>1, FindingsCovered, FirstRowRead, Zenon DEF Covered
        <4>3. \A s : Drives!Rank(s) \in 0 .. 3
          BY DEF Drives!Rank
        <4>4. Drives!Rank(g.sev) >= n
          BY <4>1, <4>2, <4>3
        <4> QED
          BY <4>4 DEF Drives!AtLeast
      <3> QED
        BY <3>1, <3>2, ScoreFalls, MoreUrgent DEF Drives!NoBetter
    <2> QED
      BY <2>1
  <1> QED
    BY <1>1, <1>2, <1>3, <1>4, PTL
    DEF Drives!Spec, DrivesRatedAlike, Drives!DrivesRatedAlike

-----------------------------------------------------------------------------
(* The two stores.                                                         *)

\* A set of naturals below a bound that is not empty has a greatest one.
LEMMA GreatestNatural ==
  ASSUME NEW n \in Nat, NEW S, S \subseteq 0 .. n, S # {}
  PROVE  \E x \in S : \A y \in S : x >= y
  <1> DEFINE T == {n - x : x \in S}
  <1>1. T \subseteq Nat /\ T # {}
    <2>1. PICK x : x \in S
      OBVIOUS
    <2>2. n - x \in T
      BY <2>1
    <2>3. \A y \in S : n - y \in Nat
      OBVIOUS
    <2> QED
      BY <2>2, <2>3
  <1>2. PICK t \in T : \A u \in T : t <= u
    <2> HIDE DEF T
    <2> QED
      BY <1>1, LeastNatural
  <1>3. PICK x \in S : t = n - x
    OBVIOUS
  <1>4. ASSUME NEW y \in S
        PROVE  x >= y
    <2>1. n - y \in T
      OBVIOUS
    <2>2. t <= n - y
      <3> HIDE DEF T
      <3> QED
        BY <1>2, <2>1
    <2>3. x \in 0 .. n /\ y \in 0 .. n
      OBVIOUS
    <2> QED
      BY <1>3, <2>2, <2>3
  <1> QED
    BY <1>4

\* A row, as a call saves it.
SavedRow(r) == /\ DOMAIN r = {"id", "key", "at", "kind"}
               /\ r.id \in Nat /\ r.at \in Nat

\* The double's slice holds the database's rows, each at the place that is its
\* id.
SameRows ==
  /\ Store!Slice \subseteq 1 .. fake.next - 1
  /\ \A i \in Store!Slice : SavedRow(fake.rows[i]) /\ fake.rows[i].id = i
  /\ sqlite.rows = {fake.rows[i] : i \in Store!Slice}

\* Both count alike, and have the same samples and answers.
SameRest ==
  /\ DOMAIN sqlite = {"rows", "next", "samples", "said"}
  /\ DOMAIN fake = {"rows", "next", "samples", "said"}
  /\ fake.next = sqlite.next /\ fake.next \in Nat \ {0}
  /\ fake.samples = sqlite.samples /\ fake.samples \subseteq Nat \X Nat
  /\ fake.said = sqlite.said
  /\ time \in Nat \ {0}

StoreIInv == SameRows /\ SameRest

-----------------------------------------------------------------------------
\* Both stores start empty.
LEMMA StoreInit ==
  ASSUME Store!Init
  PROVE  StoreIInv
  <1>1. fake.rows = <<>> /\ Store!Slice = {}
    BY DEF Store!Init, Store!Slice
  <1> QED
    BY <1>1 DEF Store!Init, StoreIInv, SameRows, SameRest

\* The row at a place is the row with that id.
LEMMA RowsByPlace ==
  ASSUME SameRows, SameRest
  PROVE  /\ \A r \in sqlite.rows :
              SavedRow(r) /\ r.id \in Store!Slice /\ fake.rows[r.id] = r
         /\ \A i \in Store!Slice :
              /\ i \in Nat /\ i < fake.next /\ i > 0
              /\ fake.rows[i] \in sqlite.rows
              /\ SavedRow(fake.rows[i]) /\ fake.rows[i].id = i
  <1>1. ASSUME NEW r \in sqlite.rows
        PROVE  SavedRow(r) /\ r.id \in Store!Slice /\ fake.rows[r.id] = r
    <2>1. PICK i \in Store!Slice : r = fake.rows[i]
      BY DEF SameRows
    <2> QED
      BY <2>1 DEF SameRows
  <1>2. \A i \in Store!Slice : i \in Nat /\ i < fake.next /\ i > 0
    BY DEF SameRows, SameRest
  <1> QED
    BY <1>1, <1>2 DEF SameRows

\* What the EXCEPTs of the calls change.
LEMMA StoreUpdated ==
  ASSUME NEW s, DOMAIN s = {"rows", "next", "samples", "said"},
         NEW rows, NEW next, NEW sized, NEW said, NEW t
  PROVE  /\ t = [s EXCEPT !.rows = rows, !.next = next, !.said = said] =>
              /\ DOMAIN t = DOMAIN s /\ t.rows = rows /\ t.next = next
              /\ t.samples = s.samples /\ t.said = said
         /\ t = [s EXCEPT !.rows = rows, !.said = said, !.samples = sized] =>
              /\ DOMAIN t = DOMAIN s /\ t.rows = rows /\ t.next = s.next
              /\ t.samples = sized /\ t.said = said
         /\ t = [s EXCEPT !.rows = rows, !.said = said] =>
              /\ DOMAIN t = DOMAIN s /\ t.rows = rows /\ t.next = s.next
              /\ t.samples = s.samples /\ t.said = said
         /\ t = [s EXCEPT !.samples = sized, !.said = said] =>
              /\ DOMAIN t = DOMAIN s /\ t.rows = s.rows /\ t.next = s.next
              /\ t.samples = sized /\ t.said = said
         /\ t = [s EXCEPT !.said = said] =>
              /\ DOMAIN t = DOMAIN s /\ t.rows = s.rows /\ t.next = s.next
              /\ t.samples = s.samples /\ t.said = said
  OBVIOUS

\* Whatever the table, rows are dated by the clock.
LEMMA DatesAreTimes ==
  ASSUME StoreIInv, NEW at \in Store!Dates
  PROVE  at \in Nat
  <1>1. time \in Nat \ {0}
    BY DEF StoreIInv, SameRest
  <1>2. CASE area \in {"log", "processes"}
    BY <1>1, <1>2, Zenon DEF Store!Dates
  <1>3. CASE area = "snapshots"
    BY <1>1, <1>3 DEF Store!Dates
  <1>4. CASE area \notin {"log", "processes", "snapshots"}
    BY <1>1, <1>4 DEF Store!Dates
  <1> QED
    BY <1>2, <1>3, <1>4

\* A saving call appends at the next ids, which are the next places.
LEMMA SaveKeepsStores ==
  ASSUME StoreIInv, Store!Save
  PROVE  StoreIInv'
  <1>1. PICK keys \in Store!Batches, kind \in Store!Kinds, at \in Store!Dates :
          /\ sqlite' = Store!SqliteSave(keys, at, kind)
          /\ fake' = Store!FakeSave(keys, at, kind)
          /\ UNCHANGED <<area, time>>
    BY Zenon DEF Store!Save
  <1>2. /\ sqlite' = Store!SqliteSave(keys, at, kind)
        /\ fake' = Store!FakeSave(keys, at, kind)
        /\ area' = area /\ time' = time
    BY <1>1
  <1>3. /\ Len(keys) \in {1, 2} /\ DOMAIN keys = 1 .. Len(keys)
        /\ Len(keys) = 1 => DOMAIN keys = {1}
        /\ Len(keys) = 2 => DOMAIN keys = {1, 2}
    BY DEF Store!Batches
  <1>4. at \in Nat
    BY DatesAreTimes
  <1> DEFINE n == fake.next
             fresh == n .. n + Len(keys) - 1
             new(i) == Store!Row(i, keys[i - n + 1], at, kind)
             f == [i \in Store!Slice \cup fresh |->
                     IF i \in Store!Slice THEN fake.rows[i] ELSE new(i)]
  <1>5. /\ fake'.rows = f /\ fake'.next = n + Len(keys)
        /\ fake'.samples = fake.samples /\ fake'.said = "ok"
        /\ DOMAIN fake' = DOMAIN fake
    <2>1. fake' = [fake EXCEPT !.rows = f, !.next = n + Len(keys),
                               !.said = "ok"]
      BY <1>2, Zenon DEF Store!FakeSave
    <2> HIDE DEF f, n
    <2> QED
      BY <2>1, StoreUpdated DEF StoreIInv, SameRest
  <1> DEFINE added == {Store!Row(n + i - 1, keys[i], at, kind) :
                         i \in DOMAIN keys}
  <1>6. /\ sqlite'.rows = sqlite.rows \cup added
        /\ sqlite'.next = n + Len(keys)
        /\ sqlite'.samples = sqlite.samples /\ sqlite'.said = "ok"
        /\ DOMAIN sqlite' = DOMAIN sqlite
    <2>1. n = sqlite.next
      BY DEF StoreIInv, SameRest
    <2>2. sqlite' = [sqlite EXCEPT !.rows = sqlite.rows \cup added,
                                   !.next = n + Len(keys), !.said = "ok"]
      <3> HIDE DEF n
      <3> QED
        BY <1>2, <2>1, Zenon DEF Store!SqliteSave
    <2> HIDE DEF added, n
    <2> QED
      BY <2>2, StoreUpdated DEF StoreIInv, SameRest
  <1>7. Store!Slice' = Store!Slice \cup fresh
    BY <1>5 DEF Store!Slice
  <1>8. n \in Nat \ {0} /\ Store!Slice \subseteq 1 .. n - 1
    BY DEF StoreIInv, SameRest, SameRows
  <1>9. \A i \in Store!Slice : i \notin fresh /\ f[i] = fake.rows[i]
    BY <1>8
  <1>10. \A i \in fresh : i \notin Store!Slice /\ f[i] = new(i)
    BY <1>8
  <1>11. \A i \in fresh : /\ SavedRow(new(i)) /\ new(i).id = i
                        /\ new(i).at = at /\ new(i).key = keys[i - n + 1]
    BY <1>4, <1>8 DEF SavedRow, Store!Row
  <1>12. added = {new(i) : i \in fresh}
    <2>1. \A i \in DOMAIN keys :
            /\ n + i - 1 \in fresh
            /\ new(n + i - 1) = Store!Row(n + i - 1, keys[i], at, kind)
      <3> SUFFICES ASSUME NEW i \in DOMAIN keys
                   PROVE  /\ n + i - 1 \in fresh
                          /\ new(n + i - 1)
                               = Store!Row(n + i - 1, keys[i], at, kind)
        OBVIOUS
      <3>1. i \in 1 .. Len(keys) /\ (n + i - 1) - n + 1 = i
        BY <1>3, <1>8
      <3> QED
        BY <3>1, <1>8
    <2>2. \A j \in fresh : /\ j - n + 1 \in DOMAIN keys
                         /\ n + (j - n + 1) - 1 = j
      BY <1>3, <1>8
    <2> HIDE DEF fresh
    <2> QED
      BY <2>1, <2>2
  <1>13. SameRows'
    <2>1. Store!Slice' \subseteq 1 .. fake'.next - 1
      <3>1. PICK l \in {1, 2} : l = Len(keys)
        BY <1>3
      <3>2. \A i \in Store!Slice \cup (n .. n + l - 1) :
              i \in 1 .. (n + l) - 1
        <4> HIDE DEF n
        <4> QED
          BY <1>8
      <3> QED
        BY <1>5, <1>7, <3>1, <3>2
    <2>2. \A i \in Store!Slice' : SavedRow(f[i]) /\ f[i].id = i
      <3> HIDE DEF fresh, f, new
      <3> QED
        BY <1>7, <1>9, <1>10, <1>11 DEF StoreIInv, SameRows
    <2>3. sqlite'.rows = {f[i] : i \in Store!Slice'}
      <3>1. sqlite'.rows = {fake.rows[i] : i \in Store!Slice}
                             \cup {new(i) : i \in fresh}
        BY <1>6, <1>12 DEF StoreIInv, SameRows
      <3> HIDE DEF fresh, f, new
      <3> QED
        BY <3>1, <1>7, <1>9, <1>10
    <2> HIDE DEF fresh, f, new
    <2> QED
      BY <1>5, <2>1, <2>2, <2>3 DEF SameRows
  <1>14. SameRest'
    BY <1>2, <1>3, <1>5, <1>6, <1>8 DEF StoreIInv, SameRest
  <1> QED
    BY <1>13, <1>14 DEF StoreIInv

\* What is left when some places are emptied.
LEMMA FewerRows ==
  ASSUME StoreIInv, NEW kept, kept \subseteq Store!Slice,
         area' = area, time' = time,
         DOMAIN sqlite' = DOMAIN sqlite, DOMAIN fake' = DOMAIN fake,
         sqlite'.next = sqlite.next, fake'.next = fake.next,
         fake'.samples = sqlite'.samples, fake'.samples \subseteq fake.samples,
         fake'.said = sqlite'.said,
         fake'.rows = Store!Restrict(fake.rows, kept),
         sqlite'.rows = {fake.rows[i] : i \in kept}
  PROVE  StoreIInv'
  <1>1. Store!Slice' = kept /\ \A i \in kept : fake'.rows[i] = fake.rows[i]
    BY DEF Store!Slice, Store!Restrict
  <1>2. SameRows'
    <2>1. Store!Slice' \subseteq 1 .. fake'.next - 1
      BY <1>1 DEF StoreIInv, SameRows
    <2>2. \A i \in Store!Slice' :
            SavedRow(fake'.rows[i]) /\ fake'.rows[i].id = i
      BY <1>1 DEF StoreIInv, SameRows
    <2>3. sqlite'.rows = {fake'.rows[i] : i \in Store!Slice'}
      BY <1>1
    <2> QED
      BY <2>1, <2>2, <2>3 DEF SameRows
  <1>3. SameRest'
    BY DEF StoreIInv, SameRest
  <1> QED
    BY <1>2, <1>3 DEF StoreIInv

\* Both prune by the same ages and the same newest rows.
LEMMA PruneKeepsStores ==
  ASSUME StoreIInv, Store!Prune
  PROVE  StoreIInv'
  <1>1. PICK age \in PruneAges,
             keep \in IF area = "snapshots" THEN 0 .. 2 ELSE {0} :
          /\ sqlite' = Store!SqlitePrune(age, keep)
          /\ fake' = Store!FakePrune(age, keep)
    BY Zenon DEF Store!Prune
  <1>2. area' = area /\ time' = time
    BY DEF Store!Prune
  <1> DEFINE kept == Store!FakeKept(age, keep)
             left == {r \in sqlite.rows :
                        \/ r.at >= Store!Cutoff(age)
                        \/ r \in Store!Newest(sqlite.rows, keep)}
             ids == {r.id : r \in left}
             fakeLeft == {s \in fake.samples :
                            \E i \in kept : fake.rows[i].id = s[1]}
             sqliteLeft == {s \in sqlite.samples : s[1] \in ids}
  <1>3. /\ fake'.rows = Store!Restrict(fake.rows, kept)
        /\ fake'.next = fake.next /\ fake'.samples = fakeLeft
        /\ fake'.said = "ok" /\ DOMAIN fake' = DOMAIN fake
    <2>1. fake' = [fake EXCEPT !.rows = Store!Restrict(fake.rows, kept),
                               !.said = "ok", !.samples = fakeLeft]
      BY <1>1, Zenon DEF Store!FakePrune
    <2> HIDE DEF kept, fakeLeft
    <2> QED
      BY <2>1, StoreUpdated DEF StoreIInv, SameRest
  <1>4. /\ sqlite'.rows = left
        /\ sqlite'.next = sqlite.next /\ sqlite'.samples = sqliteLeft
        /\ sqlite'.said = "ok" /\ DOMAIN sqlite' = DOMAIN sqlite
    <2>1. sqlite' = [sqlite EXCEPT !.rows = left, !.said = "ok",
                                   !.samples = sqliteLeft]
      BY <1>1, Zenon DEF Store!SqlitePrune
    <2> HIDE DEF left, sqliteLeft
    <2> QED
      BY <2>1, StoreUpdated DEF StoreIInv, SameRest
  <1>5. Store!Range(fake.rows) = sqlite.rows
    BY DEF StoreIInv, SameRows, Store!Slice, Store!Range
  <1>6. kept = {i \in Store!Slice :
                  \/ fake.rows[i].at >= Store!Cutoff(age)
                  \/ fake.rows[i] \in Store!Newest(sqlite.rows, keep)}
    BY <1>5, Zenon DEF Store!FakeKept
  <1>7. left = {fake.rows[i] : i \in kept}
    <2> DEFINE Stays(r) == \/ r.at >= Store!Cutoff(age)
                           \/ r \in Store!Newest(sqlite.rows, keep)
    <2>1. sqlite.rows = {fake.rows[i] : i \in Store!Slice}
      BY DEF StoreIInv, SameRows
    <2>2. left = {r \in sqlite.rows : Stays(r)}
      OBVIOUS
    <2>3. kept = {i \in Store!Slice : Stays(fake.rows[i])}
      BY <1>6
    <2> HIDE DEF left, kept, Stays
    <2> QED
      BY <2>1, <2>2, <2>3
  <1>8. ids = {fake.rows[i].id : i \in kept}
    <2> HIDE DEF left, kept
    <2> QED
      BY <1>7
  <1>9. fakeLeft = sqliteLeft /\ fakeLeft \subseteq fake.samples
    <2>1. fake.samples = sqlite.samples
      BY DEF StoreIInv, SameRest
    <2> HIDE DEF kept, ids
    <2> QED
      BY <1>8, <2>1
  <1>10. kept \subseteq Store!Slice
    BY <1>6
  <1> HIDE DEF kept, left, fakeLeft, sqliteLeft
  <1> QED
    BY <1>2, <1>3, <1>4, <1>7, <1>9, <1>10, FewerRows

\* Both keep the rows of the same keys.
LEMMA ForgetKeepsStores ==
  ASSUME StoreIInv, Store!Forget
  PROVE  StoreIInv'
  <1>1. PICK names \in SUBSET RowKeys : Store!KeepKeys(names)
    BY DEF Store!Forget
  <1>2. area' = area /\ time' = time
    BY DEF Store!Forget
  <1> DEFINE kept == {i \in Store!Slice : fake.rows[i].key \in names}
             left == {r \in sqlite.rows : r.key \in names}
  <1>3. /\ fake' = [fake EXCEPT !.rows = Store!Restrict(fake.rows, kept),
                                !.said = "ok"]
        /\ sqlite' = [sqlite EXCEPT !.rows = left, !.said = "ok"]
    BY <1>1, Zenon DEF Store!KeepKeys
  <1>4. left = {fake.rows[i] : i \in kept} /\ kept \subseteq Store!Slice
    BY DEF StoreIInv, SameRows
  <1> HIDE DEF kept, left
  <1>5. /\ fake'.rows = Store!Restrict(fake.rows, kept)
        /\ fake'.next = fake.next /\ fake'.samples = fake.samples
        /\ fake'.said = "ok" /\ DOMAIN fake' = DOMAIN fake
    BY <1>3, StoreUpdated DEF StoreIInv, SameRest
  <1>6. /\ sqlite'.rows = left
        /\ sqlite'.next = sqlite.next /\ sqlite'.samples = sqlite.samples
        /\ sqlite'.said = "ok" /\ DOMAIN sqlite' = DOMAIN sqlite
    BY <1>3, StoreUpdated DEF StoreIInv, SameRest
  <1>7. fake.samples = sqlite.samples
    BY DEF StoreIInv, SameRest
  <1> QED
    BY <1>2, <1>4, <1>5, <1>6, <1>7, FewerRows

\* A batch of samples meets the same parent and the same duplicates in both.
LEMMA InsertKeepsStores ==
  ASSUME StoreIInv, Store!InsertSamples
  PROVE  StoreIInv'
  <1>1. PICK parentId \in 1 .. MostRows,
             batch \in {<<0>>, <<1>>, <<0, 1>>, <<0, 0>>} :
          /\ sqlite' = Store!SqliteInsertSamples(parentId, batch)
          /\ fake' = Store!FakeInsertSamples(parentId, batch)
    BY DEF Store!InsertSamples
  <1>2. area' = area /\ time' = time /\ area = "speedtests"
    BY DEF Store!InsertSamples
  <1> DEFINE indices == {s[2] : s \in {x \in fake.samples : x[1] = parentId}}
             taken(i) == indices \cup {batch[j] : j \in 1 .. i - 1}
             parent == \E i \in Store!Slice : fake.rows[i].id = parentId
             dup == \E i \in DOMAIN batch : batch[i] \in taken(i)
             unused == \A i \in DOMAIN batch :
                       <<parentId, batch[i]>> \notin sqlite.samples
             more == {<<parentId, i>> : i \in Store!Range(batch)}
  <1>3. fake' = IF ~parent \/ dup
                THEN [fake EXCEPT !.said = "constraint failed"]
                ELSE [fake EXCEPT !.samples = fake.samples \cup more,
                                  !.said = "ok"]
    BY <1>1, Zenon DEF Store!FakeInsertSamples
  <1>4. sqlite' = IF (\E r \in sqlite.rows : r.id = parentId)
                       /\ Store!IsInjective(batch) /\ unused
                  THEN [sqlite EXCEPT !.samples = sqlite.samples \cup more,
                                      !.said = "ok"]
                  ELSE [sqlite EXCEPT !.said = "constraint failed"]
    BY <1>1, Zenon DEF Store!SqliteInsertSamples
  <1>5. parent <=> \E r \in sqlite.rows : r.id = parentId
    BY DEF StoreIInv, SameRows
  <1>6. sqlite.samples = fake.samples /\ fake.samples \subseteq Nat \X Nat
    BY DEF StoreIInv, SameRest
  <1>7. \A b \in Nat : b \in indices <=> <<parentId, b>> \in sqlite.samples
    BY <1>6
  <1>8. /\ DOMAIN batch \in {{1}, {1, 2}}
        /\ \A i \in DOMAIN batch : batch[i] \in Nat
    OBVIOUS
  <1>9. ~dup <=> Store!IsInjective(batch) /\ unused
    <2>1. dup <=> \/ \E i \in DOMAIN batch : batch[i] \in indices
                  \/ \E i \in DOMAIN batch : \E j \in 1 .. i - 1 :
                       batch[i] = batch[j]
      <3> HIDE DEF indices
      <3> QED
        OBVIOUS
    <2>2. (\E i \in DOMAIN batch : \E j \in 1 .. i - 1 : batch[i] = batch[j])
            <=> ~ Store!IsInjective(batch)
      BY DEF Store!IsInjective
    <2>3. (\E i \in DOMAIN batch : batch[i] \in indices) <=> ~ unused
      <3> HIDE DEF indices
      <3> QED
        BY <1>7, <1>8
    <2> HIDE DEF dup, unused
    <2> QED
      BY <2>1, <2>2, <2>3
  <1>10. more \subseteq Nat \X Nat
    BY <1>8 DEF Store!Range
  <1> HIDE DEF parent, dup, unused, more
  <1>11. \/ /\ fake' = [fake EXCEPT !.said = "constraint failed"]
            /\ sqlite' = [sqlite EXCEPT !.said = "constraint failed"]
         \/ /\ fake' = [fake EXCEPT !.samples = fake.samples \cup more,
                                    !.said = "ok"]
            /\ sqlite' = [sqlite EXCEPT !.samples = sqlite.samples \cup more,
                                        !.said = "ok"]
    BY <1>3, <1>4, <1>5, <1>9, Zenon
  <1>12. /\ fake'.rows = fake.rows /\ fake'.next = fake.next
         /\ sqlite'.rows = sqlite.rows /\ sqlite'.next = sqlite.next
         /\ DOMAIN fake' = DOMAIN fake /\ DOMAIN sqlite' = DOMAIN sqlite
         /\ fake'.said = sqlite'.said /\ fake'.samples = sqlite'.samples
         /\ fake'.samples \subseteq Nat \X Nat
    <2>1. /\ DOMAIN fake = {"rows", "next", "samples", "said"}
          /\ DOMAIN sqlite = {"rows", "next", "samples", "said"}
      BY DEF StoreIInv, SameRest
    <2>2. CASE /\ fake' = [fake EXCEPT !.said = "constraint failed"]
               /\ sqlite' = [sqlite EXCEPT !.said = "constraint failed"]
      BY <1>6, <2>1, <2>2, StoreUpdated
    <2>3. CASE /\ fake' = [fake EXCEPT !.samples = fake.samples \cup more,
                                       !.said = "ok"]
               /\ sqlite'
                    = [sqlite EXCEPT !.samples = sqlite.samples \cup more,
                                     !.said = "ok"]
      BY <1>6, <1>10, <2>1, <2>3, StoreUpdated
    <2> QED
      BY <1>11, <2>2, <2>3
  <1>13. Store!Slice' = Store!Slice
    BY <1>12 DEF Store!Slice
  <1>14. SameRows'
    BY <1>12, <1>13 DEF StoreIInv, SameRows
  <1>15. SameRest'
    BY <1>2, <1>12 DEF StoreIInv, SameRest
  <1> QED
    BY <1>14, <1>15 DEF StoreIInv

\* The double finds the row of an id at the place of that id.
LEMMA FoundAtPlace ==
  ASSUME StoreIInv, NEW id
  PROVE  /\ Store!FakeFound(id) = {i \in Store!Slice : i = id}
         /\ {r \in sqlite.rows : r.id = id}
              = {fake.rows[i] : i \in Store!FakeFound(id)}
  <1>1. /\ \A i \in Store!Slice : fake.rows[i].id = i /\ i \in Nat
        /\ sqlite.rows = {fake.rows[i] : i \in Store!Slice}
    BY DEF StoreIInv, SameRows
  <1>2. Store!FakeFound(id) = {i \in Store!Slice : i = id}
    BY <1>1 DEF Store!FakeFound
  <1> QED
    BY <1>1, <1>2

\* An edit succeeds in both, or fails in both for the same reason.
LEMMA EditAgrees ==
  ASSUME StoreIInv, NEW slot, NEW id, NEW rows, NEW fakeRows,
         sqlite' = Store!SqliteEdit(slot, id, rows),
         fake' = Store!FakeEdit(slot, id, fakeRows)
  PROVE  /\ \/ sqlite'.rows = sqlite.rows /\ fake'.rows = fake.rows
            \/ sqlite'.rows = rows /\ fake'.rows = fakeRows
         /\ DOMAIN sqlite' = DOMAIN sqlite /\ DOMAIN fake' = DOMAIN fake
         /\ sqlite'.next = sqlite.next /\ fake'.next = fake.next
         /\ sqlite'.samples = sqlite.samples /\ fake'.samples = fake.samples
         /\ sqlite'.said = fake'.said
  <1> DEFINE none == \A i \in Store!FakeFound(id) : fake.rows[i].key # slot
             auto == \E i \in Store!FakeFound(id) : fake.rows[i].kind = "auto"
             found == {r \in sqlite.rows : r.id = id}
  <1>1. /\ (\A r \in found : r.key # slot) <=> none
        /\ (\E r \in found : r.kind = "auto") <=> auto
    <2>1. found = {fake.rows[i] : i \in Store!FakeFound(id)}
      BY FoundAtPlace
    <2> HIDE DEF found
    <2> QED
      BY <2>1
  <1>2. fake' = IF none THEN [fake EXCEPT !.said = "not found"]
                ELSE IF auto THEN [fake EXCEPT !.said = "immutable"]
                ELSE [fake EXCEPT !.rows = fakeRows, !.said = "ok"]
    BY Zenon DEF Store!FakeEdit
  <1>3. sqlite' = IF \A r \in found : r.key # slot
                  THEN [sqlite EXCEPT !.said = "not found"]
                  ELSE IF \E r \in found : r.kind = "auto"
                  THEN [sqlite EXCEPT !.said = "immutable"]
                  ELSE [sqlite EXCEPT !.rows = rows, !.said = "ok"]
    BY Zenon DEF Store!SqliteEdit
  <1> HIDE DEF none, auto, found
  <1>4. \/ \E said \in {"not found", "immutable"} :
             /\ fake' = [fake EXCEPT !.said = said]
             /\ sqlite' = [sqlite EXCEPT !.said = said]
        \/ /\ fake' = [fake EXCEPT !.rows = fakeRows, !.said = "ok"]
           /\ sqlite' = [sqlite EXCEPT !.rows = rows, !.said = "ok"]
    BY <1>1, <1>2, <1>3, Zenon
  <1>5. /\ DOMAIN fake = {"rows", "next", "samples", "said"}
        /\ DOMAIN sqlite = {"rows", "next", "samples", "said"}
    BY DEF StoreIInv, SameRest
  <1>6. CASE \E said \in {"not found", "immutable"} :
               /\ fake' = [fake EXCEPT !.said = said]
               /\ sqlite' = [sqlite EXCEPT !.said = said]
    <2>1. PICK said : /\ fake' = [fake EXCEPT !.said = said]
                      /\ sqlite' = [sqlite EXCEPT !.said = said]
      BY <1>6
    <2>2. /\ fake'.rows = fake.rows /\ fake'.next = fake.next
          /\ fake'.samples = fake.samples /\ fake'.said = said
          /\ DOMAIN fake' = DOMAIN fake
      BY <1>5, <2>1, StoreUpdated
    <2>3. /\ sqlite'.rows = sqlite.rows /\ sqlite'.next = sqlite.next
          /\ sqlite'.samples = sqlite.samples /\ sqlite'.said = said
          /\ DOMAIN sqlite' = DOMAIN sqlite
      BY <1>5, <2>1, StoreUpdated
    <2> QED
      BY <2>2, <2>3
  <1>7. CASE /\ fake' = [fake EXCEPT !.rows = fakeRows, !.said = "ok"]
             /\ sqlite' = [sqlite EXCEPT !.rows = rows, !.said = "ok"]
    <2>1. /\ fake'.rows = fakeRows /\ fake'.next = fake.next
          /\ fake'.samples = fake.samples /\ fake'.said = "ok"
          /\ DOMAIN fake' = DOMAIN fake
      BY <1>5, <1>7, StoreUpdated
    <2>2. /\ sqlite'.rows = rows /\ sqlite'.next = sqlite.next
          /\ sqlite'.samples = sqlite.samples /\ sqlite'.said = "ok"
          /\ DOMAIN sqlite' = DOMAIN sqlite
      BY <1>5, <1>7, StoreUpdated
    <2> QED
      BY <2>1, <2>2
  <1> QED
    BY <1>4, <1>6, <1>7

\* A refused edit changes no row.
LEMMA RefusedKeepsStores ==
  ASSUME StoreIInv, area' = area, time' = time,
         sqlite'.rows = sqlite.rows, fake'.rows = fake.rows,
         DOMAIN sqlite' = DOMAIN sqlite, DOMAIN fake' = DOMAIN fake,
         sqlite'.next = sqlite.next, fake'.next = fake.next,
         sqlite'.samples = sqlite.samples, fake'.samples = fake.samples,
         sqlite'.said = fake'.said
  PROVE  StoreIInv'
  <1>1. Store!Slice' = Store!Slice
    BY DEF Store!Slice
  <1>2. SameRows'
    BY <1>1 DEF StoreIInv, SameRows
  <1>3. SameRest'
    BY DEF StoreIInv, SameRest
  <1> QED
    BY <1>2, <1>3 DEF StoreIInv

\* An event changes in its place.
LEMMA UpdateKeepsStores ==
  ASSUME StoreIInv, Store!UpdateEvent
  PROVE  StoreIInv'
  <1> DEFINE moved(r, t) == [r EXCEPT !.at = t]
             rows(id, t) == {IF r.id = id THEN moved(r, t) ELSE r :
                               r \in sqlite.rows}
             slice(id, t) == [i \in Store!Slice |->
                                IF i \in Store!FakeFound(id)
                                THEN moved(fake.rows[i], t) ELSE fake.rows[i]]
  <1>1. PICK slot \in RowKeys, id \in 1 .. MostRows, t \in 1 .. time :
          /\ sqlite' = Store!SqliteEdit(slot, id, rows(id, t))
          /\ fake' = Store!FakeEdit(slot, id, slice(id, t))
    BY Zenon DEF Store!UpdateEvent
  <1>2. area' = area /\ time' = time
    BY DEF Store!UpdateEvent
  <1>3. t \in Nat
    BY DEF StoreIInv, SameRest
  <1>4. \A r : SavedRow(r) => SavedRow(moved(r, t)) /\ moved(r, t).id = r.id
    BY <1>3 DEF SavedRow
  <1>5. /\ DOMAIN slice(id, t) = Store!Slice
        /\ \A i \in Store!Slice :
             slice(id, t)[i] = IF i = id THEN moved(fake.rows[i], t)
                               ELSE fake.rows[i]
    BY FoundAtPlace
  <1> HIDE DEF moved, slice
  <1>6. CASE sqlite'.rows = rows(id, t) /\ fake'.rows = slice(id, t)
    <2>1. Store!Slice' = Store!Slice
      BY <1>5, <1>6 DEF Store!Slice
    <2>2. \A i \in Store!Slice : SavedRow(slice(id, t)[i])
                                   /\ slice(id, t)[i].id = i
      BY <1>4, <1>5 DEF StoreIInv, SameRows
    <2>3. rows(id, t) = {slice(id, t)[i] : i \in Store!Slice}
      <3>1. /\ \A i \in Store!Slice : fake.rows[i].id = i
            /\ sqlite.rows = {fake.rows[i] : i \in Store!Slice}
        BY DEF StoreIInv, SameRows
      <3> QED
        BY <1>5, <3>1
    <2> HIDE DEF rows
    <2>4. SameRows'
      <3>1. Store!Slice' \subseteq 1 .. fake'.next - 1
        BY <1>1, <2>1, EditAgrees DEF StoreIInv, SameRows
      <3>2. fake'.rows = slice(id, t) /\ sqlite'.rows = rows(id, t)
        BY <1>6
      <3>3. \A i \in Store!Slice' :
              SavedRow(fake'.rows[i]) /\ fake'.rows[i].id = i
        BY <2>1, <2>2, <3>2
      <3>4. sqlite'.rows = {fake'.rows[i] : i \in Store!Slice'}
        BY <2>1, <2>3, <3>2
      <3> QED
        BY <3>1, <3>3, <3>4 DEF SameRows
    <2>5. SameRest'
      <3>1. /\ DOMAIN sqlite' = DOMAIN sqlite /\ DOMAIN fake' = DOMAIN fake
            /\ sqlite'.next = sqlite.next /\ fake'.next = fake.next
            /\ sqlite'.samples = sqlite.samples /\ fake'.samples = fake.samples
            /\ sqlite'.said = fake'.said
        BY <1>1, EditAgrees
      <3> QED
        BY <1>2, <3>1 DEF StoreIInv, SameRest
    <2> QED
      BY <2>4, <2>5 DEF StoreIInv
  <1> HIDE DEF rows
  <1> QED
    BY <1>1, <1>2, <1>6, EditAgrees, RefusedKeepsStores

\* An event leaves its place empty.
LEMMA DeleteKeepsStores ==
  ASSUME StoreIInv, Store!DeleteEvent
  PROVE  StoreIInv'
  <1> DEFINE rows(id) == {r \in sqlite.rows : r.id # id}
             kept(id) == Store!Slice \ Store!FakeFound(id)
  <1>1. PICK slot \in RowKeys, id \in 1 .. MostRows :
          /\ sqlite' = Store!SqliteEdit(slot, id, rows(id))
          /\ fake' = Store!FakeEdit(slot, id,
                                    Store!Restrict(fake.rows, kept(id)))
    BY Zenon DEF Store!DeleteEvent
  <1>2. area' = area /\ time' = time
    BY DEF Store!DeleteEvent
  <1>3. rows(id) = {fake.rows[i] : i \in kept(id)}
    <2>1. kept(id) = {i \in Store!Slice : i # id}
      BY FoundAtPlace
    <2>2. /\ \A i \in Store!Slice : fake.rows[i].id = i
          /\ sqlite.rows = {fake.rows[i] : i \in Store!Slice}
      BY DEF StoreIInv, SameRows
    <2> HIDE DEF kept
    <2> QED
      BY <2>1, <2>2
  <1>4. kept(id) \subseteq Store!Slice
    OBVIOUS
  <1>5. fake.samples = sqlite.samples
    BY DEF StoreIInv, SameRest
  <1> HIDE DEF rows, kept
  <1>6. /\ \/ sqlite'.rows = sqlite.rows /\ fake'.rows = fake.rows
           \/ /\ sqlite'.rows = rows(id)
              /\ fake'.rows = Store!Restrict(fake.rows, kept(id))
        /\ DOMAIN sqlite' = DOMAIN sqlite /\ DOMAIN fake' = DOMAIN fake
        /\ sqlite'.next = sqlite.next /\ fake'.next = fake.next
        /\ sqlite'.samples = sqlite.samples /\ fake'.samples = fake.samples
        /\ sqlite'.said = fake'.said
    BY <1>1, EditAgrees
  <1>7. CASE sqlite'.rows = sqlite.rows /\ fake'.rows = fake.rows
    BY <1>2, <1>6, <1>7, RefusedKeepsStores
  <1>8. CASE /\ sqlite'.rows = rows(id)
             /\ fake'.rows = Store!Restrict(fake.rows, kept(id))
    BY <1>2, <1>3, <1>4, <1>5, <1>6, <1>8, FewerRows
  <1> QED
    BY <1>6, <1>7, <1>8

\* A set of rows in the database and the places of the same rows in the double
\* answer the same ids.
LEMMA SameIds ==
  ASSUME StoreIInv, NEW rows, NEW places,
         rows \subseteq sqlite.rows, places \subseteq Store!Slice,
         \A i \in Store!Slice : fake.rows[i] \in rows <=> i \in places
  PROVE  {r.id : r \in rows} = {fake.rows[i].id : i \in places}
  <1>1. /\ \A i \in Store!Slice : fake.rows[i].id = i
        /\ \A r \in sqlite.rows : r.id \in Store!Slice /\ fake.rows[r.id] = r
    BY RowsByPlace DEF StoreIInv
  <1> QED
    BY <1>1

\* The rows of a key are at its places.
LEMMA RowsOfKey ==
  ASSUME StoreIInv, NEW k
  PROVE  /\ Store!OfKey(k) \subseteq sqlite.rows
         /\ Store!Places(k) \subseteq Store!Slice
         /\ Store!OfKey(k) = {fake.rows[i] : i \in Store!Places(k)}
         /\ \A i \in Store!Slice :
              fake.rows[i] \in Store!OfKey(k) <=> i \in Store!Places(k)
  <1>1. sqlite.rows = {fake.rows[i] : i \in Store!Slice}
    BY DEF StoreIInv, SameRows
  <1> QED
    BY <1>1 DEF Store!OfKey, Store!Places

\* GetLatestSpeedTestHistoryID.
LEMMA SameLatestId ==
  ASSUME StoreIInv
  PROVE  Store!SqliteLatestId = Store!FakeLatestId
  <1> DEFINE rows == {x \in sqlite.rows : \A o \in sqlite.rows : x.id >= o.id}
             places == {j \in Store!Slice : \A n \in Store!Slice : j >= n}
  <1>1. /\ \A i \in Store!Slice : fake.rows[i].id = i
        /\ sqlite.rows = {fake.rows[i] : i \in Store!Slice}
    BY DEF StoreIInv, SameRows
  <1>2. \A i \in Store!Slice : fake.rows[i] \in rows <=> i \in places
    BY <1>1
  <1>3. rows \subseteq sqlite.rows /\ places \subseteq Store!Slice
    OBVIOUS
  <1>4. /\ Store!SqliteLatestId = {r.id : r \in rows}
        /\ Store!FakeLatestId = {fake.rows[i].id : i \in places}
    BY Zenon DEF Store!SqliteLatestId, Store!FakeLatestId
  <1> HIDE DEF rows, places
  <1> QED
    BY <1>2, <1>3, <1>4, SameIds

\* As long as runs are saved in time, a later place of a check has a run that
\* began no earlier; if they are also apart, one that began later.
LEMMA LaterPlaceLaterRun ==
  ASSUME StoreIInv, NEW k, NEW i \in Store!Places(k),
         NEW j \in Store!Places(k)
  PROVE  /\ Store!SavedInTime(k) /\ i < j
              => fake.rows[i].at <= fake.rows[j].at
         /\ Store!SavedApart(k) /\ i < j => fake.rows[i].at < fake.rows[j].at
         /\ i \in Nat /\ j \in Nat
         /\ fake.rows[i].at \in Nat /\ fake.rows[j].at \in Nat
  <1>1. /\ fake.rows[i] \in Store!OfKey(k) /\ fake.rows[j] \in Store!OfKey(k)
        /\ i \in Store!Slice /\ j \in Store!Slice
    BY RowsOfKey
  <1>2. /\ fake.rows[i].id = i /\ fake.rows[j].id = j
        /\ i \in Nat /\ j \in Nat
        /\ fake.rows[i].at \in Nat /\ fake.rows[j].at \in Nat
    BY <1>1, RowsByPlace DEF StoreIInv, SavedRow
  <1> QED
    BY <1>1, <1>2 DEF Store!SavedInTime, Store!SavedApart

\* ListLatestServiceChecks: the greatest id of a check is its latest run, if
\* the runs were saved in time and apart.
LEMMA SameLatestOf ==
  ASSUME StoreIInv, NEW k, Store!SavedApart(k)
  PROVE  Store!SqliteLatestOf(k) = Store!FakeLatestOf(k)
  <1> DEFINE rows == {x \in Store!OfKey(k) :
                        \A o \in Store!OfKey(k) : x.id >= o.id}
             first(j, n) == \/ fake.rows[j].at > fake.rows[n].at
                            \/ fake.rows[j].at = fake.rows[n].at /\ j <= n
             places == {j \in Store!Places(k) :
                          \A n \in Store!Places(k) : first(j, n)}
  <1>1. ASSUME NEW i \in Store!Places(k), NEW j \in Store!Places(k)
        PROVE  fake.rows[i].id >= fake.rows[j].id <=> first(i, j)
    <2>1. fake.rows[i].id = i /\ fake.rows[j].id = j
      BY RowsOfKey, RowsByPlace DEF StoreIInv
    <2>2. /\ i < j => fake.rows[i].at < fake.rows[j].at
          /\ j < i => fake.rows[j].at < fake.rows[i].at
          /\ i \in Nat /\ j \in Nat
          /\ fake.rows[i].at \in Nat /\ fake.rows[j].at \in Nat
      BY LaterPlaceLaterRun
    <2>3. i = j => fake.rows[i].at = fake.rows[j].at
      OBVIOUS
    <2> QED
      BY <2>1, <2>2, <2>3
  <1> HIDE DEF first
  <1>2. ASSUME NEW i \in Store!Slice
        PROVE  fake.rows[i] \in rows <=> i \in places
    BY <1>1, RowsOfKey
  <1>3. rows \subseteq sqlite.rows /\ places \subseteq Store!Slice
    BY RowsOfKey
  <1>4. /\ Store!SqliteLatestOf(k) = {r.id : r \in rows}
        /\ Store!FakeLatestOf(k) = {fake.rows[i].id : i \in places}
    BY Zenon DEF Store!SqliteLatestOf, Store!FakeLatestOf, first
  <1> HIDE DEF rows, places
  <1> QED
    BY <1>2, <1>3, <1>4, SameIds

\* GetLatestServiceCheckState: what the double says of a check whose runs were
\* saved in time is one of the states the database may say, and it says one
\* when the database does.
LEMMA SameLatestState ==
  ASSUME StoreIInv, NEW k, Store!SavedInTime(k)
  PROVE  /\ Store!FakeLatestState(k) \subseteq Store!SqliteLatestState(k)
         /\ Store!FakeLatestState(k) = {} => Store!SqliteLatestState(k) = {}
  <1> DEFINE latest == {x \in Store!OfKey(k) :
                          \A o \in Store!OfKey(k) : x.at >= o.at}
             last == {j \in Store!Places(k) :
                        \A n \in Store!Places(k) : j >= n}
  <1>1. /\ Store!SqliteLatestState(k) = {r.id : r \in latest}
        /\ Store!FakeLatestState(k) = {fake.rows[i].id : i \in last}
    BY Zenon DEF Store!SqliteLatestState, Store!FakeLatestState
  <1>2. ASSUME NEW i \in last
        PROVE  fake.rows[i] \in latest
    <2>1. ASSUME NEW n \in Store!Places(k)
          PROVE  fake.rows[i].at >= fake.rows[n].at
      <3>1. i >= n /\ i \in Store!Places(k)
        OBVIOUS
      <3>2. n < i => fake.rows[n].at <= fake.rows[i].at
        BY <3>1, LaterPlaceLaterRun
      <3>3. /\ i \in Nat /\ n \in Nat
            /\ fake.rows[i].at \in Nat /\ fake.rows[n].at \in Nat
        BY <3>1, LaterPlaceLaterRun
      <3>4. n = i => fake.rows[n].at = fake.rows[i].at
        OBVIOUS
      <3> QED
        BY <3>1, <3>2, <3>3, <3>4
    <2> QED
      BY <2>1, RowsOfKey
  <1>3. last = {} => latest = {}
    <2>1. Store!Places(k) \subseteq 0 .. fake.next /\ fake.next \in Nat
      BY RowsOfKey, RowsByPlace DEF StoreIInv, SameRest
    <2>2. Store!Places(k) # {} => last # {}
      BY <2>1, GreatestNatural, Zenon
    <2>3. Store!Places(k) = {} => latest = {}
      BY RowsOfKey
    <2> QED
      BY <2>2, <2>3
  <1> HIDE DEF latest, last
  <1> QED
    BY <1>1, <1>2, <1>3

\* The rows of a list are at the places of the double's list, unless those of
\* processes are older than what was asked for.
LEMMA SameListed ==
  ASSUME StoreIInv, NEW k, NEW hours,
         area = "processes" =>
           \A r \in sqlite.rows : r.at >= Store!Cutoff(hours)
  PROVE  /\ Store!SqliteListed(k, hours) \subseteq sqlite.rows
         /\ Store!FakeListed(k, hours) \subseteq Store!Slice
         /\ \A i \in Store!Slice :
              fake.rows[i] \in Store!SqliteListed(k, hours)
                <=> i \in Store!FakeListed(k, hours)
  <1> DEFINE cutoff == Store!Cutoff(hours)
  <1>1. \A i \in Store!Slice : fake.rows[i] \in sqlite.rows
    BY DEF StoreIInv, SameRows
  <1> HIDE DEF cutoff
  <1>2. CASE area \in {"checks", "events"}
    BY <1>2, RowsOfKey DEF Store!SqliteListed, Store!FakeListed
  <1>3. CASE area = "speedtests"
    <2>1. /\ Store!SqliteListed(k, hours)
               = {r \in sqlite.rows : r.at >= cutoff}
          /\ Store!FakeListed(k, hours)
               = {i \in Store!Slice : fake.rows[i].at >= cutoff}
      BY <1>3 DEF Store!SqliteListed, Store!FakeListed, cutoff
    <2> QED
      BY <1>1, <2>1
  <1>4. CASE area = "processes"
    <2>1. /\ Store!SqliteListed(k, hours)
               = {r \in sqlite.rows : r.at >= cutoff}
          /\ Store!FakeListed(k, hours) = Store!Slice
      BY <1>4 DEF Store!SqliteListed, Store!FakeListed, cutoff
    <2>2. \A r \in sqlite.rows : r.at >= cutoff
      BY <1>4 DEF cutoff
    <2> QED
      BY <1>1, <2>1, <2>2
  <1>5. CASE area \notin {"checks", "events", "speedtests", "processes"}
    BY <1>1, <1>5 DEF Store!SqliteListed, Store!FakeListed
  <1> QED
    BY <1>2, <1>3, <1>4, <1>5

LEMMA StoreSize == \A S : Store!Cardinality(S) = Cardinality(S)
  BY DEF Store!Cardinality, Cardinality

\* Rows and their places are as many.
LEMMA SameCount ==
  ASSUME StoreIInv, NEW rows, NEW places,
         rows \subseteq sqlite.rows, places \subseteq Store!Slice,
         \A i \in Store!Slice : fake.rows[i] \in rows <=> i \in places
  PROVE  Cardinality(rows) = Cardinality(places)
  <1> DEFINE f == [i \in places |-> fake.rows[i]]
  <1>1. /\ \A r \in sqlite.rows : r.id \in Store!Slice /\ fake.rows[r.id] = r
        /\ \A i \in Store!Slice : fake.rows[i].id = i
        /\ Store!Slice \subseteq 1 .. fake.next - 1
        /\ fake.next \in Nat
    BY RowsByPlace DEF StoreIInv, SameRows, SameRest
  <1>2. IsFiniteSet(places)
    <2>1. IsFiniteSet(1 .. fake.next - 1)
      BY <1>1, FS_Interval
    <2> QED
      BY <1>1, <2>1, FS_Subset
  <1>3. f \in Bijection(places, rows)
    <2>1. f \in [places -> rows]
      OBVIOUS
    <2>2. \A i, j \in places : f[i] = f[j] => i = j
      BY <1>1
    <2>3. \A r \in rows : \E i \in places : f[i] = r
      BY <1>1
    <2> HIDE DEF f
    <2> QED
      BY <2>1, <2>2, <2>3
      DEF Bijection, Injection, Surjection, IsInjective
  <1> QED
    BY <1>2, <1>3, FS_Bijection DEF ExistsBijection

\* The double reads a list in an order the database may give.
LEMMA SameList ==
  ASSUME StoreIInv, NEW k, NEW hours
  PROVE  Store!ListsAgree(k, hours)
  <1> SUFFICES ASSUME area = "processes" =>
                        \A r \in sqlite.rows : r.at >= Store!Cutoff(hours),
                      area = "checks" => Store!SavedInTime(k)
               PROVE  /\ {r.id : r \in Store!SqliteListed(k, hours)}
                           = {fake.rows[i].id :
                                i \in Store!FakeListed(k, hours)}
                      /\ Store!Cardinality(Store!SqliteListed(k, hours))
                           = Store!Cardinality(Store!FakeListed(k, hours))
                      /\ \A r, o \in Store!SqliteListed(k, hours) :
                         \A i, j \in Store!FakeListed(k, hours) :
                           /\ r.id = fake.rows[i].id /\ o.id = fake.rows[j].id
                           /\ Store!Precedes(r, o)
                           => Store!FakePrecedes(i, j)
    BY Zenon DEF Store!ListsAgree
  <1> DEFINE rows == Store!SqliteListed(k, hours)
             places == Store!FakeListed(k, hours)
  <1>1. /\ rows \subseteq sqlite.rows /\ places \subseteq Store!Slice
        /\ \A i \in Store!Slice : fake.rows[i] \in rows <=> i \in places
    BY SameListed
  <1>2. ASSUME NEW r \in rows, NEW o \in rows, NEW i \in places,
               NEW j \in places,
               r.id = fake.rows[i].id, o.id = fake.rows[j].id,
               Store!Precedes(r, o)
        PROVE  Store!FakePrecedes(i, j)
    <2>1. r = fake.rows[i] /\ o = fake.rows[j]
      <3> HIDE DEF rows, places
      <3> QED
        BY <1>1, <1>2, RowsByPlace DEF StoreIInv
    <2>2. CASE area = "checks"
      <3>1. i \in Store!Places(k) /\ j \in Store!Places(k)
        BY <2>2 DEF Store!FakeListed
      <3>2. fake.rows[i].at > fake.rows[j].at
        BY <1>2, <2>1, <2>2 DEF Store!Precedes
      <3>3. /\ i < j => fake.rows[i].at <= fake.rows[j].at
            /\ i \in Nat /\ j \in Nat
            /\ fake.rows[i].at \in Nat /\ fake.rows[j].at \in Nat
        BY <2>2, <3>1, LaterPlaceLaterRun
      <3>4. i = j => fake.rows[i].at = fake.rows[j].at
        OBVIOUS
      <3>5. i > j
        BY <3>2, <3>3, <3>4
      <3> QED
        BY <2>2, <3>5 DEF Store!FakePrecedes
    <2>3. CASE area # "checks"
      BY <1>2, <2>1, <2>3 DEF Store!FakePrecedes
    <2> QED
      BY <2>2, <2>3
  <1> HIDE DEF rows, places
  <1>3. /\ {r.id : r \in rows} = {fake.rows[i].id : i \in places}
        /\ Store!Cardinality(rows) = Store!Cardinality(places)
    BY <1>1, SameIds, SameCount, StoreSize
  <1> QED
    BY <1>2, <1>3 DEF rows, places

\* A limit in range shows as many rows of either.
LEMMA SameShown ==
  ASSUME Store!StoreAssumption, NEW n \in Nat, NEW limit \in Nat
  PROVE  Store!LimitsAgree(n, limit)
  BY DEF Store!StoreAssumption, Store!LimitsAgree, Store!SqliteShown,
         Store!FakeShown, Store!Least

\* As long as no test was cancelled, the double's newest measurement is one
\* the database may answer, and it has one when the database has.
LEMMA SameLatestResult ==
  ASSUME StoreIInv, Store!Measured = sqlite.rows
  PROVE  /\ Store!FakeLatestResults \subseteq Store!SqliteLatestResults
         /\ Store!FakeLatestResults = {} => Store!SqliteLatestResults = {}
  <1> DEFINE rows == {m \in sqlite.rows : \A o \in sqlite.rows : m.at >= o.at}
             newest == {i \in Store!Slice : \A j \in Store!Slice :
                          fake.rows[i].at >= fake.rows[j].at}
             first == {n \in newest : \A o \in newest : n <= o}
  <1>1. /\ \A i \in Store!Slice : i \in Nat
        /\ sqlite.rows = {fake.rows[i] : i \in Store!Slice}
    BY RowsByPlace DEF StoreIInv, SameRows
  <1>2. \A i \in Store!Slice : fake.rows[i] \in rows <=> i \in newest
    BY <1>1
  <1>3. rows \subseteq sqlite.rows /\ newest \subseteq Store!Slice
    OBVIOUS
  <1>4. Store!SqliteLatestResults = {r.id : r \in rows}
    BY Zenon DEF Store!SqliteLatestResults
  <1>5. Store!FakeLatestResults = {fake.rows[i].id : i \in first}
    BY Zenon DEF Store!FakeLatestResults
  <1>6. first \subseteq newest /\ (newest # {} => first # {})
    <2>1. newest \subseteq Nat
      BY <1>1, <1>3
    <2> HIDE DEF newest
    <2> QED
      BY <2>1, LeastNatural
  <1> HIDE DEF rows, newest, first
  <1>7. {r.id : r \in rows} = {fake.rows[i].id : i \in newest}
    BY <1>2, <1>3, SameIds
  <1> QED
    BY ZenonT(30), <1>4, <1>5, <1>6, <1>7

\* Stores with the same rows at the places of their ids agree.
LEMMA StoresAgree ==
  ASSUME Store!StoreAssumption, StoreIInv
  PROVE  DoubleAgrees
  <1>1. sqlite.said = fake.said /\ sqlite.samples = fake.samples
    BY DEF StoreIInv, SameRest
  <1>2. Store!SqliteLatestId = Store!FakeLatestId
    BY SameLatestId
  <1>3. (area \in {"speedtests", "snapshots"} /\ Store!Measured = sqlite.rows)
        => /\ Store!FakeLatestResults \subseteq Store!SqliteLatestResults
           /\ Store!FakeLatestResults = {} => Store!SqliteLatestResults = {}
    BY SameLatestResult
  <1>4. \A n \in 0 .. MostRows : \A limit \in 0 .. ShownAtMost + 1 :
          Store!LimitsAgree(n, limit)
    BY SameShown
  <1>5. ASSUME NEW k \in RowKeys
        PROVE  Store!LatestAgree(k)
    <2>1. Store!SqliteKeys = Store!FakeKeys
      BY DEF StoreIInv, SameRows, Store!SqliteKeys, Store!FakeKeys
    <2> QED
      BY <2>1, SameLatestOf, SameLatestState, Zenon DEF Store!LatestAgree
  <1>6. \A k \in RowKeys : \A hours \in 0 .. time : Store!ListsAgree(k, hours)
    BY SameList
  <1> QED
    BY <1>1, <1>2, <1>3, <1>4, <1>5, <1>6, Zenon
    DEF DoubleAgrees, Store!DoubleAgrees

\* Time goes by.
LEMMA TickKeepsStores ==
  ASSUME StoreIInv, Store!Tick
  PROVE  StoreIInv'
  <1>1. /\ area' = area /\ sqlite' = sqlite /\ fake' = fake
        /\ time' = time + 1
    BY DEF Store!Tick
  <1>2. Store!Slice' = Store!Slice
    BY <1>1 DEF Store!Slice
  <1> QED
    BY <1>1, <1>2 DEF StoreIInv, SameRows, SameRest

\* StoreContract: whatever the tables, keys, ages, limits and bounds, and in
\* whatever order runs are saved, the double the tests run on gives answers
\* the database may give.  Excepted are the queries DoubleAgrees excepts:
\* older processes, limits out of range, checks saved out of time, and the
\* newest speed test after a cancelled one.
THEOREM DoubleIsFaithful ==
  ASSUME Store!StoreAssumption
  PROVE  Store!Spec => []DoubleAgrees
  <1>1. Store!Init => StoreIInv
    BY StoreInit
  <1>2. StoreIInv /\ [Store!Next]_(Store!vars) => StoreIInv'
    <2> SUFFICES ASSUME StoreIInv, [Store!Next]_(Store!vars)
                 PROVE  StoreIInv'
      OBVIOUS
    <2>1. CASE Store!Save
      BY <2>1, SaveKeepsStores
    <2>2. CASE Store!InsertSamples
      BY <2>2, InsertKeepsStores
    <2>3. CASE Store!Prune
      BY <2>3, PruneKeepsStores
    <2>4. CASE Store!Forget
      BY <2>4, ForgetKeepsStores
    <2>5. CASE Store!UpdateEvent
      BY <2>5, UpdateKeepsStores
    <2>6. CASE Store!DeleteEvent
      BY <2>6, DeleteKeepsStores
    <2>7. CASE Store!Tick
      BY <2>7, TickKeepsStores
    <2>8. CASE UNCHANGED Store!vars
      <3>1. /\ area' = area /\ time' = time
            /\ sqlite' = sqlite /\ fake' = fake
        BY <2>8 DEF Store!vars
      <3>2. sqlite.said = fake.said
        BY DEF StoreIInv, SameRest
      <3> QED
        BY <3>1, <3>2, RefusedKeepsStores
    <2> QED
      BY <2>1, <2>2, <2>3, <2>4, <2>5, <2>6, <2>7, <2>8 DEF Store!Next
  <1>3. StoreIInv => DoubleAgrees
    BY StoresAgree
  <1> QED
    BY <1>1, <1>2, <1>3, PTL DEF Store!Spec

-----------------------------------------------------------------------------
(* Backup repositories.                                                    *)

\* The files of a disk, none of them from the future.
FilesUntil(d, n) ==
  \A i \in Duplicacy!Files :
    /\ DOMAIN d.files[i] = {"is", "start", "end"}
    /\ d.files[i].start \in 0 .. n /\ d.files[i].end \in 0 .. n

\* What every state of the disk has.
DuplicacyIInv ==
  /\ day \in Nat \ {0}
  /\ entry.staleAfter \in Int
  /\ DOMAIN disk = {"path", "repo", "snapshots", "preferences", "storage",
                    "closed", "files", "incomplete"}
  /\ DOMAIN disk.files = Duplicacy!Files
  /\ FilesUntil(disk, day)

\* Latest is the newest end of a backup that can be read.
LEMMA LatestBackup ==
  ASSUME NEW d, NEW n \in Nat, FilesUntil(d, n)
  PROVE  /\ Duplicacy!Latest(d) \in 0 .. n
         /\ \A i \in Duplicacy!Parsed(d) :
              Duplicacy!EndTime(d.files[i]) <= Duplicacy!Latest(d)
         /\ Duplicacy!Latest(d) > 0 =>
              \E i \in Duplicacy!Parsed(d) :
                Duplicacy!EndTime(d.files[i]) = Duplicacy!Latest(d)
  <1> DEFINE S == {0} \cup {Duplicacy!EndTime(d.files[i]) :
                              i \in Duplicacy!Parsed(d)}
  <1>1. Duplicacy!Parsed(d) \subseteq Duplicacy!Files
    BY DEF Duplicacy!Parsed, Duplicacy!Read
  <1>2. \A i \in Duplicacy!Parsed(d) :
          Duplicacy!EndTime(d.files[i]) \in 0 .. n
    BY <1>1 DEF FilesUntil, Duplicacy!EndTime
  <1>3. S \subseteq 0 .. n /\ S # {}
    BY <1>2
  <1>4. Duplicacy!Latest(d) = CHOOSE x \in S : \A y \in S : x >= y
    BY DEF Duplicacy!Latest, Duplicacy!Max
  <1>5. /\ Duplicacy!Latest(d) \in S
        /\ \A y \in S : Duplicacy!Latest(d) >= y
    <2> HIDE DEF S
    <2>1. \E x \in S : \A y \in S : x >= y
      BY <1>3, GreatestNatural
    <2> QED
      BY <1>4, <2>1
  <1>6. Duplicacy!Latest(d) \in 0 .. n
    BY <1>3, <1>5
  <1>7. \A i \in Duplicacy!Parsed(d) : Duplicacy!EndTime(d.files[i]) \in S
    OBVIOUS
  <1>8. ASSUME Duplicacy!Latest(d) > 0
        PROVE  \E i \in Duplicacy!Parsed(d) :
                 Duplicacy!EndTime(d.files[i]) = Duplicacy!Latest(d)
    BY <1>5, <1>8
  <1> HIDE DEF S
  <1> QED
    BY <1>2, <1>5, <1>6, <1>7, <1>8

\* On the first day no backup was made.
LEMMA DuplicacyInit ==
  ASSUME Duplicacy!Init
  PROVE  DuplicacyIInv
  BY DEF Duplicacy!Init, DuplicacyIInv, FilesUntil, Duplicacy!NoFile

\* The disk with one file changed.
LEMMA OneFile ==
  ASSUME DuplicacyIInv, day' = day, entry' = entry,
         NEW g, NEW i \in Duplicacy!Files,
         disk'.files = [disk.files EXCEPT ![i] = g],
         DOMAIN disk' = DOMAIN disk,
         DOMAIN g = {"is", "start", "end"},
         g.start \in 0 .. day, g.end \in 0 .. day
  PROVE  DuplicacyIInv'
  <1>1. \A j \in Duplicacy!Files :
          disk'.files[j] = IF j = i THEN g ELSE disk.files[j]
    BY DEF DuplicacyIInv
  <1>2. FilesUntil(disk, day)'
    BY <1>1 DEF DuplicacyIInv, FilesUntil
  <1> QED
    BY <1>2 DEF DuplicacyIInv, Duplicacy!Files

\* Whatever happens to the disk, its files are not from the future.
LEMMA DuplicacyStep ==
  ASSUME Duplicacy!DuplicacyAssumption, DuplicacyIInv,
         [Duplicacy!Next]_(Duplicacy!vars)
  PROVE  DuplicacyIInv'
  <1>0. /\ day \in Nat \ {0} /\ FilesUntil(disk, day)
        /\ DOMAIN disk = {"path", "repo", "snapshots", "preferences",
                          "storage", "closed", "files", "incomplete"}
        /\ DOMAIN disk.files = Duplicacy!Files
    BY DEF DuplicacyIInv
  <1>1. CASE Duplicacy!Save
    BY <1>1 DEF Duplicacy!Save, Duplicacy!Happens, DuplicacyIInv, FilesUntil,
       Duplicacy!Files, Duplicacy!DuplicacyAssumption
  <1>2. ASSUME Duplicacy!Event, DOMAIN disk' = DOMAIN disk,
               disk'.files = disk.files
        PROVE  DuplicacyIInv'
    BY <1>2 DEF Duplicacy!Event, Duplicacy!Happens, DuplicacyIInv,
       FilesUntil, Duplicacy!Files
  <1>3. CASE Duplicacy!Breaks
    <2>1. ASSUME NEW place \in Duplicacy!Places, NEW state,
                 disk' = [disk EXCEPT ![place] = state]
          PROVE  DOMAIN disk' = DOMAIN disk /\ disk'.files = disk.files
      BY <1>0, <2>1 DEF Duplicacy!Places
    <2>2. ASSUME disk' = [disk EXCEPT !.preferences = FALSE]
          PROVE  DOMAIN disk' = DOMAIN disk /\ disk'.files = disk.files
      BY <1>0, <2>2
    <2>3. ASSUME NEW s, disk' = [disk EXCEPT !.closed = s]
          PROVE  DOMAIN disk' = DOMAIN disk /\ disk'.files = disk.files
      BY <1>0, <2>3
    <2>4. ASSUME NEW i \in Duplicacy!Files,
                 disk' = [disk EXCEPT !.files[i].is = "corrupt"]
          PROVE  DuplicacyIInv'
      <3> DEFINE g == [disk.files[i] EXCEPT !.is = "corrupt"]
      <3>1. /\ disk'.files = [disk.files EXCEPT ![i] = g]
            /\ DOMAIN disk' = DOMAIN disk
        BY <1>0, <2>4
      <3>2. /\ DOMAIN g = {"is", "start", "end"}
            /\ g.start \in 0 .. day /\ g.end \in 0 .. day
        BY <1>0 DEF FilesUntil
      <3>3. day' = day /\ entry' = entry
        BY <1>3 DEF Duplicacy!Breaks, Duplicacy!Event, Duplicacy!Happens
      <3> HIDE DEF g
      <3> QED
        BY <3>1, <3>2, <3>3, OneFile
    <2>5. Duplicacy!Event
      BY <1>3 DEF Duplicacy!Breaks
    <2>6. \/ \E place \in Duplicacy!Places,
                state \in {"absent", "file", "unreadable"} :
               disk' = [disk EXCEPT ![place] = state]
          \/ disk' = [disk EXCEPT !.preferences = FALSE]
          \/ \E s : disk' = [disk EXCEPT !.closed = s]
          \/ \E i \in Duplicacy!Files :
               disk' = [disk EXCEPT !.files[i].is = "corrupt"]
      BY <1>3, Zenon DEF Duplicacy!Breaks
    <2> QED
      BY <1>2, <2>1, <2>2, <2>3, <2>4, <2>5, <2>6
  <1>4. CASE Duplicacy!Repairs
    <2>1. ASSUME NEW place \in Duplicacy!Places,
                 disk' = [disk EXCEPT ![place] = "dir"]
          PROVE  DOMAIN disk' = DOMAIN disk /\ disk'.files = disk.files
      BY <1>0, <2>1 DEF Duplicacy!Places
    <2>2. ASSUME disk' = [disk EXCEPT !.preferences = TRUE]
          PROVE  DOMAIN disk' = DOMAIN disk /\ disk'.files = disk.files
      BY <1>0, <2>2
    <2> QED
      BY <1>2, <1>4, <2>1, <2>2 DEF Duplicacy!Repairs
  <1>5. CASE Duplicacy!Reopens
    <2>1. DOMAIN disk' = DOMAIN disk /\ disk'.files = disk.files
      BY <1>0, <1>5 DEF Duplicacy!Reopens
    <2> QED
      BY <1>2, <1>5, <2>1 DEF Duplicacy!Reopens
  <1>6. CASE Duplicacy!Starts
    <2>1. PICK i \in Duplicacy!Files :
            disk' = [disk EXCEPT
              !.incomplete = TRUE,
              !.files[i] = [is |-> "snapshot", start |-> day, end |-> 0]]
      BY <1>6 DEF Duplicacy!Starts
    <2> DEFINE g == [is |-> "snapshot", start |-> day, end |-> 0]
    <2>2. /\ disk'.files = [disk.files EXCEPT ![i] = g]
          /\ DOMAIN disk' = DOMAIN disk
      BY <1>0, <2>1
    <2>3. /\ DOMAIN g = {"is", "start", "end"}
          /\ g.start \in 0 .. day /\ g.end \in 0 .. day
      BY <1>0
    <2>4. day' = day /\ entry' = entry
      BY <1>6 DEF Duplicacy!Starts, Duplicacy!Event, Duplicacy!Happens
    <2> HIDE DEF g
    <2> QED
      BY <2>2, <2>3, <2>4, OneFile
  <1>7. CASE Duplicacy!Finishes
    <2>1. PICK i \in Duplicacy!Files :
            disk' = [disk EXCEPT !.incomplete = FALSE, !.files[i].end = day]
      BY <1>7 DEF Duplicacy!Finishes
    <2> DEFINE g == [disk.files[i] EXCEPT !.end = day]
    <2>2. /\ disk'.files = [disk.files EXCEPT ![i] = g]
          /\ DOMAIN disk' = DOMAIN disk
      BY <1>0, <2>1
    <2>3. /\ DOMAIN g = {"is", "start", "end"}
          /\ g.start \in 0 .. day /\ g.end \in 0 .. day
      BY <1>0 DEF FilesUntil
    <2>4. day' = day /\ entry' = entry
      BY <1>7 DEF Duplicacy!Finishes, Duplicacy!Event, Duplicacy!Happens
    <2> HIDE DEF g
    <2> QED
      BY <2>2, <2>3, <2>4, OneFile
  <1>8. CASE Duplicacy!Replaces
    <2>1. PICK i \in Duplicacy!Files :
            \/ disk' = [disk EXCEPT !.files[i].is = "alien"]
            \/ disk' = [disk EXCEPT !.files[i] = Duplicacy!NoFile]
      BY <1>8 DEF Duplicacy!Replaces
    <2>2. day' = day /\ entry' = entry
      BY <1>8 DEF Duplicacy!Replaces, Duplicacy!Event, Duplicacy!Happens
    <2>3. CASE disk' = [disk EXCEPT !.files[i].is = "alien"]
      <3> DEFINE g == [disk.files[i] EXCEPT !.is = "alien"]
      <3>1. /\ disk'.files = [disk.files EXCEPT ![i] = g]
            /\ DOMAIN disk' = DOMAIN disk
        BY <1>0, <2>3
      <3>2. /\ DOMAIN g = {"is", "start", "end"}
            /\ g.start \in 0 .. day /\ g.end \in 0 .. day
        BY <1>0 DEF FilesUntil
      <3> HIDE DEF g
      <3> QED
        BY <2>2, <3>1, <3>2, OneFile
    <2>4. CASE disk' = [disk EXCEPT !.files[i] = Duplicacy!NoFile]
      <3>1. /\ disk'.files = [disk.files EXCEPT ![i] = Duplicacy!NoFile]
            /\ DOMAIN disk' = DOMAIN disk
        BY <1>0, <2>4
      <3>2. /\ DOMAIN Duplicacy!NoFile = {"is", "start", "end"}
            /\ Duplicacy!NoFile.start \in 0 .. day
            /\ Duplicacy!NoFile.end \in 0 .. day
        BY <1>0 DEF Duplicacy!NoFile
      <3> QED
        BY <2>2, <3>1, <3>2, OneFile
    <2> QED
      BY <2>1, <2>3, <2>4
  <1>9. CASE Duplicacy!Day
    BY <1>9 DEF Duplicacy!Day, DuplicacyIInv, FilesUntil, Duplicacy!Files
  <1>10. CASE UNCHANGED Duplicacy!vars
    BY <1>10 DEF Duplicacy!vars, DuplicacyIInv, FilesUntil, Duplicacy!Files
  <1> QED
    BY <1>1, <1>3, <1>4, <1>5, <1>6, <1>7, <1>8, <1>9, <1>10
    DEF Duplicacy!Next

\* The row tells of the newest backup that can be read.
LEMMA DuplicacyRowIsTrue ==
  ASSUME Duplicacy!DuplicacyAssumption, DuplicacyIInv
  PROVE  Duplicacy!RowIsTrue
  <1> DEFINE readable == {i \in Duplicacy!Files :
                            /\ SnapshotSlots[i] \notin disk.closed
                            /\ disk.files[i].is = "snapshot"}
             row == Duplicacy!Row(entry, disk)
             latest == Duplicacy!Latest(disk)
  <1>1. readable = Duplicacy!Parsed(disk)
    BY DEF Duplicacy!Parsed, Duplicacy!Read
  <1>2. /\ latest \in Nat
        /\ \A i \in readable : Duplicacy!EndTime(disk.files[i]) <= latest
        /\ latest > 0 => \E i \in readable :
                           Duplicacy!EndTime(disk.files[i]) = latest
    BY <1>1, LatestBackup DEF DuplicacyIInv
  <1> HIDE DEF readable
  <1>3. row.count > 0 => row.latest = latest
    BY DEF Duplicacy!Row
  <1>4. row.latest \in {0, latest}
    BY DEF Duplicacy!Row
  <1>5. row.reason = Duplicacy!Reason(entry, disk)
    BY DEF Duplicacy!Row
  <1> HIDE DEF row
  <1>6. row.count > 0 =>
          \A i \in readable : Duplicacy!EndTime(disk.files[i]) <= row.latest
    BY <1>2, <1>3
  <1>7. row.latest > 0 =>
          \E i \in readable : Duplicacy!EndTime(disk.files[i]) = row.latest
    BY <1>2, <1>4
  <1>8. ASSUME row.reason = "ok"
        PROVE  /\ \E i \in readable :
                    day - Duplicacy!EndTime(disk.files[i])
                      <= Duplicacy!StaleAfter(entry)
               /\ \A i \in Duplicacy!Files :
                    disk.files[i].is = "corrupt" =>
                      SnapshotSlots[i] \in disk.closed
    <2>1. /\ Duplicacy!Corrupt(disk) = {} /\ latest # 0
          /\ ~ (day - latest > Duplicacy!StaleAfter(entry))
      <3>1. Duplicacy!RepoReason(entry, disk) \in
              {"fine", "path_not_found", "path_unreadable",
               "not_a_duplicacy_repo", "storage_id_not_found"}
        BY DEF Duplicacy!RepoReason, Duplicacy!PathReason
      <3> QED
        BY <1>5, <1>8, <3>1 DEF Duplicacy!Reason
    <2>2. Duplicacy!StaleAfter(entry) \in Nat /\ day \in Nat
      BY DEF Duplicacy!StaleAfter, Duplicacy!DuplicacyAssumption,
         DuplicacyIInv
    <2>3. PICK i \in readable : Duplicacy!EndTime(disk.files[i]) = latest
      BY <1>2, <2>1
    <2>4. \A j \in Duplicacy!Files :
            disk.files[j].is = "corrupt" => SnapshotSlots[j] \in disk.closed
      BY <2>1 DEF Duplicacy!Corrupt, Duplicacy!Read
    <2> QED
      BY <1>2, <2>1, <2>2, <2>3, <2>4
  <1> QED
    BY <1>6, <1>7, <1>8 DEF Duplicacy!RowIsTrue, row, readable

\* When a row is "ok".
LEMMA RowOk ==
  ASSUME NEW e, NEW d
  PROVE  Duplicacy!Reason(e, d) = "ok" <=>
           /\ Duplicacy!RepoReason(e, d) = "fine"
           /\ Duplicacy!SnapshotsDir(e, d) = "dir"
           /\ Duplicacy!Corrupt(d) = {} /\ Duplicacy!Latest(d) # 0
           /\ ~ (day - Duplicacy!Latest(d) > Duplicacy!StaleAfter(e))
  <1>1. Duplicacy!RepoReason(e, d) \in
          {"fine", "path_not_found", "path_unreadable",
           "not_a_duplicacy_repo", "storage_id_not_found"}
    BY DEF Duplicacy!RepoReason, Duplicacy!PathReason
  <1> QED
    BY <1>1 DEF Duplicacy!Reason

\* A backup whose files are the same or newer, in the same place, is not
\* older.
LEMMA BackupIsNewer ==
  ASSUME DuplicacyIInv, Duplicacy!DuplicacyAssumption, NEW d,
         FilesUntil(d, day),
         d.closed = disk.closed,
         Duplicacy!Parsed(disk) \subseteq Duplicacy!Parsed(d),
         \A i \in Duplicacy!Parsed(disk) :
           Duplicacy!EndTime(disk.files[i]) <= Duplicacy!EndTime(d.files[i])
  PROVE  Duplicacy!Latest(disk) <= Duplicacy!Latest(d)
  <1>1. day \in Nat /\ FilesUntil(disk, day)
    BY DEF DuplicacyIInv
  <1>2. /\ Duplicacy!Latest(disk) \in 0 .. day
        /\ Duplicacy!Latest(d) \in 0 .. day
        /\ \A i \in Duplicacy!Parsed(d) :
             Duplicacy!EndTime(d.files[i]) <= Duplicacy!Latest(d)
        /\ Duplicacy!Latest(disk) > 0 =>
             \E i \in Duplicacy!Parsed(disk) :
               Duplicacy!EndTime(disk.files[i]) = Duplicacy!Latest(disk)
    BY <1>1, LatestBackup
  <1>3. CASE Duplicacy!Latest(disk) > 0
    <2>1. PICK i \in Duplicacy!Parsed(disk) :
            Duplicacy!EndTime(disk.files[i]) = Duplicacy!Latest(disk)
      BY <1>2, <1>3
    <2>2. i \in Duplicacy!Files
      BY <2>1 DEF Duplicacy!Parsed, Duplicacy!Read
    <2>3. Duplicacy!EndTime(d.files[i]) \in Nat
      BY <2>2 DEF FilesUntil, Duplicacy!EndTime
    <2> QED
      BY <1>2, <2>1, <2>3
  <1> QED
    BY <1>2, <1>3

\* The places and the entry decide where a scan reads.
LEMMA SamePlaces ==
  ASSUME NEW e, NEW c, NEW d, d.path = c.path, d.repo = c.repo,
         d.snapshots = c.snapshots, d.preferences = c.preferences,
         d.storage = c.storage
  PROVE  /\ Duplicacy!RepoReason(e, d) = Duplicacy!RepoReason(e, c)
         /\ Duplicacy!SnapshotsDir(e, d) = Duplicacy!SnapshotsDir(e, c)
         /\ Duplicacy!LeadsToStorage(e, d) = Duplicacy!LeadsToStorage(e, c)
         /\ Duplicacy!Walked(e, d) = Duplicacy!Walked(e, c)
  BY DEF Duplicacy!RepoReason, Duplicacy!PathReason, Duplicacy!RepoDir,
     Duplicacy!SnapshotsDir, Duplicacy!LeadsToStorage, Duplicacy!StorageName,
     Duplicacy!Walked

\* The disk d after a backup that begins or ends today with file i.
Written(i, g, d) ==
  /\ i \in Duplicacy!Files
  /\ DOMAIN g = {"is", "start", "end"} /\ g.is = "snapshot"
  /\ g.start \in 0 .. day /\ g.end \in 0 .. day
  /\ Duplicacy!EndTime(g) = day
  /\ disk.files[i].is \notin {"corrupt", "alien"}
  /\ d = [disk EXCEPT !.incomplete = d.incomplete, !.files[i] = g]

\* A backup that begins or ends changes one file.
LEMMA BackupWrites ==
  ASSUME DuplicacyIInv, NEW i, NEW g, NEW d, Written(i, g, d)
  PROVE  /\ FilesUntil(d, day)
         /\ d.path = disk.path /\ d.repo = disk.repo
         /\ d.snapshots = disk.snapshots /\ d.storage = disk.storage
         /\ d.preferences = disk.preferences /\ d.closed = disk.closed
         /\ d.files[i] = g
         /\ Duplicacy!Corrupt(d) = Duplicacy!Corrupt(disk)
         /\ Duplicacy!Parsed(disk) \subseteq Duplicacy!Parsed(d)
         /\ \A j \in Duplicacy!Parsed(disk) :
              Duplicacy!EndTime(disk.files[j])
                <= Duplicacy!EndTime(d.files[j])
  <1>0. /\ i \in Duplicacy!Files
        /\ DOMAIN g = {"is", "start", "end"} /\ g.is = "snapshot"
        /\ g.start \in 0 .. day /\ g.end \in 0 .. day
        /\ Duplicacy!EndTime(g) = day
        /\ disk.files[i].is \notin {"corrupt", "alien"}
        /\ d = [disk EXCEPT !.incomplete = d.incomplete, !.files[i] = g]
    BY DEF Written
  <1>1. /\ day \in Nat \ {0} /\ FilesUntil(disk, day)
        /\ DOMAIN disk = {"path", "repo", "snapshots", "preferences",
                          "storage", "closed", "files", "incomplete"}
        /\ DOMAIN disk.files = Duplicacy!Files
    BY DEF DuplicacyIInv
  <1>2. /\ d.path = disk.path /\ d.repo = disk.repo
        /\ d.snapshots = disk.snapshots /\ d.storage = disk.storage
        /\ d.preferences = disk.preferences /\ d.closed = disk.closed
        /\ d.files = [disk.files EXCEPT ![i] = g]
    BY <1>0, <1>1
  <1>3. \A j \in Duplicacy!Files :
          d.files[j] = IF j = i THEN g ELSE disk.files[j]
    BY <1>0, <1>1, <1>2
  <1>4. FilesUntil(d, day)
    BY <1>0, <1>1, <1>3 DEF FilesUntil
  <1>5. Duplicacy!Read(d) = Duplicacy!Read(disk)
    BY <1>2 DEF Duplicacy!Read
  <1>6. Duplicacy!Read(disk) \subseteq Duplicacy!Files
    BY DEF Duplicacy!Read
  <1>7. /\ Duplicacy!Corrupt(d) = Duplicacy!Corrupt(disk)
        /\ Duplicacy!Parsed(disk) \subseteq Duplicacy!Parsed(d)
    BY <1>0, <1>3, <1>5, <1>6 DEF Duplicacy!Corrupt, Duplicacy!Parsed
  <1>8. ASSUME NEW j \in Duplicacy!Parsed(disk)
        PROVE  Duplicacy!EndTime(disk.files[j])
                 <= Duplicacy!EndTime(d.files[j])
    <2>1. j \in Duplicacy!Files
      BY <1>6 DEF Duplicacy!Parsed
    <2>2. Duplicacy!EndTime(disk.files[j]) \in 0 .. day
      BY <1>1, <2>1 DEF FilesUntil, Duplicacy!EndTime
    <2>3. \/ d.files[j] = disk.files[j]
          \/ Duplicacy!EndTime(d.files[j]) = day
      BY <1>0, <1>3, <2>1
    <2> QED
      BY <1>1, <2>2, <2>3
  <1> QED
    BY <1>0, <1>2, <1>3, <1>4, <1>7, <1>8

\* The row of the next state, on the same day and of the same entry.
LEMMA RowThen ==
  ASSUME day' = day, entry' = entry
  PROVE  /\ Duplicacy!Row(entry, disk)'
              = [reason |-> Duplicacy!Reason(entry, disk'),
                 latest |-> IF Duplicacy!Walked(entry, disk')
                            THEN Duplicacy!Latest(disk') ELSE 0,
                 count |-> IF Duplicacy!Walked(entry, disk')
                           THEN Duplicacy!Cardinality(Duplicacy!Parsed(disk'))
                           ELSE 0,
                 running |-> Duplicacy!Running(entry, disk')]
  <1>1. Duplicacy!Reason(entry, disk)' = Duplicacy!Reason(entry, disk')
    BY DEF Duplicacy!Reason
  <1> QED
    BY <1>1 DEF Duplicacy!Row

\* A repair keeps an "ok": what a row that is "ok" depends on was in order.
LEMMA RepairKeepsOk ==
  ASSUME DuplicacyIInv, Duplicacy!Repairs,
         Duplicacy!Reason(entry, disk) = "ok"
  PROVE  Duplicacy!Reason(entry, disk') = "ok"
  <1>1. /\ Duplicacy!RepoReason(entry, disk) = "fine"
        /\ Duplicacy!SnapshotsDir(entry, disk) = "dir"
        /\ Duplicacy!Corrupt(disk) = {} /\ Duplicacy!Latest(disk) # 0
        /\ ~ (day - Duplicacy!Latest(disk) > Duplicacy!StaleAfter(entry))
    BY RowOk
  <1>2. /\ disk.path = "dir" /\ disk.repo = "dir" /\ disk.snapshots = "dir"
        /\ Duplicacy!LeadsToStorage(entry, disk)
    BY <1>1 DEF Duplicacy!RepoReason, Duplicacy!PathReason,
       Duplicacy!RepoDir, Duplicacy!SnapshotsDir, Duplicacy!LeadsToStorage
  <1>3. \A place \in Duplicacy!Places : disk[place] = "dir"
    BY <1>2 DEF Duplicacy!Places
  <1>4. disk' = [disk EXCEPT !.preferences = TRUE]
    BY <1>3 DEF Duplicacy!Repairs
  <1>5. /\ disk'.path = disk.path /\ disk'.repo = disk.repo
        /\ disk'.snapshots = disk.snapshots /\ disk'.storage = disk.storage
        /\ disk'.preferences = TRUE /\ disk'.closed = disk.closed
        /\ disk'.files = disk.files
    BY <1>4 DEF DuplicacyIInv
  <1>6. Duplicacy!RepoReason(entry, disk') = "fine"
    BY <1>1, <1>5 DEF Duplicacy!RepoReason, Duplicacy!PathReason,
       Duplicacy!RepoDir
  <1>7. Duplicacy!SnapshotsDir(entry, disk') = "dir"
    BY <1>2, <1>5 DEF Duplicacy!SnapshotsDir, Duplicacy!LeadsToStorage,
       Duplicacy!StorageName
  <1>8. /\ Duplicacy!Read(disk') = Duplicacy!Read(disk)
        /\ Duplicacy!Corrupt(disk') = Duplicacy!Corrupt(disk)
        /\ Duplicacy!Parsed(disk') = Duplicacy!Parsed(disk)
    BY <1>5 DEF Duplicacy!Read, Duplicacy!Corrupt, Duplicacy!Parsed
  <1>9. Duplicacy!Latest(disk') = Duplicacy!Latest(disk)
    BY <1>5, <1>8 DEF Duplicacy!Latest
  <1> QED
    BY <1>1, <1>6, <1>7, <1>8, <1>9, RowOk

\* So does a backup that begins or ends.
LEMMA BackupKeepsOk ==
  ASSUME Duplicacy!DuplicacyAssumption, DuplicacyIInv,
         NEW i, NEW g, NEW d, Written(i, g, d),
         Duplicacy!Reason(entry, disk) = "ok"
  PROVE  Duplicacy!Reason(entry, d) = "ok"
  <1>1. /\ Duplicacy!RepoReason(entry, disk) = "fine"
        /\ Duplicacy!SnapshotsDir(entry, disk) = "dir"
        /\ Duplicacy!Corrupt(disk) = {} /\ Duplicacy!Latest(disk) # 0
        /\ ~ (day - Duplicacy!Latest(disk) > Duplicacy!StaleAfter(entry))
    BY RowOk
  <1>2. /\ FilesUntil(d, day)
        /\ d.path = disk.path /\ d.repo = disk.repo
        /\ d.snapshots = disk.snapshots /\ d.storage = disk.storage
        /\ d.preferences = disk.preferences /\ d.closed = disk.closed
        /\ Duplicacy!Corrupt(d) = Duplicacy!Corrupt(disk)
        /\ Duplicacy!Parsed(disk) \subseteq Duplicacy!Parsed(d)
        /\ \A j \in Duplicacy!Parsed(disk) :
             Duplicacy!EndTime(disk.files[j])
               <= Duplicacy!EndTime(d.files[j])
    BY BackupWrites
  <1>3. /\ Duplicacy!RepoReason(entry, d) = "fine"
        /\ Duplicacy!SnapshotsDir(entry, d) = "dir"
    BY <1>1, <1>2, SamePlaces
  <1>4. Duplicacy!Latest(disk) <= Duplicacy!Latest(d)
    BY <1>2, BackupIsNewer
  <1>5. /\ day \in Nat /\ Duplicacy!StaleAfter(entry) \in Nat
        /\ Duplicacy!Latest(disk) \in Nat /\ Duplicacy!Latest(d) \in Nat
    <2>1. day \in Nat /\ FilesUntil(disk, day)
      BY DEF DuplicacyIInv
    <2>2. /\ Duplicacy!Latest(disk) \in 0 .. day
          /\ Duplicacy!Latest(d) \in 0 .. day
      BY <1>2, <2>1, LatestBackup
    <2>3. Duplicacy!StaleAfter(entry) \in Nat
      BY DEF Duplicacy!StaleAfter, Duplicacy!DuplicacyAssumption,
         DuplicacyIInv
    <2> QED
      BY <2>1, <2>2, <2>3
  <1> QED
    BY <1>1, <1>2, <1>3, <1>4, <1>5, RowOk

\* A backup that ends is in the row at once, and no "ok" is lost to it.
LEMMA SuccessNoticed ==
  ASSUME Duplicacy!DuplicacyAssumption, DuplicacyIInv
  PROVE  Duplicacy!SuccessIsNoticed
  <1> DEFINE old == Duplicacy!Row(entry, disk)
             new == Duplicacy!Row(entry, disk)'
  <1>0. /\ day \in Nat \ {0} /\ FilesUntil(disk, day)
        /\ DOMAIN disk = {"path", "repo", "snapshots", "preferences",
                          "storage", "closed", "files", "incomplete"}
        /\ DOMAIN disk.files = Duplicacy!Files
    BY DEF DuplicacyIInv
  <1>1. old.reason = Duplicacy!Reason(entry, disk)
    BY DEF Duplicacy!Row
  <1>2. ASSUME day' = day, entry' = entry
        PROVE  /\ new.reason = Duplicacy!Reason(entry, disk')
               /\ new.running = Duplicacy!Running(entry, disk')
               /\ Duplicacy!Walked(entry, disk') =>
                    new.latest = Duplicacy!Latest(disk')
    BY <1>2, RowThen
  <1>3. ASSUME Duplicacy!Repairs, old.reason = "ok"
        PROVE  new.reason = "ok"
    <2>1. day' = day /\ entry' = entry
      BY <1>3 DEF Duplicacy!Repairs, Duplicacy!Event, Duplicacy!Happens
    <2> QED
      BY <1>1, <1>2, <1>3, <2>1, RepairKeepsOk
  <1>4. ASSUME Duplicacy!Starts, old.reason = "ok"
        PROVE  new.reason = "ok"
    <2>1. day' = day /\ entry' = entry
      BY <1>4 DEF Duplicacy!Starts, Duplicacy!Event, Duplicacy!Happens
    <2> DEFINE g == [is |-> "snapshot", start |-> day, end |-> 0]
    <2>2. PICK i \in Duplicacy!Files :
            /\ disk.files[i].is = "none"
            /\ disk' = [disk EXCEPT !.incomplete = TRUE, !.files[i] = g]
      BY <1>4 DEF Duplicacy!Starts
    <2>3. /\ DOMAIN g = {"is", "start", "end"} /\ g.is = "snapshot"
          /\ g.start \in 0 .. day /\ g.end \in 0 .. day
          /\ Duplicacy!EndTime(g) = day
      BY <1>0 DEF Duplicacy!EndTime
    <2> HIDE DEF g
    <2>4. Written(i, g, disk')
      BY <1>0, <2>2, <2>3 DEF Written
    <2>5. Duplicacy!Reason(entry, disk') = "ok"
      BY <1>1, <1>4, <2>4, BackupKeepsOk
    <2> QED
      BY <1>2, <2>1, <2>5
  <1>5. ASSUME Duplicacy!Finishes
        PROVE  /\ old.reason = "ok" => new.reason = "ok"
               /\ disk.closed = {} /\ Duplicacy!Walked(entry, disk) =>
                    /\ new.latest = day /\ ~new.running
                    /\ new.reason \in {"ok", "corrupt_snapshot"}
    <2>1. day' = day /\ entry' = entry
      BY <1>5 DEF Duplicacy!Finishes, Duplicacy!Event, Duplicacy!Happens
    <2>2. PICK i \in Duplicacy!Files :
            /\ disk.files[i].is = "snapshot" /\ disk.files[i].end = 0
            /\ disk' = [disk EXCEPT !.incomplete = FALSE,
                                    !.files[i].end = day]
      BY <1>5 DEF Duplicacy!Finishes
    <2> DEFINE g == [disk.files[i] EXCEPT !.end = day]
    <2>3. /\ DOMAIN g = {"is", "start", "end"} /\ g.is = "snapshot"
          /\ g.start \in 0 .. day /\ g.end \in 0 .. day
          /\ Duplicacy!EndTime(g) = day
      BY <1>0, <2>2 DEF Duplicacy!EndTime, FilesUntil
    <2>4. disk' = [disk EXCEPT !.incomplete = FALSE, !.files[i] = g]
      BY <1>0, <2>2
    <2> HIDE DEF g
    <2>5. Written(i, g, disk')
      BY <1>0, <2>2, <2>3, <2>4 DEF Written
    <2>6. old.reason = "ok" => new.reason = "ok"
      BY <1>1, <1>2, <2>1, <2>5, BackupKeepsOk
    <2>7. ASSUME disk.closed = {}, Duplicacy!Walked(entry, disk)
          PROVE  /\ new.latest = day /\ ~new.running
                 /\ new.reason \in {"ok", "corrupt_snapshot"}
      <3>1. /\ FilesUntil(disk', day)
            /\ disk'.path = disk.path /\ disk'.repo = disk.repo
            /\ disk'.snapshots = disk.snapshots
            /\ disk'.storage = disk.storage
            /\ disk'.preferences = disk.preferences
            /\ disk'.closed = disk.closed
            /\ disk'.files[i] = g
        BY <2>5, BackupWrites
      <3>2. Duplicacy!Walked(entry, disk')
        BY <2>7, <3>1, SamePlaces
      <3>3. ~ Duplicacy!Running(entry, disk')
        BY <1>0, <2>2 DEF Duplicacy!Running
      <3>4. i \in Duplicacy!Parsed(disk')
        BY <2>3, <2>7, <3>1 DEF Duplicacy!Parsed, Duplicacy!Read
      <3>5. Duplicacy!Latest(disk') = day
        <4>1. /\ Duplicacy!Latest(disk') \in 0 .. day
              /\ Duplicacy!EndTime(disk'.files[i])
                   <= Duplicacy!Latest(disk')
          BY <1>0, <3>1, <3>4, LatestBackup
        <4> QED
          BY <1>0, <2>3, <3>1, <4>1
      <3>6. Duplicacy!StaleAfter(entry) \in Nat
        BY DEF Duplicacy!StaleAfter, Duplicacy!DuplicacyAssumption,
           DuplicacyIInv
      <3>7. Duplicacy!Reason(entry, disk') \in {"ok", "corrupt_snapshot"}
        <4>1. /\ Duplicacy!RepoReason(entry, disk') = "fine"
              /\ Duplicacy!SnapshotsDir(entry, disk') = "dir"
          BY <3>2 DEF Duplicacy!Walked
        <4>2. ~ (day - Duplicacy!Latest(disk') > Duplicacy!StaleAfter(entry))
                /\ Duplicacy!Latest(disk') # 0
          BY <1>0, <3>5, <3>6
        <4> QED
          BY <4>1, <4>2 DEF Duplicacy!Reason
      <3> QED
        BY <1>2, <2>1, <3>2, <3>3, <3>5, <3>7
    <2> QED
      BY <2>6, <2>7
  <1> HIDE DEF old, new
  <1>6. /\ (Duplicacy!Finishes /\ disk.closed = {}
              /\ Duplicacy!Walked(entry, disk)) =>
             /\ new.latest = day /\ ~new.running
             /\ new.reason \in {"ok", "corrupt_snapshot"}
        /\ ((Duplicacy!Repairs \/ Duplicacy!Starts \/ Duplicacy!Finishes)
              /\ old.reason = "ok") => new.reason = "ok"
    BY <1>3, <1>4, <1>5
  <1> QED
    BY <1>6, Zenon DEF Duplicacy!SuccessIsNoticed, old, new

\* The rows of Duplicacy are true, whatever happens to the disk.
LEMMA DuplicacyRows ==
  ASSUME Duplicacy!DuplicacyAssumption
  PROVE  Duplicacy!Spec => [][Duplicacy!RowsAreTrue]_(Duplicacy!vars)
  <1>1. Duplicacy!Init => DuplicacyIInv
    BY DuplicacyInit
  <1>2. DuplicacyIInv /\ [Duplicacy!Next]_(Duplicacy!vars) => DuplicacyIInv'
    BY DuplicacyStep
  <1>3. DuplicacyIInv => Duplicacy!RowIsTrue
    BY DuplicacyRowIsTrue
  <1>4. DuplicacyIInv => Duplicacy!SuccessIsNoticed
    BY SuccessNoticed
  <1>5. Duplicacy!RowIsTrue' /\ Duplicacy!SuccessIsNoticed
          => Duplicacy!RowsAreTrue
    BY DEF Duplicacy!RowsAreTrue
  <1> QED
    BY <1>1, <1>2, <1>3, <1>4, <1>5, PTL DEF Duplicacy!Spec

\* The rows after one more entry.
Added(rows, e, list, info) ==
  IF ~Borg!Polled(e) THEN rows
  ELSE Borg!Merge(rows, Borg!External(e, list, info))

\* w holds the rows after each entry.
Merging(configured, list, info, w) ==
  /\ w[0] = Borg!Detected(list, info)
  /\ \A i \in 1 .. Len(configured) :
       w[i] = Added(w[i - 1], configured[i], list, info)

\* The rows of a scan come entry by entry.
LEMMA RowsAreMerged ==
  ASSUME NEW configured, Len(configured) \in Nat, NEW list, NEW info
  PROVE  \E w : /\ Merging(configured, list, info, w)
                /\ Borg!Rows(configured, list, info) = w[Len(configured)]
  <1>0. PICK n \in Nat : n = Len(configured)
    OBVIOUS
  <1> DEFINE D == Borg!Detected(list, info)
             A(rows, i) ==
               IF ~Borg!Polled(configured[i]) THEN rows
               ELSE Borg!Merge(rows, Borg!External(configured[i], list, info))
             Until(k, u) == u[0] = D /\ \A i \in 1 .. k : u[i] = A(u[i - 1], i)
             S == {k \in 0 .. n : \E u : u = [i \in 0 .. k |-> u[i]]
                                           /\ Until(k, u)}
             R(u) == [i \in 0 .. Len(configured) |->
                        IF i = 0 THEN D
                        ELSE IF ~Borg!Polled(configured[i]) THEN u[i - 1]
                        ELSE Borg!Merge(u[i - 1],
                               Borg!External(configured[i], list, info))]
  <1>1. 0 \in S
    <2> DEFINE v == [i \in 0 .. 0 |-> D]
    <2>1. v = [i \in 0 .. 0 |-> v[i]] /\ Until(0, v)
      <3> HIDE DEF D, A
      <3> QED
        OBVIOUS
    <2> HIDE DEF v, Until
    <2> QED
      BY <2>1
  <1>2. ASSUME NEW k \in 0 .. n - 1, k \in S
        PROVE  k + 1 \in S
    <2>1. PICK u : u = [i \in 0 .. k |-> u[i]] /\ Until(k, u)
      BY <1>2
    <2> DEFINE v == [i \in 0 .. k + 1 |-> IF i = k + 1 THEN A(u[k], k + 1)
                                                       ELSE u[i]]
    <2> HIDE DEF D, A
    <2>2. v = [i \in 0 .. k + 1 |-> v[i]]
      OBVIOUS
    <2>3. Until(k + 1, v)
      <3>1. ASSUME NEW i \in 1 .. k + 1
            PROVE  v[i] = A(v[i - 1], i)
        <4>1. v[i - 1] = u[i - 1]
          OBVIOUS
        <4>2. v[i] = IF i = k + 1 THEN A(u[k], k + 1) ELSE u[i]
          OBVIOUS
        <4>3. CASE i = k + 1
          <5>1. i - 1 = k
            BY <4>3
          <5> HIDE DEF v
          <5> QED
            BY <4>1, <4>2, <4>3, <5>1
        <4>4. CASE i # k + 1
          <5>1. i \in 1 .. k
            BY <4>4
          <5> HIDE DEF v
          <5> QED
            BY <2>1, <4>1, <4>2, <4>4, <5>1
        <4> QED
          BY <4>3, <4>4
      <3>2. v[0] = D
        BY <2>1
      <3> HIDE DEF v
      <3> QED
        BY <3>1, <3>2
    <2>4. k + 1 \in 0 .. n
      OBVIOUS
    <2> HIDE DEF v, Until
    <2> QED
      BY <2>2, <2>3, <2>4
  <1>3. n \in S
    <2> HIDE DEF S, D, A, Until, R
    <2>1. 0 .. n \subseteq S
      BY <1>1, <1>2, UpTo
    <2> QED
      BY <2>1
  <1>4. PICK u : u = [i \in 0 .. n |-> u[i]] /\ Until(n, u)
    BY <1>3
  <1>5. u = R(u)
    <2>1. \A i \in 0 .. n : u[i] = R(u)[i]
      <3> HIDE DEF D
      <3> QED
        BY <1>0, <1>4
    <2>2. R(u) = [i \in 0 .. n |-> R(u)[i]]
      BY <1>0
    <2> HIDE DEF R
    <2> QED
      BY <1>4, <2>1, <2>2
  <1> DEFINE w == CHOOSE x : x = R(x)
  <1>6. w = R(w)
    <2> HIDE DEF R
    <2> QED
      BY <1>5
  <1>7. Merging(configured, list, info, w)
    <2>1. w[0] = D
      <3> HIDE DEF w, D
      <3>1. R(w)[0] = D
        BY <1>0
      <3> HIDE DEF R
      <3> QED
        BY <1>6, <3>1
    <2>2. ASSUME NEW i \in 1 .. Len(configured)
          PROVE  w[i] = Added(w[i - 1], configured[i], list, info)
      <3> HIDE DEF w, D
      <3>1. R(w)[i] = Added(w[i - 1], configured[i], list, info)
        BY <1>0 DEF Added
      <3> HIDE DEF R
      <3> QED
        BY <1>6, <3>1
    <2> QED
      BY <2>1, <2>2 DEF Merging
  <1>8. Borg!Rows(configured, list, info) = w[Len(configured)]
    BY DEF Borg!Rows
  <1> HIDE DEF w
  <1> QED
    BY <1>7, <1>8

\* What a row of a repository is.
BorgReasons ==
  {"binary_not_found", "repo_readonly", "passphrase_rejected", "ssh_timeout",
   "corrupt_repo", "repo_inaccessible", "unknown"}
BackupRow == [path : STRING, label : STRING \cup {""}, configured : BOOLEAN,
              error : BorgReasons \cup {""},
              status : {"ok", "warning", "stale", "failed"}]

\* The time of the last archive is one the status knows.
Dated(w) == w.last \in Nat \cup {Borg!None}

\* backupStatus.
LEMMA StatusOf ==
  ASSUME NEW t \in Nat \cup {Borg!None}
  PROVE  /\ Borg!BackupStatus(t) \in {"ok", "warning", "stale", "failed"}
         /\ Borg!BackupStatus(t) = "ok" => t \in 0 .. 24
         /\ Borg!BackupStatus(t) = "failed" => t = Borg!None
  BY DEF Borg!BackupStatus, Borg!None

\* What borg's failure is called is broken.
LEMMA FailureIsNamed ==
  ASSUME NEW e, NEW w, Borg!Call(e, w) # "ok"
  PROVE  /\ Borg!Classify(Borg!Call(e, w)) \in BorgReasons
         /\ Borg!Broken(Borg!Classify(Borg!Call(e, w)), w)
  <1>1. CASE Borg!Call(e, w) = "exec.Error"
    <2>1. ~w.onPath
      BY <1>1 DEF Borg!Call
    <2> QED
      BY <1>1, <2>1 DEF Borg!Classify, Borg!Broken, BorgReasons
  <1>2. CASE Borg!Call(e, w) = "PathError"
    <2>1. w.override # "works"
      BY <1>2 DEF Borg!Call
    <2> QED
      BY <1>2, <2>1 DEF Borg!Classify, Borg!Broken, BorgReasons
  <1>3. CASE Borg!Call(e, w) = "signal: killed"
    <2>1. w.link = "hangs"
      BY <1>3 DEF Borg!Call
    <2> QED
      BY <1>3, <2>1 DEF Borg!Classify, Borg!Broken, BorgReasons
  <1>4. CASE Borg!Call(e, w) = "connection refused"
    <2>1. w.link = "refused"
      BY <1>4 DEF Borg!Call
    <2> QED
      BY <1>4, <2>1 DEF Borg!Classify, Borg!Broken, BorgReasons
  <1>5. CASE Borg!Call(e, w) = "does not exist"
    <2>1. w.repo = "absent"
      BY <1>5 DEF Borg!Call
    <2> QED
      BY <1>5, <2>1 DEF Borg!Classify, Borg!Broken, BorgReasons
  <1>6. CASE Borg!Call(e, w) = "read-only file system"
    <2>1. w.repo = "readonly"
      BY <1>6 DEF Borg!Call
    <2> QED
      BY <1>6, <2>1 DEF Borg!Classify, Borg!Broken, BorgReasons
  <1>7. CASE Borg!Call(e, w) = "passphrase is incorrect"
    <2>1. Borg!Passphrase(e, w) # "right"
      BY <1>7 DEF Borg!Call
    <2>2. "right" \notin {w.ambient, w.named} \/ w.ambient # w.named
      BY <2>1 DEF Borg!Passphrase
    <2> QED
      BY <1>7, <2>2 DEF Borg!Classify, Borg!Broken, BorgReasons
  <1>8. CASE Borg!Call(e, w) = "corruption"
    <2>1. w.repo = "damaged"
      BY <1>8 DEF Borg!Call
    <2> QED
      BY <1>8, <2>1 DEF Borg!Classify, Borg!Broken, BorgReasons
  <1>9. Borg!Call(e, w) \in
          {"exec.Error", "PathError", "signal: killed", "connection refused",
           "does not exist", "read-only file system",
           "passphrase is incorrect", "corruption", "ok"}
    BY DEF Borg!Call
  <1> QED
    BY <1>1, <1>2, <1>3, <1>4, <1>5, <1>6, <1>7, <1>8, <1>9

\* An answer is of one of the two moments the probe looked at.
Told(error, success, list, info) ==
  /\ error \in BorgReasons \cup {""}
  /\ error # "" => Borg!Broken(error, list) \/ Borg!Broken(error, info)
  /\ error = "" => /\ success \in Nat \cup {Borg!None}
                   /\ success \in {Borg!None, info.last}
                   /\ success = Borg!None =>
                        Borg!None \in {list.last, info.last}

\* Info: a probe tells what it was told.
LEMMA ProbeIsTrue ==
  ASSUME NEW e, NEW list, NEW info, Dated(list), Dated(info)
  PROVE  Told(Borg!Info(e, list, info).error,
              Borg!Info(e, list, info).success, list, info)
  <1> DEFINE cl == Borg!Classify(Borg!Call(e, list))
             ci == Borg!Classify(Borg!Call(e, info))
  <1>0. PICK answer : answer = Borg!Info(e, list, info)
    OBVIOUS
  <1>1. answer = IF Borg!Call(e, list) # "ok"
                 THEN [error |-> cl, success |-> Borg!None]
                 ELSE IF list.last = Borg!None
                 THEN [error |-> "", success |-> Borg!None]
                 ELSE IF Borg!Call(e, info) # "ok"
                 THEN [error |-> ci, success |-> Borg!None]
                 ELSE [error |-> "", success |-> info.last]
    BY <1>0 DEF Borg!Info
  <1>2. Borg!Call(e, list) # "ok" =>
          cl \in BorgReasons /\ Borg!Broken(cl, list)
    BY FailureIsNamed
  <1>3. Borg!Call(e, info) # "ok" =>
          ci \in BorgReasons /\ Borg!Broken(ci, info)
    BY FailureIsNamed
  <1> HIDE DEF cl, ci
  <1>a. "" \notin BorgReasons
    BY DEF BorgReasons
  <1>4. ASSUME Borg!Call(e, list) # "ok"
        PROVE  Told(answer.error, answer.success, list, info)
    <2>1. Told(cl, Borg!None, list, info)
      BY <1>2, <1>4, <1>a DEF Told
    <2>2. answer.error = cl /\ answer.success = Borg!None
      BY <1>1, <1>4
    <2> QED
      BY <2>1, <2>2, Zenon
  <1>5. ASSUME Borg!Call(e, list) = "ok", list.last = Borg!None
        PROVE  Told(answer.error, answer.success, list, info)
    <2>1. answer.error = "" /\ answer.success = Borg!None
      BY <1>1, <1>5
    <2> QED
      BY <1>5, <2>1 DEF Told
  <1>6. ASSUME Borg!Call(e, list) = "ok", list.last # Borg!None,
               Borg!Call(e, info) # "ok"
        PROVE  Told(answer.error, answer.success, list, info)
    <2>1. Told(ci, Borg!None, list, info)
      BY <1>3, <1>6, <1>a DEF Told
    <2>2. answer.error = ci /\ answer.success = Borg!None
      BY <1>1, <1>6
    <2> QED
      BY <2>1, <2>2, Zenon
  <1>7. ASSUME Borg!Call(e, list) = "ok", list.last # Borg!None,
               Borg!Call(e, info) = "ok"
        PROVE  Told(answer.error, answer.success, list, info)
    <2>1. answer.error = "" /\ answer.success = info.last
      BY <1>1, <1>7
    <2> QED
      BY <2>1 DEF Told, Dated
  <1> QED
    BY <1>0, <1>4, <1>5, <1>6, <1>7, Zenon

\* A row's error or status is of one of the two moments.
Tells(row, list, info) ==
  /\ row.error # "" =>
       Borg!Broken(row.error, list) \/ Borg!Broken(row.error, info)
  /\ row.error = "" =>
       /\ row.status = "ok" => info.last \in 0 .. 24
       /\ row.status = "failed" => Borg!None \in {list.last, info.last}

\* The row of a probe.
LEMMA JobIsTrue ==
  ASSUME NEW e, e.path \in STRING, NEW list, NEW info, Dated(list),
         Dated(info)
  PROVE  /\ Borg!Job(e, list, info) \in BackupRow
         /\ Borg!Job(e, list, info).path = e.path
         /\ Borg!Job(e, list, info).configured = FALSE
         /\ Borg!Job(e, list, info).error = Borg!Info(e, list, info).error
         /\ Tells(Borg!Job(e, list, info), list, info)
  <1>0. PICK error, success : /\ error = Borg!Info(e, list, info).error
                              /\ success = Borg!Info(e, list, info).success
    OBVIOUS
  <1>1. PICK status : status = IF error = "" THEN Borg!BackupStatus(success)
                               ELSE "failed"
    OBVIOUS
  <1>2. PICK job : job = Borg!Job(e, list, info)
    OBVIOUS
  <1>3. job = [path |-> e.path, label |-> "", configured |-> FALSE,
               error |-> error, status |-> status]
    BY <1>0, <1>1, <1>2, Zenon DEF Borg!Job
  <1>4. Told(error, success, list, info)
    BY <1>0, ProbeIsTrue
  <1>5. /\ status \in {"ok", "warning", "stale", "failed"}
        /\ error = "" =>
             /\ status = "ok" => success \in 0 .. 24
             /\ status = "failed" => success = Borg!None
    <2>1. CASE error = ""
      <3>1. /\ success \in Nat \cup {Borg!None}
            /\ status = Borg!BackupStatus(success)
        BY <1>1, <1>4, <2>1 DEF Told
      <3> QED
        BY <3>1, StatusOf
    <2>2. CASE error # ""
      BY <1>1, <2>2
    <2> QED
      BY <2>1, <2>2
  <1>6. job \in BackupRow
    <2>1. error \in BorgReasons \cup {""}
      BY <1>4 DEF Told
    <2> QED
      BY <1>3, <1>5, <2>1 DEF BackupRow
  <1>7. /\ job.path = e.path /\ job.configured = FALSE
        /\ job.error = error /\ job.status = status
    BY <1>3
  <1>8. ASSUME error = "", status = "ok"
        PROVE  info.last \in 0 .. 24
    <2>1. success \in 0 .. 24 /\ success \in {Borg!None, info.last}
      BY <1>4, <1>5, <1>8 DEF Told
    <2> QED
      BY <2>1 DEF Borg!None
  <1>9. error = "" /\ status = "failed" =>
          Borg!None \in {list.last, info.last}
    BY <1>4, <1>5 DEF Told
  <1>10. error # "" => Borg!Broken(error, list) \/ Borg!Broken(error, info)
    BY <1>4 DEF Told
  <1>11. Tells(job, list, info)
    BY <1>7, <1>8, <1>9, <1>10, Zenon DEF Tells
  <1> QED
    BY <1>0, <1>2, <1>6, <1>7, <1>11

\* The items of a list.
LEMMA ListItems ==
  ASSUME NEW S, NEW f \in Seq(S)
  PROVE  \E n \in Nat : /\ n = Len(f) /\ DOMAIN f = 1 .. n
                        /\ \A i \in 1 .. n : f[i] \in S
  OBVIOUS

\* A function on 1 .. n is a list.
LEMMA ListOf ==
  ASSUME NEW S, NEW n \in Nat, NEW f \in [1 .. n -> S]
  PROVE  f \in Seq(S)
  OBVIOUS

\* A list with one item more.
LEMMA ListLonger ==
  ASSUME NEW S, NEW f \in Seq(S), NEW n \in Nat, n = Len(f), NEW x \in S
  PROVE  /\ Append(f, x) \in Seq(S) /\ DOMAIN Append(f, x) = 1 .. n + 1
         /\ \A i \in 1 .. n : Append(f, x)[i] = f[i]
         /\ Append(f, x)[n + 1] = x
  OBVIOUS

\* A list with another item in a place.
LEMMA ListWith ==
  ASSUME NEW S, NEW f \in Seq(S), NEW n \in Nat, n = Len(f), NEW x \in S,
         NEW m \in 1 .. n
  PROVE  /\ [f EXCEPT ![m] = x] \in Seq(S)
         /\ DOMAIN [f EXCEPT ![m] = x] = 1 .. n
         /\ \A i \in 1 .. n :
              [f EXCEPT ![m] = x][i] = IF i = m THEN x ELSE f[i]
  OBVIOUS

\* What the detected rows are.
LEMMA DetectedRows ==
  ASSUME NEW list, NEW info, Dated(list), Dated(info),
         list.found \in Seq(STRING)
  PROVE  /\ Borg!Detected(list, info) \in Seq(BackupRow)
         /\ \A i \in DOMAIN Borg!Detected(list, info) :
              /\ Borg!Detected(list, info)[i].configured = FALSE
              /\ Borg!Detected(list, info)[i].error = ""
              /\ Tells(Borg!Detected(list, info)[i], list, info)
  <1> DEFINE At(i) == Borg!Speculative(list.found[i])
             jobs == [i \in DOMAIN list.found |->
                        Borg!Job(At(i), list, info)]
  <1>0. PICK n \in Nat : n = Len(list.found)
    OBVIOUS
  <1>1. /\ DOMAIN list.found = 1 .. n
        /\ \A i \in 1 .. n : list.found[i] \in STRING
    BY <1>0
  <1>2. ASSUME NEW i \in 1 .. n
        PROVE  /\ Borg!Job(At(i), list, info) \in BackupRow
               /\ Borg!Job(At(i), list, info).configured = FALSE
               /\ Borg!Job(At(i), list, info).error
                    = Borg!Info(At(i), list, info).error
               /\ Tells(Borg!Job(At(i), list, info), list, info)
    <2>1. At(i).path \in STRING
      BY <1>1 DEF Borg!Speculative
    <2> HIDE DEF At
    <2> QED
      BY <2>1, JobIsTrue
  <1>3. CASE Borg!Detected(list, info) = <<>>
    BY <1>3
  <1>4. CASE Borg!Detected(list, info) # <<>>
    <2>1. /\ Borg!Detected(list, info) = jobs
          /\ \A i \in DOMAIN list.found :
               Borg!Info(At(i), list, info).error = ""
      BY <1>4, Zenon DEF Borg!Detected
    <2> HIDE DEF At
    <2>2. jobs \in Seq(BackupRow) /\ DOMAIN jobs = 1 .. n
      <3>1. jobs \in [1 .. n -> BackupRow]
        BY <1>1, <1>2
      <3> HIDE DEF jobs
      <3> QED
        BY <3>1, ListOf
    <2>3. \A i \in 1 .. n : jobs[i] = Borg!Job(At(i), list, info)
      BY <1>1
    <2> HIDE DEF jobs
    <2> QED
      BY <1>1, <1>2, <2>1, <2>2, <2>3
  <1> QED
    BY <1>3, <1>4

\* A configured row is the last one of its path and the path is watched; each
\* path watched so far has one; and every row tells of what was.
RowsUntil(rows, configured, k, list, info) ==
  /\ rows \in Seq(BackupRow)
  /\ \A i, j \in DOMAIN rows :
       (rows[i].configured /\ Borg!CanonicalRepoPath(rows[j].path)
                               = Borg!CanonicalRepoPath(rows[i].path))
         => j <= i
  /\ \A i \in DOMAIN rows : rows[i].configured =>
       \E j \in 1 .. k : /\ configured[j].enabled
                        /\ Borg!CanonicalRepoPath(rows[i].path)
                             = Borg!CanonicalRepoPath(configured[j].path)
  /\ \A j \in 1 .. k : configured[j].enabled =>
       \E i \in DOMAIN rows : /\ rows[i].configured
                             /\ Borg!CanonicalRepoPath(rows[i].path)
                                  = Borg!CanonicalRepoPath(configured[j].path)
  /\ \A i \in DOMAIN rows : /\ Tells(rows[i], list, info)
                            /\ rows[i].error # "" => rows[i].configured

\* The row of an entry, before it is merged.
LEMMA ExternalIsTrue ==
  ASSUME NEW e \in Borg!Entry, NEW list, NEW info, Dated(list), Dated(info)
  PROVE  /\ Borg!External(e, list, info) \in BackupRow
         /\ Borg!External(e, list, info).path = e.path
         /\ Borg!External(e, list, info).configured
         /\ Borg!External(e, list, info).label = e.label
         /\ Tells(Borg!External(e, list, info), list, info)
  <1>1. e.path \in STRING /\ e.label \in STRING
    BY DEF Borg!Entry
  <1>2. PICK probe : probe = Borg!Job(e, list, info)
    OBVIOUS
  <1>3. /\ probe \in BackupRow /\ probe.path = e.path
        /\ Tells(probe, list, info)
    BY <1>1, <1>2, JobIsTrue
  <1>4. PICK job : job = Borg!External(e, list, info)
    OBVIOUS
  <1>5. job = [probe EXCEPT !.configured = TRUE, !.label = e.label]
    BY <1>2, <1>4 DEF Borg!External
  <1>6. /\ job \in BackupRow /\ job.path = e.path /\ job.configured
        /\ job.error = probe.error /\ job.status = probe.status
        /\ job.label = e.label
    BY <1>1, <1>3, <1>5 DEF BackupRow
  <1>7. Tells(job, list, info)
    BY <1>3, <1>6 DEF Tells
  <1> QED
    BY <1>4, <1>6, <1>7

\* One more entry.
LEMMA OneMoreEntry ==
  ASSUME NEW rows, NEW configured, NEW k \in Nat, NEW list, NEW info,
         RowsUntil(rows, configured, k, list, info),
         Dated(list), Dated(info),
         configured[k + 1] \in Borg!Entry,
         configured[k + 1].enabled => configured[k + 1].path # "blank"
  PROVE  RowsUntil(Added(rows, configured[k + 1], list, info),
                   configured, k + 1, list, info)
  <1> DEFINE P(row) == Borg!CanonicalRepoPath(row.path)
  <1>0. PICK e : e = configured[k + 1]
    OBVIOUS
  <1>e. /\ e.enabled \in BOOLEAN /\ e.path \in STRING /\ e.label \in STRING
        /\ e.enabled => e.path # "blank"
    BY <1>0 DEF Borg!Entry
  <1>u. /\ rows \in Seq(BackupRow)
        /\ \A i, j \in DOMAIN rows :
             rows[i].configured /\ P(rows[j]) = P(rows[i]) => j <= i
        /\ \A i \in DOMAIN rows : rows[i].configured =>
             \E j \in 1 .. k : configured[j].enabled
                               /\ P(rows[i]) = P(configured[j])
        /\ \A j \in 1 .. k : configured[j].enabled =>
             \E i \in DOMAIN rows : rows[i].configured
                                    /\ P(rows[i]) = P(configured[j])
        /\ \A i \in DOMAIN rows : /\ Tells(rows[i], list, info)
                                  /\ rows[i].error # "" => rows[i].configured
    BY Zenon DEF RowsUntil
  <1>s. rows \in Seq(BackupRow)
    BY <1>u
  <1>n. PICK n \in Nat : /\ n = Len(rows) /\ DOMAIN rows = 1 .. n
                        /\ \A i \in 1 .. n : rows[i] \in BackupRow
    BY <1>s, ListItems, Zenon
  <1>d. DOMAIN rows = 1 .. n /\ \A i \in 1 .. n : rows[i] \in BackupRow
    BY <1>n
  <1>k. 1 .. k + 1 = (1 .. k) \cup {k + 1} /\ k + 1 \in 1 .. k + 1
    OBVIOUS
  <1> HIDE DEF P
  <1>1. CASE ~Borg!Polled(e)
    <2>1. ~e.enabled
      BY <1>1, <1>e DEF Borg!Polled
    <2>2. Added(rows, e, list, info) = rows
      BY <1>1 DEF Added
    <2>3. \A j \in 1 .. k + 1 : configured[j].enabled => j \in 1 .. k
      BY <1>0, <1>k, <2>1
    <2>4. \A j \in 1 .. k : j \in 1 .. k + 1
      OBVIOUS
    <2>5. RowsUntil(rows, configured, k + 1, list, info)
      BY <1>u, <2>3, <2>4, Zenon DEF RowsUntil, P
    <2> QED
      BY <1>0, <2>2, <2>5
  <1>2. CASE Borg!Polled(e)
    <2>1. e.enabled
      BY <1>2 DEF Borg!Polled
    <2>2. PICK job : job = Borg!External(e, list, info)
      OBVIOUS
    <2>6. /\ job \in BackupRow /\ job.path = e.path /\ job.configured
          /\ job.label = e.label /\ Tells(job, list, info)
      BY <1>0, <2>2, ExternalIsTrue
    <2>7. Tells(job, list, info)
      BY <2>6
    <2>8. Added(rows, e, list, info) = Borg!Merge(rows, job)
      BY <1>2, <2>2 DEF Added
    <2>9. P(job) = P(configured[k + 1]) /\ configured[k + 1].enabled
      BY <1>0, <2>1, <2>6 DEF P
    <2>10. PICK same : same = Borg!Same(rows, job)
      OBVIOUS
    <2>11. same = {i \in 1 .. n : P(rows[i]) = P(job)}
      BY <1>d, <2>10 DEF Borg!Same, P
    <2>12. CASE same = {}
      <3>1. PICK new : new = Append(rows, job)
        OBVIOUS
      <3>2. Borg!Merge(rows, job) = new
        BY <2>10, <2>12, <3>1 DEF Borg!Merge
      <3>3. /\ new \in Seq(BackupRow) /\ DOMAIN new = 1 .. n + 1
            /\ \A i \in 1 .. n : new[i] = rows[i]
            /\ new[n + 1] = job
        BY <1>n, <1>s, <2>6, <3>1, ListLonger
      <3>4. 1 .. n + 1 = (1 .. n) \cup {n + 1} /\ n + 1 \notin 1 .. n
        OBVIOUS
      <3>5. \A i \in 1 .. n : P(rows[i]) # P(job)
        BY <2>11, <2>12
      <3>6. ASSUME NEW i \in 1 .. n + 1, NEW j \in 1 .. n + 1,
                   new[i].configured, P(new[j]) = P(new[i])
            PROVE  j <= i
        <4>1. CASE i = n + 1
          BY <4>1
        <4>2. CASE i \in 1 .. n /\ j \in 1 .. n
          BY <1>d, <1>u, <3>3, <3>6, <4>2
        <4>3. CASE i \in 1 .. n /\ j = n + 1
          BY <3>3, <3>5, <3>6, <4>3
        <4> QED
          BY <3>4, <4>1, <4>2, <4>3
      <3>7. ASSUME NEW i \in 1 .. n + 1, new[i].configured
            PROVE  \E j \in 1 .. k + 1 : configured[j].enabled
                                         /\ P(new[i]) = P(configured[j])
        <4>1. CASE i = n + 1
          BY <1>k, <2>9, <3>3, <4>1
        <4>2. CASE i \in 1 .. n
          <5>1. rows[i].configured /\ new[i] = rows[i]
            BY <3>3, <3>7, <4>2
          <5>2. PICK j \in 1 .. k : configured[j].enabled
                                    /\ P(rows[i]) = P(configured[j])
            BY <1>d, <1>u, <4>2, <5>1
          <5> QED
            BY <1>k, <5>1, <5>2
        <4> QED
          BY <3>4, <4>1, <4>2
      <3>8. ASSUME NEW j \in 1 .. k + 1, configured[j].enabled
            PROVE  \E i \in 1 .. n + 1 : new[i].configured
                                         /\ P(new[i]) = P(configured[j])
        <4>1. CASE j = k + 1
          BY <2>6, <2>9, <3>3, <3>4, <4>1
        <4>2. CASE j \in 1 .. k
          <5>1. PICK i \in 1 .. n : rows[i].configured
                                    /\ P(rows[i]) = P(configured[j])
            BY <1>d, <1>u, <3>8, <4>2
          <5> QED
            BY <3>3, <3>4, <5>1
        <4> QED
          BY <1>k, <4>1, <4>2
      <3>9. ASSUME NEW i \in 1 .. n + 1
            PROVE  /\ Tells(new[i], list, info)
                   /\ new[i].error # "" => new[i].configured
        BY <1>d, <1>u, <2>6, <2>7, <3>3, <3>4
      <3>10. RowsUntil(new, configured, k + 1, list, info)
        <4>1. new \in Seq(BackupRow) /\ DOMAIN new = 1 .. n + 1
          BY <3>3
        <4> QED
          BY <3>6, <3>7, <3>8, <3>9, <4>1, Zenon DEF RowsUntil, P
      <3> QED
        BY <1>0, <2>8, <3>2, <3>10, Zenon
    <2>13. CASE same # {}
      <3>1. PICK m : m = Borg!Max(same)
        OBVIOUS
      <3>2. m \in same /\ \A i \in same : i <= m
        <4>1. same \subseteq 0 .. n
          BY <2>11
        <4>2. \E x \in same : \A y \in same : x >= y
          BY <2>13, <4>1, GreatestNatural
        <4>3. m \in same /\ \A y \in same : m >= y
          BY <3>1, <4>2 DEF Borg!Max
        <4> QED
          BY <4>1, <4>3
      <3>3. m \in 1 .. n /\ P(rows[m]) = P(job)
        BY <2>11, <3>2
      <3>4. PICK label : label = IF job.label = "" THEN rows[m].label
                                 ELSE job.label
        OBVIOUS
      <3>5. PICK g : g = [rows[m] EXCEPT !.configured = TRUE, !.label = label]
        OBVIOUS
      <3>6. PICK new : new = [rows EXCEPT ![m] = g]
        OBVIOUS
      <3>7. Borg!Merge(rows, job) = new
        <4>1. Borg!Merge(rows, job)
                = [rows EXCEPT ![m].configured = TRUE,
                               ![m].label = IF job.label = "" THEN @
                                            ELSE job.label]
          BY <2>10, <2>13, <3>1 DEF Borg!Merge
        <4> QED
          BY <1>d, <3>3, <3>4, <3>5, <3>6, <4>1
      <3>8. /\ g \in BackupRow /\ g.configured /\ g.path = rows[m].path
            /\ g.error = rows[m].error /\ g.status = rows[m].status
        BY <1>d, <1>e, <2>6, <3>3, <3>4, <3>5 DEF BackupRow
      <3>9. /\ new \in Seq(BackupRow) /\ DOMAIN new = 1 .. n
            /\ \A i \in 1 .. n : new[i] = IF i = m THEN g ELSE rows[i]
        BY <1>n, <1>s, <3>3, <3>6, <3>8, ListWith
      <3>10. P(g) = P(job) /\ P(g) = P(rows[m])
        BY <3>3, <3>8 DEF P
      <3>11. \A i \in 1 .. n : P(new[i]) = P(rows[i])
        BY <3>9, <3>10
      <3>12. ASSUME NEW i \in 1 .. n, NEW j \in 1 .. n,
                    new[i].configured, P(new[j]) = P(new[i])
             PROVE  j <= i
        <4>1. CASE i = m
          <5>1. j \in same
            BY <2>11, <3>3, <3>11, <3>12, <4>1
          <5> QED
            BY <3>2, <4>1, <5>1
        <4>2. CASE i # m
          BY <1>d, <1>u, <3>9, <3>11, <3>12, <4>2
        <4> QED
          BY <4>1, <4>2
      <3>13. ASSUME NEW i \in 1 .. n, new[i].configured
             PROVE  \E j \in 1 .. k + 1 : configured[j].enabled
                                          /\ P(new[i]) = P(configured[j])
        <4>1. CASE i = m
          BY <1>k, <2>9, <3>9, <3>10, <4>1
        <4>2. CASE i # m
          <5>1. rows[i].configured /\ new[i] = rows[i]
            BY <3>9, <3>13, <4>2
          <5>2. PICK j \in 1 .. k : configured[j].enabled
                                    /\ P(rows[i]) = P(configured[j])
            BY <1>d, <1>u, <4>2, <5>1
          <5> QED
            BY <1>k, <5>1, <5>2
        <4> QED
          BY <4>1, <4>2
      <3>14. ASSUME NEW j \in 1 .. k + 1, configured[j].enabled
             PROVE  \E i \in 1 .. n : new[i].configured
                                      /\ P(new[i]) = P(configured[j])
        <4>1. CASE j = k + 1
          BY <2>9, <3>3, <3>8, <3>9, <3>10, <4>1
        <4>2. CASE j \in 1 .. k
          <5>1. PICK i \in 1 .. n : rows[i].configured
                                    /\ P(rows[i]) = P(configured[j])
            BY <1>d, <1>u, <3>14, <4>2
          <5>2. new[i].configured
            BY <3>8, <3>9, <5>1
          <5> QED
            BY <3>11, <5>1, <5>2
        <4> QED
          BY <1>k, <4>1, <4>2
      <3>15. ASSUME NEW i \in 1 .. n
             PROVE  /\ Tells(new[i], list, info)
                    /\ new[i].error # "" => new[i].configured
        <4>1. Tells(g, list, info)
          BY <1>d, <1>u, <3>3, <3>8 DEF Tells
        <4> QED
          BY <1>d, <1>u, <3>8, <3>9, <4>1
      <3>16. RowsUntil(new, configured, k + 1, list, info)
        <4>1. new \in Seq(BackupRow) /\ DOMAIN new = 1 .. n
          BY <3>9
        <4> QED
          BY <3>12, <3>13, <3>14, <3>15, <4>1, Zenon DEF RowsUntil, P
      <3> QED
        BY <1>0, <2>8, <3>7, <3>16, Zenon
    <2> QED
      BY <2>12, <2>13
  <1> QED
    BY <1>1, <1>2

\* All entries.
LEMMA AllEntries ==
  ASSUME NEW configured \in Seq(Borg!Entry), NEW list, NEW info,
         Dated(list), Dated(info), list.found \in Seq(STRING),
         \A i \in DOMAIN configured :
           configured[i].enabled => configured[i].path # "blank"
  PROVE  RowsUntil(Borg!Rows(configured, list, info), configured,
                   Len(configured), list, info)
  <1>1. PICK n \in Nat : /\ n = Len(configured) /\ DOMAIN configured = 1 .. n
                        /\ \A i \in 1 .. n : configured[i] \in Borg!Entry
    BY ListItems, Zenon
  <1>2. PICK w : /\ Merging(configured, list, info, w)
                 /\ Borg!Rows(configured, list, info) = w[n]
    BY <1>1, RowsAreMerged
  <1> DEFINE S == {k \in 0 .. n : RowsUntil(w[k], configured, k, list, info)}
  <1>3. 0 \in S
    <2>1. w[0] = Borg!Detected(list, info)
      BY <1>2 DEF Merging
    <2>2. /\ w[0] \in Seq(BackupRow)
          /\ \A i \in DOMAIN w[0] : /\ w[0][i].configured = FALSE
                                   /\ w[0][i].error = ""
                                   /\ Tells(w[0][i], list, info)
      BY ZenonT(30), <2>1, DetectedRows
    <2>3. \A j \in 1 .. 0 : FALSE
      OBVIOUS
    <2>4. RowsUntil(w[0], configured, 0, list, info)
      BY <2>2, <2>3, Zenon DEF RowsUntil
    <2> QED
      BY <2>4
  <1>4. ASSUME NEW k \in 0 .. n - 1, k \in S
        PROVE  k + 1 \in S
    <2>1. k + 1 \in 1 .. n /\ (k + 1) - 1 = k /\ k \in Nat /\ k + 1 \in 0 .. n
      OBVIOUS
    <2>2. w[k + 1] = Added(w[k], configured[k + 1], list, info)
      BY <1>1, <1>2, <2>1 DEF Merging
    <2>3. /\ configured[k + 1] \in Borg!Entry
          /\ configured[k + 1].enabled => configured[k + 1].path # "blank"
      BY <1>1, <2>1
    <2>4. RowsUntil(w[k], configured, k, list, info)
      BY <1>4
    <2>5. RowsUntil(Added(w[k], configured[k + 1], list, info),
                    configured, k + 1, list, info)
      BY <2>1, <2>3, <2>4, OneMoreEntry
    <2> QED
      BY <2>1, <2>2, <2>5
  <1>5. n \in S
    <2> HIDE DEF S
    <2>1. 0 .. n \subseteq S
      BY <1>3, <1>4, UpTo
    <2> QED
      BY <2>1
  <1> QED
    BY <1>1, <1>2, <1>5

\* Borg counts as anyone does.
LEMMA BorgSize == \A S : Borg!Cardinality(S) = Cardinality(S)
  BY DEF Borg!Cardinality, Cardinality

\* Each watched path has one row, and every row is true.
LEMMA RowsOfAScan ==
  ASSUME NEW configured \in Seq(Borg!Entry), NEW list, NEW info,
         Dated(list), Dated(info), list.found \in Seq(STRING),
         \A i \in DOMAIN configured :
           configured[i].enabled => configured[i].path # "blank"
  PROVE  \A rows \in {Borg!Rows(configured, list, info)} :
           /\ Borg!EachHasOneRow(rows, configured)
           /\ \A i \in DOMAIN rows : Borg!RowIsTrue(rows[i], list, info)
  <1>1. PICK rows : rows = Borg!Rows(configured, list, info)
    OBVIOUS
  <1>2. PICK n \in Nat : /\ n = Len(configured) /\ DOMAIN configured = 1 .. n
                        /\ \A i \in 1 .. n : configured[i] \in Borg!Entry
    BY ListItems, Zenon
  <1>3. RowsUntil(rows, configured, n, list, info)
    BY <1>1, <1>2, AllEntries
  <1> DEFINE P(row) == Borg!CanonicalRepoPath(row.path)
             Paths == {P(configured[i]) :
                         i \in {j \in DOMAIN configured :
                                  configured[j].enabled}}
             Of(path) == {i \in DOMAIN rows : rows[i].configured
                                                 /\ P(rows[i]) = path}
  <1>4. /\ rows \in Seq(BackupRow)
        /\ \A i, j \in DOMAIN rows :
             rows[i].configured /\ P(rows[j]) = P(rows[i]) => j <= i
        /\ \A i \in DOMAIN rows : rows[i].configured =>
             \E j \in 1 .. n : configured[j].enabled
                               /\ P(rows[i]) = P(configured[j])
        /\ \A j \in 1 .. n : configured[j].enabled =>
             \E i \in DOMAIN rows : rows[i].configured
                                    /\ P(rows[i]) = P(configured[j])
        /\ \A i \in DOMAIN rows : /\ Tells(rows[i], list, info)
                                  /\ rows[i].error # "" => rows[i].configured
    BY <1>3, Zenon DEF RowsUntil
  <1>s. rows \in Seq(BackupRow)
    BY <1>4
  <1>m. PICK m \in Nat : DOMAIN rows = 1 .. m
    BY <1>s, ListItems, Zenon
  <1> HIDE DEF P
  <1>5. ASSUME NEW path \in Paths
        PROVE  Borg!Cardinality(Of(path)) = 1
    <2>1. PICK j \in 1 .. n : configured[j].enabled /\ path = P(configured[j])
      BY <1>2
    <2>2. PICK i \in DOMAIN rows : rows[i].configured
                                   /\ P(rows[i]) = P(configured[j])
      BY <1>4, <2>1
    <2>3. ASSUME NEW h \in Of(path)
          PROVE  h = i
      <3>1. /\ h \in DOMAIN rows /\ rows[h].configured
            /\ P(rows[h]) = P(rows[i])
        BY <2>1, <2>2
      <3>2. h <= i /\ i <= h
        BY <1>4, <2>2, <3>1
      <3>3. h \in Nat /\ i \in Nat
        BY <1>m, <2>2, <3>1
      <3> QED
        BY <3>2, <3>3
    <2>4. i \in Of(path)
      BY <2>1, <2>2
    <2>5. Of(path) = {i}
      <3> HIDE DEF Of
      <3> QED
        BY <2>3, <2>4
    <2> HIDE DEF Of
    <2> QED
      BY <2>5, BorgSize, FS_Singleton
  <1>6. ASSUME NEW i \in DOMAIN rows, rows[i].configured
        PROVE  P(rows[i]) \in Paths
    <2>1. PICK j \in 1 .. n : configured[j].enabled
                              /\ P(rows[i]) = P(configured[j])
      BY <1>4, <1>6
    <2> QED
      BY <1>2, <2>1
  <1>7. Borg!EachHasOneRow(rows, configured)
    BY <1>5, <1>6, Zenon DEF Borg!EachHasOneRow, P
  <1>8. ASSUME NEW i \in DOMAIN rows
        PROVE  Borg!RowIsTrue(rows[i], list, info)
    BY <1>4 DEF Borg!RowIsTrue, Tells
  <1> QED
    BY <1>1, <1>7, <1>8

\* What every state of the host and the settings has.
BorgIInv ==
  /\ entries \in Seq(Borg!Entry)
  /\ \A i \in DOMAIN entries :
       entries[i].enabled => entries[i].path # "blank"
  /\ {"last", "found"} \subseteq DOMAIN host
  /\ Dated(host)
  /\ host.found \in Seq(STRING)

\* At first nothing is configured and no archive was made.
LEMMA BorgInit ==
  ASSUME Borg!BorgAssumption, Borg!Init
  PROVE  BorgIInv
  <1>1. entries = <<>>
    BY DEF Borg!Init
  <1>2. entries \in Seq(Borg!Entry) /\ DOMAIN entries = {}
    BY <1>1
  <1>3. PICK found \in FoundPaths :
          host = [onPath |-> Borg!Good.onPath,
                  override |-> Borg!Good.override, link |-> Borg!Good.link,
                  repo |-> Borg!Good.repo, ambient |-> Borg!Good.ambient,
                  named |-> Borg!Good.named, last |-> Borg!None,
                  found |-> found]
    BY DEF Borg!Init
  <1>4. /\ host.last = Borg!None /\ host.found = found
        /\ {"last", "found"} \subseteq DOMAIN host
    BY <1>3
  <1>5. found \in Seq(STRING)
    BY DEF Borg!BorgAssumption
  <1> QED
    BY <1>2, <1>4, <1>5 DEF BorgIInv, Dated

\* A save is validated, and what can be found stays.
LEMMA BorgStep ==
  ASSUME Borg!BorgAssumption, BorgIInv, [Borg!Next]_(Borg!vars)
  PROVE  BorgIInv'
  <1>1. CASE Borg!Save
    <2>1. /\ entries' \in BorgLists /\ Borg!Accepted(entries', host)
          /\ host' = host
      BY <1>1 DEF Borg!Save
    <2>2. entries' \in Seq(Borg!Entry)
      BY <2>1 DEF Borg!BorgAssumption
    <2>3. \A i \in DOMAIN entries' :
            entries'[i].enabled => entries'[i].path # "blank"
      BY <2>1 DEF Borg!Accepted
    <2> QED
      BY <2>1, <2>2, <2>3 DEF BorgIInv, Dated, Borg!Entry, Borg!None
  <1>2. CASE Borg!Change
    <2>1. PICK f \in DOMAIN HostValues : \E value \in HostValues[f] :
            host' = [host EXCEPT ![f] = value]
      BY <1>2 DEF Borg!Change
    <2>2. PICK value \in HostValues[f] : host' = [host EXCEPT ![f] = value]
      BY <2>1
    <2>3. f # "found" /\ (f = "last" => value \in Nat \cup {Borg!None})
      BY <2>2 DEF Borg!BorgAssumption
    <2>4. DOMAIN host' = DOMAIN host /\ host'.found = host.found
      BY <2>2, <2>3
    <2>5. host'.last \in Nat \cup {Borg!None}
      BY <2>2, <2>3 DEF BorgIInv, Dated
    <2>6. entries' = entries
      BY <1>2 DEF Borg!Change
    <2> QED
      BY <2>4, <2>5, <2>6 DEF BorgIInv, Dated, Borg!Entry, Borg!None
  <1>3. CASE UNCHANGED Borg!vars
    BY <1>3 DEF Borg!vars, BorgIInv, Dated, Borg!Entry, Borg!None
  <1> QED
    BY <1>1, <1>2, <1>3 DEF Borg!Next

\* The rows of Borg are true, whatever changes between the two calls.
LEMMA BorgRows ==
  ASSUME Borg!BorgAssumption
  PROVE  Borg!Spec => [][Borg!RowsAreTrue]_(Borg!vars)
  <1>1. Borg!Init => BorgIInv
    BY BorgInit
  <1>2. BorgIInv /\ [Borg!Next]_(Borg!vars) => BorgIInv'
    BY BorgStep
  <1>3. BorgIInv /\ BorgIInv' => Borg!RowsAreTrue
    <2>1. ASSUME BorgIInv, BorgIInv'
          PROVE  Borg!RowsAreTrue
      <3>1. /\ entries \in Seq(Borg!Entry) /\ Dated(host) /\ Dated(host')
            /\ host.found \in Seq(STRING)
            /\ \A i \in DOMAIN entries :
                 entries[i].enabled => entries[i].path # "blank"
        BY <2>1 DEF BorgIInv, Dated, Borg!None
      <3>2. \A rows \in {Borg!Rows(entries, host, host')} :
              /\ Borg!EachHasOneRow(rows, entries)
              /\ \A i \in DOMAIN rows : Borg!RowIsTrue(rows[i], host, host')
        BY <3>1, RowsOfAScan
      <3> QED
        BY <3>2, Zenon DEF Borg!RowsAreTrue
    <2> QED
      BY <2>1
  <1> QED
    BY <1>1, <1>2, <1>3, PTL DEF Borg!Spec

\* BackupRowsAreTrue (DuplicacyRepos, BorgRepos): for any entries, files,
\* values of the host and paths that are found, and without a bound on days or
\* events, a row tells of the newest backup that can be read or names what was
\* broken, a backup that ends is in it at once, and each watched repository has
\* one row.
THEOREM BackupsAreTold ==
  ASSUME Duplicacy!DuplicacyAssumption, Borg!BorgAssumption
  PROVE  Duplicacy!Spec /\ Borg!Spec => BackupRowsAreTrue
  BY DuplicacyRows, BorgRows DEF BackupRowsAreTrue

-----------------------------------------------------------------------------
(* The analyzer's rules: a host that gets worse.                           *)

\* The titles a correlation looks for.
Clues == {"SATA Cable Issue", "Severe Parity Check Speed Degradation"}
Waits == {"Severe Disk I/O Bottleneck", "Elevated Disk I/O Wait"}

Finding(sev, cat, title) == [sev |-> sev, cat |-> cat, title |-> title]

\* One finding makes up for another: it is as grave, in the same category
\* unless findings move out of that, and as good a clue.
Covers(g, f) ==
  /\ Rules!Rank(f.sev) <= Rules!Rank(g.sev)
  /\ f.cat \notin Rules!Shifting => g.cat = f.cat
  /\ f.title[1] \in Clues => g.title[1] = f.title[1]
  /\ f.title[1] \in Waits =>
       g.title[1] \in Waits /\ 2 <= Rules!Rank(g.sev)

AllCovered(F, G) == \A f \in F : \E g \in G : Covers(g, f)

\* The ranks of the severities.
LEMMA FindingRanks ==
  /\ Rules!Rank("critical") = 3 /\ Rules!Rank("warning") = 2
  /\ Rules!Rank("info") = 1 /\ Rules!Rank("none") = 0
  /\ \A sev : Rules!Rank(sev) \in 0 .. 3
BY DEF Rules!Rank

\* What each half of a set of findings is covered by, the whole is.
LEMMA UnionCovered ==
  ASSUME NEW F1, NEW G1, AllCovered(F1, G1), NEW F2, NEW G2, AllCovered(F2, G2)
  PROVE  AllCovered(F1 \cup F2, G1 \cup G2)
BY DEF AllCovered

\* Two readings of the host, the second no better.
Worsens(r, s) ==
  \A f \in Rules!Readings :
    /\ Rules!Possible(f, r[f]) /\ Rules!Possible(f, s[f])
    /\ Rules!NoBetter(f, r[f], s[f])

\* Figures that get worse as they grow,
LEMMA RisingReadings ==
  ASSUME NEW r, NEW s, Worsens(r, s)
  PROVE  \A f \in Rules!Rising : r[f] \in Nat /\ s[f] \in Nat /\ r[f] <= s[f]
BY DEF Worsens, Rules!Readings, Rules!Possible, Rules!NoBetter

\* ... as they shrink,
LEMMA FallingReadings ==
  ASSUME NEW r, NEW s, Worsens(r, s)
  PROVE  \A f \in Rules!Falling :
           /\ r[f] \in Int /\ s[f] \in Int /\ r[f] >= s[f]
           /\ f \in {"charge", "runtime", "scanPct"} => r[f] > 0 /\ s[f] > 0
BY DEF Worsens, Rules!Readings, Rules!Possible, Rules!NoBetter

\* ... what breaks,
LEMMA BreakingReadings ==
  ASSUME NEW r, NEW s, Worsens(r, s)
  PROVE  \A f \in Rules!Breaking : r[f] => s[f]
BY DEF Worsens, Rules!Readings, Rules!NoBetter

\* ... what ceases to work,
LEMMA CeasingReadings ==
  ASSUME NEW r, NEW s, Worsens(r, s)
  PROVE  \A f \in Rules!Ceasing : s[f] => r[f]
BY DEF Worsens, Rules!Readings, Rules!NoBetter

\* ... and states, from good to bad.
LEMMA GradedReadings ==
  ASSUME NEW r, NEW s, Worsens(r, s), NEW f \in DOMAIN Rules!Grades
  PROVE  \E i, j \in DOMAIN Rules!Grades[f] :
           i <= j /\ r[f] = Rules!Grades[f][i] /\ s[f] = Rules!Grades[f][j]
BY DEF Worsens, Rules!Readings, Rules!NoBetter

\* The platforms, as far as the rules tell them apart.
LEMMA PlatformGrades ==
  ASSUME NEW r, NEW s, Worsens(r, s)
  PROVE  /\ r.platform \in {"unraid", "synology"} =>
              s.platform \in {"unraid", "synology"}
         /\ r.platform \in {"synology"} => s.platform \in {"synology"}
<1>1. "platform" \in DOMAIN Rules!Grades
  BY DEF Rules!Grades
<1>2. Rules!Grades["platform"] = <<"linux", "unraid", "synology">>
  BY DEF Rules!Grades
<1>3. DOMAIN Rules!Grades["platform"] = 1 .. 3
  BY <1>2
<1>4. PICK i, j \in 1 .. 3 :
        /\ i <= j
        /\ r.platform = Rules!Grades["platform"][i]
        /\ s.platform = Rules!Grades["platform"][j]
  BY <1>1, <1>3, GradedReadings
<1>5. \A k \in 1 .. 3 : k = 1 \/ k = 2 \/ k = 3
  OBVIOUS
<1> QED
  BY <1>2, <1>4, <1>5

\* A link that gets slower, then goes down.
LEMMA LinkGrades ==
  ASSUME NEW r, NEW s, Worsens(r, s)
  PROVE  /\ r.link \in {"slow", "down"} => s.link \in {"slow", "down"}
         /\ r.link \in {"down"} => s.link \in {"down"}
<1>1. "link" \in DOMAIN Rules!Grades
  BY DEF Rules!Grades
<1>2. Rules!Grades["link"] = <<"up", "slow", "down">>
  BY DEF Rules!Grades
<1>3. DOMAIN Rules!Grades["link"] = 1 .. 3
  BY <1>2
<1>4. PICK i, j \in 1 .. 3 :
        /\ i <= j
        /\ r.link = Rules!Grades["link"][i]
        /\ s.link = Rules!Grades["link"][j]
  BY <1>1, <1>3, GradedReadings
<1>5. \A k \in 1 .. 3 : k = 1 \/ k = 2 \/ k = 3
  OBVIOUS
<1> QED
  BY <1>2, <1>4, <1>5

\* A service that goes down stays down.
LEMMA ServiceGrades ==
  ASSUME NEW r, NEW s, Worsens(r, s)
  PROVE  r.service \in {"down"} => s.service \in {"down"}
<1>1. "service" \in DOMAIN Rules!Grades
  BY DEF Rules!Grades
<1>2. Rules!Grades["service"] = <<"up", "degraded", "down">>
  BY DEF Rules!Grades
<1>3. DOMAIN Rules!Grades["service"] = 1 .. 3
  BY <1>2
<1>4. PICK i, j \in 1 .. 3 :
        /\ i <= j
        /\ r.service = Rules!Grades["service"][i]
        /\ s.service = Rules!Grades["service"][j]
  BY <1>1, <1>3, GradedReadings
<1>5. \A k \in 1 .. 3 : k = 1 \/ k = 2 \/ k = 3
  OBVIOUS
<1> QED
  BY <1>2, <1>4, <1>5

\* A pool that leaves the states in which its data is safe.
LEMMA PoolGrades ==
  ASSUME NEW r, NEW s, Worsens(r, s)
  PROVE  /\ r.pool # "ONLINE" => s.pool # "ONLINE"
         /\ r.pool \in {"DEGRADED", "FAULTED", "UNAVAIL"} =>
              s.pool \in {"DEGRADED", "FAULTED", "UNAVAIL"}
<1>1. "pool" \in DOMAIN Rules!Grades
  BY DEF Rules!Grades
<1>2. Rules!Grades["pool"] =
        <<"ONLINE", "SUSPENDED", "OFFLINE", "REMOVED", "DEGRADED",
          "FAULTED", "UNAVAIL">>
  BY DEF Rules!Grades
<1>3. DOMAIN Rules!Grades["pool"] = 1 .. 7
  BY <1>2
<1>4. PICK i, j \in 1 .. 7 :
        /\ i <= j
        /\ r.pool = Rules!Grades["pool"][i]
        /\ s.pool = Rules!Grades["pool"][j]
  BY <1>1, <1>3, GradedReadings
<1>5. \A k \in 1 .. 7 :
        k = 1 \/ k = 2 \/ k = 3 \/ k = 4 \/ k = 5 \/ k = 6 \/ k = 7
  OBVIOUS
<1> QED
  BY <1>2, <1>4, <1>5

\* A pool whose scan is no longer a scrub.
LEMMA ScanGrades ==
  ASSUME NEW r, NEW s, Worsens(r, s)
  PROVE  /\ r.scan \in {"none", "resilver"} => s.scan \in {"none", "resilver"}
         /\ r.scan \in {"none"} => s.scan \in {"none"}
<1>1. "scan" \in DOMAIN Rules!Grades
  BY DEF Rules!Grades
<1>2. Rules!Grades["scan"] = <<"scrub", "resilver", "none">>
  BY DEF Rules!Grades
<1>3. DOMAIN Rules!Grades["scan"] = 1 .. 3
  BY <1>2
<1>4. PICK i, j \in 1 .. 3 :
        /\ i <= j
        /\ r.scan = Rules!Grades["scan"][i]
        /\ s.scan = Rules!Grades["scan"][j]
  BY <1>1, <1>3, GradedReadings
<1>5. \A k \in 1 .. 3 : k = 1 \/ k = 2 \/ k = 3
  OBVIOUS
<1> QED
  BY <1>2, <1>4, <1>5

\* A backup that ages, then fails.
LEMMA BackupGrades ==
  ASSUME NEW r, NEW s, Worsens(r, s)
  PROVE  /\ r.backup \in {"ok", "warning", "stale", "failed"} =>
              s.backup \in {"ok", "warning", "stale", "failed"}
         /\ r.backup \in {"warning", "stale", "failed"} =>
              s.backup \in {"warning", "stale", "failed"}
         /\ r.backup \in {"stale", "failed"} =>
              s.backup \in {"stale", "failed"}
         /\ r.backup \in {"failed"} => s.backup \in {"failed"}
<1>1. "backup" \in DOMAIN Rules!Grades
  BY DEF Rules!Grades
<1>2. Rules!Grades["backup"] = <<"none", "ok", "warning", "stale", "failed">>
  BY DEF Rules!Grades
<1>3. DOMAIN Rules!Grades["backup"] = 1 .. 5
  BY <1>2
<1>4. PICK i, j \in 1 .. 5 :
        /\ i <= j
        /\ r.backup = Rules!Grades["backup"][i]
        /\ s.backup = Rules!Grades["backup"][j]
  BY <1>1, <1>3, GradedReadings
<1>5. \A k \in 1 .. 5 : k = 1 \/ k = 2 \/ k = 3 \/ k = 4 \/ k = 5
  OBVIOUS
<1> QED
  BY <1>2, <1>4, <1>5

\* A pod on its way to a crash loop.
LEMMA PodGrades ==
  ASSUME NEW r, NEW s, Worsens(r, s)
  PROVE  /\ r.pod \in {"Running", "Pending", "Failed", "OOMKilled",
                       "CrashLoopBackOff"}
         /\ s.pod \in {"Running", "Pending", "Failed", "OOMKilled",
                       "CrashLoopBackOff"}
         /\ r.pod \in {"Pending", "Failed", "OOMKilled", "CrashLoopBackOff"} =>
              s.pod \in {"Pending", "Failed", "OOMKilled", "CrashLoopBackOff"}
         /\ r.pod \in {"Failed", "OOMKilled", "CrashLoopBackOff"} =>
              s.pod \in {"Failed", "OOMKilled", "CrashLoopBackOff"}
         /\ r.pod \in {"OOMKilled", "CrashLoopBackOff"} =>
              s.pod \in {"OOMKilled", "CrashLoopBackOff"}
         /\ r.pod \in {"CrashLoopBackOff"} => s.pod \in {"CrashLoopBackOff"}
<1>1. "pod" \in DOMAIN Rules!Grades
  BY DEF Rules!Grades
<1>2. Rules!Grades["pod"] =
        <<"Running", "Pending", "Failed", "OOMKilled",
          "CrashLoopBackOff">>
  BY DEF Rules!Grades
<1>3. DOMAIN Rules!Grades["pod"] = 1 .. 5
  BY <1>2
<1>4. PICK i, j \in 1 .. 5 :
        /\ i <= j
        /\ r.pod = Rules!Grades["pod"][i]
        /\ s.pod = Rules!Grades["pod"][j]
  BY <1>1, <1>3, GradedReadings
<1>5. \A k \in 1 .. 5 : k = 1 \/ k = 2 \/ k = 3 \/ k = 4 \/ k = 5
  OBVIOUS
<1> QED
  BY <1>2, <1>4, <1>5

\* A container that cannot be pulled, or has no memory left.
LEMMA ContainerGrades ==
  ASSUME NEW r, NEW s, Worsens(r, s)
  PROVE  /\ r.container \in {"ImagePullBackOff", "OOMKilled"} =>
              s.container \in {"ImagePullBackOff", "OOMKilled"}
         /\ r.container \in {"OOMKilled"} => s.container \in {"OOMKilled"}
<1>1. "container" \in DOMAIN Rules!Grades
  BY DEF Rules!Grades
<1>2. Rules!Grades["container"] = <<"pulled", "ImagePullBackOff", "OOMKilled">>
  BY DEF Rules!Grades
<1>3. DOMAIN Rules!Grades["container"] = 1 .. 3
  BY <1>2
<1>4. PICK i, j \in 1 .. 3 :
        /\ i <= j
        /\ r.container = Rules!Grades["container"][i]
        /\ s.container = Rules!Grades["container"][j]
  BY <1>1, <1>3, GradedReadings
<1>5. \A k \in 1 .. 3 : k = 1 \/ k = 2 \/ k = 3
  OBVIOUS
<1> QED
  BY <1>2, <1>4, <1>5

\* A claim that waits, then is lost.
LEMMA PvcGrades ==
  ASSUME NEW r, NEW s, Worsens(r, s)
  PROVE  /\ r.pvc \in {"Pending", "Lost"} => s.pvc \in {"Pending", "Lost"}
         /\ r.pvc \in {"Lost"} => s.pvc \in {"Lost"}
<1>1. "pvc" \in DOMAIN Rules!Grades
  BY DEF Rules!Grades
<1>2. Rules!Grades["pvc"] = <<"Bound", "Pending", "Lost">>
  BY DEF Rules!Grades
<1>3. DOMAIN Rules!Grades["pvc"] = 1 .. 3
  BY <1>2
<1>4. PICK i, j \in 1 .. 3 :
        /\ i <= j
        /\ r.pvc = Rules!Grades["pvc"][i]
        /\ s.pvc = Rules!Grades["pvc"][j]
  BY <1>1, <1>3, GradedReadings
<1>5. \A k \in 1 .. 3 : k = 1 \/ k = 2 \/ k = 3
  OBVIOUS
<1> QED
  BY <1>2, <1>4, <1>5

\* A guest that stops.
LEMMA GuestGrades ==
  ASSUME NEW r, NEW s, Worsens(r, s)
  PROVE  /\ r.guest \in {"running", "stopped"}
         /\ s.guest \in {"running", "stopped"}
         /\ r.guest \in {"stopped"} => s.guest \in {"stopped"}
<1>1. "guest" \in DOMAIN Rules!Grades
  BY DEF Rules!Grades
<1>2. Rules!Grades["guest"] = <<"running", "stopped">>
  BY DEF Rules!Grades
<1>3. DOMAIN Rules!Grades["guest"] = 1 .. 2
  BY <1>2
<1>4. PICK i, j \in 1 .. 2 :
        /\ i <= j
        /\ r.guest = Rules!Grades["guest"][i]
        /\ s.guest = Rules!Grades["guest"][j]
  BY <1>1, <1>3, GradedReadings
<1>5. \A k \in 1 .. 2 : k = 1 \/ k = 2
  OBVIOUS
<1> QED
  BY <1>2, <1>4, <1>5

\* A service under high availability that errs.
LEMMA HaGrades ==
  ASSUME NEW r, NEW s, Worsens(r, s)
  PROVE  r.ha \in {"error", "fence"} => s.ha \in {"error", "fence"}
<1>1. "ha" \in DOMAIN Rules!Grades
  BY DEF Rules!Grades
<1>2. Rules!Grades["ha"] = <<"started", "error", "fence">>
  BY DEF Rules!Grades
<1>3. DOMAIN Rules!Grades["ha"] = 1 .. 3
  BY <1>2
<1>4. PICK i, j \in 1 .. 3 :
        /\ i <= j
        /\ r.ha = Rules!Grades["ha"][i]
        /\ s.ha = Rules!Grades["ha"][j]
  BY <1>1, <1>3, GradedReadings
<1>5. \A k \in 1 .. 3 : k = 1 \/ k = 2 \/ k = 3
  OBVIOUS
<1> QED
  BY <1>2, <1>4, <1>5

\* A container that no longer runs.
LEMMA StateGrades ==
  ASSUME NEW r, NEW s, Worsens(r, s)
  PROVE  r.state # "running" => s.state # "running"
<1>1. "state" \in DOMAIN Rules!Grades
  BY DEF Rules!Grades
<1>2. Rules!Grades["state"] = <<"running", "paused", "exited">>
  BY DEF Rules!Grades
<1>3. DOMAIN Rules!Grades["state"] = 1 .. 3
  BY <1>2
<1>4. PICK i, j \in 1 .. 3 :
        /\ i <= j
        /\ r.state = Rules!Grades["state"][i]
        /\ s.state = Rules!Grades["state"][j]
  BY <1>1, <1>3, GradedReadings
<1>5. \A k \in 1 .. 3 : k = 1 \/ k = 2 \/ k = 3
  OBVIOUS
<1> QED
  BY <1>2, <1>4, <1>5

\* A tunnel that is no longer healthy.
LEMMA TunnelGrades ==
  ASSUME NEW r, NEW s, Worsens(r, s)
  PROVE  r.tunnel # "healthy" => s.tunnel # "healthy"
<1>1. "tunnel" \in DOMAIN Rules!Grades
  BY DEF Rules!Grades
<1>2. Rules!Grades["tunnel"] = <<"healthy", "degraded", "down">>
  BY DEF Rules!Grades
<1>3. DOMAIN Rules!Grades["tunnel"] = 1 .. 3
  BY <1>2
<1>4. PICK i, j \in 1 .. 3 :
        /\ i <= j
        /\ r.tunnel = Rules!Grades["tunnel"][i]
        /\ s.tunnel = Rules!Grades["tunnel"][j]
  BY <1>1, <1>3, GradedReadings
<1>5. \A k \in 1 .. 3 : k = 1 \/ k = 2 \/ k = 3
  OBVIOUS
<1> QED
  BY <1>2, <1>4, <1>5

\* Memory and swap.
LEMMA MemoryCovered ==
  ASSUME NEW r, NEW s, Worsens(r, s)
  PROVE  AllCovered(Rules!AnalyzeMemory(r), Rules!AnalyzeMemory(s))
<1> DEFINE A == Finding("critical", "memory",
                        <<"Critical Memory Pressure">>)
           B == Finding("warning", "memory", <<"High Memory Usage">>)
           C == Finding("warning", "memory", <<"Heavy Swap Usage">>)
           Is(x, g) ==
             \/ x.mem >= 95 /\ g = A
             \/ x.mem \in 85 .. 94 /\ g = B
             \/ x.swap > 50 /\ g = C
<1>1. ASSUME NEW x, NEW g
      PROVE  g \in Rules!AnalyzeMemory(x) <=> Is(x, g)
  BY DEF Rules!AnalyzeMemory, Rules!Found, Finding
<1>2. Covers(A, A) /\ Covers(B, B) /\ Covers(C, C) /\ Covers(A, B)
  BY FindingRanks DEF Covers, Finding, Clues, Waits
<1>3. /\ r.mem \in Nat /\ s.mem \in Nat /\ r.mem <= s.mem
      /\ r.swap \in Nat /\ s.swap \in Nat /\ r.swap <= s.swap
  BY RisingReadings DEF Rules!Rising
<1> HIDE DEF A, B, C
<1> QED
  BY <1>1, <1>2, <1>3 DEF AllCovered

\* Processes that wait for the disks, and the load.
LEMMA IOWaitCovered ==
  ASSUME NEW r, NEW s, Worsens(r, s)
  PROVE  AllCovered(Rules!AnalyzeIOWait(r), Rules!AnalyzeIOWait(s))
<1> DEFINE A == Finding("critical", "disk",
                        <<"Severe Disk I/O Bottleneck">>)
           B == Finding("warning", "disk", <<"Elevated Disk I/O Wait">>)
           C == Finding("warning", "system", <<"High System Load">>)
           Is(x, g) ==
             \/ x.iowait >= 30 /\ g = A
             \/ x.iowait \in 15 .. 29 /\ g = B
             \/ x.load > 2 /\ g = C
<1>1. ASSUME NEW x, NEW g
      PROVE  g \in Rules!AnalyzeIOWait(x) <=> Is(x, g)
  BY DEF Rules!AnalyzeIOWait, Rules!Found, Finding
<1>2. Covers(A, A) /\ Covers(B, B) /\ Covers(C, C) /\ Covers(A, B)
  BY FindingRanks DEF Covers, Finding, Clues, Waits
<1>3. /\ r.iowait \in Nat /\ s.iowait \in Nat /\ r.iowait <= s.iowait
      /\ r.load \in Nat /\ s.load \in Nat /\ r.load <= s.load
  BY RisingReadings DEF Rules!Rising
<1> HIDE DEF A, B, C
<1> QED
  BY <1>1, <1>2, <1>3 DEF AllCovered

\* A disk that fills up.
LEMMA DiskSpaceCovered ==
  ASSUME NEW r, NEW s, Worsens(r, s)
  PROVE  AllCovered(Rules!AnalyzeDiskSpace(r), Rules!AnalyzeDiskSpace(s))
<1> DEFINE A(n) == Finding("critical", "disk", <<"Disk Almost Full", n>>)
           B(n) == Finding("warning", "disk", <<"Low Disk Space", n>>)
           Is(x, g) ==
             \/ x.used >= 97 /\ g = A(x.used)
             \/ x.used \in 90 .. 96 /\ g = B(x.used)
<1>1. ASSUME NEW x, NEW g
      PROVE  g \in Rules!AnalyzeDiskSpace(x) <=> Is(x, g)
  BY DEF Rules!AnalyzeDiskSpace, Rules!Found, Finding
<1>2. \A m, n : /\ Covers(A(m), A(n)) /\ Covers(B(m), B(n))
                /\ Covers(A(m), B(n))
  BY FindingRanks DEF Covers, Finding, Clues, Waits
<1>3. r.used \in Nat /\ s.used \in Nat /\ r.used <= s.used
  BY RisingReadings DEF Rules!Rising
<1> HIDE DEF A, B
<1> QED
  BY <1>1, <1>2, <1>3 DEF AllCovered

\* Synology's volumes.
LEMMA StorageMountsCovered ==
  ASSUME NEW r, NEW s, Worsens(r, s)
  PROVE  AllCovered(Rules!AnalyzeStorageMounts(r),
                    Rules!AnalyzeStorageMounts(s))
<1> DEFINE A == Finding("warning", "disk",
                        <<"Synology storage volumes not bind-mounted">>)
           Is(x, g) ==
             x.platform = "synology" /\ ~x.volumes /\ g = A
<1>1. ASSUME NEW x, NEW g
      PROVE  g \in Rules!AnalyzeStorageMounts(x) <=> Is(x, g)
  BY DEF Rules!AnalyzeStorageMounts, Rules!Found, Finding
<1>2. Covers(A, A)
  BY FindingRanks DEF Covers, Finding, Clues, Waits
<1>3. s.volumes => r.volumes
  BY CeasingReadings DEF Rules!Ceasing
<1> HIDE DEF A
<1> QED
  BY <1>1, <1>2, <1>3, PlatformGrades DEF AllCovered

\* A container that uses up its host.
LEMMA DockerCovered ==
  ASSUME NEW r, NEW s, Worsens(r, s)
  PROVE  AllCovered(Rules!AnalyzeDocker(r), Rules!AnalyzeDocker(s))
<1> DEFINE A(n) == Finding("critical", "docker", <<"Extreme CPU", n>>)
           B(n) == Finding("warning", "docker", <<"High CPU", n>>)
           C(n) == Finding("critical", "docker",
                           <<"Memory Exhaustion", n>>)
           D(n) == Finding("warning", "docker", <<"High Memory", n>>)
           E(n) == Finding("info", "docker", <<"Stopped Containers", n>>)
           Is(x, g) ==
             \/ x.cpu > 200 /\ g = A(x.cpu)
             \/ x.cpu \in 81 .. 200 /\ g = B(x.cpu)
             \/ x.ram > 95 /\ g = C(x.ram)
             \/ x.ram \in 81 .. 95 /\ g = D(x.ram)
             \/ x.exited > 3 /\ g = E(x.exited)
<1>1. ASSUME NEW x, NEW g
      PROVE  g \in Rules!AnalyzeDocker(x) <=> Is(x, g)
  BY Zenon DEF Rules!AnalyzeDocker, Rules!Found, Finding
<1>2. \A m, n : /\ Covers(A(m), A(n)) /\ Covers(B(m), B(n))
                /\ Covers(C(m), C(n)) /\ Covers(D(m), D(n))
                /\ Covers(E(m), E(n)) /\ Covers(A(m), B(n))
                /\ Covers(C(m), D(n))
  BY FindingRanks DEF Covers, Finding, Clues, Waits
<1>3. /\ r.cpu \in Nat /\ s.cpu \in Nat /\ r.cpu <= s.cpu
      /\ r.ram \in Nat /\ s.ram \in Nat /\ r.ram <= s.ram
      /\ r.exited \in Nat /\ s.exited \in Nat /\ r.exited <= s.exited
  BY RisingReadings DEF Rules!Rising
<1> HIDE DEF A, B, C, D, E
<1> QED
  BY <1>1, <1>2, <1>3 DEF AllCovered

\* Interfaces.
LEMMA NetworkCovered ==
  ASSUME NEW r, NEW s, Worsens(r, s)
  PROVE  AllCovered(Rules!AnalyzeNetwork(r), Rules!AnalyzeNetwork(s))
<1> DEFINE A == Finding("warning", "network",
                        <<"Network Interface Down">>)
           B == Finding("warning", "network", <<"Slow Link Speed">>)
           Is(x, g) ==
             \/ x.link = "down" /\ g = A
             \/ x.link = "slow" /\ g = B
<1>1. ASSUME NEW x, NEW g
      PROVE  g \in Rules!AnalyzeNetwork(x) <=> Is(x, g)
  BY DEF Rules!AnalyzeNetwork, Rules!Found, Finding
<1>2. Covers(A, A) /\ Covers(B, B) /\ Covers(A, B)
  BY FindingRanks DEF Covers, Finding, Clues, Waits
<1> HIDE DEF A, B
<1> QED
  BY <1>1, <1>2, LinkGrades DEF AllCovered

\* Errors in the logs.
LEMMA LogsCovered ==
  ASSUME NEW r, NEW s, Worsens(r, s)
  PROVE  AllCovered(Rules!AnalyzeLogs(r), Rules!AnalyzeLogs(s))
<1> DEFINE A(n) == Finding("critical", "logs",
                           <<"Frequent ATA/SATA Errors", n>>)
           B(n) == Finding("critical", "logs",
                           <<"I/O Errors Detected", n>>)
           Is(x, g) ==
             \/ x.ata > 10 /\ g = A(x.ata)
             \/ x.io > 5 /\ g = B(x.io)
<1>1. ASSUME NEW x, NEW g
      PROVE  g \in Rules!AnalyzeLogs(x) <=> Is(x, g)
  BY DEF Rules!AnalyzeLogs, Rules!Found, Finding
<1>2. \A m, n : Covers(A(m), A(n)) /\ Covers(B(m), B(n))
  BY FindingRanks DEF Covers, Finding, Clues, Waits
<1>3. /\ r.ata \in Nat /\ s.ata \in Nat /\ r.ata <= s.ata
      /\ r.io \in Nat /\ s.io \in Nat /\ r.io <= s.io
  BY RisingReadings DEF Rules!Rising
<1> HIDE DEF A, B
<1> QED
  BY <1>1, <1>2, <1>3 DEF AllCovered

\* The state of a pool,
LEMMA PoolStateCovered ==
  ASSUME NEW r, NEW s, Worsens(r, s)
  PROVE  AllCovered(Rules!PoolState(r), Rules!PoolState(s))
<1> DEFINE A(n) == Finding("critical", "zfs", <<"ZFS Pool is", n>>)
           Is(x, g) ==
             x.pool \in {"DEGRADED", "FAULTED", "UNAVAIL"} /\ g = A(x.pool)
<1>1. ASSUME NEW x, NEW g
      PROVE  g \in Rules!PoolState(x) <=> Is(x, g)
  BY DEF Rules!PoolState, Rules!Found, Finding
<1>2. \A m, n : Covers(A(m), A(n))
  BY FindingRanks DEF Covers, Finding, Clues, Waits
<1> HIDE DEF A
<1> QED
  BY <1>1, <1>2, PoolGrades DEF AllCovered

\* ... its scrubs,
LEMMA PoolScanCovered ==
  ASSUME NEW r, NEW s, Worsens(r, s)
  PROVE  AllCovered(Rules!PoolScan(r), Rules!PoolScan(s))
<1> DEFINE A(n) == Finding("critical", "zfs", <<"ZFS Scrub Errors", n>>)
           B == Finding("warning", "zfs", <<"No Scrub History">>)
           C(n) == Finding("warning", "zfs",
                           <<"Resilver in Progress", n>>)
           Is(x, g) ==
             \/ x.scanErrors > 0 /\ g = A(x.scanErrors)
             \/ x.scan = "none" /\ g = B
             \/ /\ x.scan = "resilver" /\ x.scanPct \in 1 .. 99
                /\ g = C(x.scanPct)
<1>1. ASSUME NEW x, NEW g
      PROVE  g \in Rules!PoolScan(x) <=> Is(x, g)
  BY DEF Rules!PoolScan, Rules!Found, Finding
<1>2. \A m, n : /\ Covers(A(m), A(n)) /\ Covers(B, B) /\ Covers(C(m), C(n))
                /\ Covers(B, C(m))
  BY FindingRanks DEF Covers, Finding, Clues, Waits
<1>3. /\ r.scanErrors \in Nat /\ s.scanErrors \in Nat
      /\ r.scanErrors <= s.scanErrors
  BY RisingReadings DEF Rules!Rising
<1>4. r.scanPct \in 1 .. 99 => s.scanPct \in 1 .. 99
  <2>1. /\ r.scanPct \in Int /\ s.scanPct \in Int
        /\ r.scanPct >= s.scanPct /\ s.scanPct > 0
    BY FallingReadings DEF Rules!Falling
  <2> QED
    BY <2>1
<1> HIDE DEF A, B, C
<1> QED
  BY <1>1, <1>2, <1>3, <1>4, ScanGrades DEF AllCovered

\* ... its space,
LEMMA PoolSpaceCovered ==
  ASSUME NEW r, NEW s, Worsens(r, s)
  PROVE  AllCovered(Rules!PoolSpace(r), Rules!PoolSpace(s))
<1> DEFINE A(n) == Finding("critical", "zfs",
                           <<"ZFS Pool at Capacity", n>>)
           B(n) == Finding("warning", "zfs",
                           <<"ZFS Pool at Capacity", n>>)
           C(n) == Finding("info", "zfs", <<"High Fragmentation", n>>)
           Is(x, g) ==
             \/ x.full >= 90 /\ x.full >= 95 /\ g = A(x.full)
             \/ x.full >= 90 /\ ~(x.full >= 95) /\ g = B(x.full)
             \/ x.fragmentation > 50 /\ g = C(x.fragmentation)
<1>1. ASSUME NEW x, NEW g
      PROVE  g \in Rules!PoolSpace(x) <=> Is(x, g)
  BY Zenon DEF Rules!PoolSpace, Rules!Found, Finding
<1>2. \A m, n : /\ Covers(A(m), A(n)) /\ Covers(B(m), B(n))
                /\ Covers(C(m), C(n)) /\ Covers(A(m), B(n))
  BY FindingRanks DEF Covers, Finding, Clues, Waits
<1>3. /\ r.full \in Nat /\ s.full \in Nat /\ r.full <= s.full
      /\ r.fragmentation \in Nat /\ s.fragmentation \in Nat
      /\ r.fragmentation <= s.fragmentation
  BY RisingReadings DEF Rules!Rising
<1> HIDE DEF A, B, C
<1> QED
  BY <1>1, <1>2, <1>3 DEF AllCovered

\* ... the errors of its devices,
LEMMA VDevErrorsCovered ==
  ASSUME NEW r, NEW s, Worsens(r, s)
  PROVE  AllCovered(Rules!CheckVDevErrors(r), Rules!CheckVDevErrors(s))
<1> DEFINE A == Finding("critical", "zfs", <<"ZFS Device Errors">>)
           B == Finding("warning", "zfs", <<"ZFS Device Errors">>)
           Is(x, g) ==
             \/ /\ x.readErrors + x.cksumErrors > 0
                /\ x.cksumErrors > 10 \/ x.readErrors + x.cksumErrors > 50
                /\ g = A
             \/ /\ x.readErrors + x.cksumErrors > 0
                /\ ~(x.cksumErrors > 10 \/ x.readErrors + x.cksumErrors > 50)
                /\ g = B
<1>1. ASSUME NEW x, NEW g
      PROVE  g \in Rules!CheckVDevErrors(x) <=> Is(x, g)
  BY DEF Rules!CheckVDevErrors, Rules!Found, Finding
<1>2. Covers(A, A) /\ Covers(B, B) /\ Covers(A, B)
  BY FindingRanks DEF Covers, Finding, Clues, Waits
<1>3. /\ r.readErrors \in Nat /\ s.readErrors \in Nat
      /\ r.readErrors <= s.readErrors
      /\ r.cksumErrors \in Nat /\ s.cksumErrors \in Nat
      /\ r.cksumErrors <= s.cksumErrors
  BY RisingReadings DEF Rules!Rising
<1> HIDE DEF A, B
<1> QED
  BY <1>1, <1>2, <1>3 DEF AllCovered

\* ... and the cache's hits.
LEMMA ARCCovered ==
  ASSUME NEW r, NEW s, Worsens(r, s)
  PROVE  AllCovered(Rules!AnalyzeARC(r), Rules!AnalyzeARC(s))
<1> DEFINE A(n) == Finding("info", "zfs", <<"Low ZFS ARC Hit Rate", n>>)
           Is(x, g) ==
             x.hits < 80 /\ g = A(x.hits)
<1>1. ASSUME NEW x, NEW g
      PROVE  g \in Rules!AnalyzeARC(x) <=> Is(x, g)
  BY DEF Rules!AnalyzeARC, Rules!Found, Finding
<1>2. \A m, n : Covers(A(m), A(n))
  BY FindingRanks DEF Covers, Finding, Clues, Waits
<1>3. r.hits \in Int /\ s.hits \in Int /\ r.hits >= s.hits
  BY FallingReadings DEF Rules!Falling
<1> HIDE DEF A
<1> QED
  BY <1>1, <1>2, <1>3 DEF AllCovered

\* A battery that runs down: on battery, other findings take the place of those
\* about its charge and its runtime.
LEMMA UPSCovered ==
  ASSUME NEW r, NEW s, Worsens(r, s)
  PROVE  AllCovered(Rules!AnalyzeUPS(r), Rules!AnalyzeUPS(s))
<1> DEFINE A == Finding("critical", "ups", <<"UPS On Battery">>)
           B(n) == Finding("critical", "ups", <<"UPS Low Battery", n>>)
           C(n) == Finding("warning", "ups",
                           <<"UPS Battery Not Fully Charged", n>>)
           D == Finding("warning", "ups",
                        <<"UPS Battery Replacement Needed">>)
           E(n) == Finding("critical", "ups", <<"UPS Overloaded", n>>)
           F(n) == Finding("warning", "ups", <<"UPS High Load", n>>)
           G(n) == Finding("critical", "ups",
                           <<"UPS Very Low Runtime", n>>)
           Is(x, g) ==
             \/ x.onBattery /\ g = A
             \/ /\ (x.lowBattery \/ (x.onBattery /\ x.charge < 20))
                /\ g = B(x.charge)
             \/ ~x.onBattery /\ x.charge \in 1 .. 79 /\ g = C(x.charge)
             \/ x.replaceBattery /\ g = D
             \/ x.upsLoad > 90 /\ g = E(x.upsLoad)
             \/ x.upsLoad \in 76 .. 90 /\ g = F(x.upsLoad)
             \/ ~x.onBattery /\ x.runtime \in 1 .. 4 /\ g = G(x.runtime)
<1>1. ASSUME NEW x, NEW g
      PROVE  g \in Rules!AnalyzeUPS(x) <=> Is(x, g)
  BY Zenon DEF Rules!AnalyzeUPS, Rules!Found, Finding
<1>2. \A m, n : /\ Covers(A, A) /\ Covers(B(m), B(n)) /\ Covers(C(m), C(n))
                /\ Covers(D, D) /\ Covers(E(m), E(n)) /\ Covers(F(m), F(n))
                /\ Covers(G(m), G(n)) /\ Covers(A, C(n))
                /\ Covers(E(m), F(n)) /\ Covers(A, G(n))
  BY FindingRanks DEF Covers, Finding, Clues, Waits
<1>3. r.upsLoad \in Nat /\ s.upsLoad \in Nat /\ r.upsLoad <= s.upsLoad
  BY RisingReadings DEF Rules!Rising
<1>4. /\ r.charge \in Int /\ s.charge \in Int /\ r.charge >= s.charge
      /\ s.charge > 0
      /\ r.runtime \in Int /\ s.runtime \in Int /\ r.runtime >= s.runtime
      /\ s.runtime > 0
  BY FallingReadings DEF Rules!Falling
<1>5. /\ r.onBattery => s.onBattery
      /\ r.lowBattery => s.lowBattery
      /\ r.replaceBattery => s.replaceBattery
  BY BreakingReadings DEF Rules!Breaking
<1> HIDE DEF A, B, C, D, E, F, G
<1> QED
  BY <1>1, <1>2, <1>3, <1>4, <1>5 DEF AllCovered

\* A GPU.
LEMMA GPUCovered ==
  ASSUME NEW r, NEW s, Worsens(r, s)
  PROVE  AllCovered(Rules!AnalyzeGPU(r), Rules!AnalyzeGPU(s))
<1> DEFINE A(n) == Finding("critical", "gpu", <<"GPU Overheating", n>>)
           B(n) == Finding("warning", "gpu",
                           <<"GPU Temperature High", n>>)
           C(n) == Finding("warning", "gpu",
                           <<"GPU VRAM Nearly Full", n>>)
           D == Finding("warning", "gpu",
                        <<"GPU Power Draw Exceeds Limit">>)
           Is(x, g) ==
             \/ x.gpuTemp >= 95 /\ g = A(x.gpuTemp)
             \/ x.gpuTemp \in 85 .. 94 /\ g = B(x.gpuTemp)
             \/ x.vram >= 95 /\ g = C(x.vram)
             \/ x.gpuPower > 110 /\ g = D
<1>1. ASSUME NEW x, NEW g
      PROVE  g \in Rules!AnalyzeGPU(x) <=> Is(x, g)
  BY DEF Rules!AnalyzeGPU, Rules!Found, Finding
<1>2. \A m, n : /\ Covers(A(m), A(n)) /\ Covers(B(m), B(n))
                /\ Covers(C(m), C(n)) /\ Covers(D, D) /\ Covers(A(m), B(n))
  BY FindingRanks DEF Covers, Finding, Clues, Waits
<1>3. /\ r.gpuTemp \in Nat /\ s.gpuTemp \in Nat /\ r.gpuTemp <= s.gpuTemp
      /\ r.vram \in Nat /\ s.vram \in Nat /\ r.vram <= s.vram
      /\ r.gpuPower \in Nat /\ s.gpuPower \in Nat /\ r.gpuPower <= s.gpuPower
  BY RisingReadings DEF Rules!Rising
<1> HIDE DEF A, B, C, D
<1> QED
  BY <1>1, <1>2, <1>3 DEF AllCovered

\* Backups.
LEMMA BackupsCovered ==
  ASSUME NEW r, NEW s, Worsens(r, s)
  PROVE  AllCovered(Rules!AnalyzeBackups(r), Rules!AnalyzeBackups(s))
<1> DEFINE A == Finding("critical", "backup", <<"Backup failed">>)
           B(n) == Finding("critical", "backup", <<"Backup stale", n>>)
           C(n) == Finding("warning", "backup", <<"Backup aging", n>>)
           D(n) == Finding("info", "backup", <<"Backup healthy", n>>)
           Is(x, g) ==
             \/ x.backup = "failed" /\ g = A
             \/ x.backup = "stale" /\ g = B(x.backupAge)
             \/ x.backup = "warning" /\ g = C(x.backupAge)
             \/ x.backup = "ok" /\ g = D(x.snapshots)
<1>1. ASSUME NEW x, NEW g
      PROVE  g \in Rules!AnalyzeBackups(x) <=> Is(x, g)
  BY DEF Rules!AnalyzeBackups, Rules!Found, Finding
<1>2. \A m, n : /\ Covers(A, A) /\ Covers(B(m), B(n)) /\ Covers(C(m), C(n))
                /\ Covers(D(m), D(n)) /\ Covers(A, B(n)) /\ Covers(A, C(n))
                /\ Covers(B(m), C(n)) /\ Covers(A, D(n))
                /\ Covers(B(m), D(n)) /\ Covers(C(m), D(n))
  BY FindingRanks DEF Covers, Finding, Clues, Waits
<1> HIDE DEF A, B, C, D
<1> QED
  BY <1>1, <1>2, BackupGrades DEF AllCovered

\* A node of Kubernetes,
LEMMA KubeNodeCovered ==
  ASSUME NEW r, NEW s, Worsens(r, s)
  PROVE  AllCovered(Rules!KubeNode(r), Rules!KubeNode(s))
<1> DEFINE A == Finding("critical", "system", <<"K8s node not ready">>)
           B == Finding("warning", "system", <<"K8s node cordoned">>)
           C == Finding("warning", "system", <<"K8s node pressure">>)
           D(n) == Finding("warning", "system",
                           <<"K8s node pod capacity high", n>>)
           Is(x, g) ==
             \/ ~x.kubeReady /\ g = A
             \/ x.cordoned /\ g = B
             \/ x.pressure /\ g = C
             \/ x.pods > 90 /\ g = D(x.pods)
<1>1. ASSUME NEW x, NEW g
      PROVE  g \in Rules!KubeNode(x) <=> Is(x, g)
  BY DEF Rules!KubeNode, Rules!Found, Finding
<1>2. \A m, n : /\ Covers(A, A) /\ Covers(B, B) /\ Covers(C, C)
                /\ Covers(D(m), D(n))
  BY FindingRanks DEF Covers, Finding, Clues, Waits
<1>3. r.pods \in Nat /\ s.pods \in Nat /\ r.pods <= s.pods
  BY RisingReadings DEF Rules!Rising
<1>4. /\ r.cordoned => s.cordoned
      /\ r.pressure => s.pressure
  BY BreakingReadings DEF Rules!Breaking
<1>5. s.kubeReady => r.kubeReady
  BY CeasingReadings DEF Rules!Ceasing
<1> HIDE DEF A, B, C, D
<1> QED
  BY <1>1, <1>2, <1>3, <1>4, <1>5 DEF AllCovered

\* ... and a pod: its findings move from one category to another.
LEMMA KubePodCovered ==
  ASSUME NEW r, NEW s, Worsens(r, s)
  PROVE  AllCovered(Rules!KubePod(r), Rules!KubePod(s))
<1> DEFINE A == Finding("critical", "docker", <<"K8s pod crash loop">>)
           B == Finding("warning", "docker", <<"K8s pod failed">>)
           C == Finding("warning", "docker", <<"K8s pod pending">>)
           D == Finding("critical", "memory", <<"K8s pod OOM killed">>)
           E == Finding("critical", "memory", <<"K8s container OOM">>)
           F == Finding("warning", "docker", <<"K8s image pull failed">>)
           G(n) == Finding("warning", "docker",
                           <<"K8s pod high restarts", n>>)
           Is(x, g) ==
             \/ x.pod = "CrashLoopBackOff" /\ g = A
             \/ x.pod = "Failed" /\ g = B
             \/ x.pod = "Pending" /\ g = C
             \/ x.pod = "OOMKilled" /\ g = D
             \/ x.container = "OOMKilled" /\ g = E
             \/ x.container = "ImagePullBackOff" /\ g = F
             \/ x.restarts > 10 /\ x.pod = "Running" /\ g = G(x.restarts)
<1>1. ASSUME NEW x, NEW g
      PROVE  g \in Rules!KubePod(x) <=> Is(x, g)
  BY Zenon DEF Rules!KubePod, Rules!Found, Finding
<1>2. \A m, n : /\ Covers(A, A) /\ Covers(B, B) /\ Covers(C, C)
                /\ Covers(D, D) /\ Covers(E, E) /\ Covers(F, F)
                /\ Covers(G(m), G(n)) /\ Covers(A, D) /\ Covers(A, B)
                /\ Covers(D, B) /\ Covers(A, C) /\ Covers(D, C)
                /\ Covers(B, C) /\ Covers(E, F) /\ Covers(A, G(n))
                /\ Covers(B, G(n)) /\ Covers(C, G(n)) /\ Covers(D, G(n))
  BY FindingRanks DEF Covers, Finding, Clues, Waits, Rules!Shifting
<1>3. r.restarts \in Nat /\ s.restarts \in Nat /\ r.restarts <= s.restarts
  BY RisingReadings DEF Rules!Rising
<1> HIDE DEF A, B, C, D, E, F, G
<1> QED
  BY <1>1, <1>2, <1>3, PodGrades, ContainerGrades DEF AllCovered

\* A node of Proxmox,
LEMMA PVENodeCovered ==
  ASSUME NEW r, NEW s, Worsens(r, s)
  PROVE  AllCovered(Rules!PVENode(r), Rules!PVENode(s))
<1> DEFINE A == Finding("critical", "system", <<"Proxmox node offline">>)
           B(n) == Finding("critical", "memory",
                           <<"Proxmox node memory critical", n>>)
           C(n) == Finding("warning", "memory",
                           <<"Proxmox node memory high", n>>)
           D(n) == Finding("warning", "system",
                           <<"Proxmox node CPU high", n>>)
           Is(x, g) ==
             \/ ~x.online /\ g = A
             \/ x.nodeMem > 95 /\ g = B(x.nodeMem)
             \/ x.nodeMem \in 91 .. 95 /\ g = C(x.nodeMem)
             \/ x.nodeCPU > 90 /\ g = D(x.nodeCPU)
<1>1. ASSUME NEW x, NEW g
      PROVE  g \in Rules!PVENode(x) <=> Is(x, g)
  BY DEF Rules!PVENode, Rules!Found, Finding
<1>2. \A m, n : /\ Covers(A, A) /\ Covers(B(m), B(n)) /\ Covers(C(m), C(n))
                /\ Covers(D(m), D(n)) /\ Covers(B(m), C(n))
  BY FindingRanks DEF Covers, Finding, Clues, Waits
<1>3. /\ r.nodeMem \in Nat /\ s.nodeMem \in Nat /\ r.nodeMem <= s.nodeMem
      /\ r.nodeCPU \in Nat /\ s.nodeCPU \in Nat /\ r.nodeCPU <= s.nodeCPU
  BY RisingReadings DEF Rules!Rising
<1>4. s.online => r.online
  BY CeasingReadings DEF Rules!Ceasing
<1> HIDE DEF A, B, C, D
<1> QED
  BY <1>1, <1>2, <1>3, <1>4 DEF AllCovered

\* ... its guests,
LEMMA PVEGuestCovered ==
  ASSUME NEW r, NEW s, Worsens(r, s)
  PROVE  AllCovered(Rules!PVEGuest(r), Rules!PVEGuest(s))
<1> DEFINE A == Finding("critical", "system",
                        <<"HA-managed guest stopped">>)
           B(n) == Finding("warning", "memory",
                           <<"Guest memory critical", n>>)
           Is(x, g) ==
             \/ x.guest = "stopped" /\ g = A
             \/ x.guest = "running" /\ x.guestMem > 95 /\ g = B(x.guestMem)
<1>1. ASSUME NEW x, NEW g
      PROVE  g \in Rules!PVEGuest(x) <=> Is(x, g)
  BY DEF Rules!PVEGuest, Rules!Found, Finding
<1>2. \A m, n : Covers(A, A) /\ Covers(B(m), B(n)) /\ Covers(A, B(n))
  BY FindingRanks DEF Covers, Finding, Clues, Waits, Rules!Shifting
<1>3. r.guestMem \in Nat /\ s.guestMem \in Nat /\ r.guestMem <= s.guestMem
  BY RisingReadings DEF Rules!Rising
<1> HIDE DEF A, B
<1> QED
  BY <1>1, <1>2, <1>3, GuestGrades DEF AllCovered

\* ... its storage,
LEMMA PVEStorageCovered ==
  ASSUME NEW r, NEW s, Worsens(r, s)
  PROVE  AllCovered(Rules!PVEStorage(r), Rules!PVEStorage(s))
<1> DEFINE A(n) == Finding("critical", "disk",
                           <<"PVE storage critical", n>>)
           B(n) == Finding("warning", "disk", <<"PVE storage high", n>>)
           Is(x, g) ==
             \/ x.pve > 95 /\ g = A(x.pve)
             \/ x.pve \in 86 .. 95 /\ g = B(x.pve)
<1>1. ASSUME NEW x, NEW g
      PROVE  g \in Rules!PVEStorage(x) <=> Is(x, g)
  BY DEF Rules!PVEStorage, Rules!Found, Finding
<1>2. \A m, n : /\ Covers(A(m), A(n)) /\ Covers(B(m), B(n))
                /\ Covers(A(m), B(n))
  BY FindingRanks DEF Covers, Finding, Clues, Waits
<1>3. r.pve \in Nat /\ s.pve \in Nat /\ r.pve <= s.pve
  BY RisingReadings DEF Rules!Rising
<1> HIDE DEF A, B
<1> QED
  BY <1>1, <1>2, <1>3 DEF AllCovered

\* ... and its tasks.
LEMMA PVETasksCovered ==
  ASSUME NEW r, NEW s, Worsens(r, s)
  PROVE  AllCovered(Rules!PVETasks(r), Rules!PVETasks(s))
<1> DEFINE A == Finding("warning", "system",
                        <<"Proxmox backups may be stale">>)
           B == Finding("warning", "system", <<"PVE task failed">>)
           Is(x, g) ==
             \/ x.vzdump > 48 /\ g = A
             \/ x.taskFailed /\ g = B
<1>1. ASSUME NEW x, NEW g
      PROVE  g \in Rules!PVETasks(x) <=> Is(x, g)
  BY DEF Rules!PVETasks, Rules!Found, Finding
<1>2. Covers(A, A) /\ Covers(B, B)
  BY FindingRanks DEF Covers, Finding, Clues, Waits
<1>3. r.vzdump \in Nat /\ s.vzdump \in Nat /\ r.vzdump <= s.vzdump
  BY RisingReadings DEF Rules!Rising
<1>4. r.taskFailed => s.taskFailed
  BY BreakingReadings DEF Rules!Breaking
<1> HIDE DEF A, B
<1> QED
  BY <1>1, <1>2, <1>3, <1>4 DEF AllCovered

\* A service check that fails, with the user's severity.
LEMMA ServiceChecksCovered ==
  ASSUME NEW r, NEW s, Worsens(r, s)
  PROVE  AllCovered(Rules!AnalyzeServiceChecks(r),
                    Rules!AnalyzeServiceChecks(s))
<1> DEFINE Least(x) == IF x.threshold <= 0 THEN 1 ELSE x.threshold
           Sev(x) == IF x.severity = "unset" THEN "warning" ELSE x.severity
           A(x) == Finding(Sev(x), "service", <<"Service Check Failed">>)
<1>1. \A x, g : g \in Rules!AnalyzeServiceChecks(x) <=>
                  x.service = "down" /\ x.failures >= Least(x) /\ g = A(x)
  BY DEF Rules!AnalyzeServiceChecks, Rules!Found, Finding
<1>2. r.service = "down" => s.service = "down"
  BY ServiceGrades
<1>3. r.failures \in Nat /\ s.failures \in Nat /\ r.failures <= s.failures
  BY RisingReadings DEF Rules!Rising
<1>4. r.threshold \in Int /\ s.threshold \in Int /\ r.threshold >= s.threshold
  BY FallingReadings DEF Rules!Falling
<1>5. r.failures >= Least(r) => s.failures >= Least(s)
  BY <1>3, <1>4
<1>6. Rules!Rank(Sev(r)) <= Rules!Rank(Sev(s))
  <2>1. "severity" \in DOMAIN Rules!Grades
    BY DEF Rules!Grades
  <2>2. Rules!Grades["severity"] = <<"info", "unset", "warning", "critical">>
    BY DEF Rules!Grades
  <2>3. DOMAIN Rules!Grades["severity"] = 1 .. 4
    BY <2>2
  <2>4. PICK i, j \in 1 .. 4 : /\ i <= j
                               /\ r.severity = Rules!Grades["severity"][i]
                               /\ s.severity = Rules!Grades["severity"][j]
    BY <2>1, <2>3, GradedReadings
  <2>5. \A k \in 1 .. 4 : k = 1 \/ k = 2 \/ k = 3 \/ k = 4
    OBVIOUS
  <2> QED
    BY <2>2, <2>4, <2>5, FindingRanks
<1>7. Covers(A(s), A(r))
  BY <1>6 DEF Covers, Finding, Clues, Waits
<1> HIDE DEF Least, A
<1> QED
  BY <1>1, <1>2, <1>5, <1>7 DEF AllCovered

\* A host whose latest version runs ahead.
LEMMA OSUpdateCovered ==
  ASSUME NEW r, NEW s, Worsens(r, s)
  PROVE  /\ AllCovered(Rules!AnalyzeOSUpdate(r), Rules!AnalyzeOSUpdate(s))
         /\ r.behind # <<>> => s.behind # <<>>
<1> DEFINE A(n) == Finding("info", "system", <<"OS Update Available", n>>)
           B(n) == Finding("warning", "system",
                           <<"NAS OS Significantly Out of Date", n>>)
           Far(b) == b # <<>> /\ (b[1] > 0 \/ b[2] >= 3)
<1>1. ASSUME NEW x, NEW g
      PROVE  g \in Rules!AnalyzeOSUpdate(x) <=>
               \/ x.behind # <<>> /\ g = A(x.behind)
               \/ Far(x.behind) /\ g = B(x.behind)
  BY Zenon DEF Rules!AnalyzeOSUpdate, Rules!Found, Finding
<1>2. \A m, n : Covers(A(m), A(n)) /\ Covers(B(m), B(n))
  BY FindingRanks DEF Covers, Finding, Clues, Waits
<1>3. /\ r.behind \in Rules!Versions /\ s.behind \in Rules!Versions
      /\ Rules!NoBetter("behind", r.behind, s.behind)
  BY DEF Worsens, Rules!Readings, Rules!Possible
<1>4. r.behind # <<>> => s.behind # <<>>
  BY <1>3 DEF Rules!NoBetter
<1>5. ASSUME r.behind # <<>>
      PROVE  /\ r.behind[1] \in Nat /\ r.behind[2] \in Int
             /\ s.behind[1] \in Nat /\ s.behind[2] \in Int
             /\ \/ r.behind[1] < s.behind[1]
                \/ r.behind[1] = s.behind[1] /\ r.behind[2] <= s.behind[2]
  <2>1. r.behind \in Nat \X Int /\ s.behind \in Nat \X Int
    BY <1>3, <1>4, <1>5 DEF Rules!Versions
  <2>2. \/ r.behind[1] < s.behind[1]
        \/ r.behind[1] = s.behind[1] /\ r.behind[2] <= s.behind[2]
    BY <1>3, <1>5 DEF Rules!NoBetter
  <2> QED
    BY <2>1, <2>2
<1>6. Far(r.behind) => Far(s.behind)
  BY <1>4, <1>5
<1> HIDE DEF A, B, Far
<1> QED
  BY <1>1, <1>2, <1>4, <1>6 DEF AllCovered

\* A pool.
LEMMA ZFSCovered ==
  ASSUME NEW r, NEW s, Worsens(r, s)
  PROVE  AllCovered(Rules!AnalyzeZFS(r), Rules!AnalyzeZFS(s))
<1> DEFINE A == Finding("critical", "zfs", <<"Data Errors">>)
           F(x) == Rules!Found(x.dataErrors, "critical", "zfs",
                               <<"Data Errors">>)
<1>1. \A x, g : g \in F(x) <=> x.dataErrors /\ g = A
  BY DEF Rules!Found, Finding
<1>2. Covers(A, A)
  BY DEF Covers, Finding, Rules!Rank, Clues, Waits
<1>3. r.dataErrors => s.dataErrors
  BY BreakingReadings DEF Rules!Breaking
<1>4. \A x : Rules!AnalyzeZFS(x)
               = Rules!PoolState(x) \cup Rules!PoolScan(x)
                   \cup Rules!PoolSpace(x) \cup Rules!CheckVDevErrors(x)
                   \cup F(x) \cup Rules!AnalyzeARC(x)
  BY Zenon DEF Rules!AnalyzeZFS
<1> HIDE DEF A, F
<1>5. AllCovered(F(r), F(s))
  BY <1>1, <1>2, <1>3 DEF AllCovered
<1>6. AllCovered(Rules!PoolState(r) \cup Rules!PoolScan(r)
                   \cup Rules!PoolSpace(r) \cup Rules!CheckVDevErrors(r),
                 Rules!PoolState(s) \cup Rules!PoolScan(s)
                   \cup Rules!PoolSpace(s) \cup Rules!CheckVDevErrors(s))
  BY PoolStateCovered, PoolScanCovered, PoolSpaceCovered, VDevErrorsCovered,
     UnionCovered
<1> QED
  BY <1>4, <1>5, <1>6, ARCCovered, UnionCovered

\* Kubernetes.
LEMMA KubernetesCovered ==
  ASSUME NEW r, NEW s, Worsens(r, s)
  PROVE  AllCovered(Rules!AnalyzeKubernetes(r), Rules!AnalyzeKubernetes(s))
<1> DEFINE A == Finding("warning", "docker", <<"K8s deployment unhealthy">>)
           B == Finding("critical", "docker", <<"K8s deployment down">>)
           C == Finding("warning", "disk", <<"K8s PVC pending">>)
           D == Finding("critical", "disk", <<"K8s PVC lost">>)
           Is(x, g) ==
             \/ x.unavailable > 0 /\ g = A
             \/ x.unavailable = 3 /\ g = B
             \/ x.pvc = "Pending" /\ g = C
             \/ x.pvc = "Lost" /\ g = D
<1>1. ASSUME NEW x, NEW g
      PROVE  g \in Rules!AnalyzeKubernetes(x) <=>
               g \in Rules!KubeNode(x) \cup Rules!KubePod(x) \/ Is(x, g)
  BY Zenon DEF Rules!AnalyzeKubernetes, Rules!Found, Finding
<1>2. /\ Covers(A, A) /\ Covers(B, B) /\ Covers(C, C) /\ Covers(D, D)
      /\ Covers(D, C)
  BY FindingRanks DEF Covers, Finding, Clues, Waits
<1>3. /\ r.unavailable \in Nat /\ s.unavailable \in Nat
      /\ r.unavailable <= s.unavailable
  BY RisingReadings DEF Rules!Rising
<1>4. s.unavailable <= 3
  BY DEF Worsens, Rules!Readings, Rules!Rising, Rules!Possible
<1> HIDE DEF A, B, C, D
<1>5. \A f : Is(r, f) => \E g : Is(s, g) /\ Covers(g, f)
  BY <1>2, <1>3, <1>4, PvcGrades
<1> HIDE DEF Is
<1>6. AllCovered(Rules!KubeNode(r) \cup Rules!KubePod(r),
                 Rules!KubeNode(s) \cup Rules!KubePod(s))
  BY KubeNodeCovered, KubePodCovered, UnionCovered
<1> QED
  BY <1>1, <1>5, <1>6, Zenon DEF AllCovered

\* Proxmox.
LEMMA ProxmoxCovered ==
  ASSUME NEW r, NEW s, Worsens(r, s)
  PROVE  AllCovered(Rules!AnalyzeProxmox(r), Rules!AnalyzeProxmox(s))
<1> DEFINE A == Finding("critical", "system", <<"PVE HA service error">>)
           F(x) == Rules!Found(x.ha \in {"error", "fence"}, "critical",
                               "system", <<"PVE HA service error">>)
<1>1. \A x, g : g \in F(x) <=> x.ha \in {"error", "fence"} /\ g = A
  BY DEF Rules!Found, Finding
<1>2. Covers(A, A)
  BY DEF Covers, Finding, Rules!Rank, Clues, Waits
<1> HIDE DEF A
<1>3. AllCovered(F(r), F(s))
  BY <1>1, <1>2, HaGrades DEF AllCovered
<1>4. \A x : Rules!AnalyzeProxmox(x)
               = Rules!PVENode(x) \cup Rules!PVEGuest(x)
                   \cup Rules!PVEStorage(x) \cup Rules!PVETasks(x) \cup F(x)
  BY Zenon DEF Rules!AnalyzeProxmox
<1> HIDE DEF F
<1> QED
  BY <1>3, <1>4, PVENodeCovered, PVEGuestCovered, PVEStorageCovered,
     PVETasksCovered, UnionCovered

\* A parity history that grows by a check no faster, with no fewer errors.
LEMMA ParityReadings ==
  ASSUME NEW r, NEW s, Worsens(r, s)
  PROVE  LET m == Len(r.parity)
             n == Len(s.parity)
         IN /\ m \in Nat /\ m >= 1 /\ n \in Nat /\ m <= n
            /\ \A i \in 1 .. m : r.parity[i] \in Rules!ParityChecks
            /\ \A i \in 1 .. n : s.parity[i] \in Rules!ParityChecks
            /\ r.parity[1] = s.parity[1]
            /\ s.parity[n].speed <= r.parity[m].speed
            /\ r.parity[m].errors <= s.parity[n].errors
            /\ \A i \in 1 .. m :
                 i > m - 3 /\ r.parity[i].errors > 0 =>
                   \E j \in 1 .. n : j > n - 3 /\ s.parity[j].errors > 0
<1> DEFINE p == r.parity
           q == s.parity
           m == Len(p)
<1>1. /\ p \in Seq(Rules!ParityChecks) /\ p # <<>>
      /\ q \in Seq(Rules!ParityChecks) /\ q # <<>>
      /\ Rules!NoBetter("parity", p, q)
  BY DEF Worsens, Rules!Readings, Rules!Possible
<1>2. m \in Nat /\ m >= 1 /\ \A i \in 1 .. m : p[i] \in Rules!ParityChecks
  BY <1>1
<1>3. \A d \in Rules!ParityChecks : d.speed \in Nat /\ d.errors \in Nat
  BY DEF Rules!ParityChecks
<1>4. CASE q = p
  <2> HIDE DEF p, q, m
  <2>1. /\ p[m].speed <= p[m].speed
        /\ p[m].errors <= p[m].errors
    BY <1>2, <1>3
  <2> QED
    BY <1>2, <1>4, <2>1 DEF p, q, m
<1>5. CASE q # p
  <2> DEFINE c == q[m + 1]
  <2>1. /\ q = Append(p, c)
        /\ c.speed <= p[m].speed
        /\ \A i \in 1 .. m : p[i].errors <= c.errors
    BY <1>1, <1>5 DEF Rules!NoBetter
  <2>2. Len(q) = m + 1
    BY <1>1, <1>2, <2>1
  <2>3. \A i \in 1 .. m + 1 : q[i] \in Rules!ParityChecks
    BY <1>1, <2>2
  <2>4. p[1] = q[1]
    BY <1>1, <1>2, <2>1
  <2> HIDE DEF p, q, m
  <2>5. /\ Len(q) \in Nat /\ m <= Len(q)
        /\ q[Len(q)] = c
    BY <1>2, <2>2
  <2>6. /\ m \in 1 .. m /\ Len(q) \in 1 .. Len(q) /\ Len(q) > Len(q) - 3
        /\ c.errors \in Nat /\ \A i \in 1 .. m : p[i].errors \in Nat
    BY <1>2, <1>3, <2>2, <2>3
  <2> HIDE DEF c
  <2>7. \A i \in 1 .. m : p[i].errors > 0 => c.errors > 0
    BY <2>1, <2>6
  <2> QED
    BY <1>2, <2>1, <2>2, <2>3, <2>4, <2>5, <2>6, <2>7 DEF p, q, m
<1> QED
  BY <1>4, <1>5

\* Parity checks.
LEMMA ParityCovered ==
  ASSUME NEW r, NEW s, Worsens(r, s)
  PROVE  AllCovered(Rules!AnalyzeParity(r), Rules!AnalyzeParity(s))
<1> DEFINE N(x) == Len(x.parity)
           First(x) == x.parity[1].speed
           Last(x) == x.parity[N(x)].speed
           Known(x) == First(x) > 0 /\ Last(x) > 0
           A == Finding("critical", "parity",
                        <<"Severe Parity Check Speed Degradation">>)
           B == Finding("warning", "parity",
                        <<"Parity Check Speed Declining">>)
           C(n) == Finding("critical", "parity", <<"Parity Errors", n>>)
           Severe(x) == Known(x) /\ 2 * (First(x) - Last(x)) > First(x)
           Declining(x) == /\ Known(x) /\ 2 * (First(x) - Last(x)) <= First(x)
                           /\ 4 * (First(x) - Last(x)) > First(x)
           Wrong(x, i) == /\ i \in DOMAIN x.parity /\ i > N(x) - 3
                          /\ x.parity[i].errors > 0
           Is(x, g) ==
             /\ ~(N(x) < 2)
             /\ \/ Severe(x) /\ g = A
                \/ Declining(x) /\ g = B
                \/ \E i : Wrong(x, i) /\ g = C(i)
<1>1. ASSUME NEW x, NEW g
      PROVE  g \in Rules!AnalyzeParity(x) <=> Is(x, g)
  BY DEF Rules!AnalyzeParity, Rules!Found, Finding
<1>2. \A m, n : /\ Covers(A, A) /\ Covers(B, B) /\ Covers(A, B)
                /\ Covers(C(m), C(n))
  BY FindingRanks DEF Covers, Finding, Clues, Waits
<1> HIDE DEF A, B, C
<1>3. /\ N(r) \in Nat /\ N(r) >= 1 /\ N(s) \in Nat /\ N(r) <= N(s)
      /\ First(r) = First(s) /\ Last(s) <= Last(r)
      /\ First(r) \in Nat \ {0} /\ Last(r) \in Nat \ {0}
      /\ Last(s) \in Nat \ {0}
  <2>1. \A c \in Rules!ParityChecks : c.speed \in Nat \ {0}
    BY DEF Rules!ParityChecks
  <2> QED
    BY <2>1, ParityReadings
<1>4. \A i \in 1 .. N(r) :
        i > N(r) - 3 /\ r.parity[i].errors > 0 =>
          \E j \in 1 .. N(s) : j > N(s) - 3 /\ s.parity[j].errors > 0
  BY ParityReadings
<1>5. DOMAIN r.parity = 1 .. N(r) /\ DOMAIN s.parity = 1 .. N(s)
  BY DEF Worsens, Rules!Readings, Rules!Possible
<1>6. \A i : Wrong(r, i) => \E j : Wrong(s, j)
  BY <1>4, <1>5
<1> HIDE DEF First, Last
<1>7. /\ Severe(r) => Severe(s)
      /\ Declining(r) => Severe(s) \/ Declining(s)
  BY <1>3
<1> HIDE DEF N, Severe, Declining, Wrong
<1> QED
  BY <1>1, <1>2, <1>3, <1>6, <1>7 DEF AllCovered

\* The tiers of SystemFindings are those of DriveHealth.
LEMMA SameTiers ==
  ASSUME NEW n
  PROVE  /\ Rules!GetCRCTier(n) = Drives!GetCRCTier(n)
         /\ Rules!GetTempTier(n) = Drives!GetTempTier(n)
<1>1. \A tiers : Rules!Tier(tiers, n) = Drives!Tier(tiers, n)
  BY Zenon DEF Rules!Tier, Drives!Tier
<1>2. /\ Rules!CRCTiers = Drives!CRCTiers /\ Rules!NoTier = Drives!NoTier
      /\ Rules!TempTiers = Drives!TempTiers
  BY SMT DEF Rules!CRCTiers, Drives!CRCTiers, Rules!TempTiers,
     Drives!TempTiers, Rules!NoTier, Drives!NoTier, Rules!T, Drives!T,
     Rules!Top, Drives!Top
<1> QED
  BY <1>1, <1>2, SMT DEF Rules!GetCRCTier, Drives!GetCRCTier,
     Rules!GetTempTier, Drives!GetTempTier

\* The cable and the heat of the drives.
LEMMA DrivesCovered ==
  ASSUME NEW r, NEW s, Worsens(r, s)
  PROVE  AllCovered(Rules!DriveFindings(r), Rules!DriveFindings(s))
<1> DEFINE Cable(x) == Rules!GetCRCTier(x.crc).sev
           Heat(x) == Rules!GetTempTier(x.temp).sev
           A(v) == Finding(v, "smart", <<"SATA Cable Issue">>)
           B(v, n) == Finding(v, "thermal", <<"Drive Temperature", n>>)
           C == Finding("critical", "thermal", <<"Systemic Thermal Issue">>)
           Is(x, g) ==
             \/ x.crc > 0 /\ g = A(Cable(x))
             \/ Heat(x) # "none" /\ g = B(Heat(x), x.temp)
             \/ Heat(x) \in {"warning", "critical"} /\ x.drives >= 3 /\ g = C
<1>1. ASSUME NEW x, NEW g
      PROVE  g \in Rules!DriveFindings(x) <=> Is(x, g)
  BY Zenon DEF Rules!DriveFindings, Rules!Found, Finding
<1>2. /\ \A v, w : Rules!Rank(w) <= Rules!Rank(v) => Covers(A(v), A(w))
      /\ \A v, w, m, n :
           Rules!Rank(w) <= Rules!Rank(v) => Covers(B(v, m), B(w, n))
      /\ Covers(C, C)
  BY FindingRanks DEF Covers, Finding, Clues, Waits
<1>3. /\ r.crc \in Nat /\ s.crc \in Nat /\ r.crc <= s.crc
      /\ r.temp \in Nat /\ s.temp \in Nat /\ r.temp <= s.temp
      /\ r.drives \in Nat /\ s.drives \in Nat /\ r.drives <= s.drives
  BY RisingReadings DEF Rules!Rising
<1> HIDE DEF A, B, C
<1>4. /\ Cable(r) \in Sevs /\ Cable(s) \in Sevs
      /\ Drives!Rank(Cable(r)) <= Drives!Rank(Cable(s))
      /\ Heat(r) \in Sevs /\ Heat(s) \in Sevs
      /\ Drives!Rank(Heat(r)) <= Drives!Rank(Heat(s))
  BY <1>3, SameTiers, CRCNoMilder, TempNoMilder DEF NoMilderTier
<1> HIDE DEF Cable, Heat
<1>5. /\ Rules!Rank(Cable(r)) <= Rules!Rank(Cable(s))
      /\ Rules!Rank(Heat(r)) <= Rules!Rank(Heat(s))
      /\ Heat(r) # "none" => Heat(s) # "none"
      /\ Heat(r) \in {"warning", "critical"} =>
           Heat(s) \in {"warning", "critical"}
  BY <1>4, SeverityRanks, FindingRanks DEF Sevs
<1> QED
  BY <1>1, <1>2, <1>3, <1>5 DEF AllCovered

\* What each rule finds by itself.
LEMMA ObservedCovered ==
  ASSUME NEW r, NEW s, Worsens(r, s)
  PROVE  AllCovered(Rules!Observed(r), Rules!Observed(s))
<1>1. AllCovered(Rules!DriveFindings(r) \cup Rules!AnalyzeMemory(r)
                   \cup Rules!AnalyzeIOWait(r) \cup Rules!AnalyzeDiskSpace(r)
                   \cup Rules!AnalyzeStorageMounts(r),
                 Rules!DriveFindings(s) \cup Rules!AnalyzeMemory(s)
                   \cup Rules!AnalyzeIOWait(s) \cup Rules!AnalyzeDiskSpace(s)
                   \cup Rules!AnalyzeStorageMounts(s))
  BY DrivesCovered, MemoryCovered, IOWaitCovered, DiskSpaceCovered,
     StorageMountsCovered, UnionCovered
<1> DEFINE F1(x) == Rules!DriveFindings(x) \cup Rules!AnalyzeMemory(x)
                      \cup Rules!AnalyzeIOWait(x)
                      \cup Rules!AnalyzeDiskSpace(x)
                      \cup Rules!AnalyzeStorageMounts(x)
<1> HIDE DEF F1
<1> DEFINE F2(x) == F1(x) \cup Rules!AnalyzeDocker(x)
                      \cup Rules!AnalyzeNetwork(x) \cup Rules!AnalyzeLogs(x)
                      \cup Rules!AnalyzeServiceChecks(x)
<1>2. AllCovered(F2(r), F2(s))
  BY <1>1, DockerCovered, NetworkCovered, LogsCovered, ServiceChecksCovered,
     UnionCovered DEF F1
<1> HIDE DEF F2
<1> DEFINE F3(x) == F2(x) \cup Rules!AnalyzeParity(x) \cup Rules!AnalyzeZFS(x)
                      \cup Rules!AnalyzeUPS(x) \cup Rules!AnalyzeOSUpdate(x)
<1>3. AllCovered(F3(r), F3(s))
  BY <1>2, ParityCovered, ZFSCovered, UPSCovered, OSUpdateCovered,
     UnionCovered
<1> HIDE DEF F3
<1> DEFINE F4(x) == F3(x) \cup Rules!AnalyzeProxmox(x)
                      \cup Rules!AnalyzeKubernetes(x)
                      \cup Rules!AnalyzeGPU(x) \cup Rules!AnalyzeBackups(x)
<1>4. AllCovered(F4(r), F4(s))
  BY <1>3, ProxmoxCovered, KubernetesCovered, GPUCovered, BackupsCovered,
     UnionCovered
<1>5. \A x : Rules!Observed(x) = F4(x)
  BY Zenon DEF Rules!Observed, F1, F2, F3
<1> HIDE DEF F4
<1> QED
  BY <1>4, <1>5

\* A correlation holds as long as what it correlates.
LEMMA CorrelationsCovered ==
  ASSUME NEW r, NEW s, Worsens(r, s)
  PROVE  AllCovered(Rules!Correlate(r, Rules!Observed(r)), Rules!Analyze(s))
<1> DEFINE F(x) == Rules!Observed(x)
           Titled(x, title) == \E f \in F(x) : f.title[1] = title
           Slow(x) == Titled(x, "Severe Parity Check Speed Degradation")
           Loose(x) == Titled(x, "SATA Cable Issue")
           Hot(x) == \E f \in F(x) : f.cat = "thermal" /\ f.sev = "critical"
           Waiting(x) == \/ Titled(x, "Severe Disk I/O Bottleneck")
                         \/ Titled(x, "Elevated Disk I/O Wait")
           Uncached(x) == /\ ~x.cache /\ Waiting(x) /\ x.containers > 3
                          /\ x.platform = "unraid"
           A == Finding("critical", "system",
                        <<"Root Cause: SATA Cable Failure">>)
           B == Finding("warning", "system",
                        <<"Correlation: High Temperatures">>)
           C == Finding("warning", "system",
                        <<"No SSD Cache with Docker Workloads">>)
<1>1. ASSUME NEW x, NEW g
      PROVE  g \in Rules!Correlate(x, F(x)) <=>
               \/ Loose(x) /\ Slow(x) /\ g = A
               \/ Hot(x) /\ Slow(x) /\ g = B
               \/ Uncached(x) /\ g = C
  BY Zenon DEF Rules!Correlate, Rules!Found, Finding
<1>2. AllCovered(F(r), F(s))
  BY ObservedCovered
<1>3. /\ Covers(A, A) /\ Covers(B, B) /\ Covers(C, C)
      /\ \A g : 2 <= Rules!Rank(g.sev) => Covers(g, C)
  BY FindingRanks DEF Covers, Finding, Clues, Waits, Rules!Shifting
<1> HIDE DEF F, A, B, C
<1>4. (Loose(r) => Loose(s)) /\ (Slow(r) => Slow(s))
  BY <1>2 DEF AllCovered, Covers, Clues
<1>5. Hot(r) => Hot(s)
  <2> SUFFICES ASSUME NEW f \in F(r), f.cat = "thermal", f.sev = "critical"
               PROVE  Hot(s)
    OBVIOUS
  <2>1. PICK g \in F(s) : Covers(g, f)
    BY <1>2 DEF AllCovered
  <2>2. g.cat = "thermal"
    BY <2>1 DEF Covers, Rules!Shifting
  <2>3. g.sev = "critical"
    BY <2>1 DEF Covers, Rules!Rank
  <2> QED
    BY <2>2, <2>3
<1>6. Waiting(r) => /\ Waiting(s)
                    /\ \E g \in F(s) : 2 <= Rules!Rank(g.sev)
  <2> SUFFICES ASSUME NEW f \in F(r), f.title[1] \in Waits
               PROVE  /\ Waiting(s)
                      /\ \E g \in F(s) : 2 <= Rules!Rank(g.sev)
    BY DEF Waits
  <2>1. PICK g \in F(s) : Covers(g, f)
    BY <1>2 DEF AllCovered
  <2>2. g.title[1] \in Waits /\ 2 <= Rules!Rank(g.sev)
    BY <2>1 DEF Covers
  <2> QED
    BY <2>2 DEF Waits
<1>7. /\ ~r.cache => ~s.cache
      /\ r.containers > 3 => s.containers > 3
      /\ r.platform = "unraid" => s.platform \in {"unraid", "synology"}
  <2>1. s.cache => r.cache
    BY CeasingReadings DEF Rules!Ceasing
  <2>2. /\ r.containers \in Nat /\ s.containers \in Nat
        /\ r.containers <= s.containers
    BY RisingReadings DEF Rules!Rising
  <2>3. r.platform = "unraid" => s.platform \in {"unraid", "synology"}
    BY PlatformGrades
  <2> QED
    BY <2>1, <2>2, <2>3
<1> HIDE DEF Loose, Slow, Hot, Waiting
<1>8. Uncached(r) => Uncached(s) \/ \E g \in F(s) : 2 <= Rules!Rank(g.sev)
  BY <1>6, <1>7
<1> HIDE DEF Uncached
<1>9. Rules!Analyze(s) = F(s) \cup Rules!Correlate(s, F(s))
  BY DEF Rules!Analyze, F
<1> SUFFICES ASSUME NEW f \in Rules!Correlate(r, F(r))
             PROVE  \E g \in Rules!Analyze(s) : Covers(g, f)
  BY DEF AllCovered, F
<1> QED
  BY <1>1, <1>3, <1>4, <1>5, <1>8, <1>9

\* Every finding of a host is made up for when the host gets worse.
LEMMA AnalysisCovered ==
  ASSUME NEW r, NEW s, Worsens(r, s)
  PROVE  AllCovered(Rules!Analyze(r), Rules!Analyze(s))
BY ObservedCovered, CorrelationsCovered DEF AllCovered, Rules!Analyze

\* The worst finding is a finding, unless there is none.
LEMMA WorstIs ==
  ASSUME NEW r
  PROVE  LET found == {Rules!Rank(f.sev) : f \in Rules!Analyze(r)}
         IN /\ Rules!Worst(r) \in 0 .. 3
            /\ Rules!Worst(r) = 0 \/ Rules!Worst(r) \in found
            /\ \A m \in found : m <= Rules!Worst(r)
<1> DEFINE found == {Rules!Rank(f.sev) : f \in Rules!Analyze(r)}
           Highest(n) == (n = 0 \/ n \in found) /\ \A m \in found : m <= n
<1>1. \A m \in found : m = 0 \/ m = 1 \/ m = 2 \/ m = 3
  BY FindingRanks
<1>2. Rules!Worst(r) = CHOOSE n \in 0 .. 3 : Highest(n)
  BY Zenon DEF Rules!Worst
<1> HIDE DEF found
<1>3. \E n \in 0 .. 3 : Highest(n)
  <2>1. CASE 3 \in found
    <3>1. Highest(3) /\ 3 \in 0 .. 3
      BY <1>1, <2>1
    <3> QED
      BY <3>1
  <2>2. CASE 3 \notin found /\ 2 \in found
    <3>1. Highest(2) /\ 2 \in 0 .. 3
      BY <1>1, <2>2
    <3> QED
      BY <3>1
  <2>3. CASE 3 \notin found /\ 2 \notin found /\ 1 \in found
    <3>1. Highest(1) /\ 1 \in 0 .. 3
      BY <1>1, <2>3
    <3> QED
      BY <3>1
  <2>4. CASE 3 \notin found /\ 2 \notin found /\ 1 \notin found
    <3>1. Highest(0) /\ 0 \in 0 .. 3
      BY <1>1, <2>4
    <3> QED
      BY <3>1
  <2> QED
    BY <2>1, <2>2, <2>3, <2>4
<1> HIDE DEF Highest
<1>4. Rules!Worst(r) \in 0 .. 3 /\ Highest(Rules!Worst(r))
  BY <1>2, <1>3
<1> QED
  BY <1>4 DEF Highest, found

\* The worst finding turns no milder.
LEMMA NoMilderFinding ==
  ASSUME NEW r, NEW s, Worsens(r, s)
  PROVE  Rules!Worst(r) <= Rules!Worst(s)
<1>1. /\ Rules!Worst(r) \in 0 .. 3 /\ Rules!Worst(s) \in 0 .. 3
      /\ \/ Rules!Worst(r) = 0
         \/ \E f \in Rules!Analyze(r) : Rules!Worst(r) = Rules!Rank(f.sev)
      /\ \A g \in Rules!Analyze(s) : Rules!Rank(g.sev) <= Rules!Worst(s)
  BY WorstIs
<1>2. \A f \in Rules!Analyze(r) : \E g \in Rules!Analyze(s) :
        Rules!Rank(f.sev) <= Rules!Rank(g.sev)
  BY AnalysisCovered DEF AllCovered, Covers
<1> QED
  BY <1>1, <1>2, FindingRanks

-----------------------------------------------------------------------------
(* The alert rules.                                                        *)

\* What is above a threshold stays there, and what is below it.
LEMMA Thresholds ==
  ASSUME NEW rule, rule.value \in Int, NEW m \in Int, NEW n \in Int, m <= n
  PROVE  /\ Rules!Above(rule, m) => Rules!Above(rule, n)
         /\ Rules!Below(rule, n) => Rules!Below(rule, m)
BY DEF Rules!Above, Rules!Below

\* A finding that makes up for another satisfies its rule.
LEMMA FindingRuleLasts ==
  ASSUME NEW r, NEW s, Worsens(r, s), NEW rule \in Rules!Lasting,
         rule.category = "findings", Rules!EvalFindings(rule, r)
  PROVE  Rules!EvalFindings(rule, s)
<1>1. PICK f \in Rules!Analyze(r) :
        \/ rule.condition = "critical" /\ f.sev = "critical"
        \/ rule.condition = "warning" /\ f.sev \in {"warning", "critical"}
        \/ rule.condition = "category" /\ f.cat = rule.target
        \/ rule.condition = "any"
  BY DEF Rules!EvalFindings
<1>2. PICK g \in Rules!Analyze(s) : Covers(g, f)
  BY AnalysisCovered DEF AllCovered
<1>3. /\ f.sev = "critical" => g.sev = "critical"
      /\ f.sev = "warning" => g.sev \in {"warning", "critical"}
  BY <1>2 DEF Covers, Rules!Rank
<1>4. rule.condition = "category" => rule.target \notin Rules!Shifting
  BY DEF Rules!Lasting
<1>5. rule.condition = "category" /\ f.cat = rule.target
        => g.cat = rule.target
  BY <1>2, <1>4 DEF Covers
<1> QED
  BY <1>1, <1>3, <1>5 DEF Rules!EvalFindings

\* A service rule, but for that on a degraded service.
LEMMA ServiceRuleLasts ==
  ASSUME NEW r, NEW s, Worsens(r, s), NEW rule \in Rules!Lasting,
         rule.value \in Int, rule.category = "service",
         Rules!EvalService(rule, r)
  PROVE  Rules!EvalService(rule, s)
<1>1. rule.condition # "degraded"
  BY DEF Rules!Lasting
<1>2. r.latency \in Nat /\ s.latency \in Nat /\ r.latency <= s.latency
  BY RisingReadings DEF Rules!Rising
<1>3. /\ r.download \in Int /\ s.download \in Int /\ r.download >= s.download
      /\ r.upload \in Int /\ s.upload \in Int /\ r.upload >= s.upload
  BY FallingReadings DEF Rules!Falling
<1>4. /\ Rules!Above(rule, r.latency) => Rules!Above(rule, s.latency)
      /\ Rules!Below(rule, r.download) => Rules!Below(rule, s.download)
      /\ Rules!Below(rule, r.upload) => Rules!Below(rule, s.upload)
  BY <1>2, <1>3, Thresholds
<1> QED
  BY <1>1, <1>4, ServiceGrades DEF Rules!EvalService

\* The rules on disks and drives.
LEMMA DriveRulesLast ==
  ASSUME NEW r, NEW s, Worsens(r, s), NEW rule, rule.value \in Int
  PROVE  /\ Rules!EvalDiskSpace(rule, r) => Rules!EvalDiskSpace(rule, s)
         /\ Rules!EvalDiskTemp(rule, r) => Rules!EvalDiskTemp(rule, s)
         /\ Rules!EvalSMART(rule, r) => Rules!EvalSMART(rule, s)
<1>1. \A f \in {"used", "temp", "otherTemp", "reallocated", "pending", "crc",
                "hours"} :
        r[f] \in Nat /\ s[f] \in Nat /\ r[f] <= s[f]
  BY RisingReadings DEF Rules!Rising
<1>2. s.passed => r.passed
  BY CeasingReadings DEF Rules!Ceasing
<1>3. Rules!Below(rule, 100 - r.used) => Rules!Below(rule, 100 - s.used)
  <2>1. /\ 100 - r.used \in Int /\ 100 - s.used \in Int
        /\ 100 - s.used <= 100 - r.used
    BY <1>1
  <2> QED
    BY <2>1, Thresholds
<1>4. Rules!Above(rule, (r.temp + r.otherTemp) \div 2)
        => Rules!Above(rule, (s.temp + s.otherTemp) \div 2)
  <2>1. /\ (r.temp + r.otherTemp) \div 2 \in Int
        /\ (s.temp + s.otherTemp) \div 2 \in Int
        /\ (r.temp + r.otherTemp) \div 2 <= (s.temp + s.otherTemp) \div 2
    BY <1>1
  <2> QED
    BY <2>1, Thresholds
<1>5. \A f \in {"temp", "reallocated", "pending", "crc", "hours"} :
        Rules!Above(rule, r[f]) => Rules!Above(rule, s[f])
  BY <1>1, Thresholds
<1> QED
  BY <1>2, <1>3, <1>4, <1>5
  DEF Rules!EvalDiskSpace, Rules!EvalDiskTemp, Rules!EvalSMART

\* The rules on the last parity check.
LEMMA ParityRuleLasts ==
  ASSUME NEW r, NEW s, Worsens(r, s), NEW rule, rule.value \in Int,
         Rules!EvalParity(rule, r)
  PROVE  Rules!EvalParity(rule, s)
<1> DEFINE a == r.parity[Len(r.parity)]
           b == s.parity[Len(s.parity)]
<1>1. /\ a.speed \in Nat /\ b.speed \in Nat /\ b.speed <= a.speed
      /\ a.errors \in Nat /\ b.errors \in Nat /\ a.errors <= b.errors
  <2>1. \A c \in Rules!ParityChecks : c.speed \in Nat /\ c.errors \in Nat
    BY DEF Rules!ParityChecks
  <2> QED
    BY <2>1, ParityReadings
<1>2. \/ rule.condition = "errors" /\ a.errors > 0
      \/ rule.condition = "speed_below" /\ Rules!Below(rule, a.speed)
  BY DEF Rules!EvalParity
<1> HIDE DEF a, b
<1>3. \/ rule.condition = "errors" /\ b.errors > 0
      \/ rule.condition = "speed_below" /\ Rules!Below(rule, b.speed)
  BY <1>1, <1>2, Thresholds
<1> QED
  BY <1>3 DEF Rules!EvalParity, b

\* The rules on containers, the host, processes and updates.
LEMMA HostRulesLast ==
  ASSUME NEW r, NEW s, Worsens(r, s), NEW rule, rule.value \in Int
  PROVE  /\ Rules!EvalDocker(rule, r) => Rules!EvalDocker(rule, s)
         /\ Rules!EvalSystem(rule, r) => Rules!EvalSystem(rule, s)
         /\ Rules!EvalProcess(rule, r) => Rules!EvalProcess(rule, s)
         /\ Rules!EvalUpdate(rule, r) => Rules!EvalUpdate(rule, s)
<1>1. \A f \in {"hostCPU", "mem", "load1", "iowait", "processCPU",
                "processMem"} :
        r[f] \in Nat /\ s[f] \in Nat /\ r[f] <= s[f]
  BY RisingReadings DEF Rules!Rising
<1>2. \A f \in {"hostCPU", "mem", "load1", "iowait", "processCPU",
                "processMem"} :
        Rules!Above(rule, r[f]) => Rules!Above(rule, s[f])
  BY <1>1, Thresholds
<1>3. r.state # "running" => s.state # "running"
  BY StateGrades
<1> QED
  BY <1>2, <1>3, OSUpdateCovered
  DEF Rules!EvalDocker, Rules!EvalSystem, Rules!EvalProcess,
      Rules!EvalUpdate

\* The rules on the UPS, pools and tunnels.
LEMMA PowerRulesLast ==
  ASSUME NEW r, NEW s, Worsens(r, s), NEW rule, rule.value \in Int
  PROVE  /\ Rules!EvalUPS(rule, r) => Rules!EvalUPS(rule, s)
         /\ Rules!EvalZFS(rule, r) => Rules!EvalZFS(rule, s)
         /\ Rules!EvalTunnels(rule, r) => Rules!EvalTunnels(rule, s)
<1>1. /\ r.upsLoad \in Nat /\ s.upsLoad \in Nat /\ r.upsLoad <= s.upsLoad
      /\ r.full \in Nat /\ s.full \in Nat /\ r.full <= s.full
      /\ r.scanErrors \in Nat /\ s.scanErrors \in Nat
      /\ r.scanErrors <= s.scanErrors
  BY RisingReadings DEF Rules!Rising
<1>2. r.charge \in Int /\ s.charge \in Int /\ r.charge >= s.charge
  BY FallingReadings DEF Rules!Falling
<1>3. /\ Rules!Above(rule, r.upsLoad) => Rules!Above(rule, s.upsLoad)
      /\ Rules!Above(rule, r.full) => Rules!Above(rule, s.full)
      /\ Rules!Below(rule, r.charge) => Rules!Below(rule, s.charge)
  BY <1>1, <1>2, Thresholds
<1>4. /\ r.onBattery => s.onBattery
      /\ s.peer => r.peer
  BY BreakingReadings, CeasingReadings DEF Rules!Breaking, Rules!Ceasing
<1>5. /\ r.pool # "ONLINE" => s.pool # "ONLINE"
      /\ r.tunnel # "healthy" => s.tunnel # "healthy"
  BY PoolGrades, TunnelGrades
<1> QED
  BY <1>1, <1>3, <1>4, <1>5
  DEF Rules!EvalUPS, Rules!EvalZFS, Rules!EvalTunnels

\* A rule that fires keeps firing.
LEMMA RuleLasts ==
  ASSUME NEW r, NEW s, Worsens(r, s), NEW rule \in Rules!Lasting,
         rule.value \in Int, Rules!Fires(rule, r)
  PROVE  Rules!Fires(rule, s)
BY FindingRuleLasts, ServiceRuleLasts, DriveRulesLast, ParityRuleLasts,
   HostRulesLast, PowerRulesLast DEF Rules!Fires

-----------------------------------------------------------------------------
\* Each reading is one of its levels.
HostTypes ==
  /\ DOMAIN reading = Rules!Readings
  /\ \A f \in Rules!Readings :
       \E i \in 1 .. Len(ReadingLevels[f]) : reading[f] = ReadingLevels[f][i]

\* It begins with one.
LEMMA HostInit ==
  ASSUME Rules!HostAssumption, Rules!Init
  PROVE  HostTypes
BY DEF Rules!HostAssumption, Rules!Init, HostTypes

\* A reading is no better than itself.
LEMMA NoBetterThanItself ==
  ASSUME NEW f, NEW v, Rules!Possible(f, v)
  PROVE  Rules!NoBetter(f, v, v)
<1>1. /\ f \in Rules!Rising => v <= v
      /\ f \in Rules!Falling => v >= v
  BY DEF Rules!Possible
<1>2. ASSUME f \in DOMAIN Rules!Grades
      PROVE  \E i, j \in DOMAIN Rules!Grades[f] :
               i <= j /\ v = Rules!Grades[f][i] /\ v = Rules!Grades[f][j]
  <2>1. PICK i \in DOMAIN Rules!Grades[f] : v = Rules!Grades[f][i]
    BY <1>2 DEF Rules!Possible
  <2>2. \A k \in DOMAIN Rules!Grades[f] : k <= k
    BY <1>2 DEF Rules!Grades
  <2> QED
    BY <2>1, <2>2
<1>3. ASSUME f = "behind", v # <<>>
      PROVE  v[1] = v[1] /\ v[2] <= v[2]
  BY <1>3 DEF Rules!Possible, Rules!Versions
<1> QED
  BY <1>1, <1>2, <1>3 DEF Rules!NoBetter

\* A step makes one reading worse.
LEMMA Monotone ==
  ASSUME Rules!HostAssumption, HostTypes, Rules!Next
  PROVE  HostTypes' /\ Worsens(reading, reading')
<1>1. PICK f \in moving : Rules!Worsen(f)
  BY DEF Rules!Next
<1>2. PICK i \in 1 .. Len(ReadingLevels[f]) - 1 :
        /\ reading[f] = ReadingLevels[f][i]
        /\ reading' = [reading EXCEPT ![f] = ReadingLevels[f][i + 1]]
  BY <1>1 DEF Rules!Worsen
<1>3. DOMAIN reading = Rules!Readings /\ DOMAIN reading' = Rules!Readings
  BY <1>2 DEF HostTypes
<1>4. ASSUME NEW h \in Rules!Readings
      PROVE  /\ \E k \in 1 .. Len(ReadingLevels[h]) :
                  reading'[h] = ReadingLevels[h][k]
             /\ Rules!Possible(h, reading[h]) /\ Rules!Possible(h, reading'[h])
             /\ Rules!NoBetter(h, reading[h], reading'[h])
  <2>1. /\ Len(ReadingLevels[h]) \in Nat
        /\ \A k \in 1 .. Len(ReadingLevels[h]) :
             Rules!Possible(h, ReadingLevels[h][k])
        /\ \A k \in 1 .. Len(ReadingLevels[h]) - 1 :
             Rules!NoBetter(h, ReadingLevels[h][k], ReadingLevels[h][k + 1])
    BY DEF Rules!HostAssumption
  <2>2. CASE h = f
    <3>1. reading[h] = ReadingLevels[h][i]
          /\ reading'[h] = ReadingLevels[h][i + 1]
      BY <1>2, <1>3, <2>2
    <3>2. /\ i \in 1 .. Len(ReadingLevels[h])
          /\ i + 1 \in 1 .. Len(ReadingLevels[h])
          /\ i \in 1 .. Len(ReadingLevels[h]) - 1
      BY <2>1, <2>2
    <3> QED
      BY <2>1, <3>1, <3>2
  <2>3. CASE h # f
    <3>1. reading'[h] = reading[h]
      BY <1>2, <1>3, <2>3
    <3>2. PICK k \in 1 .. Len(ReadingLevels[h]) :
            reading[h] = ReadingLevels[h][k]
      BY DEF HostTypes
    <3>3. Rules!Possible(h, reading[h])
      BY <2>1, <3>2
    <3> QED
      BY <3>1, <3>2, <3>3, NoBetterThanItself
  <2> QED
    BY <2>2, <2>3
<1> QED
  BY <1>3, <1>4 DEF HostTypes, Worsens

\* Of the analyzer's findings and the user's rules: when a reading gets worse,
\* the worst finding turns no milder, and a rule that fires keeps firing.
THEOREM WorseIsTold ==
  ASSUME Rules!HostAssumption, Rules!RulesAssumption
  PROVE  Rules!Spec => RulesAreMonotone
<1>1. Rules!Init => HostTypes
  BY HostInit
<1>2. HostTypes /\ [Rules!Next]_(Rules!vars) => HostTypes'
  BY Monotone DEF HostTypes, Rules!vars
<1>3. HostTypes /\ [Rules!Next]_(Rules!vars) =>
        [reading' # reading =>
           Rules!NotMilder /\ Rules!StillFiring]_(Rules!vars)
  <2> SUFFICES ASSUME HostTypes, Rules!Next
               PROVE  Rules!NotMilder /\ Rules!StillFiring
    BY DEF Rules!vars
  <2>1. Worsens(reading, reading')
    BY Monotone
  <2>2. Rules!Worst(reading) <= Rules!Worst(reading')
    BY <2>1, NoMilderFinding
  <2>3. ASSUME NEW rule \in Rules!Lasting, Rules!Fires(rule, reading)
        PROVE  Rules!Fires(rule, reading')
    <3>1. rule.value \in Int
      BY DEF Rules!Lasting, Rules!RulesAssumption
    <3> QED
      BY <2>1, <2>3, <3>1, RuleLasts
  <2> QED
    BY <2>2, <2>3 DEF Rules!NotMilder, Rules!StillFiring
<1> QED
  BY <1>1, <1>2, <1>3, PTL
  DEF Rules!Spec, RulesAreMonotone, Rules!RulesAreMonotone
=============================================================================
