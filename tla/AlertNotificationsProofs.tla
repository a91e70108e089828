---------------------- MODULE AlertNotificationsProofs ----------------------
(***************************************************************************)
(* Proofs about AlertNotifications: for every set of findings, routes and  *)
(* bounds, however scans, users, failed calls and crashes interleave, a    *)
(* finding has one unresolved alert at most, what a user silences is       *)
(* delivered once more at most, and the cooldown only holds back what has  *)
(* arrived.                                                                *)
(***************************************************************************)
EXTENDS AlertNotifications, FiniteSetTheorems, TLAPS

Silenced(i) == Open(i) /\ (alerts[i].acked \/ alerts[i].until > clock)

\* The finding is on its way to the route's webhook, and its lookup said that
\* it may go.
OnItsWay(f) == at = "sending" /\ f \in batch \ blind

\* Two unresolved rows of a finding are the same row.
OpenRowIsUnique ==
  \A i, j \in DOMAIN alerts :
    (Open(i) /\ Open(j) /\ alerts[i].fp = alerts[j].fp) => i = j

\* A silenced finding that is on its way has not been delivered since: its
\* lookup found it audible, so the user silenced it later, and that request
\* started the count anew.
SilenceIsCounted ==
  \A i \in DOMAIN alerts :
    Silenced(i) => leaked[alerts[i].fp]
                     <= IF OnItsWay(alerts[i].fp) THEN 0 ELSE 1

\* Scans carry their stamps in order, and none lies ahead of the clock.
StampsAreOrdered ==
  /\ stamp <= clock
  /\ \A x \in Keys \X Findings :
       told[x] <= (IF at = "idle" THEN clock ELSE stamp)

\* What recordSent is about to record has arrived.
SentHasArrived ==
  at = "sent" =>
    \A x \in Keys \X Findings :
      (x[1] = Head(routes).key /\ x[2] \in batch) => told[x] = stamp

IInv ==
  /\ TypeOK
  /\ OpenRowIsUnique
  /\ SilenceIsCounted
  /\ StampsAreOrdered
  /\ SentHasArrived
  /\ CooldownNeverSwallows

-----------------------------------------------------------------------------
(* The rows.                                                               *)

\* How many alerts a sync has yet to open is a number.
LEMMA UnopenedCount ==
  ASSUME TypeOK
  PROVE  Cardinality(Unopened) \in Nat
<1>1. Unopened \in SUBSET Findings
  BY DEF Unopened, Active, TypeOK
<1>2. IsFiniteSet(Unopened)
  BY <1>1, AlertAssumption, FS_Subset
<1> QED
  BY <1>2, FS_CardinalityType

\* What a user's request, whichever, does to a row: it stays unresolved and
\* keeps its finding.
LEMMA UserEdits ==
  ASSUME TypeOK, NEW i \in DOMAIN alerts,
         \/ Acknowledge(i) \/ Unacknowledge(i)
         \/ Snooze(i, clock + SnoozeFor) \/ Unsnooze(i)
  PROVE  \E row \in Rows :
           Edit(i, row) /\ row.fp = alerts[i].fp /\ Open(i) /\ ~row.resolved
<1>0. alerts[i] \in Rows
  BY DEF TypeOK
<1>1. clock + SnoozeFor \in 0..MaxTime + SnoozeFor /\ 0 \in 0..MaxTime + SnoozeFor
  BY AlertAssumption DEF TypeOK
<1>2. CASE Acknowledge(i)
  <2> DEFINE row == [alerts[i] EXCEPT !.acked = TRUE, !.until = 0]
  <2>1. row \in Rows /\ row.fp = alerts[i].fp /\ row.resolved = alerts[i].resolved
    BY <1>0, <1>1 DEF Rows
  <2> QED
    BY <1>2, <2>1 DEF Acknowledge, Open
<1>3. CASE Unacknowledge(i)
  <2> DEFINE row == [alerts[i] EXCEPT !.acked = FALSE]
  <2>1. row \in Rows /\ row.fp = alerts[i].fp /\ row.resolved = alerts[i].resolved
    BY <1>0 DEF Rows
  <2> QED
    BY <1>3, <2>1 DEF Unacknowledge, Open
<1>4. CASE Snooze(i, clock + SnoozeFor)
  <2> DEFINE row == [alerts[i] EXCEPT !.until = clock + SnoozeFor, !.acked = FALSE]
  <2>1. row \in Rows /\ row.fp = alerts[i].fp /\ row.resolved = alerts[i].resolved
    BY <1>0, <1>1 DEF Rows
  <2> QED
    BY <1>4, <2>1 DEF Snooze, Open
<1>5. CASE Unsnooze(i)
  <2> DEFINE row == [alerts[i] EXCEPT !.until = 0]
  <2>1. row \in Rows /\ row.fp = alerts[i].fp /\ row.resolved = alerts[i].resolved
    BY <1>0, <1>1 DEF Rows
  <2> QED
    BY <1>5, <2>1 DEF Unsnooze, Open
<1> QED
  BY <1>2, <1>3, <1>4, <1>5

\* The identifiers that a sync gives out are new.
LEMMA SyncInserts ==
  ASSUME TypeOK, SyncWrite
  PROVE  /\ lastRow' \in Nat
         /\ NewIds \subseteq 1..lastRow' /\ DOMAIN alerts \subseteq 1..lastRow'
         /\ DOMAIN alerts \cap NewIds = {}
         /\ \E new \in [NewIds -> Unopened] :
              /\ \A i, j \in NewIds : new[i] = new[j] => i = j
              /\ alerts' = SyncedRows(new)
<1>1. PICK new \in Bijection(NewIds, Unopened) : alerts' = SyncedRows(new)
  BY DEF SyncWrite
<1>2. /\ new \in [NewIds -> Unopened]
      /\ \A i, j \in NewIds : new[i] = new[j] => i = j
  BY DEF Bijection, Injection, IsInjective
<1>3. Cardinality(Unopened) \in Nat /\ lastRow \in Nat
  BY UnopenedCount DEF TypeOK
<1>4. DOMAIN alerts \subseteq 1..lastRow
  BY DEF TypeOK
<1> HIDE DEF Unopened
<1>5. /\ lastRow' = lastRow + Cardinality(Unopened)
      /\ NewIds = (lastRow + 1)..(lastRow + Cardinality(Unopened))
  BY DEF SyncWrite, NewIds
<1>6. /\ lastRow' \in Nat
      /\ NewIds \subseteq 1..lastRow' /\ DOMAIN alerts \subseteq 1..lastRow'
      /\ DOMAIN alerts \cap NewIds = {}
  BY <1>3, <1>4, <1>5
<1> QED
  BY <1>1, <1>2, <1>6

\* The rows after a sync are rows, and those that are unresolved are either
\* new or were kept.
LEMMA SyncRows ==
  ASSUME TypeOK, NEW new \in [NewIds -> Unopened], alerts' = SyncedRows(new)
  PROVE  /\ DOMAIN alerts' = DOMAIN alerts \cup NewIds
         /\ \A i \in NewIds :
              /\ alerts'[i] \in Rows /\ alerts'[i].fp = new[i]
              /\ ~alerts'[i].acked /\ alerts'[i].until = 0
              /\ new[i] \in Unopened
         /\ \A i \in DOMAIN alerts \ NewIds :
              /\ alerts'[i] \in Rows /\ alerts'[i].fp = alerts[i].fp
              /\ alerts'[i].acked = alerts[i].acked
              /\ alerts'[i].until = alerts[i].until
              /\ ~alerts'[i].resolved => Open(i) /\ ~Resolves(i)
<1>1. DOMAIN alerts' = DOMAIN alerts \cup NewIds
  BY DEF SyncedRows
<1>2. ASSUME NEW i \in NewIds
      PROVE  /\ alerts'[i] \in Rows /\ alerts'[i].fp = new[i]
             /\ ~alerts'[i].acked /\ alerts'[i].until = 0
             /\ new[i] \in Unopened
  <2>1. alerts'[i] = NewRow(new[i]) /\ new[i] \in Unopened
    BY <1>1 DEF SyncedRows
  <2>2. new[i] \in Findings \ Synthetic
    BY <2>1 DEF Unopened, Active, TypeOK
  <2>3. 0 \in 0..MaxTime + SnoozeFor
    BY AlertAssumption
  <2> QED
    BY <2>1, <2>2, <2>3 DEF NewRow, Rows
<1>3. ASSUME NEW i \in DOMAIN alerts \ NewIds
      PROVE  /\ alerts'[i] \in Rows /\ alerts'[i].fp = alerts[i].fp
             /\ alerts'[i].acked = alerts[i].acked
             /\ alerts'[i].until = alerts[i].until
             /\ ~alerts'[i].resolved => Open(i) /\ ~Resolves(i)
  <2>1. alerts[i] \in Rows
    BY DEF TypeOK
  <2>2. Resolves(i) \in BOOLEAN
    BY DEF Resolves
  <2>3. alerts'[i] = [alerts[i] EXCEPT !.resolved = @ \/ Resolves(i)]
    BY <1>1 DEF SyncedRows
  <2> HIDE DEF Resolves
  <2>4. alerts'[i].resolved = (alerts[i].resolved \/ Resolves(i))
    BY <2>1, <2>3 DEF Rows
  <2>5. /\ alerts'[i] \in Rows /\ alerts'[i].fp = alerts[i].fp
        /\ alerts'[i].acked = alerts[i].acked
        /\ alerts'[i].until = alerts[i].until
    BY <2>1, <2>2, <2>3 DEF Rows
  <2> QED
    BY <2>4, <2>5 DEF Open
<1> QED
  BY <1>1, <1>2, <1>3

\* The rows after a delivery was recorded differ in "notified" only.
LEMMA RecordedRows ==
  ASSUME TypeOK, NEW failed \in SUBSET Findings, RecordSent(failed)
  PROVE  /\ DOMAIN alerts' = DOMAIN alerts
         /\ \A i \in DOMAIN alerts :
              /\ alerts'[i] \in Rows /\ alerts'[i].fp = alerts[i].fp
              /\ alerts'[i].acked = alerts[i].acked
              /\ alerts'[i].until = alerts[i].until
              /\ alerts'[i].resolved = alerts[i].resolved
<1>1. alerts' = [i \in DOMAIN alerts |->
                   IF Open(i) /\ alerts[i].fp \in batch
                     THEN [alerts[i] EXCEPT !.notified = TRUE]
                     ELSE alerts[i]]
  BY DEF RecordSent
<1>2. ASSUME NEW i \in DOMAIN alerts
      PROVE  /\ alerts'[i] \in Rows /\ alerts'[i].fp = alerts[i].fp
             /\ alerts'[i].acked = alerts[i].acked
             /\ alerts'[i].until = alerts[i].until
             /\ alerts'[i].resolved = alerts[i].resolved
  <2>1. alerts[i] \in Rows
    BY DEF TypeOK
  <2>2. \/ alerts'[i] = alerts[i]
        \/ alerts'[i] = [alerts[i] EXCEPT !.notified = TRUE]
    BY <1>1
  <2> QED
    BY <2>1, <2>2 DEF Rows
<1> QED
  BY <1>1, <1>2

\* What every other step does to the rows: nothing, or it drops resolved ones.
\* (Prune's n is read before it and may be any number.)
LEMMA KeptRows ==
  ASSUME TypeOK, \/ UNCHANGED alerts
                 \/ \E n \in 0..lastRow : Prune(n)
  PROVE  /\ DOMAIN alerts' \subseteq DOMAIN alerts
         /\ \A i \in DOMAIN alerts' : alerts'[i] = alerts[i]
<1>1. CASE UNCHANGED alerts
  BY <1>1
<1>2. CASE \E n \in 0..lastRow : Prune(n)
  BY <1>2 DEF Prune, Restrict
<1> QED
  BY <1>1, <1>2

\* A step is a user's edit, a sync, the record of a delivery, or one that at
\* most drops resolved rows.
LEMMA RowSteps ==
  ASSUME [Next]_vars
  PROVE  \/ \E i \in DOMAIN alerts :
              \/ Acknowledge(i) \/ Unacknowledge(i)
              \/ Snooze(i, clock + SnoozeFor) \/ Unsnooze(i)
         \/ SyncWrite
         \/ \E failed \in SUBSET Findings : RecordSent(failed)
         \/ UNCHANGED alerts \/ \E n \in 0..lastRow : Prune(n)
<1>1. CASE World
  BY <1>1 DEF World, Tick, Appear, Vanish, table
<1>2. CASE Crash
  BY <1>2 DEF Crash, table
<1>3. CASE User
  BY <1>3 DEF User, UpdateAlerting, table
<1>4. CASE ScanStep
  BY <1>4 DEF ScanStep, Scan, SyncFail, Dispatch, Mute, Route, Deliver,
              DeliverFail, table
<1>5. CASE UNCHANGED vars
  BY <1>5 DEF vars, table
<1> QED
  BY <1>1, <1>2, <1>3, <1>4, <1>5 DEF Next

-----------------------------------------------------------------------------
(* Types.                                                                  *)

\* Every step leaves the alerts table a table: rows of the known kind under
\* ids that were given out.
LEMMA TableTypes ==
  ASSUME TypeOK, [Next]_vars
  PROVE  /\ lastRow' \in Nat
         /\ DOMAIN alerts' \subseteq 1..lastRow'
         /\ alerts' \in [DOMAIN alerts' -> Rows]
<1>1. lastRow \in Nat /\ DOMAIN alerts \subseteq 1..lastRow
      /\ alerts \in [DOMAIN alerts -> Rows]
  BY DEF TypeOK
<1>2. ASSUME NEW i \in DOMAIN alerts,
             \/ Acknowledge(i) \/ Unacknowledge(i)
             \/ Snooze(i, clock + SnoozeFor) \/ Unsnooze(i)
      PROVE  lastRow' = lastRow /\ alerts' \in [DOMAIN alerts -> Rows]
  <2>1. PICK row \in Rows : Edit(i, row)
    BY <1>2, UserEdits
  <2>2. lastRow' = lastRow /\ alerts' = [alerts EXCEPT ![i] = row]
    BY <2>1 DEF Edit
  <2> QED
    BY <1>1, <2>2
<1>3. CASE SyncWrite
  <2>1. PICK new \in [NewIds -> Unopened] : alerts' = SyncedRows(new)
    BY <1>3, SyncInserts
  <2>2. /\ DOMAIN alerts' = DOMAIN alerts \cup NewIds
        /\ \A i \in DOMAIN alerts' : alerts'[i] \in Rows
    BY <2>1, SyncRows
  <2>3. alerts' = [i \in DOMAIN alerts' |-> alerts'[i]]
    BY <2>1 DEF SyncedRows
  <2> QED
    BY <1>3, <2>2, <2>3, SyncInserts
<1>4. ASSUME NEW failed \in SUBSET Findings, RecordSent(failed)
      PROVE  lastRow' = lastRow /\ alerts' \in [DOMAIN alerts -> Rows]
  <2>1. lastRow' = lastRow /\ alerts' = [i \in DOMAIN alerts |-> alerts'[i]]
    BY <1>4 DEF RecordSent
  <2> QED
    BY <1>4, <2>1, RecordedRows
<1>5. ASSUME NEW n \in 0..lastRow, Prune(n)
      PROVE  /\ lastRow' = lastRow /\ DOMAIN alerts' \subseteq DOMAIN alerts
             /\ alerts' \in [DOMAIN alerts' -> Rows]
  BY <1>1, <1>5 DEF Prune, Restrict
<1>6. lastRow' = lastRow \/ SyncWrite
  BY <1>2, <1>4, <1>5 DEF Next, vars, table, World, Tick, Appear, Vanish,
     Crash, User, UpdateAlerting, ScanStep, Scan, SyncFail, Dispatch, Mute,
     Route, Deliver, DeliverFail
<1> QED
  BY <1>1, <1>2, <1>3, <1>4, <1>5, <1>6, RowSteps

\* Arrives keeps the types of what it writes.
LEMMA ArrivalTypes ==
  ASSUME TypeOK, Arrives
  PROVE  /\ told' \in [Keys \X Findings -> 0..MaxTime]
         /\ leaked' \in [Findings -> 0..2]
<1>1. told' \in [Keys \X Findings -> 0..MaxTime]
  BY DEF Arrives, TypeOK
<1>2. ASSUME NEW f \in Findings
      PROVE  leaked'[f] \in 0..2
  <2>1. leaked[f] \in 0..2
    BY DEF TypeOK
  <2>2. \/ leaked'[f] = leaked[f]
        \/ leaked[f] < 2 /\ leaked'[f] = leaked[f] + 1
    BY DEF Arrives
  <2> QED
    BY <2>1, <2>2
<1>3. leaked' = [f \in Findings |-> leaked'[f]]
  BY DEF Arrives
<1> QED
  BY <1>1, <1>2, <1>3

\* The other variables.
ScalarTypes ==
  /\ clock \in 1..MaxTime
  /\ present \subseteq Findings
  /\ appeared \in 0..MaxAppear
  /\ alerting \in Alerting
  /\ at \in {"idle", "syncing", "synced", "routing", "sending",
             "sent"}
  /\ stamp \in 0..MaxTime
  /\ found \subseteq Findings
  /\ batch \subseteq Findings /\ blind \subseteq batch
  /\ lastSent \in [Keys \X Findings -> 0..MaxTime]
  /\ told \in [Keys \X Findings -> 0..MaxTime]
  /\ leaked \in [Findings -> 0..2]
  /\ faults \in 0..MaxFaults

\* The variables beside the table keep their types.
LEMMA OtherTypes ==
  ASSUME TypeOK, [Next]_vars
  PROVE  ScalarTypes'
<1> USE AlertAssumption
<1>0. ScalarTypes
  BY DEF TypeOK, ScalarTypes
<1>f. ASSUME Fail
      PROVE  faults' \in 0..MaxFaults
  BY <1>0, <1>f DEF Fail, ScalarTypes
<1>1. CASE Tick
  BY <1>0, <1>1 DEF ScalarTypes, Tick, scanVars, history
<1>2. ASSUME NEW f \in Findings, Appear(f) \/ Vanish(f)
      PROVE  ScalarTypes'
  BY <1>0, <1>2 DEF ScalarTypes, Appear, Vanish, scanVars, history
<1>3. ASSUME NEW i \in DOMAIN alerts,
             \/ Acknowledge(i) \/ Unacknowledge(i)
             \/ Snooze(i, clock + SnoozeFor) \/ Unsnooze(i)
      PROVE  ScalarTypes'
  <2>1. PICK row \in Rows : Edit(i, row)
    BY <1>3, UserEdits
  <2>2. leaked' = [leaked EXCEPT ![row.fp] = 0] /\ 0 \in 0..2
    BY <2>1 DEF Edit
  <2>3. leaked' \in [Findings -> 0..2]
    BY <1>0, <2>2 DEF ScalarTypes
  <2>4. UNCHANGED <<clock, present, appeared, alerting, at, stamp, found,
                    batch, blind, lastSent, told, faults>>
    BY <2>1 DEF Edit
  <2> QED
    BY <1>0, <2>3, <2>4 DEF ScalarTypes
<1>4. ASSUME NEW s \in Alerting, UpdateAlerting(s)
      PROVE  ScalarTypes'
  BY <1>0, <1>4 DEF ScalarTypes, UpdateAlerting, scanVars, history
<1>5. CASE Scan
  BY <1>0, <1>5 DEF ScalarTypes, Scan, history
<1>6. CASE SyncWrite
  BY <1>0, <1>6 DEF ScalarTypes, SyncWrite
<1>7. CASE SyncFail
  BY <1>0, <1>7, <1>f DEF ScalarTypes, SyncFail, history
<1>8. CASE Dispatch \/ Mute
  BY <1>0, <1>8 DEF ScalarTypes, Dispatch, Mute, history
<1>9. ASSUME NEW unsure \in SUBSET Findings, Route(unsure)
      PROVE  ScalarTypes'
  <2>1. faults' \in 0..MaxFaults
    BY <1>0, <1>9, <1>f DEF Route, ScalarTypes
  <2> DEFINE toSend == {f \in Matched : Passes(f, unsure)}
  <2>2. toSend \subseteq Findings
    BY <1>0 DEF Matched, ScalarTypes
  <2> HIDE DEF toSend
  <2>3. \/ UNCHANGED <<at, batch, blind>>
        \/ at' = "sending" /\ batch' = toSend /\ blind' = unsure \cap toSend
    BY <1>9 DEF Route, toSend
  <2>4. batch' \subseteq Findings /\ blind' \subseteq batch'
        /\ at' \in {"idle", "syncing", "synced", "routing", "sending", "sent"}
    BY <1>0, <2>2, <2>3 DEF ScalarTypes
  <2> QED
    BY <1>0, <1>9, <2>1, <2>4 DEF Route, ScalarTypes, history
<1>10. CASE Deliver
  BY <1>0, <1>10, ArrivalTypes DEF ScalarTypes, Deliver
<1>11. ASSUME NEW lost \in BOOLEAN, DeliverFail(lost)
       PROVE  ScalarTypes'
  <2>1. /\ told' \in [Keys \X Findings -> 0..MaxTime]
        /\ leaked' \in [Findings -> 0..2]
    BY <1>0, <1>11, ArrivalTypes DEF DeliverFail, history, ScalarTypes
  <2> QED
    BY <1>0, <1>11, <1>f, <2>1 DEF ScalarTypes, DeliverFail
<1>12. ASSUME NEW failed \in SUBSET Findings, RecordSent(failed)
       PROVE  ScalarTypes'
  BY <1>0, <1>12, <1>f DEF ScalarTypes, RecordSent
<1>13. ASSUME NEW n \in 0..lastRow, Prune(n)
       PROVE  ScalarTypes'
  BY <1>0, <1>13 DEF ScalarTypes, Prune, history
<1>14. CASE Crash
  BY <1>0, <1>14, <1>f DEF ScalarTypes, Crash
<1>15. CASE UNCHANGED vars
  BY <1>0, <1>15 DEF ScalarTypes, vars, scanVars, history
<1> QED
  BY <1>1, <1>2, <1>3, <1>4, <1>5, <1>6, <1>7, <1>8, <1>9, <1>10, <1>11,
     <1>12, <1>13, <1>14, <1>15 DEF Next, World, User, ScanStep

\* So does the mark of a write between a sync's read and its transaction.
LEMMA ConflictType ==
  ASSUME TypeOK, [Next]_vars
  PROVE  conflict' \in BOOLEAN
<1>0. conflict \in BOOLEAN
  BY DEF TypeOK
<1>1. ASSUME NEW i \in DOMAIN alerts,
             \/ Acknowledge(i) \/ Unacknowledge(i)
             \/ Snooze(i, clock + SnoozeFor) \/ Unsnooze(i)
      PROVE  conflict' \in BOOLEAN
  BY <1>1, Zenon DEF Acknowledge, Unacknowledge, Snooze, Unsnooze, Edit
<1>2. CASE World \/ UNCHANGED vars
  BY <1>0, <1>2, Zenon DEF World, Tick, Appear, Vanish, scanVars, vars
<1>3. CASE User
  BY <1>0, <1>1, <1>3, Zenon DEF User, UpdateAlerting, scanVars
<1>4. CASE ScanStep
  BY <1>0, <1>4, Zenon DEF ScanStep, Scan, SyncWrite, SyncFail, Dispatch,
     Mute, Route, Deliver, DeliverFail, RecordSent, Prune
<1>5. CASE Crash
  BY <1>5, Zenon DEF Crash
<1> QED
  BY <1>2, <1>3, <1>4, <1>5, Zenon DEF Next

\* Every step keeps the types.
LEMMA TypeStep ==
  ASSUME TypeOK, [Next]_vars
  PROVE  TypeOK'
BY TableTypes, OtherTypes, ConflictType, Zenon DEF TypeOK, ScalarTypes

-----------------------------------------------------------------------------
(* One unresolved row per finding.                                         *)

\* A sync that finds one unresolved row per finding leaves one: it inserts
\* rows for different findings, and only for those that have none.
LEMMA UniqueStep ==
  ASSUME TypeOK, OpenRowIsUnique, [Next]_vars
  PROVE  OpenRowIsUnique'
<1>1. ASSUME NEW i \in DOMAIN alerts,
             \/ Acknowledge(i) \/ Unacknowledge(i)
             \/ Snooze(i, clock + SnoozeFor) \/ Unsnooze(i)
      PROVE  OpenRowIsUnique'
  <2>1. PICK row \in Rows : /\ Edit(i, row) /\ row.fp = alerts[i].fp
                            /\ Open(i) /\ ~row.resolved
    BY <1>1, UserEdits
  <2>2. alerts' = [alerts EXCEPT ![i] = row]
    BY <2>1 DEF Edit
  <2>3. /\ DOMAIN alerts' = DOMAIN alerts
        /\ \A j \in DOMAIN alerts :
             alerts'[j].fp = alerts[j].fp /\ (Open(j)' => Open(j))
    BY <2>1, <2>2 DEF TypeOK, Open
  <2> QED
    BY <2>3 DEF OpenRowIsUnique
<1>2. CASE SyncWrite
  <2>1. PICK new \in [NewIds -> Unopened] :
          /\ \A i, j \in NewIds : new[i] = new[j] => i = j
          /\ alerts' = SyncedRows(new)
    BY <1>2, SyncInserts
  <2>2. /\ DOMAIN alerts' = DOMAIN alerts \cup NewIds
        /\ \A i \in NewIds : alerts'[i].fp = new[i] /\ new[i] \in Unopened
        /\ \A i \in DOMAIN alerts \ NewIds :
             /\ alerts'[i].fp = alerts[i].fp
             /\ ~alerts'[i].resolved => Open(i)
    BY <2>1, SyncRows
  <2>3. ASSUME NEW i \in NewIds, NEW j \in DOMAIN alerts \ NewIds, Open(j)
        PROVE  alerts'[i].fp # alerts'[j].fp
    <3>1. OpenRows(alerts'[i].fp) = {}
      BY <2>2 DEF Unopened
    <3> QED
      BY <2>2, <2>3, <3>1 DEF OpenRows
  <2>4. SUFFICES ASSUME NEW i \in DOMAIN alerts', NEW j \in DOMAIN alerts',
                        ~alerts'[i].resolved, ~alerts'[j].resolved,
                        alerts'[i].fp = alerts'[j].fp
                 PROVE  i = j
    BY DEF OpenRowIsUnique, Open
  <2>5. CASE i \in NewIds /\ j \in NewIds
    BY <2>1, <2>2, <2>4, <2>5
  <2>6. CASE i \notin NewIds /\ j \notin NewIds
    BY <2>2, <2>4, <2>6 DEF OpenRowIsUnique
  <2>7. CASE i \in NewIds /\ j \notin NewIds
    BY <2>2, <2>3, <2>4, <2>7
  <2>8. CASE i \notin NewIds /\ j \in NewIds
    BY <2>2, <2>3, <2>4, <2>8
  <2> QED
    BY <2>5, <2>6, <2>7, <2>8
<1>3. ASSUME NEW failed \in SUBSET Findings, RecordSent(failed)
      PROVE  OpenRowIsUnique'
  <2>1. /\ DOMAIN alerts' = DOMAIN alerts
        /\ \A i \in DOMAIN alerts :
             /\ alerts'[i].fp = alerts[i].fp
             /\ alerts'[i].resolved = alerts[i].resolved
    BY <1>3, RecordedRows
  <2> QED
    BY <2>1 DEF OpenRowIsUnique, Open
<1>4. CASE UNCHANGED alerts \/ \E n \in 0..lastRow : Prune(n)
  <2>1. /\ DOMAIN alerts' \subseteq DOMAIN alerts
        /\ \A i \in DOMAIN alerts' : alerts'[i] = alerts[i]
    BY <1>4, KeptRows
  <2> QED
    BY <2>1 DEF OpenRowIsUnique, Open
<1> QED
  BY <1>1, <1>2, <1>3, <1>4, RowSteps

\* If two unresolved rows of a finding are the same row, there is one at most.
LEMMA UniqueMeansOne ==
  ASSUME OpenRowIsUnique
  PROVE  OneOpenRow
<1>1. SUFFICES ASSUME NEW f \in Findings
               PROVE  Cardinality(OpenRows(f)) <= 1
  BY DEF OneOpenRow
<1>2. CASE OpenRows(f) = {}
  BY <1>2, FS_EmptySet
<1>3. CASE OpenRows(f) # {}
  <2>1. PICK i : i \in OpenRows(f)
    BY <1>3
  <2>2. \A j \in OpenRows(f) : j = i
    BY <2>1 DEF OpenRows, OpenRowIsUnique
  <2>3. OpenRows(f) = {i}
    BY <2>1, <2>2
  <2>4. Cardinality({i}) = 1
    BY FS_Singleton, Zenon
  <2> QED
    BY <2>3, <2>4
<1> QED
  BY <1>2, <1>3

-----------------------------------------------------------------------------
(* What the cooldown holds back.                                           *)

\* Time only moves forward, so a scan's stamp is at least the one of every
\* earlier delivery, and each delivery carries the stamp of its scan.
LEMMA CooldownStep ==
  ASSUME TypeOK, StampsAreOrdered, SentHasArrived, CooldownNeverSwallows,
         [Next]_vars
  PROVE  StampsAreOrdered' /\ SentHasArrived' /\ CooldownNeverSwallows'
<1> DEFINE X == Keys \X Findings
<1>0. /\ clock \in Nat /\ stamp \in Nat /\ stamp <= clock
      /\ told \in [X -> Nat] /\ lastSent \in [X -> Nat]
      /\ at # "idle" => \A x \in X : told[x] <= stamp
      /\ \A x \in X : told[x] <= clock
      /\ \A x \in X : lastSent[x] <= told[x]
  BY DEF TypeOK, StampsAreOrdered, CooldownNeverSwallows
<1>1. SUFFICES /\ stamp' <= clock'
               /\ \A x \in X : told'[x] <= (IF at' = "idle" THEN clock' ELSE stamp')
               /\ at' = "sent" =>
                    \A x \in X : (x[1] = Head(routes)'.key /\ x[2] \in batch')
                                   => told'[x] = stamp'
               /\ \A x \in X : lastSent'[x] <= told'[x]
  BY DEF StampsAreOrdered, SentHasArrived, CooldownNeverSwallows
\* The steps of others leave the scan and its records alone.
<1>2. CASE /\ UNCHANGED <<at, stamp, routes, batch, told, lastSent>>
           /\ clock' \in Nat /\ clock <= clock'
  BY <1>0, <1>2 DEF SentHasArrived
\* So do the scan's own steps that neither deliver nor record.
<1>3. CASE /\ UNCHANGED <<clock, stamp, told, lastSent>>
           /\ at # "idle" /\ at' # "idle" /\ at' # "sent"
  BY <1>0, <1>3
<1>4. CASE Scan
  BY <1>0, <1>4 DEF Scan, history
<1>5. ASSUME Arrives
      PROVE  /\ told' \in [X -> Nat]
             /\ \A x \in X : told'[x] = stamp \/ told'[x] = told[x]
             /\ \A x \in X : (x[1] = Head(routes).key /\ x[2] \in batch)
                               => told'[x] = stamp
  <2>1. told' = [x \in X |->
                   IF x[1] = Head(routes).key /\ x[2] \in batch
                     THEN stamp ELSE told[x]]
    BY <1>5 DEF Arrives
  <2> QED
    BY <1>0, <2>1
<1>6. CASE Deliver
  <2>1. /\ UNCHANGED <<clock, stamp, routes, batch, lastSent>>
        /\ at = "sending" /\ at' = "sent" /\ Arrives
    BY <1>6 DEF Deliver
  <2> QED
    BY <1>0, <1>5, <2>1
<1>7. ASSUME NEW lost \in BOOLEAN, DeliverFail(lost)
      PROVE  /\ stamp' <= clock'
             /\ \A x \in X :
                  told'[x] <= (IF at' = "idle" THEN clock' ELSE stamp')
             /\ at' # "sent"
             /\ \A x \in X : lastSent'[x] <= told'[x]
  <2>1. /\ UNCHANGED <<clock, stamp, lastSent>>
        /\ at = "sending" /\ at' = "routing"
        /\ Arrives \/ UNCHANGED told
    BY <1>7 DEF DeliverFail, history
  <2> QED
    BY <1>0, <1>5, <2>1
<1>8. ASSUME NEW failed \in SUBSET Findings, RecordSent(failed)
      PROVE  /\ stamp' <= clock'
             /\ \A x \in X :
                  told'[x] <= (IF at' = "idle" THEN clock' ELSE stamp')
             /\ at' # "sent"
             /\ \A x \in X : lastSent'[x] <= told'[x]
  <2>1. /\ UNCHANGED <<clock, stamp, told>>
        /\ at = "sent" /\ at' = "routing"
        /\ lastSent' = [x \in X |->
             IF x[1] = Head(routes).key /\ x[2] \in batch \ failed
               THEN stamp ELSE lastSent[x]]
    BY <1>8 DEF RecordSent
  <2> QED
    BY <1>0, <2>1 DEF SentHasArrived
<1>9. ASSUME (\E n \in 0..lastRow : Prune(n)) \/ Crash
      PROVE  /\ UNCHANGED <<clock, told, lastSent>>
             /\ stamp' = 0 /\ at' = "idle"
  BY <1>9 DEF Prune, Crash, history
<1>10. CASE World \/ User \/ UNCHANGED vars
  <2>1. ASSUME NEW i \in DOMAIN alerts,
               \/ Acknowledge(i) \/ Unacknowledge(i)
               \/ Snooze(i, clock + SnoozeFor) \/ Unsnooze(i)
        PROVE  UNCHANGED <<at, stamp, routes, batch, told, lastSent, clock>>
    BY <2>1, UserEdits DEF Edit
  <2>2. ASSUME NEW s \in Alerting, UpdateAlerting(s)
        PROVE  UNCHANGED <<at, stamp, routes, batch, told, lastSent, clock>>
    BY <2>2 DEF UpdateAlerting, scanVars, history
  <2>3. CASE World
    BY <1>0, <1>2, <2>3 DEF World, Tick, Appear, Vanish, scanVars, history
  <2>4. CASE UNCHANGED vars
    BY <1>0, <1>2, <2>4 DEF vars, scanVars, history
  <2> QED
    BY <1>0, <1>2, <1>10, <2>1, <2>2, <2>3, <2>4 DEF User
<1>11. CASE SyncWrite \/ SyncFail \/ Dispatch \/ Mute
  BY <1>3, <1>11 DEF SyncWrite, SyncFail, Dispatch, Mute, history
<1>12. ASSUME NEW unsure \in SUBSET Findings, Route(unsure)
       PROVE  /\ UNCHANGED <<clock, stamp, told, lastSent>>
              /\ at # "idle" /\ at' # "idle" /\ at' # "sent"
  BY <1>12 DEF Route, history
<1>13. CASE (\E n \in 0..lastRow : Prune(n)) \/ Crash
  BY <1>0, <1>9, <1>13
<1>14. CASE ScanStep
  BY <1>3, <1>4, <1>6, <1>7, <1>8, <1>11, <1>12, <1>13, <1>14 DEF ScanStep
<1> QED
  BY <1>10, <1>13, <1>14 DEF Next

-----------------------------------------------------------------------------
(* What the users silence.                                                 *)

\* A lookup at the scan's stamp finds what is silenced now: the stamp is not
\* ahead of the clock, and no other row is looked up.
LEMMA SilencedIsSuppressed ==
  ASSUME TypeOK, OpenRowIsUnique, StampsAreOrdered,
         NEW i \in DOMAIN alerts, Silenced(i)
  PROVE  IsAlertSuppressed(alerts[i].fp, stamp)
<1>1. i \in OpenRows(alerts[i].fp)
  BY DEF OpenRows, Silenced
<1>2. \A j \in OpenRows(alerts[i].fp) : j = i
  BY <1>1 DEF OpenRows, OpenRowIsUnique
<1>3. i \in Nat
  BY DEF TypeOK
<1>4. alerts[i].acked \/ alerts[i].until > stamp
  <2>1. /\ alerts[i].until \in Nat /\ clock \in Nat /\ stamp \in Nat
        /\ stamp <= clock
    BY AlertAssumption DEF TypeOK, Rows, StampsAreOrdered
  <2> QED
    BY <2>1 DEF Silenced
<1> QED
  BY <1>1, <1>2, <1>3, <1>4 DEF IsAlertSuppressed

\* What SilenceIsCounted says of one row.
Bound(f) == IF OnItsWay(f) THEN 0 ELSE 1

\* A delivery after the user silenced a finding uses up the one that is
\* allowed; no step allows another one.
LEMMA SilenceStep ==
  ASSUME TypeOK, OpenRowIsUnique, StampsAreOrdered, SilenceIsCounted,
         [Next]_vars
  PROVE  SilenceIsCounted'
<1>0. /\ \A i \in DOMAIN alerts : alerts[i].fp \in Findings
      /\ leaked \in [Findings -> 0..2]
      /\ \A i \in DOMAIN alerts :
           Silenced(i) => leaked[alerts[i].fp] <= Bound(alerts[i].fp)
  BY DEF TypeOK, Rows, SilenceIsCounted, Bound
<1>1. SUFFICES ASSUME NEW i \in DOMAIN alerts', NEW f, f = alerts'[i].fp,
                      Silenced(i)'
               PROVE  leaked'[f] <= Bound(f)'
  BY DEF SilenceIsCounted, Bound, Silenced, Open, OnItsWay
<1>2. Bound(f)' \in {0, 1}
  BY DEF Bound
\* A user's request starts the count of its finding anew and leaves the others.
<1>3. ASSUME NEW k \in DOMAIN alerts,
             \/ Acknowledge(k) \/ Unacknowledge(k)
             \/ Snooze(k, clock + SnoozeFor) \/ Unsnooze(k)
      PROVE  leaked'[f] <= Bound(f)'
  <2>1. PICK row \in Rows : /\ Edit(k, row) /\ row.fp = alerts[k].fp
                            /\ Open(k) /\ ~row.resolved
    BY <1>3, UserEdits
  <2>2. /\ alerts' = [alerts EXCEPT ![k] = row]
        /\ leaked' = [leaked EXCEPT ![row.fp] = 0]
        /\ UNCHANGED <<at, batch, blind, clock>>
    BY <2>1 DEF Edit
  <2>3. i \in DOMAIN alerts /\ alerts[i].fp = f
    BY <1>1, <2>1, <2>2
  <2>4. CASE f = row.fp
    BY <1>0, <1>2, <2>2, <2>3, <2>4
  <2>5. CASE f # row.fp
    <3>1. i # k /\ alerts'[i] = alerts[i]
      BY <2>1, <2>2, <2>3, <2>5
    <3>2. Silenced(i)
      BY <1>1, <2>2, <2>3, <3>1 DEF Silenced, Open
    <3>3. leaked'[f] = leaked[f]
      BY <1>0, <2>2, <2>3, <2>5
    <3>4. Bound(f)' = Bound(f)
      BY <2>2, <2>3 DEF Bound, OnItsWay
    <3> QED
      BY <1>0, <2>3, <3>2, <3>3, <3>4
  <2> QED
    BY <2>4, <2>5
\* In the other steps the row was there, silenced, with the same finding.
<1>4. ASSUME i \in DOMAIN alerts, alerts[i].fp = f,
             ~alerts[i].resolved, alerts'[i].acked = alerts[i].acked,
             alerts'[i].until = alerts[i].until,
             clock' \in Nat, clock <= clock'
      PROVE  Silenced(i) /\ f \in Findings
  <2>1. alerts[i].until \in Nat /\ clock \in Nat
    BY <1>4, AlertAssumption DEF TypeOK, Rows
  <2> QED
    BY <1>0, <1>1, <1>4, <2>1 DEF Silenced, Open
<1>5. CASE SyncWrite
  <2>1. PICK new \in [NewIds -> Unopened] : alerts' = SyncedRows(new)
    BY <1>5, SyncInserts
  <2>2. i \notin NewIds
    <3>1. clock' \in Nat
      BY <1>5 DEF SyncWrite, TypeOK
    <3> QED
      BY <1>1, <2>1, <3>1, SyncRows DEF Silenced
  <2>3. /\ i \in DOMAIN alerts /\ alerts[i].fp = f
        /\ alerts'[i].acked = alerts[i].acked
        /\ alerts'[i].until = alerts[i].until /\ Open(i)
    BY <1>1, <2>1, <2>2, SyncRows DEF Silenced, Open
  <2>4. clock' = clock /\ clock \in Nat
    BY <1>5 DEF SyncWrite, TypeOK
  <2>5. Silenced(i) /\ f \in Findings
    BY <1>4, <2>3, <2>4 DEF Open
  <2>6. leaked'[f] = leaked[f]
    <3>1. OpenRows(f) # {}
      BY <2>3 DEF OpenRows
    <3> QED
      BY <1>5, <2>5, <3>1 DEF SyncWrite
  <2>7. ~OnItsWay(f) /\ ~OnItsWay(f)'
    BY <1>5 DEF SyncWrite, OnItsWay
  <2> QED
    BY <1>0, <2>3, <2>5, <2>6, <2>7 DEF Bound
<1>6. ASSUME NEW failed \in SUBSET Findings, RecordSent(failed)
      PROVE  leaked'[f] <= Bound(f)'
  <2>1. /\ i \in DOMAIN alerts /\ alerts[i].fp = f
        /\ alerts'[i].acked = alerts[i].acked
        /\ alerts'[i].until = alerts[i].until
        /\ alerts'[i].resolved = alerts[i].resolved
    BY <1>1, <1>6, RecordedRows
  <2>2. clock' = clock /\ clock \in Nat /\ leaked' = leaked
    BY <1>6 DEF RecordSent, TypeOK
  <2>3. Silenced(i) /\ f \in Findings
    BY <1>1, <1>4, <2>1, <2>2 DEF Silenced, Open
  <2>4. ~OnItsWay(f) /\ ~OnItsWay(f)'
    BY <1>6 DEF RecordSent, OnItsWay
  <2> QED
    BY <1>0, <2>1, <2>2, <2>3, <2>4 DEF Bound
<1>7. CASE UNCHANGED alerts \/ \E n \in 0..lastRow : Prune(n)
  <2>1. i \in DOMAIN alerts /\ alerts'[i] = alerts[i] /\ alerts[i].fp = f
    BY <1>1, <1>7, KeptRows
  <2>2. ASSUME clock' \in Nat, clock <= clock'
        PROVE  Silenced(i) /\ f \in Findings /\ leaked[f] <= Bound(f)
    BY <1>0, <1>1, <1>4, <2>1, <2>2 DEF Silenced, Open
  <2>0. clock \in Nat
    BY DEF TypeOK
  <2>3. CASE \E unsure \in SUBSET Findings : Route(unsure)
    <3>1. PICK unsure \in SUBSET Findings : Route(unsure)
      BY <2>3
    <3>2. clock' = clock /\ leaked' = leaked /\ at = "routing"
      BY <3>1 DEF Route, history
    <3>3. leaked'[f] <= 1
      BY <2>0, <2>2, <3>2 DEF Bound, OnItsWay
    <3>4. ~OnItsWay(f)'
      <4>1. IsAlertSuppressed(f, stamp)
        BY <2>0, <2>1, <2>2, <3>2, SilencedIsSuppressed
      <4> DEFINE toSend == {g \in Matched : Passes(g, unsure)}
      <4>2. f \in toSend => f \in unsure
        BY <4>1 DEF Passes
      <4> HIDE DEF toSend
      <4>3. \/ at' = at
            \/ batch' = toSend /\ blind' = unsure \cap toSend
        BY <3>1 DEF Route, toSend
      <4> QED
        BY <2>1, <3>2, <4>2, <4>3 DEF OnItsWay
    <3> QED
      BY <2>1, <3>3, <3>4 DEF Bound
  <2>4. ASSUME Arrives, at = "sending", at' # "sending", clock' = clock
        PROVE  leaked'[f] <= Bound(f)'
    <3>1. f \in Findings /\ leaked[f] <= Bound(f) /\ leaked[f] \in 0..2
      BY <1>0, <2>0, <2>2, <2>4
    <3>2. \/ leaked'[f] = leaked[f]
          \/ f \in batch \ blind /\ leaked'[f] = leaked[f] + 1
      BY <2>4, <3>1 DEF Arrives
    <3>3. Bound(f)' = 1 /\ (f \in batch \ blind => Bound(f) = 0)
          /\ Bound(f) \in {0, 1}
      BY <2>4 DEF Bound, OnItsWay
    <3> QED
      BY <3>1, <3>2, <3>3
  <2>5. CASE Deliver
    BY <2>1, <2>4, <2>5 DEF Deliver
  <2>6. ASSUME clock' \in Nat, clock <= clock', leaked' = leaked,
               OnItsWay(f)' => OnItsWay(f)
        PROVE  leaked'[f] <= Bound(f)'
    <3>1. leaked[f] \in Nat /\ leaked[f] <= Bound(f)
      BY <1>0, <2>2, <2>6
    <3> QED
      BY <2>6, <3>1 DEF Bound
  <2>7. ASSUME NEW lost \in BOOLEAN, DeliverFail(lost)
        PROVE  leaked'[f] <= Bound(f)'
    <3>1. /\ at = "sending" /\ at' = "routing" /\ clock' = clock
          /\ Arrives \/ leaked' = leaked
      BY <2>7 DEF DeliverFail, history
    <3> QED
      BY <2>0, <2>4, <2>6, <3>1 DEF OnItsWay
  <2>8. CASE World \/ UNCHANGED vars \/ \E s \in Alerting : UpdateAlerting(s)
    <3>1. /\ clock' \in Nat /\ clock <= clock'
          /\ UNCHANGED <<leaked, at, batch, blind>>
      BY <2>0, <2>8 DEF World, Tick, Appear, Vanish, UpdateAlerting, vars,
                        scanVars, history
    <3> QED
      BY <2>1, <2>6, <3>1 DEF OnItsWay
  <2>9. CASE \/ Scan \/ SyncFail \/ Dispatch \/ Mute \/ Crash
             \/ \E n \in 0..lastRow : Prune(n)
    <3>1. clock' = clock /\ leaked' = leaked /\ at' # "sending"
      BY <2>9 DEF Scan, SyncFail, Dispatch, Mute, Crash, Prune, history
    <3> QED
      BY <2>0, <2>1, <2>6, <3>1 DEF OnItsWay
  <2> QED
    BY <1>3, <1>5, <1>6, <2>1, <2>3, <2>5, <2>7, <2>8, <2>9
       DEF Next, ScanStep, User
<1> QED
  BY <1>3, <1>5, <1>6, <1>7, RowSteps

-----------------------------------------------------------------------------
(* The theorem.                                                            *)

\* With no alerts and nothing sent there is nothing to show.
LEMMA InitIInv ==
  Init => IInv
<1> SUFFICES ASSUME Init
             PROVE  IInv
  OBVIOUS
<1> USE AlertAssumption
<1>1. DOMAIN alerts = {} /\ alerts = <<>>
  BY DEF Init
<1>2. TypeOK
  <2>1. alerts \in [DOMAIN alerts -> Rows]
    BY <1>1
  <2>2. ScalarTypes
    BY DEF Init, ScalarTypes, Never
  <2>3. lastRow \in Nat /\ DOMAIN alerts \subseteq 1..lastRow
        /\ conflict \in BOOLEAN
    BY <1>1 DEF Init
  <2> QED
    BY <2>1, <2>2, <2>3, Zenon DEF TypeOK, ScalarTypes
<1>3. OpenRowIsUnique /\ SilenceIsCounted
  BY <1>1 DEF OpenRowIsUnique, SilenceIsCounted
<1>4. StampsAreOrdered /\ SentHasArrived /\ CooldownNeverSwallows
  BY DEF Init, StampsAreOrdered, SentHasArrived, CooldownNeverSwallows, Never
<1> QED
  BY <1>2, <1>3, <1>4 DEF IInv

\* The inductive invariant: the types, one unresolved row per finding, at most
\* one delivery after a user's request, ordered timestamps, no sending time
\* without a delivery, and what the cooldown may not swallow.
THEOREM Invariant ==
  Spec => []IInv
<1>1. IInv /\ [Next]_vars => IInv'
  BY TypeStep, UniqueStep, CooldownStep, SilenceStep, Zenon DEF IInv
<1> QED
  BY InitIInv, <1>1, PTL DEF Spec

\* However scans, users, failed calls and crashes interleave, nobody is told
\* too much or too little: one unresolved alert per finding, at most one
\* delivery after the user silenced it, and no sending time on record that no
\* delivery reached (SyncAlertStates, applyCooldown, recordSent).
THEOREM AlertsStaySound ==
  Spec => []AlertsAreSound
<1>1. ASSUME IInv
      PROVE  AlertsAreSound
  <2>1. TypeOK /\ OneOpenRow /\ CooldownNeverSwallows
    BY <1>1, UniqueMeansOne DEF IInv
  <2>2. AckSilences
    <3>1. SUFFICES ASSUME NEW i \in DOMAIN alerts, Silenced(i)
                   PROVE  leaked[alerts[i].fp] <= 1
      BY DEF AckSilences, Silenced
    <3>2. leaked[alerts[i].fp] \in Nat
      BY <1>1 DEF IInv, TypeOK, Rows
    <3> QED
      BY <1>1, <3>1, <3>2 DEF IInv, SilenceIsCounted
  <2> QED
    BY <2>1, <2>2 DEF AlertsAreSound
<1> QED
  BY Invariant, <1>1, PTL
=============================================================================
