------------------------- MODULE AlertNotifications -------------------------
(***************************************************************************)
(* Alerts and the notifications sent about them: what a scan does after it *)
(* has published its snapshot (internal/scheduler/scheduler.go: RunOnce,   *)
(* SyncAlertStates, dispatchNotifications, applyCooldown, recordSent), the *)
(* rows it keeps (internal/storage/db.go: SyncAlertStates,                 *)
(* IsAlertSuppressed, CanSendNotification, ...) and the users who          *)
(* acknowledge and snooze the same rows (internal/api/api_extended.go).    *)
(*                                                                         *)
(* A finding stands for its fingerprint.  A row's identifier is given out  *)
(* once and never again (AUTOINCREMENT).  A scan stamps its snapshot       *)
(* before it collects, and everything after it uses that stamp as the      *)
(* current time.                                                           *)
(***************************************************************************)
EXTENDS Integers, Sequences, FiniteSets, Functions

CONSTANTS
  Findings,        \* fingerprints the analyzer, or a rule, can produce
  Synthetic,       \* those only evaluateRule makes: no alert row of theirs
  Alerting,        \* alerting settings: sequences of [key, matches] routes
  Cooldown,        \* DefaultCooldownSec
  SnoozeFor,       \* bound: how far ahead users snooze
  MaxTime,         \* bound: the clock
  MaxAppear,       \* bound: times a finding appears
  MaxFaults        \* bound: failed calls and crashes

ASSUME AlertAssumption ==
  /\ IsFiniteSet(Findings) /\ Synthetic \subseteq Findings
  /\ Cooldown \in Nat \ {0} /\ SnoozeFor \in Nat \ {0}
  /\ MaxTime \in Nat \ {0} /\ MaxAppear \in Nat /\ MaxFaults \in Nat
  /\ \A s \in Alerting :
       \A i \in DOMAIN s : s[i].matches \subseteq Findings

Keys == UNION {{s[i].key : i \in DOMAIN s} : s \in Alerting}
Never == 0

VARIABLES
  clock,
  present,      \* what a scan would find now
  appeared,     \* how often something appeared
  alerting,     \* s.alerting and the webhooks: the enabled routes, in order
  at,           \* where the scan is
  stamp,        \* snap.Timestamp
  found,        \* the scan's findings
  conflict,     \* someone wrote the store since SyncAlertStates read it
  routes,       \* the routes the running dispatch has still to serve
  batch,        \* toSend: chosen for the first of them, not yet delivered
  blind,        \* those of them whose suppression lookup failed
  alerts,       \* the rows of the table, by identifier
  lastRow,      \* the last identifier given out
  lastSent,     \* notification_state: per route and finding
  \* what happened, for the properties:
  told,         \* stamp of the last scan whose delivery arrived
  leaked,       \* deliveries since a user silenced the finding's alert
  faults

scanVars == <<at, stamp, found, conflict, routes, batch, blind>>
history == <<told, leaked>>
table == <<alerts, lastRow>>
vars == <<clock, present, appeared, alerting, scanVars, table, lastSent,
          history, faults>>

Rows == [fp : Findings \ Synthetic, resolved : BOOLEAN, acked : BOOLEAN,
         notified : BOOLEAN, until : 0..MaxTime + SnoozeFor]

TypeOK ==
  /\ clock \in 1..MaxTime
  /\ present \subseteq Findings
  /\ appeared \in 0..MaxAppear
  /\ alerting \in Alerting
  /\ at \in {"idle", "syncing", "synced", "routing", "sending",
             "sent"}
  /\ stamp \in 0..MaxTime
  /\ found \subseteq Findings
  /\ conflict \in BOOLEAN
  /\ batch \subseteq Findings /\ blind \subseteq batch
  /\ lastRow \in Nat
  /\ DOMAIN alerts \subseteq 1..lastRow
  /\ alerts \in [DOMAIN alerts -> Rows]
  /\ lastSent \in [Keys \X Findings -> 0..MaxTime]
  /\ told \in [Keys \X Findings -> 0..MaxTime]
  /\ leaked \in [Findings -> 0..2]
  /\ faults \in 0..MaxFaults

Init ==
  /\ clock = 1
  /\ present = {}
  /\ appeared = 0
  /\ alerting \in Alerting
  /\ at = "idle"
  /\ stamp = 0
  /\ found = {}
  /\ conflict = FALSE
  /\ routes = <<>>
  /\ batch = {}
  /\ blind = {}
  /\ alerts = <<>>
  /\ lastRow = 0
  /\ lastSent = [x \in Keys \X Findings |-> Never]
  /\ told = [x \in Keys \X Findings |-> Never]
  /\ leaked = [f \in Findings |-> 0]
  /\ faults = 0

Fail == faults < MaxFaults /\ faults' = faults + 1

-----------------------------------------------------------------------------
(* The monitored system.                                                   *)

Tick ==
  /\ clock < MaxTime
  /\ clock' = clock + 1
  /\ UNCHANGED <<present, appeared, alerting, scanVars, table, lastSent,
                 history, faults>>

Appear(f) ==
  /\ f \notin present
  /\ appeared < MaxAppear
  /\ present' = present \cup {f}
  /\ appeared' = appeared + 1
  /\ UNCHANGED <<clock, alerting, scanVars, table, lastSent, history,
                 faults>>

Vanish(f) ==
  /\ f \in present
  /\ present' = present \ {f}
  /\ UNCHANGED <<clock, appeared, alerting, scanVars, table, lastSent,
                 history, faults>>

-----------------------------------------------------------------------------
(* The rows.                                                               *)

Open(i) == i \in DOMAIN alerts /\ ~alerts[i].resolved
OpenRows(fp) == {i \in DOMAIN alerts : Open(i) /\ alerts[i].fp = fp}

\* IsAlertSuppressed(fp, now): the newest unresolved row decides.
IsAlertSuppressed(fp, now) ==
  \E i \in OpenRows(fp) :
    /\ \A j \in OpenRows(fp) : j <= i
    /\ alerts[i].until > now \/ alerts[i].acked

\* Mutant: the cooldown is the finding's, whatever the route.
CanSendAnywhere(f, key, now) ==
  \A k \in Keys : \/ lastSent[<<k, f>>] = Never
                  \/ now - lastSent[<<k, f>>] >= Cooldown

\* CanSendNotification.
CanSendNotification(f, key, now) ==
  \/ lastSent[<<key, f>>] = Never
  \/ now - lastSent[<<key, f>>] >= Cooldown

\* A user's request: an UPDATE of a row that is not resolved, and its event,
\* in a transaction that waits its turn.
Edit(i, row) ==
  /\ alerts' = [alerts EXCEPT ![i] = row]
  /\ leaked' = [leaked EXCEPT ![row.fp] = 0]
  /\ conflict' = (at = "syncing")
  /\ UNCHANGED <<clock, present, appeared, alerting, at, stamp, found,
                 routes, batch, blind, lastRow, lastSent, told, faults>>

Acknowledge(i) ==
  /\ Open(i)
  /\ ~alerts[i].acked
  /\ Edit(i, [alerts[i] EXCEPT !.acked = TRUE, !.until = 0])

Unacknowledge(i) ==
  /\ Open(i)
  /\ alerts[i].acked
  /\ Edit(i, [alerts[i] EXCEPT !.acked = FALSE])

\* handleSnoozeAlert refuses a time that is not in the future.
Snooze(i, until) ==
  /\ Open(i)
  /\ until > clock
  /\ alerts[i].until # until
  /\ Edit(i, [alerts[i] EXCEPT !.until = until, !.acked = FALSE])

Unsnooze(i) ==
  /\ Open(i)
  /\ alerts[i].until # 0
  /\ Edit(i, [alerts[i] EXCEPT !.until = 0])

\* UpdateAlerting and UpdateNotifier: a dispatch that runs keeps its copy.
UpdateAlerting(s) ==
  /\ s # alerting
  /\ alerting' = s
  /\ UNCHANGED <<clock, present, appeared, scanVars, table, lastSent,
                 history, faults>>

-----------------------------------------------------------------------------
(* A scan.                                                                 *)

\* Collect stamps the snapshot; once it is saved and published,
\* SyncAlertStates begins a deferred transaction: its SELECT fixes what it
\* sees, and its first UPDATE or INSERT takes the write lock.
Scan ==
  /\ at = "idle"
  /\ at' = "syncing"
  /\ stamp' = clock
  /\ found' = present
  /\ conflict' = FALSE
  /\ UNCHANGED <<clock, present, appeared, alerting, routes, batch, blind,
                 table, lastSent, history, faults>>

Active == found \ Synthetic

\* Mutant: only duplicates are resolved.
ResolvesDuplicates(i) ==
  Open(i) /\ \E j \in OpenRows(alerts[i].fp) : j < i

\* The rows after the sync: duplicates of an open row, and open rows whose
\* finding has gone, are resolved; a finding without an open row gets one.
Resolves(i) ==
  /\ Open(i)
  /\ \/ alerts[i].fp \notin Active
     \/ \E j \in OpenRows(alerts[i].fp) : j < i
Unopened == {f \in Active : OpenRows(f) = {}}
NewRow(f) == [fp |-> f, resolved |-> FALSE,
              acked |-> FALSE, until |-> 0, notified |-> FALSE]
\* The loop over "active", a map, inserts them in any order.
NewIds == (lastRow + 1)..(lastRow + Cardinality(Unopened))
SyncedRows(new) ==
  [i \in DOMAIN alerts \cup NewIds |->
     IF i \in NewIds
       THEN NewRow(new[i])
       ELSE [alerts[i] EXCEPT !.resolved = @ \/ Resolves(i)]]

SyncWrite ==
  /\ at = "syncing"
  /\ ~conflict
  /\ at' = "synced"
  /\ conflict' = FALSE
  /\ \E new \in Bijection(NewIds, Unopened) : alerts' = SyncedRows(new)
  /\ lastRow' = lastRow + Cardinality(Unopened)
  /\ leaked' = [f \in Findings |->
                  IF OpenRows(f) = {} THEN 0 ELSE leaked[f]]
  /\ UNCHANGED <<clock, present, appeared, alerting, stamp, found, routes,
                 batch, blind, lastSent, told, faults>>

\* The transaction is rolled back: the snapshot it read is stale (SQLite
\* answers BUSY at once), or the store fails.  Only a warning is logged.
SyncFail ==
  /\ at = "syncing"
  /\ at' = "synced"
  /\ conflict' = FALSE
  /\ IF conflict THEN UNCHANGED faults ELSE Fail
  /\ UNCHANGED <<clock, present, appeared, alerting, stamp, found, routes,
                 batch, blind, table, lastSent, history>>

\* dispatchNotifications copies the settings.  Quiet hours and maintenance
\* windows, and a scheduler without webhooks, end it at once.
Dispatch ==
  /\ at = "synced"
  /\ at' = "routing"
  /\ routes' = alerting
  /\ UNCHANGED <<clock, present, appeared, alerting, stamp, found, conflict,
                 batch, blind, table, lastSent, history, faults>>

Mute ==
  /\ at = "synced"
  /\ at' = "routing"
  /\ UNCHANGED <<clock, present, appeared, alerting, stamp, found, conflict,
                 routes, batch, blind, table, lastSent, history, faults>>

\* applyCooldown for the next route: a lookup that fails lets the finding
\* through.
Matched == found \cap Head(routes).matches
Passes(f, unsure) ==
  /\ f \in unsure \/ ~IsAlertSuppressed(f, stamp)
  /\ f \in unsure \/ CanSendNotification(f, Head(routes).key, stamp)

Route(unsure) ==
  /\ at = "routing"
  /\ routes # <<>>
  /\ unsure \subseteq Matched
  /\ IF unsure = {} THEN UNCHANGED faults ELSE Fail
  /\ LET toSend == {f \in Matched : Passes(f, unsure)} IN
     IF toSend = {}
       THEN /\ routes' = Tail(routes)
            /\ UNCHANGED <<at, batch, blind>>
       ELSE /\ at' = "sending"
            /\ batch' = toSend
            /\ blind' = unsure \cap toSend
            /\ UNCHANGED routes
  /\ UNCHANGED <<clock, present, appeared, alerting, stamp, found, conflict,
                 table, lastSent, history>>

\* NotifyWebhook: the receiver has the findings.
Arrives ==
  /\ told' = [x \in Keys \X Findings |->
                IF x[1] = Head(routes).key /\ x[2] \in batch
                  THEN stamp ELSE told[x]]
  /\ leaked' = [f \in Findings |->
                  IF /\ f \in batch \ blind /\ leaked[f] < 2
                     /\ IsAlertSuppressed(f, clock)
                    THEN leaked[f] + 1 ELSE leaked[f]]

Deliver ==
  /\ at = "sending"
  /\ at' = "sent"
  /\ Arrives
  /\ UNCHANGED <<clock, present, appeared, alerting, stamp, found, conflict,
                 routes, batch, blind, table, lastSent, faults>>

\* Mutant: the sending time is saved although the webhook failed.
DeliverFailSaved(lost) ==
  /\ at = "sending"
  /\ Fail
  /\ at' = "routing"
  /\ routes' = Tail(routes)
  /\ batch' = {} /\ blind' = {}
  /\ IF lost THEN Arrives ELSE UNCHANGED history
  /\ lastSent' = [x \in Keys \X Findings |->
                    IF x[1] = Head(routes).key /\ x[2] \in batch
                      THEN stamp ELSE lastSent[x]]
  /\ UNCHANGED <<clock, present, appeared, alerting, stamp, found, conflict,
                 table>>

\* It returns an error: nothing arrived, or only the answer was lost.
DeliverFail(lost) ==
  /\ at = "sending"
  /\ Fail
  /\ at' = "routing"
  /\ routes' = Tail(routes)
  /\ batch' = {} /\ blind' = {}
  /\ IF lost THEN Arrives ELSE UNCHANGED history
  /\ UNCHANGED <<clock, present, appeared, alerting, stamp, found, conflict,
                 table, lastSent>>

\* recordSent: a save that fails is logged, the others go on.
RecordSent(failed) ==
  /\ at = "sent"
  /\ failed \subseteq batch
  /\ IF failed = {} THEN UNCHANGED faults ELSE Fail
  /\ at' = "routing"
  /\ routes' = Tail(routes)
  /\ batch' = {} /\ blind' = {}
  /\ lastSent' = [x \in Keys \X Findings |->
                    IF x[1] = Head(routes).key /\ x[2] \in batch \ failed
                      THEN stamp ELSE lastSent[x]]
  /\ alerts' = [i \in DOMAIN alerts |->
                  IF Open(i) /\ alerts[i].fp \in batch
                    THEN [alerts[i] EXCEPT !.notified = TRUE]
                    ELSE alerts[i]]
  /\ UNCHANGED <<clock, present, appeared, alerting, stamp, found, conflict,
                 lastRow, told, leaked>>

\* pruneData drops the resolved rows created before the cutoff, when n was
\* the last identifier given out; the scan is over.
Prune(n) ==
  /\ at = "routing"
  /\ routes = <<>>
  /\ at' = "idle"
  /\ alerts' = Restrict(alerts, {i \in DOMAIN alerts : i > n \/ Open(i)})
  /\ stamp' = 0 /\ found' = {} /\ conflict' = FALSE
  /\ UNCHANGED <<clock, present, appeared, alerting, routes, batch, blind,
                 lastRow, lastSent, history, faults>>

\* The process dies and starts again; its settings are read from the store.
Crash ==
  /\ at # "idle"
  /\ Fail
  /\ at' = "idle"
  /\ stamp' = 0 /\ found' = {} /\ routes' = <<>> /\ conflict' = FALSE
  /\ batch' = {} /\ blind' = {}
  /\ UNCHANGED <<clock, present, appeared, alerting, table, lastSent, told,
                 leaked>>

User ==
  \/ \E i \in DOMAIN alerts :
       \/ Acknowledge(i)
       \/ Unacknowledge(i)
       \/ Snooze(i, clock + SnoozeFor)
       \/ Unsnooze(i)
  \/ \E s \in Alerting : UpdateAlerting(s)

World ==
  \/ Tick
  \/ \E f \in Findings : Appear(f) \/ Vanish(f)

ScanStep ==
  \/ Scan
  \/ SyncWrite
  \/ SyncFail
  \/ Dispatch
  \/ Mute
  \/ \E unsure \in SUBSET Findings : Route(unsure)
  \/ Deliver
  \/ \E lost \in BOOLEAN : DeliverFail(lost)
  \/ \E failed \in SUBSET Findings : RecordSent(failed)
  \/ \E n \in 0..lastRow : Prune(n)

Next == ScanStep \/ User \/ World \/ Crash

Spec == Init /\ [][Next]_vars

\* The scheduler goes on scanning.  No user hits the moment between the two
\* halves of the sync every time, quiet hours end, and the failures are
\* bounded: each of these steps happens if it keeps getting its chance.
FairSpec ==
  Spec /\ WF_vars(ScanStep) /\ SF_vars(SyncWrite) /\ SF_vars(Dispatch)

-----------------------------------------------------------------------------
(* Properties.                                                             *)

\* However scans, users, failures and crashes interleave, a fingerprint has
\* at most one unresolved alert: what the users silence is what the next
\* dispatch looks up (SyncAlertStates, IsAlertSuppressed).
OneOpenRow == \A f \in Findings : Cardinality(OpenRows(f)) <= 1

\* Once a user has acknowledged or snoozed an alert, at most one more
\* delivery of its finding arrives, the one whose lookup was already done
\* (applyCooldown reads, NotifyWebhook sends later), on whatever route, as
\* long as the lookups themselves succeed.
AckSilences ==
  \A i \in DOMAIN alerts :
    (Open(i) /\ (alerts[i].acked \/ alerts[i].until > clock))
      => leaked[alerts[i].fp] <= 1

\* The cooldown only ever holds back what has been delivered: a recorded
\* sending time is that of a delivery that arrived on that very route, so a
\* webhook that fails is tried again by the next scan.
CooldownNeverSwallows ==
  \A x \in Keys \X Findings : lastSent[x] <= told[x]

\* Nobody is told too much or too little: the three above together.
AlertsAreSound == TypeOK /\ OneOpenRow /\ AckSilences /\ CooldownNeverSwallows

\* A finding that is gone for good has its alert resolved in the end, though
\* syncs fail and are interrupted.
AlertFollowsFinding ==
  \A f \in Findings :
    <>[](f \notin present) => <>[](OpenRows(f) = {})

\* A finding that stays and that nobody silences is delivered in the end on
\* each route that the settings, once they stay, send it to.
FindingIsTold ==
  \A f \in Findings, s \in Alerting :
    <>[](f \in present /\ alerting = s
         /\ ~IsAlertSuppressed(f, clock))
      => <>[](\A i \in DOMAIN s :
                f \in s[i].matches => told[<<s[i].key, f>>] # Never)
=============================================================================
