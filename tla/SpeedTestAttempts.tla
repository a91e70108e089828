------------------------- MODULE SpeedTestAttempts --------------------------
(***************************************************************************)
(* The scheduler's speed-test loop on top of the live-test registry        *)
(* (internal/scheduler/scheduler.go: runSpeedTest, runSpeedTestViaRegistry,*)
(* the completion handler of SetLiveTestRegistry, recordSpeedTestAttempt)  *)
(* and what it leaves for others to read: the speedtest_history rows, the  *)
(* one-row speedtest_attempt table, and the copy of that row on the cached *)
(* snapshot.  The scheduled type=speed check reads the first two           *)
(* (checks.go: runSpeedCheck).                                             *)
(*                                                                         *)
(* The registry is SpeedTestRegistry, step for step; its NotifyCompletion  *)
(* is the last step of the completion handler, whose writes come before.   *)
(* Tests are started by the cron loop and, at any time, by the API.        *)
(***************************************************************************)
EXTENDS Naturals, Sequences, SequencesExt

CONSTANTS
  MaxTests,      \* bound: tests started in a behaviour
  MaxFaults      \* bound: refused writes and process restarts, together

ASSUME AttemptsAssumption == MaxTests \in Nat \ {0} /\ MaxFaults \in Nat

VARIABLES
  lastId, active, graceLT, graceLapsed, phase, cancelled, verdict, terminal,
  completions, inProgress,        \* the registry's
  rows,          \* speedtest_history, oldest first
  attempt,       \* the speedtest_attempt row; at: completions when written
  mirror,        \* s.latest.SpeedTest.LastAttempt
  handler,       \* what the completion handler does next
  cron,          \* the speed-test loop; own: StartTest did not just attach
  enabled,       \* speedTestInterval # SpeedTestIntervalDisabled
  errors, restarts

registry == <<lastId, active, graceLT, graceLapsed, phase, cancelled, verdict,
              terminal, completions, inProgress>>
stored == <<rows, attempt, errors>>
vars == <<registry, stored, mirror, handler, cron, enabled, restarts>>

R == INSTANCE SpeedTestRegistry

Attempts == {"pending", "success", "failed", "cancelled", "disabled"}
Idle == [at |-> "idle", test |-> R!NoTest, own |-> FALSE]

Init ==
  /\ R!Init
  /\ rows = << >>
  /\ attempt = [status |-> "none", at |-> 0]
  /\ mirror = "no snapshot"
  /\ handler = "row"
  /\ cron = Idle
  /\ enabled \in BOOLEAN
  /\ errors = 0
  /\ restarts = 0

MayFail == errors + restarts < MaxFaults

\* A write that the store may refuse; the caller logs and goes on.
Refused == MayFail /\ errors' = errors + 1

\* SaveSpeedTestAttempt
SaveAttempt(s) ==
  \/ /\ attempt' = [status |-> s, at |-> Len(completions)]
     /\ UNCHANGED errors
  \/ Refused /\ UNCHANGED attempt

\* The second half of recordSpeedTestAttempt and recordSpeedTestSuccess.
MirrorAttempt(s) ==
  mirror' = IF mirror = "no snapshot" THEN mirror ELSE s

-----------------------------------------------------------------------------
(* The completion handler, for the test whose outcome was just stamped.    *)

\* A success and a cancellation leave a row, a failure does not.
HandlerSavesRow(t) ==
  /\ phase[t] = "stamped"
  /\ handler = "row"
  /\ handler' = "attempt"
  /\ \/ /\ terminal[t] # "failed"
        /\ rows' = Append(rows, [test |-> t, kind |-> terminal[t]])
        /\ UNCHANGED errors
     \/ terminal[t] # "failed" /\ Refused /\ UNCHANGED rows
     \/ terminal[t] = "failed" /\ UNCHANGED <<rows, errors>>
  /\ UNCHANGED <<registry, attempt, mirror, cron, enabled, restarts>>

\* Mutant: the failed branch returns without recording the attempt.
SkipsFailed(t) ==
  /\ phase[t] = "stamped"
  /\ handler = "attempt"
  /\ handler' = "mirror"
  /\ IF terminal[t] = "failed" THEN UNCHANGED <<attempt, errors>>
                               ELSE SaveAttempt(terminal[t])
  /\ UNCHANGED <<registry, rows, mirror, cron, enabled, restarts>>

HandlerSavesAttempt(t) ==
  /\ phase[t] = "stamped"
  /\ handler = "attempt"
  /\ handler' = "mirror"
  /\ SaveAttempt(terminal[t])
  /\ UNCHANGED <<registry, rows, mirror, cron, enabled, restarts>>

HandlerMirrors(t) ==
  /\ handler = "mirror"
  /\ R!NotifyCompletion(t)
  /\ handler' = "row"
  /\ MirrorAttempt(terminal[t])
  /\ UNCHANGED <<stored, cron, enabled, restarts>>

Handler(t) ==
  HandlerSavesRow(t) \/ HandlerSavesAttempt(t) \/ HandlerMirrors(t)

-----------------------------------------------------------------------------
(* runSpeedTest, called by the cron loop whenever a test is due.           *)

\* Written before the runner is asked for.
CronSavesPending ==
  /\ cron.at = "idle"
  /\ enabled
  /\ lastId < MaxTests
  /\ SaveAttempt("pending")
  /\ cron' = [cron EXCEPT !.at = "pending"]
  /\ UNCHANGED <<registry, rows, mirror, handler, enabled, restarts>>

\* Mutant: the check for an earlier write looks at the cached snapshot.
AsksMirror ==
  /\ cron.at = "idle"
  /\ ~enabled
  /\ mirror # "disabled"
  /\ SaveAttempt("disabled")
  /\ cron' = [cron EXCEPT !.at = "disabled"]
  /\ UNCHANGED <<registry, rows, mirror, handler, enabled, restarts>>

\* The disabled branch writes only when the row does not say so already.
CronSavesDisabled ==
  /\ cron.at = "idle"
  /\ ~enabled
  /\ attempt.status # "disabled"
  /\ SaveAttempt("disabled")
  /\ cron' = [cron EXCEPT !.at = "disabled"]
  /\ UNCHANGED <<registry, rows, mirror, handler, enabled, restarts>>

CronMirrors ==
  /\ cron.at \in {"pending", "disabled"}
  /\ MirrorAttempt(cron.at)
  /\ cron' = IF cron.at = "pending" THEN [cron EXCEPT !.at = "starting"]
                                    ELSE Idle
  /\ UNCHANGED <<registry, stored, handler, enabled, restarts>>

\* StartTest hands out the test in flight or starts one.
CronStarts ==
  /\ cron.at = "starting"
  /\ \/ R!StartTest
     \/ active # R!NoTest /\ UNCHANGED registry
  /\ cron' = [at |-> "waiting", test |-> active', own |-> active = R!NoTest]
  /\ UNCHANGED <<stored, mirror, handler, enabled, restarts>>

\* Mutant: Done is closed when the outcome is stamped.
ReturnsEarly ==
  /\ cron.at = "waiting"
  /\ phase[cron.test] \in {"stamped", "notified", "released", "done", "ended"}
  /\ cron' = Idle
  /\ UNCHANGED <<registry, stored, mirror, handler, enabled, restarts>>

\* <-lt.Done()
CronReturns ==
  /\ cron.at = "waiting"
  /\ phase[cron.test] \in {"done", "ended"}
  /\ cron' = Idle
  /\ UNCHANGED <<registry, stored, mirror, handler, enabled, restarts>>

Cron ==
  CronSavesDisabled \/ CronMirrors \/ CronStarts \/ CronReturns

-----------------------------------------------------------------------------
(* Everyone else.                                                          *)

\* handleSpeedTestRun.  The bound keeps one test for a cron run under way.
ApiStarts ==
  /\ cron.at \in {"pending", "starting"} => lastId + 1 < MaxTests
  /\ R!StartTest
  /\ UNCHANGED <<stored, mirror, handler, cron, enabled, restarts>>

\* The registry's other steps in the life of a test.
DriverStep(t) ==
  /\ \/ R!LaunchDriver(t) \/ R!RunnerReturns(t) \/ R!JudgeCancelled(t)
     \/ R!StampTerminal(t) \/ R!ReleaseSlot(t) \/ R!CloseDone(t)
     \/ R!NotifyIdle(t)
  /\ UNCHANGED <<stored, mirror, handler, cron, enabled, restarts>>

\* handleSpeedtestCancel, as long as driveTest has not read wasCancelled: a
\* later Cancel changes nothing that anyone reads.  The grace window is left
\* open: it decides only what GetLive and Cancel answer for a test that is
\* over.
ApiCancels(t) ==
  /\ phase[t] \in {"reserved", "running", "returned"}
  /\ R!Cancel(t)
  /\ UNCHANGED <<stored, mirror, handler, cron, enabled, restarts>>

\* SetSpeedTestInterval, from a settings save.
ToggleInterval ==
  /\ enabled' = ~enabled
  /\ UNCHANGED <<registry, stored, mirror, handler, cron, restarts>>

\* RunOnce caches a new snapshot, or ensureLatestSnapshot the stored one:
\* neither carries a LastAttempt.
SnapshotCached ==
  /\ mirror' = "absent"
  /\ UNCHANGED <<registry, stored, handler, cron, enabled, restarts>>

\* The process dies and comes back: what is in the store stays.
Restart ==
  /\ MayFail
  /\ restarts' = restarts + 1
  /\ active' = R!NoTest
  /\ graceLT' = R!NoTest
  /\ graceLapsed' = FALSE
  /\ inProgress' = FALSE
  /\ phase' = [t \in R!Tests |-> IF t <= lastId THEN "ended" ELSE "unborn"]
  /\ mirror' = "no snapshot"
  /\ handler' = "row"
  /\ cron' = Idle
  /\ UNCHANGED <<stored, lastId, cancelled, verdict, terminal, completions,
                 enabled>>

Next ==
  \/ \E t \in R!Tests : Handler(t) \/ DriverStep(t) \/ ApiCancels(t)
  \/ CronSavesPending
  \/ Cron
  \/ ApiStarts
  \/ ToggleInterval
  \/ SnapshotCached
  \/ Restart

Spec == Init /\ [][Next]_vars

\* A test is launched, and its driver goroutine goes on, the handler it calls
\* included; a started cron run goes on; the one-minute tick keeps calling
\* runSpeedTest while the interval is disabled (now - lastRun is never below
\* the negative sentinel).
FairSpec ==
  /\ Spec
  /\ WF_vars(Cron)
  /\ \A t \in R!Tests : WF_vars(Handler(t) \/ DriverStep(t))

-----------------------------------------------------------------------------
(* What the type=speed service check answers (runSpeedCheck).              *)

SpeedCheck ==
  CASE attempt.status = "none"     -> "no run yet"
    [] attempt.status = "pending"  -> "up"
    [] attempt.status = "disabled" -> "disabled"
    [] attempt.status = "failed"   -> "failed"
    [] attempt.status = "success"  ->
         IF rows = << >> THEN "no row"
         ELSE IF Last(rows).kind = "cancelled" THEN "zero, possibly corrupt"
         ELSE "measured"
    [] OTHER -> "unknown state"

-----------------------------------------------------------------------------
(* Properties.                                                             *)

TypeOK ==
  /\ R!TypeOK
  /\ rows \in Seq([test : R!Tests, kind : {"success", "cancelled"}])
  /\ attempt \in [status : Attempts \cup {"none"}, at : 0..MaxTests]
  /\ mirror \in Attempts \cup {"no snapshot", "absent"}
  /\ handler \in {"row", "attempt", "mirror"}
  /\ cron \in [at : {"idle", "pending", "disabled", "starting", "waiting"},
               test : 0..MaxTests, own : BOOLEAN]
  /\ enabled \in BOOLEAN
  /\ errors \in 0..MaxFaults
  /\ restarts \in 0..MaxFaults

\* However cron runs, API runs and cancellations meet on one test, the
\* history holds one row per test at most, in start order, of the kind the
\* test ended with, and misses none whose handler finished (unless a write
\* was refused).
HistoryIsFaithful ==
  /\ \A i, j \in DOMAIN rows : i < j => rows[i].test < rows[j].test
  /\ \A i \in DOMAIN rows : rows[i].kind = terminal[rows[i].test]
  /\ errors = 0 =>
       \A i \in DOMAIN completions :
         (completions[i].outcome # "failed")
           <=> \E j \in DOMAIN rows : rows[j].test = completions[i].test

\* The cron loop moves on only after the outcome of the test it waited for
\* is in the store, and if it started that test itself the pending it wrote
\* is gone.
CronMovesOnAfterOutcome ==
  [][(cron.at = "waiting" /\ cron'.at = "idle" /\ restarts' = restarts) =>
       /\ \E i \in DOMAIN completions : completions[i].test = cron.test
       /\ (cron.own /\ errors = 0) => attempt.status # "pending"]_vars

\* A pending can outlive the outcome that was being handled when it was
\* written, but never a second one.
PendingIsReplaced ==
  (errors = 0 /\ attempt.status = "pending") =>
    Len(completions) <= attempt.at + 1

\* A check that reports a measurement reports the newest completed test:
\* no later test has failed, been cancelled or measured something else.
CheckMeasuresNewest ==
  (errors = 0 /\ SpeedCheck = "measured") =>
    \A i \in DOMAIN completions : completions[i].test <= Last(rows).test

\* History, attempt row and speed check tell what the tests' outcomes were:
\* the three above together.
AttemptsAreTrue ==
  TypeOK /\ HistoryIsFaithful /\ PendingIsReplaced /\ CheckMeasuresNewest

\* Once the tests are disabled for good the stored state says so for good,
\* even if a test that was in flight overwrote it.
DisabledSettles ==
  (<>[](~enabled /\ errors = 0)) => <>[](attempt.status = "disabled")
=============================================================================
