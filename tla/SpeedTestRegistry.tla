------------------------- MODULE SpeedTestRegistry --------------------------
(***************************************************************************)
(* livetest.Manager and the life of the LiveTests it owns                  *)
(* (internal/livetest/registry.go, livetest.go).                           *)
(*                                                                         *)
(* A test is started by whoever calls StartTest while the slot is free and *)
(* is then driven by its own goroutine.  Every critical section and every  *)
(* callback between two critical sections is one action, so StartTest,     *)
(* Cancel and GetLive calls of other goroutines fall between any two steps *)
(* of driveTest's deferred cleanup:                                        *)
(*                                                                         *)
(*   reserved  StartTest took the slot, has not yet fired running=true     *)
(*   running   the driver goroutine is inside RunWithLiveSamples           *)
(*   returned  the runner returned (or panicked), the defer has begun      *)
(*   judged    wasCancelled() has been read                                *)
(*   stamped   stampTerminal: Err() and Result() are readable              *)
(*   notified  the completion handlers have run                            *)
(*   released  m.active = nil, the test sits in the grace slot             *)
(*   done      closeSubscribersAndDone: Done() is closed                   *)
(*   ended     running=false has been fired, the goroutine is over         *)
(*                                                                         *)
(* Test ids come from a strictly increasing generator                      *)
(* (defaultJSSafeIDGen), here 1, 2, 3...                                   *)
(***************************************************************************)
EXTENDS Naturals, Sequences

CONSTANT MaxTests    \* bound: how many tests are started in a behaviour

ASSUME MaxTestsAssumption == MaxTests \in Nat \ {0}

Tests == 1..MaxTests
NoTest == 0

Outcomes == {"success", "failed", "cancelled"}
RunnerOutcomes == {"success", "failed"}
Completions == [test : Tests, outcome : Outcomes]

Phases == {"unborn", "reserved", "running", "returned", "judged", "stamped",
           "notified", "released", "done", "ended"}

\* The phases in which a test holds the registry slot.
Holding == {"reserved", "running", "returned", "judged", "stamped", "notified"}

VARIABLES
  lastId,        \* last id the generator returned
  active,        \* m.active
  graceLT,       \* m.graceLT
  graceLapsed,   \* graceWindow has elapsed since m.graceAt
  phase,         \* where each test's life is
  cancelled,     \* t.cancelled: a Cancel call was accepted
  verdict,       \* driveTest's err/res, as they stand
  terminal,      \* t.err/t.result as stamped; "none" before
  completions,   \* the completion handlers' calls, in order
  inProgress     \* the nasdoctor_speedtest_in_progress gauge

vars == <<lastId, active, graceLT, graceLapsed, phase, cancelled, verdict,
          terminal, completions, inProgress>>

Init ==
  /\ lastId = 0
  /\ active = NoTest
  /\ graceLT = NoTest
  /\ graceLapsed = FALSE
  /\ phase = [t \in Tests |-> "unborn"]
  /\ cancelled = [t \in Tests |-> FALSE]
  /\ verdict = [t \in Tests |-> "none"]
  /\ terminal = [t \in Tests |-> "none"]
  /\ completions = << >>
  /\ inProgress = FALSE

Move(t, from, to) ==
  /\ phase[t] = from
  /\ phase' = [phase EXCEPT ![t] = to]

-----------------------------------------------------------------------------
(* StartTest.                                                              *)

\* The critical section when no test is in flight.  With one in flight
\* StartTest only returns the existing handle and changes nothing.
StartTest ==
  /\ active = NoTest
  /\ lastId < MaxTests
  /\ lastId' = lastId + 1
  /\ active' = lastId'
  /\ phase' = [phase EXCEPT ![lastId'] = "reserved"]
  /\ graceLT' = NoTest
  /\ graceLapsed' = FALSE
  /\ UNCHANGED <<cancelled, verdict, terminal, completions, inProgress>>

\* Outside the lock: running=true is fired, then the goroutine is launched.
LaunchDriver(t) ==
  /\ Move(t, "reserved", "running")
  /\ inProgress' = TRUE
  /\ UNCHANGED <<lastId, active, graceLT, graceLapsed, cancelled, verdict,
                 terminal, completions>>

-----------------------------------------------------------------------------
(* driveTest, one action per step of the deferred cleanup.                 *)

\* The runner returns a result or an error; a panic becomes an error.  A
\* cancelled context makes it return early, with either outcome.
RunnerReturns(t) ==
  /\ Move(t, "running", "returned")
  /\ \E o \in RunnerOutcomes : verdict' = [verdict EXCEPT ![t] = o]
  /\ UNCHANGED <<lastId, active, graceLT, graceLapsed, cancelled, terminal,
                 completions, inProgress>>

\* Mutant: a cancellation only overrides an error.
JudgeErrorsOnly(t) ==
  /\ Move(t, "returned", "judged")
  /\ verdict' = IF cancelled[t] /\ verdict[t] = "failed"
                  THEN [verdict EXCEPT ![t] = "cancelled"] ELSE verdict
  /\ UNCHANGED <<lastId, active, graceLT, graceLapsed, cancelled, terminal,
                 completions, inProgress>>

\* if t.wasCancelled() { err = ErrCancelled; res = nil }
JudgeCancelled(t) ==
  /\ Move(t, "returned", "judged")
  /\ verdict' = IF cancelled[t] THEN [verdict EXCEPT ![t] = "cancelled"]
                                ELSE verdict
  /\ UNCHANGED <<lastId, active, graceLT, graceLapsed, cancelled, terminal,
                 completions, inProgress>>

\* Mutant: the slot is released together with the stamp.
StampReleases(t) ==
  /\ Move(t, "judged", "stamped")
  /\ terminal' = [terminal EXCEPT ![t] = verdict[t]]
  /\ active' = NoTest
  /\ UNCHANGED <<lastId, graceLT, graceLapsed, cancelled, verdict,
                 completions, inProgress>>

StampTerminal(t) ==
  /\ Move(t, "judged", "stamped")
  /\ terminal' = [terminal EXCEPT ![t] = verdict[t]]
  /\ UNCHANGED <<lastId, active, graceLT, graceLapsed, cancelled, verdict,
                 completions, inProgress>>

\* The handlers read Err() and Result().  A panic in one is recovered.
NotifyCompletion(t) ==
  /\ Move(t, "stamped", "notified")
  /\ completions' = Append(completions, [test |-> t, outcome |-> terminal[t]])
  /\ UNCHANGED <<lastId, active, graceLT, graceLapsed, cancelled, verdict,
                 terminal, inProgress>>

ReleaseSlot(t) ==
  /\ Move(t, "notified", "released")
  /\ active' = NoTest
  /\ graceLT' = t
  /\ graceLapsed' = FALSE
  /\ UNCHANGED <<lastId, cancelled, verdict, terminal, completions,
                 inProgress>>

\* Mutant: Done is closed before the handlers run.
CloseFirst(t) ==
  /\ Move(t, "stamped", "done")
  /\ UNCHANGED <<lastId, active, graceLT, graceLapsed, cancelled, verdict,
                 terminal, completions, inProgress>>

CloseDone(t) ==
  /\ Move(t, "released", "done")
  /\ UNCHANGED <<lastId, active, graceLT, graceLapsed, cancelled, verdict,
                 terminal, completions, inProgress>>

\* Mutant: running=false is not fired.
EndSilently(t) ==
  /\ Move(t, "done", "ended")
  /\ UNCHANGED <<lastId, active, graceLT, graceLapsed, cancelled, verdict,
                 terminal, completions, inProgress>>

\* running=false is fired after the slot was cleared, so another test may
\* already have fired its running=true.
NotifyIdle(t) ==
  /\ Move(t, "done", "ended")
  /\ inProgress' = FALSE
  /\ UNCHANGED <<lastId, active, graceLT, graceLapsed, cancelled, verdict,
                 terminal, completions>>

DriverStep(t) ==
  \/ JudgeCancelled(t)
  \/ StampTerminal(t)
  \/ NotifyCompletion(t)
  \/ ReleaseSlot(t)
  \/ CloseDone(t)
  \/ NotifyIdle(t)

-----------------------------------------------------------------------------
(* Cancel, GetLive and the passing of the grace window.                    *)

\* Mutant: a test whose outcome is stamped counts as completed.
CancelAnswerStamped(t) ==
  CASE active = t /\ terminal[t] = "none" -> "accepted"
    [] terminal[t] # "none" /\ (active = t \/ (graceLT = t /\ ~graceLapsed))
         -> "already completed"
    [] OTHER -> "not found"

\* What Cancel(t) answers: nil, ErrAlreadyCompleted or ErrTestNotFound.
CancelAnswer(t) ==
  CASE active = t -> "accepted"
    [] active # t /\ graceLT = t /\ ~graceLapsed -> "already completed"
    [] OTHER -> "not found"

\* markCancelled on the test in flight; the other answers change nothing.
Cancel(t) ==
  /\ CancelAnswer(t) = "accepted"
  /\ cancelled' = [cancelled EXCEPT ![t] = TRUE]
  /\ UNCHANGED <<lastId, active, graceLT, graceLapsed, phase, verdict,
                 terminal, completions, inProgress>>

\* What GetLive(t) finds.
Live(t) == active = t \/ (graceLT = t /\ ~graceLapsed)

\* GetLive for a test whose grace window has lapsed forgets it.
ForgetLapsed(t) ==
  /\ active # t
  /\ graceLT = t
  /\ graceLapsed
  /\ graceLT' = NoTest
  /\ graceLapsed' = FALSE
  /\ UNCHANGED <<lastId, active, phase, cancelled, verdict, terminal,
                 completions, inProgress>>

GraceLapses ==
  /\ graceLT # NoTest
  /\ ~graceLapsed
  /\ graceLapsed' = TRUE
  /\ UNCHANGED <<lastId, active, graceLT, phase, cancelled, verdict, terminal,
                 completions, inProgress>>

-----------------------------------------------------------------------------
Next ==
  \/ StartTest
  \/ GraceLapses
  \/ \E t \in Tests :
       \/ LaunchDriver(t)
       \/ RunnerReturns(t)
       \/ DriverStep(t)
       \/ Cancel(t)
       \/ ForgetLapsed(t)

\* The Go runtime runs every runnable goroutine; a runner returns because
\* each engine bounds itself with a timeout.  Nobody has to call StartTest,
\* Cancel or GetLive.
Fairness ==
  \A t \in Tests : /\ WF_vars(LaunchDriver(t))
                   /\ WF_vars(RunnerReturns(t))
                   /\ WF_vars(DriverStep(t))

Spec == Init /\ [][Next]_vars

FairSpec == Spec /\ Fairness

-----------------------------------------------------------------------------
(* Properties.                                                             *)

TypeOK ==
  /\ lastId \in 0..MaxTests
  /\ active \in 0..MaxTests
  /\ graceLT \in 0..MaxTests
  /\ graceLapsed \in BOOLEAN
  /\ phase \in [Tests -> Phases]
  /\ cancelled \in [Tests -> BOOLEAN]
  /\ verdict \in [Tests -> Outcomes \cup {"none"}]
  /\ terminal \in [Tests -> Outcomes \cup {"none"}]
  /\ completions \in Seq(Completions)
  /\ inProgress \in BOOLEAN

\* At most one test is between StartTest and the release of the slot, so at
\* most one runner saturates the network (the Registry's idempotency
\* guarantee), whatever the interleaving of starts, cancels and cleanups.
SingleFlight ==
  \A t, u \in Tests : phase[t] \in Holding /\ phase[u] \in Holding => t = u

\* Whoever wakes on Done() finds the slot free of that test, the outcome
\* already handed to the completion handlers exactly once, and that outcome
\* equal to what Err()/Result() say ("Done unblocked => persistence already
\* happened", driveTest's ordering).
DoneMeansRecorded ==
  \A t \in Tests : phase[t] \in {"done", "ended"} =>
    /\ active # t
    /\ \E i \in DOMAIN completions :
         /\ completions[i] = [test |-> t, outcome |-> terminal[t]]
         /\ \A j \in DOMAIN completions : completions[j].test = t => j = i

\* The gauge never sticks at 1: it can be 1 only while some goroutine that
\* will fire running=false is still on its way.
GaugeNotStuck ==
  inProgress => \E t \in Tests :
    phase[t] \in (Holding \cup {"released", "done"}) \ {"reserved"}

\* A Cancel that is refused for a test that was started is refused because
\* the outcome is already recorded: 404 and 409 never hide a running test.
RefusedMeansRecorded ==
  \A t \in 1..lastId : CancelAnswer(t) # "accepted" =>
    \E i \in DOMAIN completions : completions[i].test = t

\* A Cancel accepted while the runner is still running always ends the test
\* as cancelled, even if the runner ignores its context and succeeds.
CancelDuringRunSticks ==
  \A t \in Tests :
    (cancelled[t] /\ phase[t] \in {"reserved", "running"})
      ~> (terminal[t] = "cancelled")

\* The registry implements the abstract service.
Service == INSTANCE SpeedTestService WITH
  slot <- active,
  recorded <- [i \in DOMAIN completions |-> completions[i].outcome]

ImplementsService == Service!Spec
=============================================================================
