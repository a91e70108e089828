---------------------- MODULE SpeedTestAttemptsProofs -----------------------
(***************************************************************************)
(* Proofs about SpeedTestAttempts, for any number of tests, refused writes *)
(* and restarts: what the store says of the tests is true, and the cron    *)
(* loop waits for it.                                                      *)
(*                                                                         *)
(* A restart ends a test without an outcome, so what ties the registry to  *)
(* the stored rows is weaker than in SpeedTestRegistryProofs: the test in  *)
(* the slot is the newest one, and until the step of the handler that      *)
(* tells of it, everything stored is about older tests.                    *)
(***************************************************************************)
EXTENDS SpeedTestAttempts, TLAPS

Tests == R!Tests
NoTest == R!NoTest

\* The phases in which a test has no outcome yet, and in which its outcome
\* has been handed on.
Before == {"reserved", "running", "returned", "judged"}
Told == {"notified", "released", "done"}

Completed(t) == \E i \in DOMAIN completions : completions[i].test = t

\* Ids follow each other; the slot holds the newest test while its phase says
\* so.
SlotAgrees ==
  /\ \A t \in Tests : phase[t] = "unborn" <=> t > lastId
  /\ \A t \in Tests : phase[t] \in R!Holding <=> active = t
  /\ active # NoTest => active = lastId

\* A test has an outcome from the runner's return on.
HasOutcome ==
  \A t \in Tests :
    /\ phase[t] \in {"returned", "judged"} => verdict[t] \in R!Outcomes
    /\ phase[t] \in {"stamped"} \cup Told => terminal[t] \in R!Outcomes

\* The completions are those of tests that have got that far.
CompletionsAgree ==
  /\ \A i \in DOMAIN completions :
       /\ completions[i].test <= lastId
       /\ completions[i].outcome = terminal[completions[i].test]
  /\ Len(completions) <= lastId
  /\ (active # NoTest /\ phase[active] # "notified") =>
       /\ Len(completions) < lastId
       /\ \A i \in DOMAIN completions : completions[i].test < lastId
  /\ \A t \in Tests : phase[t] \in Told => Completed(t)

\* The handler is at work only for the test in the slot.
HandlerAgrees ==
  handler # "row" => active # NoTest /\ phase[active] = "stamped"

\* The handler has not come to the row of the test in the slot.
RowDue ==
  /\ active # NoTest
  /\ \/ phase[active] \in Before
     \/ phase[active] = "stamped" /\ handler = "row"

\* The rows are those of tests whose handler has got that far.
RowsAgree ==
  /\ \A i, j \in DOMAIN rows : i < j => rows[i].test < rows[j].test
  /\ \A i \in DOMAIN rows : /\ rows[i].test <= lastId
                            /\ rows[i].kind = terminal[rows[i].test]
                            /\ RowDue => rows[i].test < lastId
  /\ errors = 0 =>
       /\ \A i \in DOMAIN completions : completions[i].outcome # "failed" =>
            \E j \in DOMAIN rows : rows[j].test = completions[i].test
       /\ (handler # "row" /\ terminal[active] # "failed") =>
            rows # <<>> /\ Last(rows).test = active

\* A pending is replaced when the next outcome is handled; a success was
\* written after the row it tells of.
AttemptAgrees ==
  /\ attempt.at <= Len(completions)
  /\ (errors = 0 /\ attempt.status = "pending") =>
       /\ Len(completions) <= attempt.at + 1
       /\ handler = "mirror" => Len(completions) <= attempt.at
  /\ (errors = 0 /\ attempt.status = "success") =>
       /\ rows # <<>>
       /\ \A i \in DOMAIN completions :
            completions[i].test <= Last(rows).test
       /\ handler = "mirror" => Last(rows).test = active

\* The test the cron loop waits for was started, and when the process is not
\* restarted it ends with an outcome, which replaces the pending that was
\* written for it.
CronAgrees ==
  cron.at = "waiting" =>
    /\ cron.test \in Tests
    /\ phase[cron.test] # "unborn"
    /\ phase[cron.test] = "ended" => Completed(cron.test)
    /\ (/\ cron.own /\ errors = 0
        /\ \/ phase[cron.test] \in Told \cup {"ended"}
           \/ handler = "mirror" /\ active = cron.test)
         => attempt.status # "pending"

IInv ==
  /\ TypeOK
  /\ SlotAgrees /\ HasOutcome /\ CompletionsAgree
  /\ HandlerAgrees /\ RowsAgree /\ AttemptAgrees /\ CronAgrees

-----------------------------------------------------------------------------
(* The registry's steps.                                                   *)

RegistryInv == R!TypeOK /\ SlotAgrees /\ HasOutcome /\ CompletionsAgree

\* The registry's part of the invariant.
LEMMA RegistryPart == ASSUME IInv PROVE RegistryInv
  BY DEF IInv, TypeOK, RegistryInv

\* What the elements of a sequence are.
LEMMA Elements ==
  ASSUME NEW S, NEW s \in Seq(S)
  PROVE  /\ Len(s) \in Nat
         /\ DOMAIN s = 1..Len(s)
         /\ \A i \in DOMAIN s : s[i] \in S
  OBVIOUS

\* The completions and the rows are of started tests.
LEMMA SequenceTypes ==
  ASSUME IInv
  PROVE  /\ Len(completions) \in Nat
         /\ DOMAIN completions = 1..Len(completions)
         /\ \A i \in DOMAIN completions :
              completions[i].test \in Tests /\ completions[i].test \in Nat
         /\ Len(rows) \in Nat
         /\ DOMAIN rows = 1..Len(rows)
         /\ \A i \in DOMAIN rows :
              rows[i].test \in Tests /\ rows[i].test \in Nat
  <1>1. completions \in Seq(R!Completions)
    BY DEF IInv, TypeOK, R!TypeOK
  <1>2. rows \in Seq([test : R!Tests, kind : {"success", "cancelled"}])
    BY DEF IInv, TypeOK
  <1>3. \A i \in DOMAIN completions : completions[i] \in R!Completions
    BY <1>1, Elements
  <1>4. \A i \in DOMAIN rows :
          rows[i] \in [test : R!Tests, kind : {"success", "cancelled"}]
    BY <1>2, Elements, Zenon
  <1>5. \A t \in Tests : t \in Nat
    BY DEF Tests, R!Tests
  <1> QED
    BY <1>1, <1>2, <1>3, <1>4, <1>5, Elements DEF Tests, R!Completions

\* A test whose phase holds the slot is the newest.
LEMMA SlotIsNewest ==
  ASSUME IInv, NEW t \in Tests, phase[t] \in R!Holding
  PROVE  active = t /\ lastId = t /\ active # NoTest
  BY AttemptsAssumption
     DEF IInv, SlotAgrees, Tests, NoTest, R!Tests, R!NoTest

\* The newest test gets the slot and the next id.
LEMMA StartKeeps == ASSUME IInv, R!StartTest PROVE RegistryInv'
  <1> USE AttemptsAssumption, RegistryPart DEF Tests, NoTest
  <1> DEFINE t == lastId + 1
  <1>1. /\ t \in Tests /\ phase[t] = "unborn" /\ active = NoTest
        /\ lastId \in 0..MaxTests
    BY SMT
       DEF RegistryInv, R!TypeOK, R!StartTest, R!Tests, SlotAgrees
  <1>2. /\ phase' = [phase EXCEPT ![t] = "reserved"]
        /\ lastId' = t /\ active' = t /\ graceLT' = 0
        /\ graceLapsed' = FALSE
        /\ UNCHANGED <<cancelled, verdict, terminal, completions, inProgress>>
    BY DEF R!StartTest, R!NoTest
  <1>3. R!TypeOK'
    <2>1. phase' \in [R!Tests -> R!Phases]
      BY <1>1, <1>2 DEF RegistryInv, R!TypeOK, R!Phases
    <2>2. lastId' \in 0..MaxTests /\ active' \in 0..MaxTests
          /\ graceLT' \in 0..MaxTests
      BY <1>1, <1>2 DEF R!Tests
    <2> QED BY <1>2, <2>1, <2>2 DEF RegistryInv, R!TypeOK
  <1>4. SlotAgrees'
    BY <1>1, <1>2, SMT
       DEF RegistryInv, R!TypeOK, SlotAgrees, R!Holding, R!Tests, R!NoTest
  <1>5. HasOutcome'
    BY <1>1, <1>2, SMT
       DEF RegistryInv, R!TypeOK, HasOutcome, Told, R!Tests
  <1>6. CompletionsAgree'
    <2>1. /\ \A i \in DOMAIN completions :
               /\ completions[i].test <= lastId
               /\ completions[i].outcome = terminal[completions[i].test]
               /\ completions[i].test \in R!Tests
          /\ Len(completions) <= lastId /\ Len(completions) \in Nat
          /\ \A u \in R!Tests : phase[u] \in Told => Completed(u)
      BY SequenceTypes
         DEF RegistryInv, R!TypeOK, CompletionsAgree, R!Completions
    <2>2. \A u \in R!Tests : phase'[u] \in Told => phase[u] \in Told
      BY <1>1, <1>2 DEF RegistryInv, R!TypeOK, Told
    <2>3. \A i \in DOMAIN completions :
            completions[i].test <= t /\ completions[i].test < t
      BY <1>1, <2>1 DEF R!Tests
    <2>4. Len(completions) <= t /\ Len(completions) < t
      BY <1>1, <2>1
    <2>5. \A u \in R!Tests : phase'[u] \in Told => Completed(u)'
      BY <1>2, <2>1, <2>2 DEF Completed
    <2> HIDE DEF t
    <2> QED
      BY <1>2, <2>1, <2>3, <2>4, <2>5 DEF CompletionsAgree
  <1> QED BY <1>3, <1>4, <1>5, <1>6 DEF RegistryInv

\* running=true and the launch of the driver goroutine.
LEMMA LaunchKeeps ==
  ASSUME IInv, NEW t \in Tests, R!LaunchDriver(t) PROVE RegistryInv'
  <1> USE RegistryPart DEF R!Move
  <1>1. R!TypeOK'
    BY DEF RegistryInv, R!TypeOK, R!LaunchDriver, R!Phases, Tests
  <1>2. SlotAgrees'
    BY SMT
       DEF RegistryInv, R!TypeOK, R!LaunchDriver, SlotAgrees, R!Holding, Tests,
           NoTest, R!NoTest
  <1>3. HasOutcome'
    BY SMT
       DEF RegistryInv, R!TypeOK, R!LaunchDriver, HasOutcome, Told, Tests
  <1>4. CompletionsAgree'
    BY SlotIsNewest, SequenceTypes, SMT
       DEF RegistryInv, R!TypeOK, R!LaunchDriver, CompletionsAgree, SlotAgrees,
           Completed, Told, R!Holding, Tests, NoTest, R!NoTest
  <1> QED BY <1>1, <1>2, <1>3, <1>4 DEF RegistryInv

\* The runner's return gives the test an outcome.
LEMMA ReturnKeeps ==
  ASSUME IInv, NEW t \in Tests, R!RunnerReturns(t) PROVE RegistryInv'
  <1> USE RegistryPart DEF R!Move
  <1>1. R!TypeOK'
    BY DEF RegistryInv, R!TypeOK, R!RunnerReturns, R!Phases, Tests,
         R!RunnerOutcomes, R!Outcomes
  <1>2. SlotAgrees'
    BY SMT
       DEF RegistryInv, R!TypeOK, R!RunnerReturns, SlotAgrees, R!Holding,
           Tests,
           NoTest, R!NoTest
  <1>3. HasOutcome'
    BY SMT
       DEF RegistryInv, R!TypeOK, R!RunnerReturns, HasOutcome, Told, Tests,
           R!RunnerOutcomes, R!Outcomes
  <1>4. CompletionsAgree'
    BY SlotIsNewest, SequenceTypes, SMT
       DEF RegistryInv, R!TypeOK, R!RunnerReturns, CompletionsAgree,
           SlotAgrees,
           Completed, Told, R!Holding, Tests, NoTest, R!NoTest
  <1> QED BY <1>1, <1>2, <1>3, <1>4 DEF RegistryInv

\* wasCancelled() may turn the outcome.
LEMMA JudgeKeeps ==
  ASSUME IInv, NEW t \in Tests, R!JudgeCancelled(t) PROVE RegistryInv'
  <1> USE RegistryPart DEF R!Move
  <1>1. R!TypeOK'
    BY DEF RegistryInv, R!TypeOK, R!JudgeCancelled, R!Phases, Tests,
         R!Outcomes
  <1>2. SlotAgrees'
    BY SMT
       DEF RegistryInv, R!TypeOK, R!JudgeCancelled, SlotAgrees, R!Holding,
           Tests,
           NoTest, R!NoTest
  <1>3. HasOutcome'
    BY SMT
       DEF RegistryInv, R!TypeOK, R!JudgeCancelled, HasOutcome, Told, Tests,
           R!Outcomes
  <1>4. CompletionsAgree'
    BY SlotIsNewest, SequenceTypes, SMT
       DEF RegistryInv, R!TypeOK, R!JudgeCancelled, CompletionsAgree,
           SlotAgrees,
           Completed, Told, R!Holding, Tests, NoTest, R!NoTest
  <1> QED BY <1>1, <1>2, <1>3, <1>4 DEF RegistryInv

\* The stamp is on a test that no completion tells of.
LEMMA StampKeeps ==
  ASSUME IInv, NEW t \in Tests, R!StampTerminal(t) PROVE RegistryInv'
  <1> USE RegistryPart DEF R!Move
  <1>1. R!TypeOK'
    BY DEF RegistryInv, R!TypeOK, R!StampTerminal, R!Phases, Tests
  <1>2. SlotAgrees'
    BY SMT
       DEF RegistryInv, R!TypeOK, R!StampTerminal, SlotAgrees, R!Holding,
           Tests,
           NoTest, R!NoTest
  <1>3. HasOutcome'
    BY SMT
       DEF RegistryInv, R!TypeOK, R!StampTerminal, HasOutcome, Told, Tests
  <1>4. CompletionsAgree'
    BY SlotIsNewest, SequenceTypes, SMT
       DEF RegistryInv, R!TypeOK, R!StampTerminal, CompletionsAgree,
           SlotAgrees,
           Completed, Told, R!Holding, Tests, NoTest, R!NoTest
  <1> QED BY <1>1, <1>2, <1>3, <1>4 DEF RegistryInv

\* The slot comes free of a test that has been told of.
LEMMA ReleaseKeeps ==
  ASSUME IInv, NEW t \in Tests, R!ReleaseSlot(t) PROVE RegistryInv'
  <1> USE RegistryPart DEF R!Move
  <1>1. R!TypeOK'
    <2>1. /\ active' \in 0..MaxTests /\ graceLT' \in 0..MaxTests
          /\ phase' \in [R!Tests -> R!Phases]
      BY AttemptsAssumption
         DEF RegistryInv, R!TypeOK, R!ReleaseSlot, R!Phases, Tests, R!Tests,
             R!NoTest
    <2> QED BY <2>1, Zenon DEF RegistryInv, R!TypeOK, R!ReleaseSlot
  <1>2. SlotAgrees'
    BY SMT
       DEF RegistryInv, R!TypeOK, R!ReleaseSlot, SlotAgrees, R!Holding, Tests,
           NoTest, R!NoTest
  <1>3. HasOutcome'
    BY SMT
       DEF RegistryInv, R!TypeOK, R!ReleaseSlot, HasOutcome, Told, Tests
  <1>4. CompletionsAgree'
    BY SlotIsNewest, SequenceTypes, SMT
       DEF RegistryInv, R!TypeOK, R!ReleaseSlot, CompletionsAgree, SlotAgrees,
           Completed, Told, R!Holding, Tests, NoTest, R!NoTest
  <1> QED BY <1>1, <1>2, <1>3, <1>4 DEF RegistryInv

\* Closing Done.
LEMMA CloseKeeps ==
  ASSUME IInv, NEW t \in Tests, R!CloseDone(t) PROVE RegistryInv'
  <1> USE RegistryPart DEF R!Move
  <1>1. R!TypeOK'
    BY DEF RegistryInv, R!TypeOK, R!CloseDone, R!Phases, Tests
  <1>2. SlotAgrees'
    BY SMT
       DEF RegistryInv, R!TypeOK, R!CloseDone, SlotAgrees, R!Holding, Tests,
           NoTest, R!NoTest
  <1>3. HasOutcome'
    BY SMT
       DEF RegistryInv, R!TypeOK, R!CloseDone, HasOutcome, Told, Tests
  <1>4. CompletionsAgree'
    BY SlotIsNewest, SequenceTypes, SMT
       DEF RegistryInv, R!TypeOK, R!CloseDone, CompletionsAgree, SlotAgrees,
           Completed, Told, R!Holding, Tests, NoTest, R!NoTest
  <1> QED BY <1>1, <1>2, <1>3, <1>4 DEF RegistryInv

\* running=false.
LEMMA IdleKeeps ==
  ASSUME IInv, NEW t \in Tests, R!NotifyIdle(t) PROVE RegistryInv'
  <1> USE RegistryPart DEF R!Move
  <1>1. R!TypeOK'
    BY DEF RegistryInv, R!TypeOK, R!NotifyIdle, R!Phases, Tests
  <1>2. SlotAgrees'
    BY SMT
       DEF RegistryInv, R!TypeOK, R!NotifyIdle, SlotAgrees, R!Holding, Tests,
           NoTest, R!NoTest
  <1>3. HasOutcome'
    BY SMT
       DEF RegistryInv, R!TypeOK, R!NotifyIdle, HasOutcome, Told, Tests
  <1>4. CompletionsAgree'
    BY SlotIsNewest, SequenceTypes, SMT
       DEF RegistryInv, R!TypeOK, R!NotifyIdle, CompletionsAgree, SlotAgrees,
           Completed, Told, R!Holding, Tests, NoTest, R!NoTest
  <1> QED BY <1>1, <1>2, <1>3, <1>4 DEF RegistryInv

\* A cancellation moves nothing.
LEMMA CancelKeeps ==
  ASSUME IInv, NEW t \in Tests, R!Cancel(t) PROVE RegistryInv'
  <1> USE RegistryPart DEF R!Move
  <1>1. R!TypeOK'
    BY DEF RegistryInv, R!TypeOK, R!Cancel, R!Phases, Tests
  <1>2. SlotAgrees'
    BY SMT
       DEF RegistryInv, R!TypeOK, R!Cancel, SlotAgrees, R!Holding, Tests,
           NoTest, R!NoTest
  <1>3. HasOutcome'
    BY SMT
       DEF RegistryInv, R!TypeOK, R!Cancel, HasOutcome, Told, Tests
  <1>4. CompletionsAgree'
    BY SlotIsNewest, SequenceTypes, SMT
       DEF RegistryInv, R!TypeOK, R!Cancel, CompletionsAgree, SlotAgrees,
           Completed, Told, R!Holding, Tests, NoTest, R!NoTest
  <1> QED BY <1>1, <1>2, <1>3, <1>4 DEF RegistryInv

\* The completion of the test in flight is the newest of all.
LEMMA NotifyKeeps ==
  ASSUME IInv, NEW t \in Tests, R!NotifyCompletion(t)
  PROVE  /\ RegistryInv'
         /\ Len(completions') = Len(completions) + 1
         /\ \A i \in DOMAIN completions' :
              \/ i \in DOMAIN completions /\ completions'[i] = completions[i]
              \/ completions'[i] = [test |-> t, outcome |-> terminal[t]]
  <1> USE RegistryPart DEF R!Move
  <1> DEFINE c == [test |-> t, outcome |-> terminal[t]]
  <1>1. /\ completions \in Seq(R!Completions) /\ c \in R!Completions
        /\ completions' = Append(completions, c)
    BY DEF RegistryInv, R!TypeOK, HasOutcome, R!NotifyCompletion,
           R!Completions, Tests
  <1>2. /\ completions' \in Seq(R!Completions)
        /\ Len(completions') = Len(completions) + 1
        /\ Len(completions) \in Nat
        /\ DOMAIN completions = 1..Len(completions)
        /\ DOMAIN completions' = 1..Len(completions')
        /\ \A i \in 1..Len(completions) : completions'[i] = completions[i]
        /\ completions'[Len(completions')] = c
    <2> HIDE DEF c
    <2> QED BY <1>1
  <1>3. \A i \in DOMAIN completions' :
          \/ i \in DOMAIN completions /\ completions'[i] = completions[i]
          \/ completions'[i] = c
    BY <1>2, SMT
  <1>4. R!TypeOK'
    BY <1>2 DEF RegistryInv, R!TypeOK, R!NotifyCompletion, R!Phases, Tests
  <1>5. SlotAgrees'
    BY SMT
       DEF RegistryInv, R!TypeOK, R!NotifyCompletion, SlotAgrees, R!Holding,
           Tests, NoTest, R!NoTest
  <1>6. HasOutcome'
    BY SMT
       DEF RegistryInv, R!TypeOK, R!NotifyCompletion, HasOutcome, Told, Tests
  <1>7. CompletionsAgree'
    <2>1. active = t /\ lastId = t /\ Len(completions) < lastId
      BY SlotIsNewest
         DEF RegistryInv, R!NotifyCompletion, R!Holding, CompletionsAgree
    <2>2. /\ UNCHANGED <<active, lastId, terminal>>
          /\ phase' = [phase EXCEPT ![t] = "notified"]
      BY DEF R!NotifyCompletion
    <2>3. \A i \in DOMAIN completions' :
            /\ completions'[i].test <= lastId'
            /\ completions'[i].outcome = terminal'[completions'[i].test]
      <3>1. c.test = t /\ c.outcome = terminal[t]
        OBVIOUS
      <3>2. \A i \in DOMAIN completions :
              /\ completions[i].test <= lastId
              /\ completions[i].outcome = terminal[completions[i].test]
        BY DEF RegistryInv, CompletionsAgree
      <3> HIDE DEF c
      <3> QED BY <1>3, <2>1, <2>2, <3>1, <3>2 DEF Tests, R!Tests
    <2>4. Len(completions') <= lastId' /\ phase'[active'] = "notified"
      BY <1>2, <2>1, <2>2, SMT DEF RegistryInv, R!TypeOK, Tests
    <2>5. \A u \in Tests : phase'[u] \in Told => Completed(u)'
      <3>1. Completed(t)'
        BY <1>2 DEF Completed
      <3>2. \A u \in Tests : Completed(u) => Completed(u)'
        BY <1>2, SMT DEF Completed
      <3> QED
        BY <2>2, <3>1, <3>2 DEF RegistryInv, R!TypeOK, CompletionsAgree, Tests
    <2> QED BY <2>3, <2>4, <2>5 DEF CompletionsAgree
  <1> QED BY <1>2, <1>3, <1>4, <1>5, <1>6, <1>7 DEF RegistryInv

-----------------------------------------------------------------------------
(* The steps of the whole.                                                 *)

\* What a step of the registry alone leaves alone.
Rest == <<stored, mirror, handler, cron, enabled, restarts>>

\* The types, when only the registry has moved.
LEMMA RestTypes ==
  ASSUME IInv, RegistryInv', UNCHANGED Rest
  PROVE  TypeOK'
  BY DEF IInv, TypeOK, RegistryInv, Rest, stored

\* The test in the slot moves on to the stamp: nothing is stored yet.
LEMMA BeforeStampIInv ==
  ASSUME IInv, UNCHANGED Rest, NEW t \in Tests,
         R!LaunchDriver(t) \/ R!RunnerReturns(t) \/ R!JudgeCancelled(t)
  PROVE  IInv'
  <1> USE DEF R!Move, Rest, stored, Tests, NoTest
  <1>1. RegistryInv'
    BY LaunchKeeps, ReturnKeeps, JudgeKeeps
  <1>2. /\ active = t /\ lastId = t /\ active # NoTest
        /\ phase[t] \in Before /\ phase \in [R!Tests -> R!Phases]
    BY SlotIsNewest, RegistryPart
       DEF R!LaunchDriver, R!RunnerReturns, R!JudgeCancelled, R!Holding,
           Before, RegistryInv, R!TypeOK
  <1>3. /\ UNCHANGED <<lastId, active, terminal, completions>>
        /\ \E p \in Before : phase' = [phase EXCEPT ![t] = p]
    BY DEF R!LaunchDriver, R!RunnerReturns, R!JudgeCancelled, Before
  <1>4. handler = "row"
    BY <1>2 DEF IInv, HandlerAgrees, Before
  <1>5. HandlerAgrees' /\ RowsAgree'
    BY <1>2, <1>3, <1>4, SMT
       DEF IInv, HandlerAgrees, RowsAgree, RowDue, Before
  <1>6. AttemptAgrees'
    BY <1>3, <1>4, SMT DEF IInv, AttemptAgrees
  <1>7. CronAgrees'
    BY <1>2, <1>3, <1>4, SMT
       DEF IInv, CronAgrees, Completed, Before, Told
  <1> QED
    BY <1>1, <1>5, <1>6, <1>7, RestTypes DEF RegistryInv, IInv

\* The stamp: the rows and the completions are of older tests.
LEMMA StampIInv ==
  ASSUME IInv, UNCHANGED Rest, NEW t \in Tests, R!StampTerminal(t)
  PROVE  IInv'
  <1> USE DEF R!Move, Rest, stored, Tests, NoTest
  <1>1. RegistryInv'
    BY StampKeeps
  <1>2. /\ active = t /\ lastId = t /\ active # NoTest
        /\ phase[t] = "judged" /\ phase \in [R!Tests -> R!Phases]
        /\ terminal \in [R!Tests -> R!Outcomes \cup {"none"}]
    BY SlotIsNewest, RegistryPart
       DEF R!StampTerminal, R!Holding, RegistryInv, R!TypeOK
  <1>3. /\ UNCHANGED <<lastId, active, completions>>
        /\ phase' = [phase EXCEPT ![t] = "stamped"]
        /\ terminal' = [terminal EXCEPT ![t] = verdict[t]]
    BY DEF R!StampTerminal
  <1>4. handler = "row" /\ RowDue
    BY <1>2 DEF IInv, HandlerAgrees, RowDue, Before
  <1>5. HandlerAgrees'
    BY <1>4 DEF HandlerAgrees
  <1>6. RowsAgree'
    BY <1>2, <1>3, <1>4, SequenceTypes, SMT
       DEF IInv, RowsAgree, RowDue
  <1>7. AttemptAgrees'
    BY <1>3, <1>4, SMT DEF IInv, AttemptAgrees
  <1>8. CronAgrees'
    BY <1>2, <1>3, <1>4, SMT
       DEF IInv, CronAgrees, Completed, Told
  <1> QED
    BY <1>1, <1>5, <1>6, <1>7, <1>8, RestTypes DEF RegistryInv, IInv

\* A test that has been told of goes on.
LEMMA AfterToldIInv ==
  ASSUME IInv, UNCHANGED Rest, NEW t \in Tests,
         R!ReleaseSlot(t) \/ R!CloseDone(t) \/ R!NotifyIdle(t)
  PROVE  IInv'
  <1> USE DEF R!Move, Rest, stored, Tests, NoTest
  <1>1. RegistryInv'
    BY ReleaseKeeps, CloseKeeps, IdleKeeps
  <1>2. /\ phase[t] \in Told /\ Completed(t)
        /\ phase \in [R!Tests -> R!Phases]
    BY RegistryPart
       DEF R!ReleaseSlot, R!CloseDone, R!NotifyIdle, Told, RegistryInv,
           R!TypeOK, CompletionsAgree
  <1>3. /\ UNCHANGED <<lastId, terminal, completions>>
        /\ active' \in {active, NoTest}
        /\ \E p \in {"released", "done", "ended"} :
             phase' = [phase EXCEPT ![t] = p]
    BY DEF R!ReleaseSlot, R!CloseDone, R!NotifyIdle
  <1>4. handler # "row" => active' = active /\ phase'[active] = phase[active]
    BY <1>2, <1>3, SMT
       DEF IInv, HandlerAgrees, Told, R!ReleaseSlot, SlotAgrees, R!Holding,
           R!CloseDone, R!NotifyIdle
  <1>5. HandlerAgrees'
    BY <1>3, <1>4, SMT DEF IInv, HandlerAgrees
  <1>6. RowDue' => RowDue
    BY <1>2, <1>3, SMT DEF RowDue, Before
  <1>7. RowsAgree'
    BY <1>3, <1>4, <1>6, SMT DEF IInv, RowsAgree
  <1>8. AttemptAgrees'
    BY <1>3, <1>4, SMT DEF IInv, AttemptAgrees
  <1>9. CronAgrees'
    <2>1. Completed(t)'
      BY <1>2, <1>3 DEF Completed
    <2> QED
      BY <1>2, <1>3, <1>4, <2>1, SMT DEF IInv, CronAgrees, Completed, Told
  <1> QED
    BY <1>1, <1>5, <1>7, <1>8, <1>9, RestTypes DEF RegistryInv, IInv

\* A cancellation is stored nowhere.
LEMMA CancelIInv ==
  ASSUME IInv, UNCHANGED Rest, NEW t \in Tests, R!Cancel(t)
  PROVE  IInv'
  <1> USE DEF Rest, stored
  <1>1. RegistryInv'
    BY CancelKeeps
  <1>2. UNCHANGED <<lastId, active, phase, terminal, completions>>
    BY DEF R!Cancel
  <1>3. HandlerAgrees' /\ RowsAgree' /\ AttemptAgrees' /\ CronAgrees'
    BY <1>2
       DEF IInv, HandlerAgrees, RowsAgree, RowDue, AttemptAgrees, CronAgrees,
           Completed
  <1> QED
    BY <1>1, <1>3, RestTypes DEF RegistryInv, IInv

\* A new test leaves what is stored about older ones; the cron loop may be
\* the one that started it.
LEMMA StartStores ==
  ASSUME IInv, R!StartTest,
         UNCHANGED <<stored, mirror, handler, enabled, restarts>>
  PROVE  /\ RegistryInv' /\ HandlerAgrees' /\ RowsAgree' /\ AttemptAgrees'
         /\ lastId' \in Tests /\ active' = lastId' /\ handler = "row"
         /\ active = NoTest
         /\ phase' = [phase EXCEPT ![lastId'] = "reserved"]
         /\ phase[lastId'] = "unborn"
  <1> USE AttemptsAssumption DEF stored, Tests, NoTest
  <1>1. RegistryInv'
    BY StartKeeps
  <1>2. /\ lastId \in Nat /\ lastId' = lastId + 1 /\ active' = lastId'
        /\ lastId' \in Tests /\ active = NoTest /\ active' # NoTest
        /\ phase' = [phase EXCEPT ![lastId'] = "reserved"]
        /\ phase \in [R!Tests -> R!Phases] /\ phase[lastId'] = "unborn"
        /\ UNCHANGED <<terminal, completions>>
    BY RegistryPart, SMT
       DEF R!StartTest, R!Tests, R!NoTest, RegistryInv, R!TypeOK, SlotAgrees
  <1>3. handler = "row"
    BY <1>2 DEF IInv, HandlerAgrees
  <1>4. HandlerAgrees'
    BY <1>3 DEF HandlerAgrees
  <1>5. RowsAgree'
    <2>1. \A i \in DOMAIN rows :
            rows[i].test <= lastId /\ rows[i].test < lastId'
      BY <1>2, SequenceTypes, SMT DEF IInv, RowsAgree
    <2> QED BY <1>2, <1>3, <2>1, SequenceTypes, SMT DEF IInv, RowsAgree
  <1>6. AttemptAgrees'
    BY <1>2, <1>3, SMT DEF IInv, AttemptAgrees
  <1> QED BY <1>1, <1>2, <1>3, <1>4, <1>5, <1>6

\* StartTest from the API.
LEMMA ApiStartsIInv == ASSUME IInv, ApiStarts PROVE IInv'
  <1>1. /\ R!StartTest
        /\ UNCHANGED <<stored, mirror, handler, cron, enabled, restarts>>
    BY DEF ApiStarts
  <1>2. /\ cron.at = "waiting" => cron.test # lastId'
        /\ UNCHANGED <<completions, attempt, errors>>
    BY <1>1, StartStores DEF IInv, CronAgrees, R!StartTest, stored
  <1>3. CronAgrees'
    BY <1>1, <1>2, StartStores, RegistryPart, SMT
       DEF IInv, CronAgrees, Completed, RegistryInv, R!TypeOK, Tests
  <1> QED
    BY <1>1, <1>3, StartStores, RestTypes DEF RegistryInv, IInv, Rest

-----------------------------------------------------------------------------
(* The completion handler.                                                 *)

\* The test the handler is at work for is the newest.
LEMMA HandledIsNewest ==
  ASSUME IInv, NEW t \in Tests, phase[t] = "stamped"
  PROVE  /\ active = t /\ lastId = t /\ active # NoTest
         /\ terminal[t] \in R!Outcomes
  BY SlotIsNewest DEF R!Holding, IInv, HasOutcome

\* The registry's part does not see what is stored.
LEMMA RegistryRests ==
  ASSUME IInv, UNCHANGED registry
  PROVE  RegistryInv'
  BY RegistryPart
     DEF registry, RegistryInv, R!TypeOK, SlotAgrees, HasOutcome,
         CompletionsAgree, Completed

\* A write succeeds, or is refused and counted.
LEMMA ErrorsGrow ==
  ASSUME IInv, errors' = errors \/ Refused
  PROVE  /\ errors \in Nat /\ errors' \in 0..MaxFaults
         /\ errors' = 0 => errors = 0 /\ ~Refused
  <1>1. errors \in 0..MaxFaults /\ restarts \in 0..MaxFaults
    BY DEF IInv, TypeOK
  <1> QED BY <1>1, AttemptsAssumption DEF Refused, MayFail

\* The row of the newest test comes after all others.
LEMMA SavesRowIInv ==
  ASSUME IInv, NEW t \in Tests, HandlerSavesRow(t)
  PROVE  IInv'
  <1> USE DEF registry
  <1> DEFINE r == [test |-> t, kind |-> terminal[t]]
  <1>1. /\ UNCHANGED registry
        /\ UNCHANGED <<attempt, mirror, cron, enabled, restarts>>
        /\ phase[t] = "stamped" /\ handler = "row" /\ handler' = "attempt"
    BY DEF HandlerSavesRow
  <1>2. /\ active = t /\ lastId = t /\ active # NoTest
        /\ terminal[t] \in R!Outcomes
    BY <1>1, HandledIsNewest
  <1>3. RegistryInv'
    BY <1>1, RegistryRests
  <1>4. errors \in Nat /\ errors' \in 0..MaxFaults
        /\ (errors' = 0 => errors = 0)
    BY ErrorsGrow DEF HandlerSavesRow
  <1>5. \/ /\ terminal[t] # "failed" /\ rows' = Append(rows, r)
           /\ errors' = errors
        \/ terminal[t] # "failed" /\ errors' # 0 /\ rows' = rows
        \/ terminal[t] = "failed" /\ rows' = rows /\ errors' = errors
    BY ErrorsGrow DEF HandlerSavesRow
  <1>6. ASSUME terminal[t] # "failed", rows' = Append(rows, r)
        PROVE  /\ rows' \in Seq([test : R!Tests,
                                 kind : {"success", "cancelled"}])
               /\ Len(rows') = Len(rows) + 1
               /\ DOMAIN rows' = 1..Len(rows')
               /\ \A i \in DOMAIN rows : rows'[i] = rows[i]
               /\ rows'[Len(rows')] = r
    <2>1. r \in [test : R!Tests, kind : {"success", "cancelled"}]
      BY <1>2, <1>6 DEF Tests, R!Outcomes
    <2>2. rows \in Seq([test : R!Tests, kind : {"success", "cancelled"}])
      BY DEF IInv, TypeOK
    <2> HIDE DEF r
    <2>3. \A S : r \in S /\ rows \in Seq(S) =>
            /\ rows' \in Seq(S) /\ Len(rows') = Len(rows) + 1
            /\ DOMAIN rows' = 1..Len(rows')
            /\ \A i \in DOMAIN rows : rows'[i] = rows[i]
            /\ rows'[Len(rows')] = r
      BY <1>6
    <2> QED BY <2>1, <2>2, <2>3, Zenon
  <1>7. TypeOK'
    <2>1. rows' \in Seq([test : R!Tests, kind : {"success", "cancelled"}])
      BY <1>5, <1>6, Zenon DEF IInv, TypeOK
    <2> QED
      BY <1>1, <1>3, <1>4, <2>1, Zenon DEF IInv, TypeOK, RegistryInv
  <1>8. HandlerAgrees'
    BY <1>1, <1>2 DEF HandlerAgrees
  <1>9. \A i \in DOMAIN rows : rows[i].test < lastId
    BY <1>1, <1>2 DEF IInv, RowsAgree, RowDue
  <1>10. RowsAgree'
    <2>1. ~RowDue'
      BY <1>1, <1>2 DEF RowDue, Before
    <2>2. CASE terminal[t] # "failed" /\ rows' = Append(rows, r)
      <3>1. r.test = t /\ r.kind = terminal[t]
        OBVIOUS
      <3> HIDE DEF r
      <3>2. \A i \in DOMAIN rows' :
              \/ i \in DOMAIN rows /\ rows'[i] = rows[i] /\ i < Len(rows')
              \/ i = Len(rows') /\ rows'[i] = r
        BY <1>6, <2>2, SequenceTypes, SMT
      <3>3. \A i, j \in DOMAIN rows' : i < j => rows'[i].test < rows'[j].test
        BY <1>2, <1>6, <1>9, <2>2, <3>1, <3>2, SequenceTypes, SMT
           DEF IInv, RowsAgree
      <3>4. \A i \in DOMAIN rows' : rows'[i].test <= lastId
                                   /\ rows'[i].kind = terminal[rows'[i].test]
        <4>1. \A i \in DOMAIN rows : rows[i].test <= lastId
                                    /\ rows[i].kind = terminal[rows[i].test]
          BY DEF IInv, RowsAgree
        <4> QED BY <1>2, <3>1, <3>2, <4>1 DEF Tests, R!Tests
      <3>5. rows' # <<>> /\ Last(rows') = r
        BY <1>6, <2>2, SequenceTypes DEF Last
      <3>6. \A j \in DOMAIN rows : j \in DOMAIN rows' /\ rows'[j] = rows[j]
        BY <1>6, <2>2, SequenceTypes, SMT
      <3>7. errors = 0 =>
              \A i \in DOMAIN completions :
                completions[i].outcome # "failed" =>
                  \E j \in DOMAIN rows' : rows'[j].test = completions[i].test
        BY <3>6 DEF IInv, RowsAgree
      <3> QED
        BY <1>1, <1>2, <1>4, <2>1, <3>1, <3>3, <3>4, <3>5, <3>7
           DEF RowsAgree
    <2>3. CASE rows' = rows
      BY <1>1, <1>2, <1>4, <1>5, <2>1, <2>3 DEF IInv, RowsAgree
    <2> QED BY <1>5, <2>2, <2>3
  <1>11. AttemptAgrees'
    <2>1. ASSUME errors = 0, attempt.status = "success"
          PROVE  /\ rows' # <<>>
                 /\ \A i \in DOMAIN completions :
                      completions[i].test <= Last(rows').test
      <3>1. /\ rows # <<>>
            /\ \A i \in DOMAIN completions :
                 completions[i].test <= Last(rows).test
        BY <2>1 DEF IInv, AttemptAgrees
      <3>2. CASE terminal[t] # "failed" /\ rows' = Append(rows, r)
        <4>1. rows' # <<>> /\ Last(rows').test = t
          BY <1>6, <3>2, SequenceTypes DEF Last
        <4> QED BY <1>2, <4>1 DEF IInv, CompletionsAgree
      <3> QED BY <1>5, <3>1, <3>2
    <2> QED BY <1>1, <1>4, <2>1 DEF IInv, AttemptAgrees
  <1>12. CronAgrees'
    BY <1>1, <1>4 DEF IInv, CronAgrees, Completed
  <1> QED
    BY <1>3, <1>7, <1>8, <1>10, <1>11, <1>12 DEF RegistryInv, IInv

\* A write of the attempt notes how many outcomes have been handed on.
LEMMA AttemptSaved ==
  ASSUME IInv, NEW s \in Attempts, SaveAttempt(s)
  PROVE  /\ errors \in Nat /\ errors' \in 0..MaxFaults
         /\ errors' = 0 => errors = 0
         /\ attempt' \in [status : Attempts \cup {"none"}, at : 0..MaxTests]
         /\ \/ attempt' = [status |-> s, at |-> Len(completions)]
            \/ attempt' = attempt /\ errors' # 0
  <1>1. errors' = errors \/ Refused
    BY DEF SaveAttempt
  <1>2. \/ attempt' = [status |-> s, at |-> Len(completions)]
        \/ attempt' = attempt /\ errors' # 0
    BY <1>1, ErrorsGrow DEF SaveAttempt
  <1>3. attempt \in [status : Attempts \cup {"none"}, at : 0..MaxTests]
    BY DEF IInv, TypeOK
  <1>4. Len(completions) \in 0..MaxTests
    BY RegistryPart, SequenceTypes, AttemptsAssumption
       DEF RegistryInv, R!TypeOK, CompletionsAgree
  <1> QED BY <1>1, <1>2, <1>3, <1>4, ErrorsGrow

\* The handler writes the outcome over whatever the row said.
LEMMA SavesAttemptIInv ==
  ASSUME IInv, NEW t \in Tests, HandlerSavesAttempt(t)
  PROVE  IInv'
  <1> USE DEF registry
  <1>1. /\ UNCHANGED registry
        /\ UNCHANGED <<rows, mirror, cron, enabled, restarts>>
        /\ phase[t] = "stamped" /\ handler = "attempt"
        /\ handler' = "mirror" /\ SaveAttempt(terminal[t])
    BY DEF HandlerSavesAttempt
  <1>2. /\ active = t /\ lastId = t /\ active # NoTest
        /\ terminal[t] \in R!Outcomes
    BY <1>1, HandledIsNewest
  <1>3. terminal[t] \in Attempts /\ terminal[t] # "pending"
    BY <1>2 DEF R!Outcomes, Attempts
  <1>4. RegistryInv'
    BY <1>1, RegistryRests
  <1>5. TypeOK'
    BY <1>1, <1>3, <1>4, AttemptSaved, Zenon DEF IInv, TypeOK, RegistryInv
  <1>6. HandlerAgrees'
    BY <1>1, <1>2 DEF HandlerAgrees
  <1>7. RowsAgree'
    BY <1>1, <1>2, <1>3, AttemptSaved DEF IInv, RowsAgree, RowDue, Before
  <1>8. AttemptAgrees'
    <2>1. CASE attempt' = [status |-> terminal[t], at |-> Len(completions)]
      <3>1. ASSUME errors' = 0, terminal[t] = "success"
            PROVE  /\ rows # <<>> /\ Last(rows).test = active
                   /\ \A i \in DOMAIN completions :
                        completions[i].test <= Last(rows).test
        <4>1. rows # <<>> /\ Last(rows).test = active
          BY <1>1, <1>2, <1>3, <3>1, AttemptSaved DEF IInv, RowsAgree
        <4> QED BY <1>2, <4>1 DEF IInv, CompletionsAgree
      <3> QED BY <1>1, <1>3, <2>1, <3>1, SequenceTypes DEF AttemptAgrees
    <2>2. CASE attempt' = attempt /\ errors' # 0
      BY <1>1, <2>2 DEF IInv, AttemptAgrees
    <2> QED BY <1>1, <1>3, <2>1, <2>2, AttemptSaved
  <1>9. CronAgrees'
    BY <1>1, <1>3, AttemptSaved DEF IInv, CronAgrees, Completed
  <1> QED
    BY <1>4, <1>5, <1>6, <1>7, <1>8, <1>9 DEF RegistryInv, IInv

\* The handler's last step hands the outcome on: by now the history and the
\* attempt tell of it.
LEMMA MirrorsIInv ==
  ASSUME IInv, NEW t \in Tests, HandlerMirrors(t)
  PROVE  IInv'
  <1> DEFINE c == [test |-> t, outcome |-> terminal[t]]
  <1>1. /\ R!NotifyCompletion(t) /\ handler = "mirror" /\ handler' = "row"
        /\ UNCHANGED <<rows, attempt, errors, cron, enabled, restarts>>
        /\ MirrorAttempt(terminal[t])
        /\ UNCHANGED <<lastId, active, terminal>>
        /\ phase[t] = "stamped" /\ phase' = [phase EXCEPT ![t] = "notified"]
    BY DEF HandlerMirrors, stored, R!NotifyCompletion, R!Move
  <1>2. /\ active = t /\ lastId = t /\ active # NoTest
        /\ terminal[t] \in R!Outcomes
        /\ phase \in [R!Tests -> R!Phases]
    BY <1>1, HandledIsNewest, RegistryPart DEF RegistryInv, R!TypeOK
  <1>3. /\ RegistryInv'
        /\ Len(completions') = Len(completions) + 1
        /\ \A i \in DOMAIN completions' :
             \/ i \in DOMAIN completions /\ completions'[i] = completions[i]
             \/ completions'[i] = c
    BY <1>1, NotifyKeeps
  <1>4. c.test = t /\ c.outcome = terminal[t]
    OBVIOUS
  <1> HIDE DEF c
  <1>5. TypeOK'
    <2>1. mirror' \in Attempts \cup {"no snapshot", "absent"}
      BY <1>1, <1>2 DEF IInv, TypeOK, MirrorAttempt, Attempts, R!Outcomes
    <2> QED BY <1>1, <1>3, <2>1, Zenon DEF IInv, TypeOK, RegistryInv
  <1>6. HandlerAgrees'
    BY <1>1 DEF HandlerAgrees
  <1>7. RowsAgree'
    <2>1. ~RowDue'
      BY <1>1, <1>2 DEF RowDue, Before, Tests
    <2>2. ASSUME errors = 0, NEW i \in DOMAIN completions',
                 completions'[i].outcome # "failed"
          PROVE  \E j \in DOMAIN rows : rows[j].test = completions'[i].test
      <3>1. CASE i \in DOMAIN completions /\ completions'[i] = completions[i]
        BY <2>2, <3>1 DEF IInv, RowsAgree
      <3>2. CASE completions'[i] = c
        <4>1. rows # <<>> /\ Last(rows).test = t
          BY <1>1, <1>2, <1>4, <2>2, <3>2 DEF IInv, RowsAgree
        <4>2. Len(rows) \in DOMAIN rows /\ rows[Len(rows)].test = t
          <5>1. rows \in Seq([test : R!Tests, kind : {"success", "cancelled"}])
            BY DEF IInv, TypeOK
          <5>2. \A S : rows \in Seq(S) => Len(rows) # 0
            BY <4>1
          <5> QED BY <4>1, <5>1, <5>2, SequenceTypes DEF Last
        <4> QED BY <1>4, <3>2, <4>2
      <3> QED BY <1>3, <3>1, <3>2
    <2> QED BY <1>1, <2>1, <2>2 DEF IInv, RowsAgree
  <1>8. AttemptAgrees'
    <2>1. attempt.at \in Nat
      <3>1. attempt \in [status : Attempts \cup {"none"}, at : 0..MaxTests]
        BY DEF IInv, TypeOK
      <3> QED BY <3>1, AttemptsAssumption
    <2>2. ASSUME errors = 0, attempt.status = "success"
          PROVE  /\ rows # <<>>
                 /\ \A i \in DOMAIN completions' :
                      completions'[i].test <= Last(rows).test
      <3>1. rows # <<>> /\ Last(rows).test = t
        BY <1>1, <1>2, <2>2 DEF IInv, AttemptAgrees
      <3>2. \A i \in DOMAIN completions' : completions'[i].test <= t
        BY <1>1, <1>2, <1>3 DEF RegistryInv, CompletionsAgree
      <3> QED BY <3>1, <3>2
    <2> QED
      BY <1>1, <1>3, <2>1, <2>2, SequenceTypes, SMT DEF IInv, AttemptAgrees
  <1>9. CronAgrees'
    <2>1. \A u : Completed(u) => Completed(u)'
      <3>1. \A i \in DOMAIN completions :
              i \in DOMAIN completions' /\ completions'[i] = completions[i]
        <4>1. completions' = Append(completions, c)
          BY <1>1 DEF c, R!NotifyCompletion
        <4>2. completions \in Seq(R!Completions)
          BY RegistryPart DEF RegistryInv, R!TypeOK
        <4> QED BY <4>1, <4>2
      <3> QED BY <3>1 DEF Completed
    <2> QED
      BY <1>1, <1>2, <2>1 DEF IInv, CronAgrees, Told, Tests
  <1> QED
    BY <1>3, <1>5, <1>6, <1>7, <1>8, <1>9 DEF RegistryInv, IInv

-----------------------------------------------------------------------------
(* The cron loop, and everyone else.                                       *)

\* A pending is written when nobody waits; the row says how many outcomes
\* had been handed on by then.
LEMMA CronSavesIInv ==
  ASSUME IInv, CronSavesPending \/ CronSavesDisabled
  PROVE  IInv'
  <1> USE DEF registry
  <1>1. /\ UNCHANGED registry
        /\ UNCHANGED <<rows, mirror, handler, enabled, restarts>>
    BY DEF CronSavesPending, CronSavesDisabled
  <1>2. PICK s \in {"pending", "disabled"} :
          SaveAttempt(s) /\ cron' = [cron EXCEPT !.at = s]
    BY DEF CronSavesPending, CronSavesDisabled
  <1>3. s \in Attempts /\ s # "success"
    BY DEF Attempts
  <1>4. cron'.at = s /\ cron' \in
          [at : {"idle", "pending", "disabled", "starting", "waiting"},
           test : 0..MaxTests, own : BOOLEAN]
    BY <1>2 DEF IInv, TypeOK
  <1>5. RegistryInv'
    BY <1>1, RegistryRests
  <1>6. TypeOK'
    BY <1>1, <1>2, <1>3, <1>4, <1>5, AttemptSaved, Zenon
       DEF IInv, TypeOK, RegistryInv
  <1>7. HandlerAgrees' /\ RowsAgree'
    BY <1>1, <1>2, <1>3, AttemptSaved
       DEF IInv, HandlerAgrees, RowsAgree, RowDue
  <1>8. AttemptAgrees'
    <2>1. CASE attempt' = [status |-> s, at |-> Len(completions)]
      BY <1>1, <1>3, <2>1, SequenceTypes DEF AttemptAgrees
    <2>2. CASE attempt' = attempt /\ errors' # 0
      BY <1>1, <2>2 DEF IInv, AttemptAgrees
    <2> QED BY <1>2, <1>3, <2>1, <2>2, AttemptSaved
  <1>9. CronAgrees'
    BY <1>4 DEF CronAgrees
  <1> QED BY <1>5, <1>6, <1>7, <1>8, <1>9 DEF RegistryInv, IInv

\* Nothing the invariant speaks of depends on the mirror, the interval or a
\* cron loop that does not wait.
LEMMA AsideIInv ==
  ASSUME IInv, UNCHANGED <<registry, stored, handler, restarts>>,
         cron' = cron \/ cron'.at # "waiting", TypeOK'
  PROVE  IInv'
  <1>1. RegistryInv'
    BY RegistryRests
  <1>2. HandlerAgrees' /\ RowsAgree' /\ AttemptAgrees'
    BY DEF registry, stored, IInv, HandlerAgrees, RowsAgree, RowDue,
           AttemptAgrees
  <1>3. CronAgrees'
    BY DEF registry, stored, IInv, CronAgrees, Completed
  <1> QED BY <1>1, <1>2, <1>3 DEF RegistryInv, IInv

\* A cron loop at rest.
LEMMA IdleType ==
  /\ Idle \in [at : {"idle", "pending", "disabled", "starting", "waiting"},
               test : 0..MaxTests, own : BOOLEAN]
  /\ Idle.at = "idle"
  BY AttemptsAssumption DEF Idle, R!NoTest

\* The mirror, the cron loop's return, a settings save, a new snapshot.
LEMMA OthersIInv ==
  ASSUME IInv,
         CronMirrors \/ CronReturns \/ ToggleInterval \/ SnapshotCached
  PROVE  IInv'
  <1>1. UNCHANGED <<registry, stored, handler, restarts>>
    BY DEF CronMirrors, CronReturns, ToggleInterval, SnapshotCached
  <1>2. /\ cron \in [at : {"idle", "pending", "disabled", "starting",
                          "waiting"},
                    test : 0..MaxTests, own : BOOLEAN]
        /\ mirror \in Attempts \cup {"no snapshot", "absent"}
        /\ enabled \in BOOLEAN
    BY DEF IInv, TypeOK
  <1>3. cron' \in {cron, [cron EXCEPT !.at = "starting"], Idle}
    BY DEF CronMirrors, CronReturns, ToggleInterval, SnapshotCached
  <1>4. /\ cron' = cron \/ cron'.at # "waiting"
        /\ cron' \in [at : {"idle", "pending", "disabled", "starting",
                           "waiting"},
                     test : 0..MaxTests, own : BOOLEAN]
    <2>1. [cron EXCEPT !.at = "starting"] \in
            [at : {"idle", "pending", "disabled", "starting", "waiting"},
             test : 0..MaxTests, own : BOOLEAN]
      BY <1>2
    <2> QED BY <1>2, <1>3, <2>1, IdleType DEF Idle
  <1>5. mirror' \in Attempts \cup {"no snapshot", "absent"}
    BY <1>2
       DEF CronMirrors, CronReturns, ToggleInterval, SnapshotCached,
           MirrorAttempt, Attempts
  <1>6. enabled' \in BOOLEAN
    BY <1>2, Zenon
       DEF CronMirrors, CronReturns, ToggleInterval, SnapshotCached
  <1>7. TypeOK'
    BY <1>1, <1>4, <1>5, <1>6, RegistryRests, Zenon
       DEF IInv, TypeOK, RegistryInv, stored
  <1> QED BY <1>1, <1>4, <1>7, AsideIInv

\* The cron loop begins to wait for the test in the slot, its own if the slot
\* was free.
LEMMA CronStartsIInv == ASSUME IInv, CronStarts PROVE IInv'
  <1>1. /\ UNCHANGED <<stored, mirror, handler, enabled, restarts>>
        /\ cron' = [at |-> "waiting", test |-> active',
                    own |-> active = NoTest]
    BY DEF CronStarts, NoTest
  <1>2. ASSUME TypeOK', RegistryInv', HandlerAgrees', RowsAgree',
               AttemptAgrees', CronAgrees'
        PROVE  IInv'
    BY <1>2 DEF RegistryInv, IInv
  <1>3. ASSUME RegistryInv' PROVE TypeOK'
    <2>1. cron' \in [at : {"idle", "pending", "disabled", "starting",
                          "waiting"},
                    test : 0..MaxTests, own : BOOLEAN]
      BY <1>1, <1>3 DEF RegistryInv, R!TypeOK
    <2> QED BY <1>1, <1>3, <2>1, Zenon DEF IInv, TypeOK, RegistryInv, stored
  <1>4. CASE R!StartTest
    <2>1. CronAgrees'
      BY <1>1, <1>4, StartStores, RegistryPart
         DEF CronAgrees, Told, RegistryInv, R!TypeOK, Tests
    <2> QED BY <1>1, <1>2, <1>3, <1>4, <2>1, StartStores
  <1>5. CASE active # NoTest /\ UNCHANGED registry
    <2>1. RegistryInv'
      BY <1>5, RegistryRests
    <2>2. HandlerAgrees' /\ RowsAgree' /\ AttemptAgrees'
      BY <1>1, <1>5
         DEF registry, stored, IInv, HandlerAgrees, RowsAgree, RowDue,
             AttemptAgrees
    <2>3. active \in Tests /\ phase[active] \in R!Holding
      BY <1>5, RegistryPart, AttemptsAssumption
         DEF RegistryInv, R!TypeOK, SlotAgrees, Tests, R!Tests, NoTest,
             R!NoTest
    <2>4. CronAgrees'
      BY <1>1, <1>5, <2>3 DEF CronAgrees, registry, R!Holding
    <2> QED BY <1>2, <1>3, <2>1, <2>2, <2>4
  <1> QED BY <1>4, <1>5 DEF CronStarts, NoTest

\* A restart ends every test; what is in the store stays true.
LEMMA RestartIInv == ASSUME IInv, Restart PROVE IInv'
  <1> USE AttemptsAssumption DEF Tests, NoTest, stored
  <1>1. /\ active' = 0 /\ graceLT' = 0 /\ graceLapsed' = FALSE
        /\ inProgress' = FALSE /\ mirror' = "no snapshot"
        /\ handler' = "row" /\ cron' = Idle
        /\ UNCHANGED <<rows, attempt, errors, lastId, cancelled, verdict,
                       terminal, completions, enabled>>
    BY DEF Restart, R!NoTest
  <1>2. /\ phase' \in [R!Tests -> R!Phases]
        /\ \A t \in R!Tests : /\ phase'[t] = "unborn" <=> t > lastId
                              /\ phase'[t] \in {"ended", "unborn"}
    <2>1. \A t \in R!Tests : t > lastId <=> ~(t <= lastId)
      BY RegistryPart DEF RegistryInv, R!TypeOK, R!Tests
    <2>2. phase' = [t \in R!Tests |-> IF t <= lastId THEN "ended"
                                                    ELSE "unborn"]
      BY DEF Restart
    <2> QED BY <2>1, <2>2, Zenon DEF R!Phases
  <1>3. restarts' \in 0..MaxFaults
    <2>1. errors \in 0..MaxFaults /\ restarts \in 0..MaxFaults
      BY DEF IInv, TypeOK
    <2>2. errors + restarts < MaxFaults /\ restarts' = restarts + 1
      BY Zenon DEF Restart, MayFail
    <2> QED BY <2>1, <2>2
  <1>4. R!TypeOK'
    <2>1. 0 \in 0..MaxTests
      OBVIOUS
    <2> QED
      BY <1>1, <1>2, <2>1, RegistryPart, Zenon DEF RegistryInv, R!TypeOK
  <1>5. TypeOK'
    <2>1. cron' \in [at : {"idle", "pending", "disabled", "starting",
                          "waiting"},
                    test : 0..MaxTests, own : BOOLEAN]
      BY <1>1, IdleType
    <2> QED BY <1>1, <1>3, <1>4, <2>1, Zenon DEF IInv, TypeOK
  <1>6. SlotAgrees' /\ HasOutcome'
    <2>1. \A t \in R!Tests : t # 0
      BY DEF R!Tests
    <2>2. active' = R!NoTest /\ lastId' = lastId
      BY <1>1 DEF R!NoTest
    <2>3. SlotAgrees'
      BY <1>2, <2>1, <2>2, Zenon DEF SlotAgrees, R!Holding, R!NoTest
    <2> QED BY <1>2, <2>3, Zenon DEF HasOutcome, Told
  <1>7. CompletionsAgree'
    BY <1>1, <1>2, RegistryPart
       DEF RegistryInv, CompletionsAgree, Completed, Told, R!NoTest
  <1>8. HandlerAgrees' /\ RowsAgree' /\ AttemptAgrees' /\ CronAgrees'
    BY <1>1, IdleType
       DEF IInv, HandlerAgrees, RowsAgree, RowDue, AttemptAgrees, CronAgrees,
           R!NoTest
  <1> QED BY <1>5, <1>6, <1>7, <1>8 DEF IInv

\* Nothing is stored, and nobody waits.
LEMMA InitIInv == Init => IInv
  <1> SUFFICES ASSUME Init PROVE IInv
    OBVIOUS
  <1> USE AttemptsAssumption DEF Tests, NoTest
  <1>1. /\ lastId = 0 /\ active = 0 /\ graceLT = 0 /\ graceLapsed = FALSE
        /\ inProgress = FALSE /\ completions = <<>> /\ rows = <<>>
        /\ phase = [t \in R!Tests |-> "unborn"]
        /\ cancelled = [t \in R!Tests |-> FALSE]
        /\ verdict = [t \in R!Tests |-> "none"]
        /\ terminal = [t \in R!Tests |-> "none"]
    BY DEF Init, R!Init, R!NoTest
  <1>2. /\ attempt = [status |-> "none", at |-> 0] /\ mirror = "no snapshot"
        /\ handler = "row" /\ cron = Idle /\ enabled \in BOOLEAN
        /\ errors = 0 /\ restarts = 0
    BY Zenon DEF Init
  <1>3. 0 \in 0..MaxTests /\ 0 \in 0..MaxFaults /\ \A S : <<>> \in Seq(S)
    OBVIOUS
  <1>4. R!TypeOK
    <2>1. /\ phase \in [R!Tests -> R!Phases]
          /\ cancelled \in [R!Tests -> BOOLEAN]
          /\ verdict \in [R!Tests -> R!Outcomes \cup {"none"}]
          /\ terminal \in [R!Tests -> R!Outcomes \cup {"none"}]
      BY <1>1, Zenon DEF R!Phases
    <2> QED BY <1>1, <1>3, <2>1, Zenon DEF R!TypeOK
  <1>5. TypeOK
    <2>1. attempt \in [status : Attempts \cup {"none"}, at : 0..MaxTests]
      BY <1>2, <1>3
    <2> QED BY <1>1, <1>2, <1>3, <1>4, <2>1, IdleType, Zenon DEF TypeOK
  <1>6. DOMAIN rows = {} /\ DOMAIN completions = {} /\ Len(completions) = 0
    BY <1>1
  <1>7. SlotAgrees /\ HasOutcome /\ CompletionsAgree
    <2>1. \A t \in R!Tests : t > 0 /\ t # 0
      BY DEF R!Tests
    <2>2. \A t \in R!Tests : phase[t] = "unborn"
      BY <1>1, Zenon
    <2>3. SlotAgrees
      BY <1>1, <2>1, <2>2, SMT DEF SlotAgrees, R!Holding, R!NoTest
    <2>4. HasOutcome
      BY <2>2, Zenon DEF HasOutcome, Told
    <2>5. CompletionsAgree
      BY <1>1, <1>6, <2>2 DEF CompletionsAgree, R!NoTest, Told
    <2> QED BY <2>3, <2>4, <2>5
  <1>8. HandlerAgrees /\ RowsAgree /\ CronAgrees
    BY <1>2, <1>6, IdleType DEF HandlerAgrees, RowsAgree, CronAgrees
  <1>9. AttemptAgrees
    <2>1. attempt.status = "none" /\ attempt.at = 0
      BY <1>2
    <2> QED BY <1>6, <2>1 DEF AttemptAgrees
  <1> QED BY <1>5, <1>7, <1>8, <1>9 DEF IInv

\* Every step keeps the invariant.
LEMMA StepIInv == ASSUME IInv, [Next]_vars PROVE IInv'
  <1>1. ASSUME NEW t \in R!Tests, Handler(t)
        PROVE  IInv'
    BY <1>1, SavesRowIInv, SavesAttemptIInv, MirrorsIInv DEF Handler, Tests
  <1>2. ASSUME NEW t \in R!Tests, DriverStep(t)
        PROVE  IInv'
    BY <1>2, BeforeStampIInv, StampIInv, AfterToldIInv
       DEF DriverStep, Rest, Tests
  <1>3. ASSUME NEW t \in R!Tests, ApiCancels(t)
        PROVE  IInv'
    BY <1>3, CancelIInv DEF ApiCancels, Rest, Tests
  <1>4. CASE Cron \/ CronSavesPending
    BY <1>4, CronSavesIInv, OthersIInv, CronStartsIInv DEF Cron
  <1>5. CASE ApiStarts
    BY <1>5, ApiStartsIInv
  <1>6. CASE ToggleInterval \/ SnapshotCached
    BY <1>6, OthersIInv
  <1>7. CASE Restart
    BY <1>7, RestartIInv
  <1>8. CASE UNCHANGED vars
    <2>1. TypeOK'
      BY <1>8, RegistryRests, Zenon
         DEF vars, IInv, TypeOK, RegistryInv, stored
    <2> QED BY <1>8, <2>1, AsideIInv DEF vars
  <1> QED
    BY <1>1, <1>2, <1>3, <1>4, <1>5, <1>6, <1>7, <1>8 DEF Next

\* The invariant holds in every behaviour.
THEOREM Invariant == Spec => []IInv
  BY InitIInv, StepIInv, PTL DEF Spec

-----------------------------------------------------------------------------
(* What follows from it.                                                   *)

\* However cron runs, API runs, cancellations, refused writes and restarts
\* meet, the history has at most one row per test, in order and of the kind
\* the test ended with, a pending is replaced by the next outcome but one,
\* and a check that reports a measurement reports the newest test
\* (scheduler.go: the completion handler; checks.go: runSpeedCheck).
THEOREM StoredIsTrue == Spec => []AttemptsAreTrue
  <1>1. ASSUME IInv PROVE HistoryIsFaithful
    <2>1. ASSUME errors = 0, NEW i \in DOMAIN completions
          PROVE  (completions[i].outcome # "failed")
                   <=> \E j \in DOMAIN rows :
                         rows[j].test = completions[i].test
      <3>1. ASSUME NEW j \in DOMAIN rows,
                   rows[j].test = completions[i].test
            PROVE  completions[i].outcome # "failed"
        <4>1. rows[j].kind = completions[i].outcome
          BY <1>1, <3>1 DEF IInv, RowsAgree, CompletionsAgree
        <4>2. rows \in Seq([test : R!Tests, kind : {"success", "cancelled"}])
          BY <1>1 DEF IInv, TypeOK
        <4>3. rows[j] \in [test : R!Tests, kind : {"success", "cancelled"}]
          BY <4>2, Elements, Zenon
        <4> QED BY <4>1, <4>3
      <3> QED BY <1>1, <2>1, <3>1 DEF IInv, RowsAgree
    <2> QED BY <1>1, <2>1 DEF IInv, RowsAgree, HistoryIsFaithful
  <1>2. ASSUME IInv PROVE PendingIsReplaced
    BY <1>2 DEF IInv, AttemptAgrees, PendingIsReplaced
  <1>3. ASSUME IInv PROVE CheckMeasuresNewest
    <2>1. SpeedCheck = "measured" => attempt.status = "success"
      BY DEF SpeedCheck
    <2> QED BY <1>3, <2>1 DEF IInv, AttemptAgrees, CheckMeasuresNewest
  <1>4. IInv => AttemptsAreTrue
    BY <1>1, <1>2, <1>3 DEF IInv, AttemptsAreTrue
  <1> QED BY <1>4, Invariant, PTL

\* The cron loop moves on only after the outcome it waited for has been
\* handed on, and replaced the pending (scheduler.go:
\* runSpeedTestViaRegistry).
THEOREM CronWaits == Spec => CronMovesOnAfterOutcome
  <1>1. ASSUME IInv, Next,
               cron.at = "waiting" /\ cron'.at = "idle"
                 /\ restarts' = restarts
        PROVE  /\ \E i \in DOMAIN completions :
                    completions[i].test = cron.test
               /\ (cron.own /\ errors = 0) => attempt.status # "pending"
    <2>1. CronReturns
      <3>1. restarts \in 0..MaxFaults
        BY <1>1 DEF IInv, TypeOK
      <3>2. ASSUME Restart PROVE FALSE
        <4>1. restarts' = restarts + 1
          BY <3>2, Zenon DEF Restart
        <4> QED BY <1>1, <3>1, <4>1, AttemptsAssumption
      <3>3. cron' # cron
        BY <1>1
      <3> QED
        BY <1>1, <3>2, <3>3
           DEF Next, Handler, HandlerSavesRow, HandlerSavesAttempt,
               HandlerMirrors, DriverStep, ApiCancels, CronSavesPending,
               Cron, CronSavesDisabled, CronMirrors, CronStarts, ApiStarts,
               ToggleInterval, SnapshotCached
    <2>2. phase[cron.test] \in {"done", "ended"} /\ cron.test \in Tests
      BY <1>1, <2>1 DEF CronReturns, IInv, CronAgrees
    <2>3. Completed(cron.test)
      BY <1>1, <2>2 DEF IInv, CronAgrees, CompletionsAgree, Told
    <2> QED
      BY <1>1, <2>2, <2>3 DEF IInv, CronAgrees, Completed, Told
  <1>2. ASSUME IInv, [Next]_vars
        PROVE  [(cron.at = "waiting" /\ cron'.at = "idle"
                   /\ restarts' = restarts) =>
                  /\ \E i \in DOMAIN completions :
                       completions[i].test = cron.test
                  /\ (cron.own /\ errors = 0)
                       => attempt.status # "pending"]_vars
    BY <1>1, <1>2
  <1> QED BY Invariant, <1>2, PTL DEF Spec, CronMovesOnAfterOutcome
=============================================================================
