---------------------- MODULE SpeedTestRegistryProofs -----------------------
(***************************************************************************)
(* Proofs about SpeedTestRegistry, for any number of tests: its safety     *)
(* invariants, and that it implements the safety part of SpeedTestService. *)
(*                                                                         *)
(* None of the invariants is inductive alone.  What ties them together is  *)
(* that the slot, the ids and the list of completions agree on where every *)
(* test is (IInv): ids are handed out in order, only the newest test can   *)
(* hold the slot, and the tests whose handlers have run are exactly a      *)
(* prefix of the ids.                                                      *)
(***************************************************************************)
EXTENDS SpeedTestRegistry, TLAPS

\* The phases of a test whose completion handlers have run.
Recorded == {"notified", "released", "done", "ended"}

\* Ids follow each other.
Numbered == \A t \in Tests : phase[t] = "unborn" <=> t > lastId

\* The slot holds the test whose phase says so, and only the newest one.
SlotAgrees ==
  /\ \A t \in Tests : phase[t] \in Holding <=> active = t
  /\ active # NoTest => active = lastId

\* A test has an outcome from the runner's return on, stamped from
\* stampTerminal on.
HasOutcome ==
  \A t \in Tests :
    /\ phase[t] \in {"returned", "judged"} => verdict[t] \in Outcomes
    /\ phase[t] \in {"stamped"} \cup Recorded => terminal[t] \in Outcomes

\* The completions are those of the tests up to some id, in order, each
\* with the outcome that was stamped.
CompletionsAgree ==
  /\ \A t \in Tests : phase[t] \in Recorded <=> t <= Len(completions)
  /\ Len(completions) <= lastId
  /\ \A i \in 1..Len(completions) :
       completions[i] = [test |-> i, outcome |-> terminal[i]]

\* The grace slot only ever holds the newest test, and nothing while a test
\* is in flight, so a stream request cannot attach to a superseded run.
GraceIsNewest ==
  graceLT # NoTest => graceLT = lastId /\ active = NoTest

IInv ==
  /\ TypeOK
  /\ Numbered
  /\ SlotAgrees
  /\ HasOutcome
  /\ CompletionsAgree
  /\ GraceIsNewest
  /\ GaugeNotStuck

-----------------------------------------------------------------------------
(* The invariant is inductive.                                             *)

\* The initial state satisfies the invariant (NewManager).
LEMMA InitIInv == Init => IInv
  <1> SUFFICES ASSUME Init PROVE IInv
    OBVIOUS
  <1> USE MaxTestsAssumption DEF Init, Tests, NoTest
  <1>1. TypeOK
    <2>1. completions \in Seq(Completions)
      OBVIOUS
    <2>2. cancelled \in [Tests -> BOOLEAN] /\ graceLapsed \in BOOLEAN
      BY Zenon
    <2>3. /\ phase \in [Tests -> Phases]
          /\ verdict \in [Tests -> Outcomes \cup {"none"}]
          /\ terminal \in [Tests -> Outcomes \cup {"none"}]
      BY DEF Phases
    <2>4. /\ lastId \in 0..MaxTests /\ active \in 0..MaxTests
          /\ graceLT \in 0..MaxTests
      OBVIOUS
    <2> QED BY <2>1, <2>2, <2>3, <2>4, Zenon DEF TypeOK
  <1>2. Numbered /\ HasOutcome /\ GaugeNotStuck /\ GraceIsNewest
    BY SMT DEF Numbered, HasOutcome, GaugeNotStuck, GraceIsNewest, Recorded
  <1>3. SlotAgrees
    BY SMT DEF SlotAgrees, Holding
  <1>4. CompletionsAgree
    BY SMT DEF CompletionsAgree, Recorded
  <1> QED BY <1>1, <1>2, <1>3, <1>4 DEF IInv

\* The test that holds the slot is the newest one, and all the others that
\* were started are recorded.
LEMMA SlotIsNext ==
  ASSUME IInv, NEW t \in Tests, phase[t] \in Holding
  PROVE  /\ active = t /\ lastId = t
         /\ phase[t] # "notified" => t = Len(completions) + 1
         /\ phase[t] = "notified" => t = Len(completions)
  <1> USE MaxTestsAssumption DEF Tests, NoTest
  <1>1. active = t /\ lastId = t
    BY DEF IInv, SlotAgrees
  <1>2. Len(completions) \in Nat /\ Len(completions) <= t
    <2>1. completions \in Seq(Completions)
      BY DEF IInv, TypeOK
    <2> QED BY <1>1, <2>1 DEF IInv, CompletionsAgree
  <1>3. \A u \in Tests : u < t => phase[u] \in Recorded
    BY <1>1, SMT
       DEF IInv, TypeOK, Phases, Holding, Recorded, Numbered, SlotAgrees
  <1>4. Len(completions) >= t - 1
    <2>1. CASE t = 1
      BY <1>2, <2>1
    <2>2. CASE t # 1
      <3>1. t - 1 \in Tests /\ t - 1 < t
        BY <2>2
      <3> QED BY <1>3, <3>1 DEF IInv, CompletionsAgree
    <2> QED BY <2>1, <2>2
  <1>5. phase[t] = "notified" <=> t <= Len(completions)
    BY DEF IInv, CompletionsAgree, Holding, Recorded
  <1> QED BY <1>1, <1>2, <1>4, <1>5, SMT

\* A new test takes the slot and the next id, and empties the grace slot.
LEMMA StartTestIInv == ASSUME IInv, StartTest PROVE IInv'
  <1> USE MaxTestsAssumption
  <1> DEFINE t == lastId + 1
  <1>1. t \in Tests /\ phase[t] = "unborn" /\ t > Len(completions)
    BY SMT DEF IInv, TypeOK, StartTest, Tests, Numbered, CompletionsAgree
  <1>2. /\ phase' = [phase EXCEPT ![t] = "reserved"]
        /\ lastId' = t /\ active' = t /\ graceLT' = NoTest
    BY DEF StartTest
  <1>3. TypeOK'
    <2>1. lastId' \in 0..MaxTests /\ active' \in 0..MaxTests
          /\ graceLT' \in 0..MaxTests
      BY <1>1, <1>2, SMT DEF Tests, NoTest
    <2>2. phase' \in [Tests -> Phases]
      BY <1>1, <1>2, SMT DEF IInv, TypeOK, Phases
    <2> QED BY <2>1, <2>2 DEF IInv, TypeOK, StartTest
  <1>4. Numbered'
    BY <1>1, <1>2, SMT DEF IInv, TypeOK, Numbered, Tests
  <1>5. SlotAgrees'
    BY <1>1, <1>2, SMT
       DEF IInv, TypeOK, SlotAgrees, StartTest, Holding, Tests, NoTest
  <1>6. HasOutcome'
    BY <1>1, <1>2, SMT DEF IInv, TypeOK, HasOutcome, StartTest, Recorded, Tests
  <1>7. CompletionsAgree'
    BY <1>1, <1>2, SMT
       DEF IInv, TypeOK, CompletionsAgree, StartTest, Recorded, Tests
  <1>8. GraceIsNewest' /\ GaugeNotStuck'
    BY <1>1, <1>2, SMT
       DEF IInv, TypeOK, GraceIsNewest, GaugeNotStuck, StartTest, Holding,
           Tests
  <1> QED BY <1>3, <1>4, <1>5, <1>6, <1>7, <1>8 DEF IInv

\* running=true and the launch of the driver goroutine.
LEMMA LaunchDriverIInv ==
  ASSUME IInv, NEW t \in Tests, LaunchDriver(t)
  PROVE  IInv'
  <1> USE DEF Move
  <1>1. TypeOK'
    BY DEF IInv, TypeOK, LaunchDriver, Phases
  <1>2. Numbered' /\ SlotAgrees'
    BY SMT
       DEF IInv, TypeOK, LaunchDriver, Numbered, SlotAgrees, Holding, NoTest
  <1>3. HasOutcome'
    BY SMT DEF IInv, TypeOK, LaunchDriver, HasOutcome, Recorded
  <1>4. CompletionsAgree'
    BY SMT DEF IInv, TypeOK, LaunchDriver, CompletionsAgree, Recorded
  <1>5. GraceIsNewest' /\ GaugeNotStuck'
    BY SMT
       DEF IInv, TypeOK, LaunchDriver, GraceIsNewest, GaugeNotStuck, Holding,
           NoTest
  <1> QED BY <1>1, <1>2, <1>3, <1>4, <1>5 DEF IInv

\* The runner's return gives the test an outcome.
LEMMA RunnerReturnsIInv ==
  ASSUME IInv, NEW t \in Tests, RunnerReturns(t)
  PROVE  IInv'
  <1> USE DEF Move
  <1>1. TypeOK'
    BY DEF IInv, TypeOK, RunnerReturns, Phases, RunnerOutcomes, Outcomes
  <1>2. Numbered' /\ SlotAgrees'
    BY SMT
       DEF IInv, TypeOK, RunnerReturns, Numbered, SlotAgrees, Holding, NoTest
  <1>3. HasOutcome'
    BY SMT DEF IInv, TypeOK, RunnerReturns, HasOutcome, Recorded,
             RunnerOutcomes, Outcomes
  <1>4. CompletionsAgree'
    BY SMT DEF IInv, TypeOK, RunnerReturns, CompletionsAgree, Recorded
  <1>5. GraceIsNewest' /\ GaugeNotStuck'
    BY SMT
       DEF IInv, TypeOK, RunnerReturns, GraceIsNewest, GaugeNotStuck, Holding,
           NoTest
  <1> QED BY <1>1, <1>2, <1>3, <1>4, <1>5 DEF IInv

\* The cancellation override leaves an outcome.
LEMMA JudgeCancelledIInv ==
  ASSUME IInv, NEW t \in Tests, JudgeCancelled(t)
  PROVE  IInv'
  <1> USE DEF Move
  <1>1. TypeOK'
    BY DEF IInv, TypeOK, JudgeCancelled, Phases, Outcomes
  <1>2. Numbered' /\ SlotAgrees'
    BY SMT
       DEF IInv, TypeOK, JudgeCancelled, Numbered, SlotAgrees, Holding, NoTest
  <1>3. HasOutcome'
    BY SMT DEF IInv, TypeOK, JudgeCancelled, HasOutcome, Recorded, Outcomes
  <1>4. CompletionsAgree'
    BY SMT DEF IInv, TypeOK, JudgeCancelled, CompletionsAgree, Recorded
  <1>5. GraceIsNewest' /\ GaugeNotStuck'
    BY SMT
       DEF IInv, TypeOK, JudgeCancelled, GraceIsNewest, GaugeNotStuck,
           Holding, NoTest
  <1> QED BY <1>1, <1>2, <1>3, <1>4, <1>5 DEF IInv

\* The stamp changes no completion: the test has none yet.
LEMMA StampTerminalIInv ==
  ASSUME IInv, NEW t \in Tests, StampTerminal(t)
  PROVE  IInv'
  <1> USE DEF Move
  <1>1. TypeOK'
    BY DEF IInv, TypeOK, StampTerminal, Phases
  <1>2. Numbered' /\ SlotAgrees'
    BY SMT
       DEF IInv, TypeOK, StampTerminal, Numbered, SlotAgrees, Holding, NoTest
  <1>3. HasOutcome'
    BY SMT DEF IInv, TypeOK, StampTerminal, HasOutcome, Recorded
  <1>4. CompletionsAgree'
    BY SMT DEF IInv, TypeOK, StampTerminal, CompletionsAgree, Recorded
  <1>5. GraceIsNewest' /\ GaugeNotStuck'
    BY SMT
       DEF IInv, TypeOK, StampTerminal, GraceIsNewest, GaugeNotStuck, Holding,
           NoTest
  <1> QED BY <1>1, <1>2, <1>3, <1>4, <1>5 DEF IInv

\* The test that gives the slot back is the newest one, and becomes the
\* grace slot's.
LEMMA ReleaseSlotIInv ==
  ASSUME IInv, NEW t \in Tests, ReleaseSlot(t)
  PROVE  IInv'
  <1> USE DEF Move
  <1>0. active = t /\ lastId = t
    BY SlotIsNext DEF ReleaseSlot, Holding
  <1>1. TypeOK'
    <2>1. /\ active' \in 0..MaxTests /\ graceLT' \in 0..MaxTests
          /\ phase' \in [Tests -> Phases]
      BY MaxTestsAssumption, SMT
         DEF IInv, TypeOK, ReleaseSlot, Phases, Tests, NoTest
    <2> QED BY <2>1, Zenon DEF IInv, TypeOK, ReleaseSlot
  <1>2. Numbered' /\ SlotAgrees'
    BY <1>0, MaxTestsAssumption, SMT
       DEF IInv, TypeOK, ReleaseSlot, Numbered, SlotAgrees, Holding, NoTest,
           Tests
  <1>3. HasOutcome'
    BY SMT DEF IInv, TypeOK, ReleaseSlot, HasOutcome, Recorded
  <1>4. CompletionsAgree'
    BY SMT DEF IInv, TypeOK, ReleaseSlot, CompletionsAgree, Recorded
  <1>5. GraceIsNewest' /\ GaugeNotStuck'
    BY <1>0, MaxTestsAssumption, SMT
       DEF IInv, TypeOK, ReleaseSlot, GraceIsNewest, GaugeNotStuck, Holding,
           NoTest
  <1> QED BY <1>1, <1>2, <1>3, <1>4, <1>5 DEF IInv

\* Closing Done.
LEMMA CloseDoneIInv == ASSUME IInv, NEW t \in Tests, CloseDone(t) PROVE IInv'
  <1> USE DEF Move
  <1>1. TypeOK'
    BY DEF IInv, TypeOK, CloseDone, Phases
  <1>2. Numbered' /\ SlotAgrees'
    BY SMT DEF IInv, TypeOK, CloseDone, Numbered, SlotAgrees, Holding, NoTest
  <1>3. HasOutcome'
    BY SMT DEF IInv, TypeOK, CloseDone, HasOutcome, Recorded
  <1>4. CompletionsAgree'
    BY SMT DEF IInv, TypeOK, CloseDone, CompletionsAgree, Recorded
  <1>5. GraceIsNewest' /\ GaugeNotStuck'
    BY SMT
       DEF IInv, TypeOK, CloseDone, GraceIsNewest, GaugeNotStuck, Holding,
           NoTest
  <1> QED BY <1>1, <1>2, <1>3, <1>4, <1>5 DEF IInv

\* running=false.
LEMMA NotifyIdleIInv == ASSUME IInv, NEW t \in Tests, NotifyIdle(t) PROVE IInv'
  <1> USE DEF Move
  <1>1. TypeOK'
    BY DEF IInv, TypeOK, NotifyIdle, Phases
  <1>2. Numbered' /\ SlotAgrees'
    BY SMT DEF IInv, TypeOK, NotifyIdle, Numbered, SlotAgrees, Holding, NoTest
  <1>3. HasOutcome'
    BY SMT DEF IInv, TypeOK, NotifyIdle, HasOutcome, Recorded
  <1>4. CompletionsAgree'
    BY SMT DEF IInv, TypeOK, NotifyIdle, CompletionsAgree, Recorded
  <1>5. GraceIsNewest' /\ GaugeNotStuck'
    BY SMT
       DEF IInv, TypeOK, NotifyIdle, GraceIsNewest, GaugeNotStuck, Holding,
           NoTest
  <1> QED BY <1>1, <1>2, <1>3, <1>4, <1>5 DEF IInv

\* The completion of the test in flight is the next one in the list.
LEMMA NotifyCompletionIInv ==
  ASSUME IInv, NEW t \in Tests, NotifyCompletion(t) PROVE IInv'
  <1> USE DEF Move
  <1> DEFINE c == [test |-> t, outcome |-> terminal[t]]
  <1>0. /\ active = t /\ lastId = t /\ t = Len(completions) + 1
    BY SlotIsNext DEF NotifyCompletion, Holding
  <1>1. /\ completions \in Seq(Completions) /\ c \in Completions
        /\ completions' = Append(completions, c)
    BY DEF IInv, TypeOK, HasOutcome, NotifyCompletion, Completions
  <1>2. /\ completions' \in Seq(Completions)
        /\ Len(completions') = t
        /\ \A i \in 1..Len(completions) : completions'[i] = completions[i]
        /\ completions'[t] = c
    <2> HIDE DEF c
    <2> QED BY <1>0, <1>1
  <1>3. TypeOK'
    BY <1>2 DEF IInv, TypeOK, NotifyCompletion, Phases
  <1>4. Numbered' /\ SlotAgrees'
    BY SMT
       DEF IInv, TypeOK, NotifyCompletion, Numbered, SlotAgrees, Holding,
           NoTest
  <1>5. HasOutcome'
    BY SMT DEF IInv, TypeOK, NotifyCompletion, HasOutcome, Recorded
  <1>6. CompletionsAgree'
    <2>1. \A u \in Tests : phase'[u] \in Recorded <=> u <= t
      BY <1>0, SMT
         DEF IInv, TypeOK, NotifyCompletion, CompletionsAgree, Recorded, Tests
    <2>2. \A i \in 1..t :
            completions'[i] = [test |-> i, outcome |-> terminal'[i]]
      <3> SUFFICES
            ASSUME NEW i \in 1..t
            PROVE  completions'[i] = [test |-> i, outcome |-> terminal'[i]]
        OBVIOUS
      <3>1. terminal' = terminal
        BY DEF NotifyCompletion
      <3>2. CASE i = t
        BY <1>2, <3>1, <3>2
      <3>3. CASE i # t
        <4>1. i \in 1..Len(completions)
          BY <1>0, <1>1, <3>3 DEF Tests
        <4> QED BY <1>2, <3>1, <4>1 DEF IInv, CompletionsAgree
      <3> QED BY <3>2, <3>3
    <2> QED BY <1>0, <1>2, <2>1, <2>2
       DEF CompletionsAgree, NotifyCompletion, Tests
  <1>7. GraceIsNewest' /\ GaugeNotStuck'
    BY SMT
       DEF IInv, TypeOK, NotifyCompletion, GraceIsNewest, GaugeNotStuck,
           Holding
  <1> QED BY <1>3, <1>4, <1>5, <1>6, <1>7 DEF IInv

\* Cancel, GetLive and the grace timer leave the tests where they are.
LEMMA OthersIInv ==
  ASSUME IInv,
         \/ GraceLapses
         \/ \E t \in Tests : Cancel(t) \/ ForgetLapsed(t)
  PROVE  IInv'
  <1>1. /\ UNCHANGED <<lastId, active, phase, verdict, terminal, completions,
                      inProgress>>
        /\ graceLT' \in {graceLT, NoTest}
    BY DEF GraceLapses, Cancel, ForgetLapsed
  <1>2. cancelled' \in [Tests -> BOOLEAN] /\ graceLapsed' \in BOOLEAN
    BY DEF IInv, TypeOK, GraceLapses, Cancel, ForgetLapsed
  <1>3. graceLT' \in 0..MaxTests
    BY <1>1, MaxTestsAssumption DEF IInv, TypeOK, NoTest
  <1>4. TypeOK'
    BY <1>1, <1>2, <1>3, Zenon DEF IInv, TypeOK
  <1> QED
    BY <1>1, <1>4
       DEF IInv, Numbered, SlotAgrees, HasOutcome, CompletionsAgree,
           GraceIsNewest, GaugeNotStuck

\* The invariant holds in every behaviour of the registry.
THEOREM Invariant == Spec => []IInv
  <1>1. ASSUME IInv, [Next]_vars PROVE IInv'
    <2>1. CASE StartTest
      BY <1>1, <2>1, StartTestIInv
    <2>2. CASE GraceLapses
      BY <1>1, <2>2, OthersIInv
    <2>3. ASSUME NEW t \in Tests,
                 LaunchDriver(t) \/ RunnerReturns(t) \/ DriverStep(t)
          PROVE  IInv'
      BY <1>1, <2>3, LaunchDriverIInv, RunnerReturnsIInv, JudgeCancelledIInv,
         StampTerminalIInv, NotifyCompletionIInv, ReleaseSlotIInv,
         CloseDoneIInv, NotifyIdleIInv
         DEF DriverStep
    <2>4. ASSUME NEW t \in Tests, Cancel(t) \/ ForgetLapsed(t)
          PROVE  IInv'
      BY <1>1, <2>4, OthersIInv
    <2>5. CASE UNCHANGED vars
      BY <1>1, <2>5
         DEF vars, IInv, TypeOK, Numbered, SlotAgrees, HasOutcome,
             CompletionsAgree, GraceIsNewest, GaugeNotStuck
    <2> QED BY <1>1, <2>1, <2>2, <2>3, <2>4, <2>5 DEF Next
  <1> QED BY InitIInv, <1>1, PTL DEF Spec

-----------------------------------------------------------------------------
(* What follows from it.                                                   *)

\* Every variable keeps its type, for any number of tests (registry.go,
\* livetest.go: the fields of Manager and LiveTest).
THEOREM TypeCorrect == Spec => []TypeOK
  BY Invariant, PTL DEF IInv

\* Two calls of StartTest never have two runners going (registry.go:272).
THEOREM OneTestInFlight == Spec => []SingleFlight
  <1>1. IInv => SingleFlight
    BY DEF IInv, SlotAgrees, SingleFlight
  <1> QED BY <1>1, Invariant, PTL

\* The outcome of a started test that no longer holds the slot is the one
\* entry of that test in the list of completions.
LEMMA RecordedOnce ==
  ASSUME IInv, NEW t \in Tests, phase[t] \in Recorded
  PROVE  /\ t \in DOMAIN completions
         /\ completions[t] = [test |-> t, outcome |-> terminal[t]]
         /\ \A j \in DOMAIN completions : completions[j].test = j
  <1>1. completions \in Seq(Completions)
    BY DEF IInv, TypeOK
  <1>2. DOMAIN completions = 1..Len(completions)
    BY <1>1
  <1>3. t \in 1..Len(completions)
    BY <1>1 DEF IInv, CompletionsAgree, Tests
  <1> QED BY <1>2, <1>3 DEF IInv, CompletionsAgree

\* Whoever wakes on Done() finds the outcome recorded exactly once
\* (driveTest's deferred cleanup, registry.go:439-491).
THEOREM DoneIsRecorded == Spec => []DoneMeansRecorded
  <1>1. ASSUME IInv, NEW t \in Tests, phase[t] \in {"done", "ended"}
        PROVE  /\ active # t
               /\ \E i \in DOMAIN completions :
                    /\ completions[i] = [test |-> t, outcome |-> terminal[t]]
                    /\ \A j \in DOMAIN completions :
                         completions[j].test = t => j = i
    <2>1. active # t
      BY <1>1 DEF IInv, SlotAgrees, Holding
    <2>2. /\ t \in DOMAIN completions
          /\ completions[t] = [test |-> t, outcome |-> terminal[t]]
          /\ \A j \in DOMAIN completions : completions[j].test = t => j = t
      BY <1>1, RecordedOnce DEF Recorded
    <2> QED BY <2>1, <2>2
  <1>2. IInv => DoneMeansRecorded
    BY <1>1 DEF DoneMeansRecorded
  <1> QED BY <1>2, Invariant, PTL

\* A refused Cancel never hides a test whose outcome is still to come
\* (Manager.Cancel, registry.go:328-353).
THEOREM RefusalIsHonest == Spec => []RefusedMeansRecorded
  <1>1. ASSUME IInv, NEW t \in 1..lastId, CancelAnswer(t) # "accepted"
        PROVE  \E i \in DOMAIN completions : completions[i].test = t
    <2>1. t \in Tests /\ t <= lastId
      BY <1>1, MaxTestsAssumption DEF IInv, TypeOK, Tests
    <2>2. active # t
      BY <1>1 DEF CancelAnswer
    <2>3. phase[t] \in Recorded
      BY <1>1, <2>1, <2>2
         DEF IInv, TypeOK, Numbered, SlotAgrees, Phases, Holding, Recorded
    <2> QED BY <1>1, <2>1, <2>3, RecordedOnce
  <1>2. IInv => RefusedMeansRecorded
    BY <1>1 DEF RefusedMeansRecorded
  <1> QED BY <1>2, Invariant, PTL

\* The gauge is 1 only while a goroutine that will fire running=false is on
\* its way (registry.go:482-490).
THEOREM GaugeComesDown == Spec => []GaugeNotStuck
  BY Invariant, PTL DEF IInv

-----------------------------------------------------------------------------
(* The registry implements the service.                                    *)

\* The list of outcomes is as long as the list of completions.
LEMMA MappedCompletions ==
  ASSUME NEW s \in Seq(Completions)
  PROVE  LET r == [i \in DOMAIN s |-> s[i].outcome]
         IN  r \in Seq(Outcomes) /\ Len(r) = Len(s)
  <1> DEFINE r == [i \in DOMAIN s |-> s[i].outcome]
  <1>1. DOMAIN s = 1..Len(s) /\ Len(s) \in Nat
    OBVIOUS
  <1>2. \A i \in 1..Len(s) : s[i] \in Completions
    OBVIOUS
  <1>3. r \in [1..Len(s) -> Outcomes]
    BY <1>1, <1>2 DEF Completions
  <1> HIDE DEF r
  <1>4. r \in Seq(Outcomes)
    BY <1>1, <1>3
  <1>5. Len(r) = Len(s)
    BY <1>1, <1>3, <1>4
  <1> QED BY <1>4, <1>5 DEF r

\* Appending a completion appends its outcome.
LEMMA MappedAppend ==
  ASSUME NEW s \in Seq(Completions), NEW t, NEW o \in Outcomes
  PROVE  LET r == [i \in DOMAIN s |-> s[i].outcome]
             e == [test |-> t, outcome |-> o]
             s1 == Append(s, e)
         IN  [i \in DOMAIN s1 |-> s1[i].outcome] = Append(r, o)
  OBVIOUS

\* Every step of the registry is a step of the service or leaves it alone
\* (the Registry interface's contract, registry.go:69-106).
THEOREM Implements == Spec => Service!SafeSpec
  <1> USE DEF NoTest
  <1>1. Init => Service!Init
    BY DEF Init, Service!Init
  <1>2. ASSUME IInv, [Next]_vars PROVE [Service!Next]_(Service!vars)
    <2> DEFINE
          recorded == [i \in DOMAIN completions |-> completions[i].outcome]
    <2>0. recorded \in Seq(Outcomes) /\ Len(recorded) = Len(completions)
      BY <1>2, MappedCompletions DEF IInv, TypeOK
    <2>1. CASE StartTest
      <3>1. lastId = Len(recorded)
        <4>1. Len(completions) \in Nat /\ Len(completions) <= lastId
          BY <1>2, <2>0 DEF IInv, CompletionsAgree
        <4>2. CASE lastId = 0
          BY <2>0, <4>1, <4>2
        <4>3. CASE lastId # 0
          <5>1. lastId \in Tests /\ phase[lastId] \in Recorded
            BY <1>2, <2>1, <4>3, MaxTestsAssumption
               DEF IInv, TypeOK, StartTest, Tests, Numbered, SlotAgrees,
                   Phases,
                   Holding, Recorded
          <5>2. lastId <= Len(completions)
            BY <1>2, <5>1 DEF IInv, CompletionsAgree
          <5> HIDE DEF recorded
          <5> QED BY <2>0, <4>1, <5>1, <5>2 DEF Tests
        <4> QED BY <4>2, <4>3
      <3> QED BY <2>1, <3>1 DEF StartTest, Service!Next, Service!Begin
    <2>2. ASSUME NEW t \in Tests, NotifyCompletion(t)
          PROVE  Service!Record
      <3>1. active = t /\ t = Len(completions) + 1
        BY <1>2, <2>2, SlotIsNext DEF NotifyCompletion, Move, Holding
      <3>2. terminal[t] \in Outcomes
        BY <1>2, <2>2 DEF IInv, HasOutcome, NotifyCompletion, Move
      <3>3. [i \in DOMAIN completions' |-> completions'[i].outcome]
              = Append(recorded, terminal[t])
        BY <1>2, <2>2, <3>2, MappedAppend DEF IInv, TypeOK, NotifyCompletion
      <3> QED
        BY <2>0, <2>2, <3>1, <3>2, <3>3 DEF NotifyCompletion, Service!Record
    <2>3. ASSUME NEW t \in Tests, ReleaseSlot(t)
          PROVE  Service!Release
      <3>1. active = t /\ t = Len(completions)
        BY <1>2, <2>3, SlotIsNext DEF ReleaseSlot, Move, Holding
      <3> QED BY <2>0, <2>3, <3>1 DEF ReleaseSlot, Service!Release, Tests
    <2>4. ASSUME UNCHANGED <<active, completions>>
          PROVE  UNCHANGED Service!vars
      BY <2>4 DEF Service!vars
    <2>5. ASSUME NEW t \in Tests,
                 \/ LaunchDriver(t) \/ RunnerReturns(t) \/ JudgeCancelled(t)
                 \/ StampTerminal(t) \/ CloseDone(t) \/ NotifyIdle(t)
                 \/ Cancel(t) \/ ForgetLapsed(t) \/ GraceLapses
          PROVE  UNCHANGED <<active, completions>>
      BY <2>5
         DEF LaunchDriver, RunnerReturns, JudgeCancelled, StampTerminal,
             CloseDone, NotifyIdle, Cancel, ForgetLapsed, GraceLapses
    <2>6. CASE UNCHANGED vars \/ GraceLapses
      BY <2>4, <2>6 DEF vars, GraceLapses
    <2> QED
      BY <1>2, <2>1, <2>2, <2>3, <2>4, <2>5, <2>6
         DEF Next, DriverStep, Service!Next
  <1> QED BY <1>1, <1>2, Invariant, PTL DEF Spec, Service!SafeSpec
=============================================================================
