-------------------------- MODULE SpeedTestService --------------------------
(***************************************************************************)
(* What the live speed-test registry promises its callers, with no         *)
(* goroutines, locks, callbacks or cancellation: tests run one at a time,  *)
(* the outcome of every test is recorded exactly once while the test still *)
(* holds the slot, and outcomes are recorded in the order the tests were   *)
(* started.  The slot is given back only after the outcome is recorded.    *)
(*                                                                         *)
(* livetest.Registry (internal/livetest/registry.go:44-106) states this    *)
(* contract; SpeedTestRegistry implements it.                              *)
(***************************************************************************)
EXTENDS Naturals, Sequences

CONSTANT Outcomes    \* how a test can end

VARIABLES
  slot,              \* id of the test in flight, 0 when there is none
  recorded           \* recorded[i] is the outcome of test i

vars == <<slot, recorded>>

Init ==
  /\ slot = 0
  /\ recorded = << >>

\* A new test takes the free slot; ids follow each other.
Begin ==
  /\ slot = 0
  /\ slot' = Len(recorded) + 1
  /\ UNCHANGED recorded

\* The test in flight has its outcome recorded, once.
Record ==
  /\ slot = Len(recorded) + 1
  /\ \E o \in Outcomes : recorded' = Append(recorded, o)
  /\ UNCHANGED slot

\* The slot is given back after the outcome is recorded.
Release ==
  /\ slot # 0
  /\ slot = Len(recorded)
  /\ slot' = 0
  /\ UNCHANGED recorded

Next == Begin \/ Record \/ Release

\* The safety part: what may happen.
SafeSpec == Init /\ [][Next]_vars

\* A test that took the slot is recorded and gives the slot back.
Spec == SafeSpec /\ WF_vars(Record) /\ WF_vars(Release)
=============================================================================
