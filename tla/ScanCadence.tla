---------------------------- MODULE ScanCadence -----------------------------
(***************************************************************************)
(* The arithmetic of "what is due on this tick": the main loop's ticker    *)
(* (internal/scheduler/scheduler.go: Start), whose period is the fastest   *)
(* interval, and ScanDispatcher.Tick/MarkRan, which compare the start time *)
(* of a scan with the start time of the scan that last ran a subsystem.    *)
(*                                                                         *)
(* Time is a natural number.  A tick that fires while a scan runs waits in *)
(* the ticker's one-place channel, later ones are dropped; between         *)
(* receiving a tick and stamping the snapshot the goroutine may be delayed.*)
(***************************************************************************)
EXTENDS Naturals, Functions, FiniteSetsExt

CONSTANTS
  Subsystems,
  Interval,      \* each subsystem's effective interval
  MaxDelay,      \* latency between a tick and the snapshot's timestamp
  MaxDuration,   \* how long a scan may take after its timestamp
  MaxTime        \* bound: no tick is received later

ASSUME CadenceAssumption ==
  /\ Subsystems # {}
  /\ Interval \in [Subsystems -> Nat \ {0}]
  /\ MaxDelay \in Nat /\ MaxDuration \in Nat /\ MaxTime \in Nat

Period == Min(Range(Interval))    \* FastestInterval

VARIABLES
  base,        \* when NewTicker was called
  received,    \* when the last tick was received
  now,         \* snap.Timestamp of the last scan
  free,        \* when that scan ended
  lastRun      \* the dispatcher's lastRun

vars == <<base, received, now, free, lastRun>>

\* The first scan runs everything, then the ticker is made.
Init ==
  /\ now = 0
  /\ lastRun = [n \in Subsystems |-> 0]
  /\ free \in 0..MaxDuration
  /\ base = free
  /\ received = free

\* The first tick after the last one received.
NextTick == base + Period * (1 + (received - base) \div Period)

\* Mutant: > for >=.
DueLate(t) == {n \in Subsystems : t - lastRun[n] > Interval[n]}

\* ScanDispatcher.Tick; lastRun is never zero after the first scan.
Due(t) == {n \in Subsystems : t - lastRun[n] >= Interval[n]}

\* The loop receives a tick once it fired and the loop is free, and runs a
\* scan: every due subsystem is marked with the scan's timestamp.
Scan ==
  /\ received' = IF NextTick > free THEN NextTick ELSE free
  /\ received' <= MaxTime
  /\ \E delay \in 0..MaxDelay : now' = received' + delay
  /\ \E duration \in 0..MaxDuration : free' = now' + duration
  /\ lastRun' = [n \in Subsystems |->
                   IF n \in Due(now') THEN now' ELSE lastRun[n]]
  /\ UNCHANGED base

Spec == Init /\ [][Scan]_vars

-----------------------------------------------------------------------------
(* Properties.                                                             *)

TypeOK ==
  /\ base \in Nat /\ received \in Nat /\ now \in Nat /\ free \in Nat
  /\ lastRun \in [Subsystems -> Nat]

\* The longest time between two timestamps, but for the latency.
Round == Max({Period, MaxDuration})

\* No subsystem is forgotten: every scan finds each subsystem overdue by less
\* than one round of the loop, however ticks are late, dropped or skipped.
\* (The first tick comes a whole period after the first scan has ended.)
NeverLongOverdue ==
  [][now # 0 => \A n \in Subsystems :
       now' - lastRun[n] < Interval[n] + Round + MaxDelay]_vars
=============================================================================
