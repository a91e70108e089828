----------------------------- MODULE QuietHours -----------------------------
(***************************************************************************)
(* When nothing is sent (scheduler/rules.go: inQuietHours): every day      *)
(* between two times of day, across midnight when the start is the later   *)
(* one.  A day has Day minutes, and every day as many.                     *)
(***************************************************************************)
EXTENDS Naturals

CONSTANT Day

QuietAssumption == Day \in Nat \ {0}

VARIABLES
  start, end,  \* minutes of the day
  enabled,
  now          \* minutes since midnight of the first of two days

vars == <<start, end, enabled, now>>

Init ==
  /\ start \in 0 .. Day - 1 /\ end \in 0 .. Day - 1
  /\ enabled \in BOOLEAN /\ now = 0

Tick == now < 2 * Day /\ now' = now + 1 /\ UNCHANGED <<start, end, enabled>>

Spec == Init /\ [][Tick]_vars

\* Mutant: one comparison for both cases.
InQuietHoursOneDay(t) ==
  /\ enabled /\ start # end
  /\ start <= t % Day /\ t % Day < end

InQuietHours(t) ==
  /\ enabled /\ start # end
  /\ IF start < end THEN start <= t % Day /\ t % Day < end
     ELSE start <= t % Day \/ t % Day < end

-----------------------------------------------------------------------------
(* Properties.                                                             *)

\* Only its start and its end change whether it is quiet.
ChangesOnTime ==
  (InQuietHours(now) # InQuietHours(now'))
    => now' % Day = IF InQuietHours(now') THEN start ELSE end

\* From its start on it lasts to its end, also of the next day.
LastsToTheEnd ==
  (enabled /\ start # end /\ now' % Day = start)
    => \A t \in now' .. now' + ((end + Day - start) % Day) - 1 :
         InQuietHours(t)

\* At its end it is not quiet any more.
EndsAtItsEnd == now' % Day = end => ~InQuietHours(now')

\* The quiet time is one span a day: it begins at its start, it ends at its
\* end and lasts from the one to the other, whichever comes first in the day.
QuietIsOneSpan == [][ChangesOnTime /\ LastsToTheEnd /\ EndsAtItsEnd]_vars
=============================================================================
