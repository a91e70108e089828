-------------------------- MODULE CapacityForecast --------------------------
(***************************************************************************)
(* When a volume will be full (analyzer/forecast.go): a line fitted to the *)
(* usage that scans have stored, some days of which they missed.  Usage is *)
(* in percent of the volume, time in days; the fit is kept as a fraction.  *)
(***************************************************************************)
EXTENDS Integers, Sequences

CONSTANTS
  Growths,     \* percent per day
  Starts,      \* usage on day 0
  Gaps,        \* days from one stored scan to the next
  MaxPoints    \* bound: scans kept

\* What the constants must be: scans are on different days.
ForecastAssumption ==
  /\ Growths \subseteq Int /\ Starts \subseteq 0 .. 100
  /\ Gaps \subseteq Nat \ {0}

VARIABLES
  growth,      \* what the volume really gains a day
  points       \* the stored series: [day, used]

vars == <<growth, points>>

Init ==
  /\ growth \in Growths
  /\ \E s \in Starts : points = <<[day |-> 0, used |-> s]>>

Latest == points[Len(points)]

\* A scan after some days, while the volume is neither full nor empty.
Scan(gap) ==
  LET used == Latest.used + growth * gap
  IN /\ Len(points) < MaxPoints /\ used \in 0 .. 100
     /\ points' = Append(points, [day |-> Latest.day + gap, used |-> used])
     /\ UNCHANGED growth

Next == \E gap \in Gaps : Scan(gap)

Spec == Init /\ [][Next]_vars

-----------------------------------------------------------------------------
(* The line through the points: slope = rise / run, and its value on the   *)
(* last day is level / (n * run).                                          *)

\* The sum of f[1] to f[n].
Sum(n, f) ==
  LET upTo[i \in 0 .. n] == IF i = 0 THEN 0 ELSE upTo[i - 1] + f[i]
  IN upTo[n]

\* Mutant: the scans are taken for days.
DaysByIndex(s) == [i \in 1 .. Len(s) |-> i - 1]

Days(s) == [i \in 1 .. Len(s) |-> s[i].day - s[1].day]

\* linearRegression
Line(s) ==
  LET n == Len(s)
      xs == Days(s)
      sumX == Sum(n, xs)
      sumY == Sum(n, [i \in 1 .. n |-> s[i].used])
      sumXY == Sum(n, [i \in 1 .. n |-> xs[i] * s[i].used])
      sumXX == Sum(n, [i \in 1 .. n |-> xs[i] * xs[i]])
      run == n * sumXX - sumX * sumX
      rise == n * sumXY - sumX * sumY
  IN IF run = 0 THEN [n |-> n, rise |-> 0, run |-> 1, level |-> sumY]
     ELSE [n |-> n, rise |-> rise, run |-> run,
           level |-> rise * n * xs[n] + sumY * run - rise * sumX]

\* daysToThreshold, rounded up, and capDays: -1 is never.
DaysToThreshold(line, threshold) ==
  LET short == threshold * line.n * line.run - line.level
      days == -((-short) \div (line.n * line.rise))
  IN IF short <= 0 THEN 0
     ELSE IF line.rise <= 0 \/ days > 3650 THEN -1 ELSE days

\* A forecast needs two points.
Forecast(threshold) == DaysToThreshold(Line(points), threshold)

\* forecastVolume's urgency: the forecast's, or that of the usage itself.
Urgency ==
  IF Forecast(100) \in 0 .. 29 \/ Latest.used >= 95 THEN "critical"
  ELSE IF Forecast(95) \in 0 .. 89 \/ Latest.used >= 90 THEN "warning"
  ELSE "ok"

-----------------------------------------------------------------------------
(* Properties.                                                             *)

\* The days a steadily growing volume really has until it holds so much.
DaysLeft(threshold) ==
  IF Latest.used >= threshold THEN 0
  ELSE IF growth <= 0 THEN -1
  ELSE CHOOSE d \in 1 .. 100 : /\ Latest.used + growth * d >= threshold
                               /\ Latest.used + growth * (d - 1) < threshold

\* A volume that grows steadily is full on the day the forecast names and
\* urgent in time, however many scans were missed and wherever the gaps are.
ForecastComesTrue ==
  Len(points) >= 2 =>
    /\ \A t \in {90, 95, 100} : Forecast(t) = DaysLeft(t)
    /\ DaysLeft(100) \in 0 .. 29 => Urgency = "critical"
=============================================================================
