---------------------------- MODULE DriveHealth -----------------------------
(***************************************************************************)
(* What the program makes of one drive that wears out: smartctl's answer   *)
(* is parsed (collector/smart.go), rated against Backblaze's tiers         *)
(* (analyzer/backblaze_thresholds.go), judged by the analyzer              *)
(* (analyzeSMART, analyzeThermal), by the trend over its history           *)
(* (scheduler.go: buildSMARTTrendFindings) and by the replacement planner  *)
(* (replacement.go).                                                       *)
(*                                                                         *)
(* A health score is in tenths of a point and a failure multiplier in      *)
(* fortieths, so that all of them are integers.                            *)
(***************************************************************************)
EXTENDS BackblazeThresholds, Sequences

CONSTANTS
  Levels,      \* the values each attribute passes through, in order
  Outputs      \* what smartctl prints: "json" (7.x), "text" (6.x)

Attributes == {"reallocated", "pending", "crc", "timeout", "temp", "hours"}

\* What the constants must be: an attribute only rises, and smartctl has read
\* the drive, so it has a temperature or has been on.
DrivesAssumption ==
  /\ Outputs \subseteq {"json", "text"}
  /\ Levels \in [Attributes -> Seq(Nat)]
  /\ \A a \in Attributes :
       /\ Levels[a] # <<>>
       /\ \A i, j \in DOMAIN Levels[a] :
            i <= j => Levels[a][i] <= Levels[a][j]
  /\ Levels["temp"][1] > 0 \/ Levels["hours"][1] > 0

VARIABLES
  drive,       \* level of each attribute, self-assessment and kind
  output       \* of the host's smartctl

vars == <<drive, output>>

Kinds == {"hdd", "ssd", "nvme"}

Value(a) == Levels[a][drive.level[a]]

-----------------------------------------------------------------------------
(* Reading: a SMARTInfo.                                                   *)

\* Text does not tell an SSD from a disk.
IsFlash(o) == drive.kind = "nvme" \/ (drive.kind = "ssd" /\ o = "json")

\* Both parsers take the attributes; JSON without a self-assessment counts
\* as passed, text without one as failed, and only JSON sets DataAvailable.
Parsed(o) ==
  [reallocated |-> Value("reallocated"), pending |-> Value("pending"),
   crc |-> Value("crc"), timeout |-> Value("timeout"),
   temp |-> Value("temp"), hours |-> Value("hours"),
   passed |-> \/ drive.assessment = "passed"
              \/ drive.assessment = "absent" /\ o = "json",
   available |-> o = "json" /\ (Value("temp") > 0 \/ Value("hours") > 0),
   flash |-> IsFlash(o)]

info == Parsed(output)

-----------------------------------------------------------------------------
(* The analyzer's findings about the drive: which rule, how severe.        *)

Finding(rule, sev) == [rule |-> rule, sev |-> sev]
Rated(rule, tier) == IF tier.sev = "none" THEN {}
                     ELSE {Finding(rule, tier.sev)}

\* analyzeSMART.  Any pending sector is critical.
AnalyzeSMART(d) ==
  IF ~d.available THEN {Finding("unavailable", "warning")}
  ELSE (IF d.passed THEN {} ELSE {Finding("health", "critical")})
       \cup Rated("reallocated", GetReallocatedTier(d.reallocated))
       \cup Rated("pending", GetPendingTier(d.pending))
       \cup Rated("crc", GetCRCTier(d.crc))
       \cup Rated("timeout", GetCmdTimeoutTier(d.timeout))
       \cup Rated("age", GetAgeTier(d.hours))
       \cup (IF HealthScore(d) < 50 /\ d.passed
               THEN {Finding("score", "critical")} ELSE {})

\* analyzeThermal, for one drive.
AnalyzeThermal(d) == Rated("temp", GetTempTier(d.temp))

\* buildSMARTTrendFindings: the newest row of the history against the oldest.
TrendFindings(first, last) ==
  LET Delta(a) == last[a] - first[a]
      hotter == Delta("temp") >= 4
      worsening == \/ Delta("reallocated") > 0 \/ Delta("pending") > 0
                   \/ Delta("crc") > 0
                   \/ hotter /\ last.temp >= 45
      risk == (IF last.pending > 0 THEN 40 ELSE 0)
              + (IF Delta("pending") > 0 THEN 25 ELSE 0)
              + (IF Delta("reallocated") > 0
                   THEN Capped(Delta("reallocated"), 20) ELSE 0)
              + (IF Delta("crc") > 5 THEN 10 ELSE 0)
              + (IF last.temp >= 50 THEN 15
                 ELSE IF last.temp >= 45 THEN 8 ELSE 0)
              + (IF hotter THEN 10 ELSE 0)
  IN IF ~worsening THEN {}
     ELSE {Finding("trend", IF risk >= 70 THEN "critical"
                            ELSE IF risk >= 40 THEN "warning" ELSE "info")}

\* The history begins with the drive at its lowest levels.
First == [a \in Attributes |-> Levels[a][1]]

Findings(d) == AnalyzeSMART(d) \cup AnalyzeThermal(d)
               \cup TrendFindings(First, d)

-----------------------------------------------------------------------------
(* The replacement planner.                                                *)

\* The multiplier of a tier, in units of its table; the planner counts only
\* those above one.
Factor(tier, unit) == IF tier.mult > unit THEN tier.mult ELSE unit

\* assessDrive: the product of all risk factors, in fortieths.
FailureMult(d) ==
  (IF d.passed THEN 1 ELSE 10)
  * Factor(GetReallocatedTier(d.reallocated), 2)
  * Factor(GetPendingTier(d.pending), 1)
  * Factor(GetTempTier(d.temp), 2)
  * Factor(GetAgeTier(d.hours), 10)

AvgLifeHours(d) == IF d.flash THEN 70080 ELSE 52560

\* RemainingYears < years / 4, where a year has 8766 hours.
EndsWithin(d, quarters) ==
  (Least(AvgLifeHours(d) - d.hours, 0) * 160) \div (8766 * quarters)
    < FailureMult(d)

\* determineUrgency.
Urgency(d) ==
  LET score == HealthScore(d)
      mult == FailureMult(d)
      now == \/ ~d.passed \/ score < 30
             \/ d.pending > 0 /\ d.reallocated > 19
             \/ mult >= 600
      soon == \/ score < 60
              \/ d.hours >= AvgLifeHours(d)
              \/ EndsWithin(d, 1)
              \/ EndsWithin(d, 4) /\ score < 80
              \/ mult >= 200
      watch == \/ score < 80
               \/ 10 * d.hours > 8 * AvgLifeHours(d)
               \/ mult >= 80
  IN CASE now -> "replace_now"
       [] ~now /\ soon -> "replace_soon"
       [] ~now /\ ~soon /\ watch -> "monitor"
       [] OTHER -> "healthy"

\* urgencyRank, turned round.
UrgencyRank(u) == CASE u = "replace_now" -> 3 [] u = "replace_soon" -> 2
                    [] u = "monitor" -> 1 [] OTHER -> 0

-----------------------------------------------------------------------------
(* The drive wears.                                                        *)

Init ==
  /\ drive \in [level : {[a \in Attributes |-> 1]},
                assessment : {"passed", "absent"}, kind : Kinds]
  /\ output \in Outputs

\* One attribute reaches its next level.
Wear(a) ==
  /\ drive.level[a] + 1 \in DOMAIN Levels[a]
  /\ drive' = [drive EXCEPT !.level[a] = @ + 1]
  /\ UNCHANGED output

\* The drive fails its self-assessment.
Fail ==
  /\ drive.assessment = "passed"
  /\ drive' = [drive EXCEPT !.assessment = "failed"]
  /\ UNCHANGED output

Next == Fail \/ \E a \in Attributes : Wear(a)

Spec == Init /\ [][Next]_vars

-----------------------------------------------------------------------------
(* Properties.                                                             *)

\* severityRank.
Rank(sev) == CASE sev = "critical" -> 3 [] sev = "warning" -> 2
               [] sev = "info" -> 1 [] OTHER -> 0
AtLeast(d, n) == \E f \in Findings(d) : Rank(f.sev) >= n

\* Thirteen tables and thresholds agree on what is worse: a drive that only
\* gets worse is never rated less severe, nor less urgent to replace.
NoBetter ==
  drive' # drive =>
    /\ \A n \in 1 .. 3 : AtLeast(info, n) => AtLeast(info', n)
    /\ UrgencyRank(Urgency(info)) <= UrgencyRank(Urgency(info'))
    /\ HealthScore(info') <= HealthScore(info)

\* The planner and the analyzer rate the same drive by different formulas: no
\* drive that has a critical finding is planned as healthy, unless command
\* timeouts, which the planner does not multiply, are all that is wrong.
CriticalIsPlanned ==
  (\E f \in Findings(info) : f.sev = "critical" /\ f.rule # "timeout")
    => Urgency(info) # "healthy"

\* Both.
DrivesRatedAlike == []CriticalIsPlanned /\ [][NoBetter]_vars
=============================================================================
