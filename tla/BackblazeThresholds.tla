------------------------ MODULE BackblazeThresholds -------------------------
(***************************************************************************)
(* The tables that rate a drive's SMART attributes by Backblaze's failure  *)
(* statistics, and the health score computed from them                     *)
(* (analyzer/backblaze_thresholds.go).                                     *)
(*                                                                         *)
(* A health score is in tenths of a point and a failure multiplier in      *)
(* fortieths, so that all of them are integers.                            *)
(***************************************************************************)
EXTENDS Integers

\* The first tier that holds the value, else the last one.
Tier(tiers, n) ==
  LET Holds(i) == tiers[i].min <= n /\ n <= tiers[i].max
      N == CHOOSE i \in DOMAIN tiers : i + 1 \notin DOMAIN tiers
  IN IF \E i \in DOMAIN tiers : Holds(i)
       THEN tiers[CHOOSE i \in DOMAIN tiers :
                    Holds(i) /\ \A j \in 1 .. i - 1 : ~Holds(j)]
       ELSE tiers[N]

T(min, max, sev, mult) == [min |-> min, max |-> max, sev |-> sev,
                           mult |-> mult]
NoTier == T(0, 0, "none", 0)
Top == 1000000000    \* the tables' "no upper bound"

\* Failure multipliers are in halves, for pending sectors whole, for the age
\* in tenths.
ReallocatedTiers == <<T(1, 4, "warning", 5), T(5, 19, "warning", 10),
                      T(20, 99, "critical", 16), T(100, Top, "critical", 24)>>
PendingTiers == <<T(1, 4, "critical", 4), T(5, 19, "critical", 8),
                  T(20, Top, "critical", 15)>>
CRCTiers == <<T(1, 9, "info", 0), T(10, 99, "warning", 0),
              T(100, Top, "warning", 0)>>
CmdTimeoutTiers == <<T(1, 5, "info", 0), T(6, 25, "warning", 0),
                     T(26, 99, "warning", 0), T(100, Top, "critical", 0)>>
TempTiers == <<T(0, 34, "none", 2), T(35, 39, "none", 2), T(40, 44, "info", 3),
               T(45, 49, "warning", 4), T(50, 54, "warning", 6),
               T(55, 59, "critical", 10), T(60, 999, "critical", 20)>>
AgeTiers == <<T(0, 8766, "none", 10), T(8767, 13000, "none", 10),
              T(13001, 35000, "none", 10), T(35001, 44000, "info", 13),
              T(44001, 61000, "warning", 18), T(61001, Top, "warning", 25)>>

\* Mutant: the last tier has no members.
GetReallocatedTierNoUpper(n) ==
  IF n <= 0 \/ n >= 100 THEN NoTier ELSE Tier(ReallocatedTiers, n)

GetReallocatedTier(n) == IF n <= 0 THEN NoTier ELSE Tier(ReallocatedTiers, n)
GetPendingTier(n) == IF n <= 0 THEN NoTier ELSE Tier(PendingTiers, n)
GetCRCTier(n) == IF n <= 0 THEN NoTier ELSE Tier(CRCTiers, n)
GetCmdTimeoutTier(n) == IF n <= 0 THEN NoTier ELSE Tier(CmdTimeoutTiers, n)
GetTempTier(n) == Tier(TempTiers, n)
GetAgeTier(n) == Tier(AgeTiers, n)

-----------------------------------------------------------------------------
(* The composite score.                                                    *)

Capped(n, cap) == IF n > cap THEN cap ELSE n
Least(n, low) == IF n < low THEN low ELSE n

\* ComputeHealthScore.
HealthScore(d) ==
  LET crc == IF d.crc > 200 THEN 100 ELSE IF d.crc > 50 THEN 60
             ELSE IF d.crc > 0 THEN 30 ELSE 0
      timeout == IF d.timeout > 100 THEN 150 ELSE IF d.timeout > 25 THEN 80
                 ELSE IF d.timeout > 0 THEN 30 ELSE 0
      penalty ==
        (IF d.passed THEN 0 ELSE 500)
        + Capped(GetReallocatedTier(d.reallocated).mult * 15, 360)
        + Capped(GetPendingTier(d.pending).mult * 25, 380)
        + crc + timeout
        + (GetTempTier(d.temp).mult - 2) * 20
        + (GetAgeTier(d.hours).mult - 10) * 5
  IN Least(1000 - penalty, 0) \div 10
=============================================================================
