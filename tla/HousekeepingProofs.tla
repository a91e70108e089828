------------------------- MODULE HousekeepingProofs -------------------------
(***************************************************************************)
(* Proofs about the modules that MCHousekeeping runs together.             *)
(*                                                                         *)
(* Retention, for any cap, horizons, batch and number of scans, rows and   *)
(* failures: the newest snapshot survives, what has lost its findings is   *)
(* older than what has not, and freed pages are returned.  The newest      *)
(* snapshot is never among the oldest BatchSize because a round begins     *)
(* above the floor, and the floor is no smaller than the batch.  Pages are *)
(* free between two steps only while something still remembers that there  *)
(* is a VACUUM to do: needsVacuum, or sizePruned.                          *)
(*                                                                         *)
(* DriveHistory, for any slots, drives, ages, swaps, notes and failures:   *)
(* the automatic events of a slot are one story, however writes fail, and  *)
(* a drive that always sleeps is woken.  The last event told ends with the *)
(* drive of the slot's state, or with the one that is about to be saved;   *)
(* and how long a drive has not been read is bounded by the age of its     *)
(* row, which is what tells the scan to wake it.                           *)
(*                                                                         *)
(* DatabaseBackups, for any KeepCount, length of time, clashes and         *)
(* failures: once there is a complete backup there always is one.  The     *)
(* files that nobody will complete are counted by the failures and the     *)
(* backups begun in one second; while there are none of these, all that is *)
(* newer than what a writer has just made is complete, but for what the    *)
(* other one is writing.                                                   *)
(***************************************************************************)
EXTENDS Housekeeping, Sequences, FiniteSetTheorems, WellFoundedInduction,
        TLAPS

-----------------------------------------------------------------------------
(* Retention.                                                              *)

TypeOK ==
  /\ clock \in Nat /\ newest \in Nat
  /\ snapshots \subseteq Nat /\ IsFiniteSet(snapshots)
  /\ hollow \subseteq snapshots
  /\ IsFiniteSet(statRows)
  /\ free \in Nat /\ sizePruned \in Nat /\ round \in Nat /\ faults \in Nat
  /\ stage \in {"idle", "age", "stats", "size", "rows", "vacuum"}
  /\ needsVacuum \in BOOLEAN

\* The newest snapshot bounds all of them, and time bounds it.
NewestBounds == newest <= clock /\ \A s \in snapshots : s <= newest

\* Within a round there is more than the floor, and the doomed are hollow.
RoundHasBegun ==
  stage = "rows" => Cardinality(snapshots) > Floor /\ Doomed \subseteq hollow

\* A round without failures that has freed pages has a VACUUM to come.
FreeIsRemembered ==
  faults = 0 =>
    /\ stage \in {"idle", "age"} => free = 0
    /\ stage \in {"stats", "vacuum"} => free = 0 \/ needsVacuum
    /\ stage = "size" => free = 0 \/ needsVacuum \/ sizePruned > 0

IInv ==
  /\ TypeOK /\ NewestBounds /\ RoundHasBegun /\ FreeIsRemembered
  /\ NewestSurvives /\ HollowAreOldest

-----------------------------------------------------------------------------
(* The oldest snapshots.                                                   *)

\* A set of naturals that is not empty has a least element.
LEMMA LeastNatural ==
  ASSUME NEW S, S \subseteq Nat, S # {}
  PROVE  \E x \in S : \A y \in S : x <= y
  <1>1. PICK x \in S : \A y \in S : ~ (<<y, x>> \in OpToRel(<, Nat))
    BY NatLessThanWellFounded, WFMin, Zenon
  <1>2. ASSUME NEW y \in S
        PROVE  x <= y
    <2>1. x \in Nat /\ y \in Nat
      OBVIOUS
    <2>2. ~ (y < x)
      BY <1>1, <2>1, Zenon DEF OpToRel
    <2> QED
      BY <2>1, <2>2
  <1> QED
    BY <1>2

\* What is older than one of the oldest is one of them.
LEMMA OldestIsOldest ==
  ASSUME IsFiniteSet(snapshots), snapshots \subseteq Nat, NEW n \in Nat,
         NEW h \in Oldest(n), NEW s \in snapshots, s < h
  PROVE  s \in Oldest(n)
  <1> DEFINE Below(x) == {t \in snapshots : t < x}
  <1>1. h \in snapshots /\ Cardinality(Below(h)) < n
    BY DEF Oldest
  <1>2. Below(s) \in SUBSET Below(h) /\ Below(h) \in SUBSET snapshots
    <2>1. ASSUME NEW t \in snapshots, t < s
          PROVE  t < h
      <3>1. t \in Nat /\ s \in Nat /\ h \in Nat
        BY <1>1
      <3> QED
        BY <2>1, <3>1
    <2> QED
      BY <2>1
  <1> HIDE DEF Below
  <1>3. IsFiniteSet(Below(h))
    BY <1>2, FS_Subset
  <1>4. Cardinality(Below(s)) <= Cardinality(Below(h))
    BY <1>2, <1>3, FS_Subset
  <1>5. IsFiniteSet(Below(s))
    BY <1>2, <1>3, FS_Subset
  <1>6. Cardinality(Below(s)) \in Nat /\ Cardinality(Below(h)) \in Nat
    BY <1>3, <1>5, FS_CardinalityType
  <1>7. Cardinality(Below(s)) < n
    BY <1>1, <1>4, <1>6
  <1> QED
    BY <1>7 DEF Oldest, Below

\* Where there are snapshots a batch takes some.
LEMMA OldestIsSome ==
  ASSUME snapshots \subseteq Nat, snapshots # {}, NEW n \in Nat \ {0}
  PROVE  Oldest(n) # {}
  <1>1. PICK x \in snapshots : \A y \in snapshots : x <= y
    BY LeastNatural
  <1>2. {t \in snapshots : t < x} = {}
    <2>1. ASSUME NEW t \in snapshots
          PROVE  ~ (t < x)
      <3>1. t \in Nat /\ x \in Nat /\ x <= t
        BY <1>1
      <3> QED
        BY <3>1
    <2> QED
      BY <2>1
  <1>3. Cardinality({t \in snapshots : t < x}) = 0
    BY <1>2, FS_EmptySet
  <1>4. x \in Oldest(n)
    BY <1>3 DEF Oldest
  <1> QED
    BY <1>4

\* A batch smaller than all there is leaves the last one.
LEMMA OldestSparesTheLast ==
  ASSUME IsFiniteSet(snapshots), snapshots \subseteq Nat, NEW n \in Nat,
         NEW m \in snapshots, \A s \in snapshots : s <= m,
         n < Cardinality(snapshots)
  PROVE  m \notin Oldest(n)
  <1>1. {t \in snapshots : t < m} = snapshots \ {m}
    <2>1. ASSUME NEW t \in snapshots
          PROVE  t < m <=> t # m
      <3>1. t \in Nat /\ m \in Nat /\ t <= m
        OBVIOUS
      <3> QED
        BY <3>1
    <2> QED
      BY <2>1
  <1>2. Cardinality(snapshots \ {m}) = Cardinality(snapshots) - 1
    BY FS_RemoveElement
  <1>3. Cardinality(snapshots) \in Nat
    BY FS_CardinalityType
  <1>4. ~ (Cardinality({t \in snapshots : t < m}) < n)
    BY <1>1, <1>2, <1>3
  <1> QED
    BY <1>4 DEF Oldest

\* A batch is a positive number, and above the floor it is not everything.
LEMMA BatchIsProper ==
  ASSUME IsFiniteSet(snapshots), Cardinality(snapshots) > Floor
  PROVE  BatchSize \in Nat \ {0} /\ BatchSize < Cardinality(snapshots)
  <1>1. Cardinality(snapshots) \in Nat
    BY FS_CardinalityType
  <1>2. Floor \in Nat /\ Batch \in Nat \ {0} /\ Batch <= Floor
    BY RetentionAssumption
  <1> DEFINE c == Cardinality(snapshots)
  <1> HIDE DEF c
  <1>3. c \in Nat /\ c > Floor
    BY <1>1 DEF c
  <1>4. c \div 10 \in Nat /\ c \div 10 < c
    BY <1>2, <1>3
  <1>5. BatchSize = IF c \div 10 < Batch THEN Batch ELSE c \div 10
    BY DEF BatchSize, c
  <1>6. BatchSize \in Nat \ {0} /\ BatchSize < c
    BY <1>2, <1>3, <1>4, <1>5
  <1> QED
    BY <1>6 DEF c

\* The doomed are some of the snapshots, without the newest, and a prefix.
LEMMA DoomedArePrefix ==
  ASSUME TypeOK, NewestBounds, Cardinality(snapshots) > Floor
  PROVE  /\ Doomed \subseteq snapshots /\ Doomed # {}
         /\ newest \notin Doomed
         /\ \A h \in Doomed, s \in snapshots : s < h => s \in Doomed
         /\ Cardinality(Doomed) \in Nat \ {0}
  <1>1. IsFiniteSet(snapshots) /\ snapshots \subseteq Nat
    BY DEF TypeOK
  <1>2. BatchSize \in Nat \ {0} /\ BatchSize < Cardinality(snapshots)
    BY <1>1, BatchIsProper
  <1>3. Doomed \subseteq snapshots
    BY DEF Doomed, Oldest
  <1>4. Cardinality(snapshots) # 0
    BY <1>2, <1>1, FS_CardinalityType
  <1>5. snapshots # {}
    BY <1>4, FS_EmptySet
  <1>6. Doomed # {}
    BY <1>1, <1>2, <1>5, OldestIsSome DEF Doomed
  <1>7. newest \notin Doomed
    <2>1. CASE newest \in snapshots
      BY <1>1, <1>2, <2>1, OldestSparesTheLast DEF Doomed, NewestBounds
    <2>2. CASE newest \notin snapshots
      BY <1>3, <2>2
    <2> QED
      BY <2>1, <2>2
  <1>8. \A h \in Doomed, s \in snapshots : s < h => s \in Doomed
    BY <1>1, <1>2, OldestIsOldest DEF Doomed
  <1>9. IsFiniteSet(Doomed)
    BY <1>1, <1>3, FS_Subset
  <1>10. Cardinality(Doomed) \in Nat \ {0}
    BY <1>6, <1>9, FS_CardinalityType, FS_EmptySet
  <1> QED
    BY <1>3, <1>6, <1>7, <1>8, <1>10

\* What belongs to a finite set's part is counted.
LEMMA PartIsCounted ==
  ASSUME NEW S, IsFiniteSet(S), NEW T \in SUBSET S
  PROVE  /\ IsFiniteSet(T) /\ Cardinality(T) \in Nat
         /\ Cardinality(T) <= Cardinality(S)
  BY FS_Subset, FS_CardinalityType

-----------------------------------------------------------------------------
(* The invariant.                                                          *)

\* The first snapshots are numbered, and no round has begun.
LEMMA InvInit ==
  ASSUME Init
  PROVE  IInv
  <1>1. PICK n \in First : snapshots = 1 .. n /\ clock = n /\ newest = n
    BY DEF Init
  <1>2. n \in Nat
    BY <1>1, RetentionAssumption
  <1>3. IsFiniteSet(1 .. n) /\ 1 .. n \subseteq Nat
    BY <1>2, FS_Interval
  <1>4. TypeOK
    BY <1>1, <1>2, <1>3, FS_EmptySet DEF Init, TypeOK
  <1>5. NewestBounds
    BY <1>1, <1>2 DEF NewestBounds
  <1>6. RoundHasBegun /\ FreeIsRemembered
    BY DEF Init, RoundHasBegun, FreeIsRemembered
  <1>7. newest # 0 => newest \in snapshots \ {}
    BY <1>1, <1>2
  <1>8. NewestSurvives /\ HollowAreOldest
    BY <1>7 DEF Init, NewestSurvives, HollowAreOldest
  <1> QED
    BY <1>4, <1>5, <1>6, <1>8 DEF IInv

\* The parts of the invariant a step leaves alone with their variables.
LEMMA SameSnapshots ==
  ASSUME IInv, UNCHANGED <<clock, snapshots, hollow, newest>>
  PROVE  NewestBounds' /\ NewestSurvives' /\ HollowAreOldest'
  BY DEF IInv, NewestBounds, NewestSurvives, HollowAreOldest

\* A row of statistics takes pages, the free ones first.
LEMMA KeepsSaveStats ==
  ASSUME IInv, SaveStats
  PROVE  IInv'
  <1> USE DEF SaveStats
  <1>1. free \in Nat /\ free' \in Nat /\ (free = 0 => free' = 0)
    BY DEF IInv, TypeOK, Takes
  <1>2. IsFiniteSet(statRows')
    BY FS_AddElement DEF IInv, TypeOK
  <1>3. TypeOK'
    BY <1>1, <1>2 DEF IInv, TypeOK
  <1>4. RoundHasBegun'
    BY DEF IInv, RoundHasBegun, Doomed, Oldest, BatchSize
  <1>5. FreeIsRemembered'
    BY <1>1 DEF IInv, FreeIsRemembered
  <1> QED
    BY <1>3, <1>4, <1>5, SameSnapshots DEF IInv

\* A failure ends what is promised of failure-free retentions.
LEMMA FaultForgets ==
  ASSUME IInv, Fault
  PROVE  faults' \in Nat /\ FreeIsRemembered'
  <1>1. faults' \in Nat /\ faults' # 0
    BY DEF IInv, TypeOK, Fault
  <1> QED
    BY <1>1 DEF FreeIsRemembered

\* A scan is newer than what there is, and stored whole or not at all.
LEMMA KeepsScan ==
  ASSUME IInv, NEW stored \in BOOLEAN, Scan(stored)
  PROVE  IInv'
  <1> USE DEF Scan
  <1>1. clock \in Nat /\ newest \in Nat /\ newest <= clock
        /\ clock' = clock + 1
    BY DEF IInv, TypeOK, NewestBounds
  <1>2. RoundHasBegun'
    BY DEF RoundHasBegun
  <1>3. CASE stored
    <2>1. snapshots' = snapshots \cup {clock'} /\ newest' = clock'
          /\ UNCHANGED <<hollow, statRows, faults>>
      BY <1>3
    <2>2. IsFiniteSet(snapshots') /\ snapshots' \subseteq Nat
      BY <1>1, <2>1, FS_AddElement DEF IInv, TypeOK
    <2>3. free' \in Nat /\ (free = 0 => free' = 0)
      BY <1>3 DEF IInv, TypeOK, Takes
    <2>4. TypeOK'
      BY <1>1, <2>1, <2>2, <2>3 DEF IInv, TypeOK
    <2>5. \A s \in snapshots : s \in Nat /\ s < clock'
      BY <1>1 DEF IInv, TypeOK, NewestBounds
    <2>6. NewestBounds'
      BY <1>1, <2>1, <2>5 DEF NewestBounds
    <2>7. NewestSurvives'
      BY <1>1, <2>1, <2>5 DEF IInv, TypeOK, NewestSurvives
    <2>8. HollowAreOldest'
      BY <2>1, <2>5 DEF IInv, TypeOK, HollowAreOldest
    <2>9. FreeIsRemembered'
      BY <2>1, <2>3 DEF IInv, FreeIsRemembered
    <2> QED
      BY <1>2, <2>4, <2>6, <2>7, <2>8, <2>9 DEF IInv
  <1>4. CASE ~stored
    <2>1. Fault /\ UNCHANGED <<snapshots, hollow, statRows, newest, free>>
      BY <1>4
    <2>2. TypeOK'
      <3>1. clock' \in Nat /\ faults' \in Nat
        BY <1>1, <2>1, FaultForgets
      <3>2. round' \in Nat /\ sizePruned' \in Nat /\ free' \in Nat
            /\ stage' = "age"
        BY <2>1 DEF IInv, TypeOK
      <3>3. needsVacuum' \in BOOLEAN
        OBVIOUS
      <3>4. newest' \in Nat /\ snapshots' \subseteq Nat
            /\ IsFiniteSet(snapshots') /\ hollow' \subseteq snapshots'
            /\ IsFiniteSet(statRows')
        BY <2>1 DEF IInv, TypeOK
      <3> HIDE DEF Scan
      <3> QED
        BY <3>1, <3>2, <3>3, <3>4 DEF TypeOK
    <2>3. NewestBounds'
      BY <1>1, <2>1 DEF IInv, NewestBounds
    <2>4. NewestSurvives' /\ HollowAreOldest'
      BY <2>1 DEF IInv, NewestSurvives, HollowAreOldest
    <2> QED
      BY <1>2, <2>1, <2>2, <2>3, <2>4, FaultForgets DEF IInv
  <1> QED
    BY <1>3, <1>4

\* Taking snapshots away, but never the newest, and their hollowness with
\* them, keeps what is said of the rest.
LEMMA FewerSnapshots ==
  ASSUME IInv, NEW D, D \subseteq snapshots, newest \notin D,
         snapshots' = snapshots \ D, hollow' = hollow \ D,
         UNCHANGED <<clock, newest>>
  PROVE  /\ snapshots' \subseteq Nat /\ IsFiniteSet(snapshots')
         /\ hollow' \subseteq snapshots'
         /\ NewestBounds' /\ NewestSurvives' /\ HollowAreOldest'
  <1>1. snapshots' \in SUBSET snapshots
    OBVIOUS
  <1>2. IsFiniteSet(snapshots')
    BY <1>1, FS_Subset DEF IInv, TypeOK
  <1>3. snapshots' \subseteq Nat /\ hollow' \subseteq snapshots'
    BY DEF IInv, TypeOK
  <1>4. NewestBounds'
    BY <1>1 DEF IInv, NewestBounds
  <1>5. NewestSurvives'
    BY DEF IInv, NewestSurvives
  <1>6. HollowAreOldest'
    BY DEF IInv, HollowAreOldest
  <1> QED
    BY <1>2, <1>3, <1>4, <1>5, <1>6

\* The pass by age spares the newest snapshot.
LEMMA KeepsPruneSnapshots ==
  ASSUME IInv, NEW ok \in BOOLEAN, PruneSnapshots(ok)
  PROVE  IInv'
  <1> USE DEF PruneSnapshots
  <1>1. RoundHasBegun'
    BY DEF RoundHasBegun
  <1>2. CASE ok
    <2>1. Expired \in SUBSET snapshots
      BY DEF Expired
    <2>2. newest \notin Expired
      <3>1. {t \in snapshots : t > newest} = {}
        <4>1. ASSUME NEW t \in snapshots
              PROVE  ~ (t > newest)
          <5>1. t \in Nat /\ newest \in Nat /\ t <= newest
            BY DEF IInv, TypeOK, NewestBounds
          <5> QED
            BY <5>1
        <4> QED
          BY <4>1
      <3>2. Cardinality({t \in snapshots : t > newest}) = 0
        BY <3>1, FS_EmptySet
      <3>3. ~ (0 >= KeepMin)
        BY RetentionAssumption
      <3> QED
        BY <3>2, <3>3 DEF Expired
    <2> DEFINE e == Cardinality(Expired)
               h == Cardinality(hollow \cap Expired)
    <2>3. e \in Nat /\ h \in Nat /\ h <= e
      <3>1. IsFiniteSet(Expired)
        BY <2>1, PartIsCounted DEF IInv, TypeOK
      <3> QED
        BY <2>1, <3>1, PartIsCounted DEF IInv, TypeOK
    <2>4. Expired = {} => e = 0 /\ h = 0
      BY FS_EmptySet
    <2>5. free' = free + (2 * e - h) /\ needsVacuum' = (Expired # {})
      BY <1>2 DEF Leaves
    <2> HIDE DEF e, h
    <2>6. free' \in Nat /\ (free = 0 /\ Expired = {} => free' = 0)
      BY <2>3, <2>4, <2>5 DEF IInv, TypeOK
    <2>7. TypeOK'
      BY <1>2, <2>1, <2>2, <2>5, <2>6, FewerSnapshots DEF IInv, TypeOK
    <2>8. FreeIsRemembered'
      BY <1>2, <2>5, <2>6 DEF IInv, FreeIsRemembered
    <2> QED
      BY <1>1, <1>2, <2>1, <2>2, <2>7, <2>8, FewerSnapshots DEF IInv
  <1>3. CASE ~ok
    <2>1. Fault /\ UNCHANGED <<snapshots, hollow, free, needsVacuum>>
      BY <1>3
    <2>2. TypeOK'
      BY <2>1, FaultForgets DEF IInv, TypeOK
    <2> QED
      BY <1>1, <2>1, <2>2, FaultForgets, SameSnapshots DEF IInv
  <1> QED
    BY <1>2, <1>3

\* The pass over statistics deletes rows and frees their pages.
LEMMA KeepsPruneStats ==
  ASSUME IInv, NEW ok \in BOOLEAN, PruneStats(ok)
  PROVE  IInv'
  <1> USE DEF PruneStats
  <1> DEFINE old == {r \in statRows : r.at + Horizon < clock}
  <1>1. RoundHasBegun'
    BY DEF RoundHasBegun
  <1>2. CASE ok
    <2>1. old \in SUBSET statRows /\ statRows' = statRows \ old
          /\ free' = free + Cardinality(old)
          /\ needsVacuum' = (needsVacuum \/ old # {})
      BY <1>2 DEF Leaves
    <2> HIDE DEF old
    <2>2. Cardinality(old) \in Nat /\ (old = {} => Cardinality(old) = 0)
      BY <2>1, PartIsCounted, FS_EmptySet DEF IInv, TypeOK
    <2>3. free' \in Nat /\ (free = 0 /\ old = {} => free' = 0)
      BY <2>1, <2>2 DEF IInv, TypeOK
    <2>4. IsFiniteSet(statRows')
      BY <2>1, PartIsCounted DEF IInv, TypeOK
    <2>5. TypeOK'
      BY <1>2, <2>1, <2>3, <2>4 DEF IInv, TypeOK
    <2>6. FreeIsRemembered'
      BY <1>2, <2>1, <2>3 DEF IInv, TypeOK, FreeIsRemembered
    <2> QED
      BY <1>1, <2>5, <2>6, SameSnapshots DEF IInv
  <1>3. CASE ~ok
    <2>1. Fault /\ UNCHANGED <<statRows, free, needsVacuum>>
      BY <1>3
    <2>2. TypeOK'
      BY <2>1, FaultForgets DEF IInv, TypeOK
    <2> QED
      BY <1>1, <2>1, <2>2, FaultForgets, SameSnapshots DEF IInv
  <1> QED
    BY <1>2, <1>3

\* The newest keeps its findings, and the hollow ones remain a prefix.
LEMMA KeepsPruneChildren ==
  ASSUME IInv, PruneChildren
  PROVE  IInv'
  <1> USE DEF PruneChildren
  <1>1. Cardinality(snapshots) > Floor
    BY DEF OverCap
  <1>2. /\ Doomed \subseteq snapshots
        /\ newest \notin Doomed
        /\ \A h \in Doomed, s \in snapshots : s < h => s \in Doomed
    BY <1>1, DoomedArePrefix DEF IInv
  <1>3. IsFiniteSet(Doomed \ hollow)
    BY <1>2, FS_Subset DEF IInv, TypeOK
  <1>4. free' \in Nat
    BY <1>3, FS_CardinalityType DEF IInv, TypeOK, Leaves
  <1>5. TypeOK'
    BY <1>2, <1>4 DEF IInv, TypeOK
  <1>6. NewestBounds'
    BY DEF IInv, NewestBounds
  <1>7. NewestSurvives'
    BY <1>2 DEF IInv, NewestSurvives
  <1>8. HollowAreOldest'
    <2>1. ASSUME NEW h \in Doomed, NEW s \in snapshots \ (hollow \cup Doomed)
          PROVE  h < s
      <3>1. h \in Nat /\ s \in Nat
        BY <1>2 DEF IInv, TypeOK
      <3>2. ~ (s < h) /\ s # h
        BY <1>2, <2>1
      <3> QED
        BY <3>1, <3>2
    <2> QED
      BY <2>1 DEF IInv, HollowAreOldest
  <1>9. Doomed' = Doomed
    BY DEF Doomed, Oldest, BatchSize
  <1>10. RoundHasBegun'
    BY <1>1, <1>9 DEF RoundHasBegun
  <1>11. FreeIsRemembered'
    BY DEF FreeIsRemembered
  <1> QED
    BY <1>5, <1>6, <1>7, <1>8, <1>10, <1>11 DEF IInv

\* A batch whose findings are gone is deleted; the floor and the newest stay.
LEMMA KeepsPruneRows ==
  ASSUME IInv, PruneRows
  PROVE  IInv'
  <1> USE DEF PruneRows
  <1>1. Cardinality(snapshots) > Floor
    BY DEF IInv, RoundHasBegun
  <1>2. Doomed \subseteq snapshots /\ newest \notin Doomed
    BY <1>1, DoomedArePrefix DEF IInv
  <1>3. Cardinality(Doomed) \in Nat \ {0}
    BY <1>1, DoomedArePrefix DEF IInv
  <1>4. free' \in Nat /\ sizePruned' \in Nat /\ sizePruned' > 0
    BY <1>3 DEF IInv, TypeOK, Leaves
  <1>5. TypeOK'
    <2>1. snapshots' \subseteq Nat /\ IsFiniteSet(snapshots')
          /\ hollow' \subseteq snapshots'
      BY <1>2, FewerSnapshots
    <2>2. round' \in Nat
      BY DEF IInv, TypeOK
    <2> QED
      BY <1>4, <2>1, <2>2 DEF IInv, TypeOK
  <1>6. RoundHasBegun'
    BY DEF RoundHasBegun
  <1>7. FreeIsRemembered'
    BY <1>4 DEF FreeIsRemembered
  <1> QED
    BY <1>2, <1>5, <1>6, <1>7, FewerSnapshots DEF IInv

\* A failure goes on to the vacuum, and is on record.
LEMMA KeepsPruneToSizeFails ==
  ASSUME IInv, PruneToSizeFails
  PROVE  IInv'
  <1> USE DEF PruneToSizeFails
  <1>1. TypeOK'
    BY FaultForgets DEF IInv, TypeOK
  <1>2. RoundHasBegun'
    BY DEF RoundHasBegun
  <1> QED
    BY <1>1, <1>2, FaultForgets, SameSnapshots DEF IInv

\* Under the cap, or at the floor, only the vacuum is left.
LEMMA KeepsPruneToSizeEnds ==
  ASSUME IInv, PruneToSizeEnds
  PROVE  IInv'
  <1> USE DEF PruneToSizeEnds
  <1>1. TypeOK'
    <2>1. free' \in Nat
      BY DEF IInv, TypeOK
    <2>2. needsVacuum' \in BOOLEAN
      BY DEF IInv, TypeOK
    <2> QED
      BY <2>1, <2>2 DEF IInv, TypeOK
  <1>2. RoundHasBegun'
    BY DEF RoundHasBegun
  <1>3. FreeIsRemembered'
    BY DEF IInv, TypeOK, FreeIsRemembered
  <1> QED
    BY <1>1, <1>2, <1>3, SameSnapshots DEF IInv

\* A vacuum returns the pages, or fails and is on record.
LEMMA KeepsVacuum ==
  ASSUME IInv, NEW ok \in BOOLEAN, Vacuum(ok)
  PROVE  IInv'
  <1> USE DEF Vacuum
  <1>1. TypeOK'
    BY FaultForgets DEF IInv, TypeOK
  <1>2. RoundHasBegun'
    BY DEF RoundHasBegun
  <1>3. FreeIsRemembered'
    BY FaultForgets DEF IInv, TypeOK, FreeIsRemembered
  <1> QED
    BY <1>1, <1>2, <1>3, SameSnapshots DEF IInv

\* A crash ends the round where it is, and is on record.
LEMMA KeepsCrash ==
  ASSUME IInv, Crash
  PROVE  IInv'
  <1> USE DEF Crash
  <1>1. TypeOK'
    BY FaultForgets DEF IInv, TypeOK
  <1>2. RoundHasBegun'
    BY DEF RoundHasBegun
  <1> QED
    BY <1>1, <1>2, FaultForgets, SameSnapshots DEF IInv

\* Every step.
LEMMA InvNext ==
  ASSUME IInv, [Next]_vars
  PROVE  IInv'
  <1>1. CASE Next
    BY <1>1, KeepsSaveStats, KeepsScan, KeepsPruneSnapshots, KeepsPruneStats,
       KeepsVacuum, KeepsPruneChildren, KeepsPruneRows,
       KeepsPruneToSizeFails, KeepsPruneToSizeEnds, KeepsCrash DEF Next
  <1>2. CASE UNCHANGED vars
    <2>1. TypeOK' /\ RoundHasBegun' /\ FreeIsRemembered'
      BY <1>2 DEF vars, IInv, TypeOK, RoundHasBegun, FreeIsRemembered,
                  Doomed, Oldest, BatchSize
    <2> QED
      BY <1>2, <2>1, SameSnapshots DEF vars, IInv
  <1> QED
    BY <1>1, <1>2

\* The invariant gives the three promises.
LEMMA InvIsSafe ==
  ASSUME IInv
  PROVE  RetentionIsSafe
  <1>1. SpaceIsReturned
    BY DEF IInv, FreeIsRemembered, SpaceIsReturned
  <1> QED
    BY <1>1 DEF IInv, RetentionIsSafe

\* Whatever is pruned, at whatever cap and in whatever order of expiry,
\* failure and crash (retention.go, PruneSnapshots, PruneToSizeMB): the newest
\* snapshot stays with its findings, what has lost them is older than what
\* has not, and a retention without failures returns the pages it freed.
THEOREM RetentionSafe == Spec => []RetentionIsSafe
  <1>1. Init => IInv
    BY InvInit
  <1>2. IInv /\ [Next]_vars => IInv'
    BY InvNext
  <1>3. IInv => RetentionIsSafe
    BY InvIsSafe
  <1> QED
    BY <1>1, <1>2, <1>3, PTL DEF Spec

-----------------------------------------------------------------------------
(* The drives.                                                             *)

Seen == Drives \cup {NoDrive}
Event == [auto : BOOLEAN, old : Seen, new : Seen]

DriveTypes ==
  /\ driveFaults \in Nat /\ since \in Nat
  /\ bay \in [Slots -> Seen] /\ asleep \subseteq Slots
  /\ snap \in [Slots -> Seen] /\ standby \subseteq Slots
  /\ latest \in [smart : [Slots -> Seen], standby : SUBSET Slots]
  /\ states \in [Slots -> Seen]
  /\ events \in [Slots -> Seq(Event)]
  /\ row \in [Slots -> Nat] /\ unread \in [Slots -> Nat]
  /\ scan \in {"idle", "wake", "detect"} \cup Slots
  /\ todo \subseteq Slots

\* The last event of a slot is told before the slot's state names its drive;
\* in between the scan is at this slot, and sees the drive the event names.
StoryHolds(s) ==
  /\ states[s] = NoDrive => Drive!Told(s) = {}
  /\ scan = s => snap[s] # NoDrive
  /\ \A i \in Drive!Told(s) :
       /\ \A j \in Drive!Told(s) :
            Drive!IsNextTold(s, i, j) => events[s][j].old \in Drive!After(s, i)
       /\ Drive!IsLastTold(s, i) =>
            IF scan = s THEN /\ states[s] = events[s][i].old
                             /\ snap[s] = events[s][i].new
                        ELSE states[s] \in Drive!After(s, i)

\* Until SMART has run, nothing has been seen.
Begun ==
  \/ since < SmartEvery
  \/ /\ since = SmartEvery /\ scan = Drive!Idle
     /\ \A s \in Slots : row[s] = Drive!NoRow /\ snap[s] = NoDrive

\* What bounds the time a drive stays unread: the copies that scans carry
\* forward are as old as the last collection, and the age of the row tells
\* the rest, up to the time a collection wakes the drive.
Bounded(s) ==
  /\ bay[s] = NoDrive => unread[s] = 0
  /\ snap[s] # NoDrive =>
       /\ unread[s] <= since
       /\ scan = Drive!Idle => row[s] = 0
  /\ (snap[s] = NoDrive /\ row[s] # Drive!NoRow) =>
       \/ unread[s] <= since
       \/ /\ unread[s] <= row[s] + SmartEvery - 1
          /\ IF scan = "wake" /\ s \in standby
               THEN unread[s] < Drive!Tired
               ELSE row[s] <= SmartMaxAge + since

Faultless ==
  (SmartMaxAge > 0 /\ driveFaults = 0) =>
    /\ Begun
    /\ scan = Drive!Idle => latest = [smart |-> snap, standby |-> standby]
    /\ \A s \in Slots : Bounded(s)

DriveIInv ==
  DriveTypes /\ (\A s \in Slots : StoryHolds(s)) /\ Faultless

-----------------------------------------------------------------------------
(* Sequences of events.                                                    *)

\* An event added at the end of a story leaves the ones before it alone.
LEMMA AddedEvent ==
  ASSUME NEW S, NEW e \in Seq(S), NEW x \in S
  PROVE  /\ Append(e, x) \in Seq(S) /\ Len(e) \in Nat
         /\ DOMAIN e = 1 .. Len(e) /\ DOMAIN Append(e, x) = 1 .. Len(e) + 1
         /\ \A k \in DOMAIN e : Append(e, x)[k] = e[k]
         /\ Append(e, x)[Len(e) + 1] = x
OBVIOUS

\* One that is removed moves those after it one place forward.
LEMMA RemovedEvent ==
  ASSUME NEW S, NEW e \in Seq(S), NEW i \in DOMAIN e
  PROVE  /\ Drive!RemoveAt(e, i) \in Seq(S) /\ Len(e) \in Nat
         /\ i \in 1 .. Len(e)
         /\ DOMAIN e = 1 .. Len(e)
         /\ DOMAIN Drive!RemoveAt(e, i) = 1 .. Len(e) - 1
         /\ \A k \in 1 .. Len(e) - 1 :
              Drive!RemoveAt(e, i)[k] = IF k < i THEN e[k] ELSE e[k + 1]
<1>1. Len(e) \in Nat /\ i \in 1 .. Len(e) /\ DOMAIN e = 1 .. Len(e)
  OBVIOUS
<1> DEFINE p == SubSeq(e, 1, i - 1)
           q == SubSeq(e, i + 1, Len(e))
<1>2. /\ p \in Seq(S) /\ Len(p) = i - 1
      /\ \A k \in 1 .. i - 1 : p[k] = e[k]
  BY <1>1
<1>3. /\ q \in Seq(S) /\ Len(q) = Len(e) - i
      /\ \A k \in 1 .. Len(e) - i : q[k] = e[k + i]
  BY <1>1
<1>4. Drive!RemoveAt(e, i) = p \o q
  BY DEF Drive!RemoveAt
<1> HIDE DEF p, q
<1>5. /\ p \o q \in Seq(S) /\ Len(p \o q) = Len(e) - 1
      /\ \A k \in 1 .. Len(e) - 1 :
           (p \o q)[k] = IF k <= i - 1 THEN p[k] ELSE q[k - (i - 1)]
  <2>1. p \in Seq(S) /\ q \in Seq(S)
    BY <1>2, <1>3
  <2>2. /\ p \o q \in Seq(S) /\ Len(p \o q) = Len(p) + Len(q)
        /\ \A k \in 1 .. Len(p) + Len(q) :
             (p \o q)[k] = IF k <= Len(p) THEN p[k] ELSE q[k - Len(p)]
    BY <2>1
  <2>3. Len(p) = i - 1 /\ Len(p) + Len(q) = Len(e) - 1
    BY <1>1, <1>2, <1>3
  <2> QED
    BY <2>2, <2>3
<1>6. \A k \in 1 .. Len(e) - 1 :
        (p \o q)[k] = IF k < i THEN e[k] ELSE e[k + 1]
  <2> TAKE k \in 1 .. Len(e) - 1
  <2>1. CASE k < i
    BY <1>1, <1>2, <1>5, <2>1
  <2>2. CASE ~(k < i)
    <3> DEFINE m == k - (i - 1)
    <3>1. m \in 1 .. Len(e) - i /\ m + i = k + 1 /\ ~(k <= i - 1)
      BY <1>1, <2>2
    <3>2. (p \o q)[k] = q[m]
      BY <1>5, <3>1
    <3> HIDE DEF m
    <3>3. q[m] = e[m + i]
      BY <1>3, <3>1
    <3> QED
      BY <2>2, <3>1, <3>2, <3>3
  <2> QED
    BY <2>1, <2>2
<1>7. DOMAIN (p \o q) = 1 .. Len(e) - 1
  BY <1>5
<1> QED
  BY <1>1, <1>4, <1>5, <1>6, <1>7

-----------------------------------------------------------------------------
(* The story of a slot.                                                    *)

\* What a step need not do to leave the story of a slot as it is.
LEMMA StoryStill ==
  ASSUME DriveTypes, NEW s \in Slots, StoryHolds(s),
         events'[s] = events[s], states'[s] = states[s],
         driveFaults' \in {driveFaults, driveFaults + 1},
         scan' = s => scan = s /\ snap'[s] = snap[s],
         scan = s => scan' = s \/ driveFaults' = driveFaults + 1
  PROVE  StoryHolds(s)'
<1>1. Drive!Told(s)' = Drive!Told(s)
  BY DEF Drive!Told
<1>2. driveFaults \in Nat
  BY DEF DriveTypes
<1>3. \A i : Drive!After(s, i) \subseteq Drive!After(s, i)'
  BY <1>2 DEF Drive!After
<1>4. driveFaults' > 0 =>
        \A i : {events[s][i].old} \subseteq Drive!After(s, i)'
  BY DEF Drive!After
<1>5. \A i, j : /\ Drive!IsNextTold(s, i, j)' <=> Drive!IsNextTold(s, i, j)
                /\ Drive!IsLastTold(s, i)' <=> Drive!IsLastTold(s, i)
  BY <1>1 DEF Drive!IsNextTold, Drive!IsLastTold
<1>6. scan = s /\ scan' # s => driveFaults' > 0
  BY <1>2
<1> QED
  BY <1>1, <1>3, <1>4, <1>5, <1>6 DEF StoryHolds

\* The first drive of a slot and an unchanged one need no event.
LEMMA StoryObserve ==
  ASSUME DriveTypes, Drive!DriveAssumption, NEW s \in Slots, StoryHolds(s),
         Drive!Observe(s)
  PROVE  StoryHolds(s)'
<1>1. /\ UNCHANGED <<scan, snap, events, driveFaults>> /\ scan # s
      /\ states'[s] = IF snap[s] = NoDrive THEN states[s] ELSE snap[s]
      /\ snap[s] \in {NoDrive, states[s]} \/ states[s] = NoDrive
  BY DEF Drive!Observe, DriveTypes, Drive!DriveAssumption
<1>2. CASE states'[s] = states[s]
  BY <1>1, <1>2, StoryStill
<1>3. CASE states'[s] # states[s]
  <2>1. states[s] = NoDrive /\ states'[s] # NoDrive
    BY <1>1, <1>3
  <2>2. Drive!Told(s)' = {}
    BY <1>1, <2>1 DEF StoryHolds, Drive!Told
  <2> QED
    BY <1>1, <2>1, <2>2 DEF StoryHolds
<1> QED
  BY <1>2, <1>3

\* The event begins with the drive the state names.
LEMMA StorySaveEvent ==
  ASSUME DriveTypes, Drive!DriveAssumption, NEW s \in Slots, StoryHolds(s),
         Drive!SaveEvent(s)
  PROVE  StoryHolds(s)'
<1> DEFINE e == events[s]
           x == Drive!Replacement(s)
           n == Len(e) + 1
<1>1. /\ UNCHANGED <<snap, states, driveFaults>> /\ scan # s /\ scan' = s
      /\ events'[s] = Append(e, x)
      /\ snap[s] # NoDrive /\ states[s] # NoDrive
  BY DEF Drive!SaveEvent, DriveTypes, Drive!DriveAssumption
<1>2. /\ x \in Event /\ x.auto = TRUE /\ x.old = states[s] /\ x.new = snap[s]
  BY DEF Drive!Replacement, Event, DriveTypes
<1>3. e \in Seq(Event)
  BY DEF DriveTypes
<1> HIDE DEF e, x
<1>4. /\ Append(e, x) \in Seq(Event) /\ Len(e) \in Nat
      /\ DOMAIN e = 1 .. Len(e) /\ DOMAIN Append(e, x) = 1 .. n
      /\ \A k \in DOMAIN e : Append(e, x)[k] = e[k]
      /\ Append(e, x)[n] = x
  BY <1>2, <1>3, AddedEvent
<1>5. /\ Drive!Told(s)' = Drive!Told(s) \cup {n}
      /\ Drive!Told(s) \subseteq 1 .. Len(e)
  BY <1>1, <1>2, <1>4 DEF Drive!Told, e
<1>6. \A k \in Drive!Told(s) : events'[s][k] = events[s][k]
  BY <1>1, <1>4, <1>5 DEF e
<1>7. events'[s][n] = x
  BY <1>1, <1>4
<1>8. \A k \in Drive!Told(s) : Drive!After(s, k)' = Drive!After(s, k)
  BY <1>1, <1>6 DEF Drive!After
<1>9. ASSUME NEW i \in Drive!Told(s)', NEW j \in Drive!Told(s)',
             Drive!IsNextTold(s, i, j)'
      PROVE  events'[s][j].old \in Drive!After(s, i)'
  <2>1. /\ i < j /\ \A k \in Drive!Told(s)' : k <= i \/ j <= k
    BY <1>9 DEF Drive!IsNextTold
  <2>2. i \in Drive!Told(s)
    BY <1>4, <1>5, <2>1
  <2>3. CASE j = n
    <3>1. Drive!IsLastTold(s, i)
      BY <1>4, <1>5, <2>1, <2>3 DEF Drive!IsLastTold
    <3>2. states[s] \in Drive!After(s, i)
      BY <1>1, <2>2, <3>1 DEF StoryHolds
    <3> QED
      BY <1>2, <1>7, <1>8, <2>2, <2>3, <3>2
  <2>4. CASE j \in Drive!Told(s)
    <3>1. Drive!IsNextTold(s, i, j)
      BY <1>5, <2>1 DEF Drive!IsNextTold
    <3>2. events[s][j].old \in Drive!After(s, i)
      BY <2>2, <2>4, <3>1 DEF StoryHolds
    <3> QED
      BY <1>6, <1>8, <2>2, <2>4, <3>2
  <2> QED
    BY <1>5, <2>3, <2>4
<1>10. ASSUME NEW i \in Drive!Told(s)', Drive!IsLastTold(s, i)'
       PROVE  i = n
  BY <1>4, <1>5, <1>10 DEF Drive!IsLastTold
<1> QED
  BY <1>1, <1>2, <1>7, <1>9, <1>10 DEF StoryHolds

\* The state follows.
LEMMA StorySaveState ==
  ASSUME DriveTypes, Drive!DriveAssumption, NEW s \in Slots, StoryHolds(s),
         Drive!SaveState(s)
  PROVE  StoryHolds(s)'
<1>1. /\ UNCHANGED <<snap, events, driveFaults>> /\ scan = s /\ scan' # s
      /\ states'[s] = snap[s] /\ snap[s] # NoDrive
  BY DEF Drive!SaveState, DriveTypes, Drive!DriveAssumption, StoryHolds
<1>2. Drive!Told(s)' = Drive!Told(s)
  BY <1>1 DEF Drive!Told
<1>3. \A i, j : /\ Drive!IsNextTold(s, i, j)' <=> Drive!IsNextTold(s, i, j)
                /\ Drive!IsLastTold(s, i)' <=> Drive!IsLastTold(s, i)
                /\ Drive!After(s, i)' = Drive!After(s, i)
                /\ events[s][i].new \in Drive!After(s, i)
  BY <1>1, <1>2 DEF Drive!IsNextTold, Drive!IsLastTold, Drive!After
<1> QED
  BY <1>1, <1>2, <1>3 DEF StoryHolds

\* A note is no part of the story.
LEMMA StoryAddNote ==
  ASSUME DriveTypes, NEW s \in Slots, StoryHolds(s), Drive!AddNote(s)
  PROVE  StoryHolds(s)'
<1> DEFINE e == events[s]
           x == [auto |-> FALSE, old |-> NoDrive, new |-> NoDrive]
           n == Len(e) + 1
<1>1. /\ UNCHANGED <<snap, states, driveFaults, scan>>
      /\ events'[s] = Append(e, x)
  BY DEF Drive!AddNote, DriveTypes, Drive!scanVars
<1>2. x \in Event /\ x.auto = FALSE
  BY DEF Event, Seen
<1>3. e \in Seq(Event)
  BY DEF DriveTypes
<1> HIDE DEF e, x
<1>4. /\ Append(e, x) \in Seq(Event) /\ Len(e) \in Nat
      /\ DOMAIN e = 1 .. Len(e) /\ DOMAIN Append(e, x) = 1 .. n
      /\ \A k \in DOMAIN e : Append(e, x)[k] = e[k]
      /\ Append(e, x)[n] = x
  BY <1>2, <1>3, AddedEvent
<1>5. Drive!Told(s)' = Drive!Told(s)
  BY <1>1, <1>2, <1>4 DEF Drive!Told, e
<1>6. \A k \in Drive!Told(s) : events'[s][k] = events[s][k]
  BY <1>1, <1>4 DEF e, Drive!Told
<1>7. \A i, j : /\ Drive!IsNextTold(s, i, j)' <=> Drive!IsNextTold(s, i, j)
                /\ Drive!IsLastTold(s, i)' <=> Drive!IsLastTold(s, i)
  BY <1>5 DEF Drive!IsNextTold, Drive!IsLastTold
<1>8. \A k \in Drive!Told(s) : Drive!After(s, k)' = Drive!After(s, k)
  BY <1>1, <1>6 DEF Drive!After
<1> QED
  BY <1>1, <1>5, <1>6, <1>7, <1>8 DEF StoryHolds

\* Nor is its deletion: the events around it move together.
LEMMA StoryDeleteNote ==
  ASSUME DriveTypes, NEW s \in Slots, StoryHolds(s),
         NEW d \in DOMAIN events[s], Drive!DeleteNote(s, d)
  PROVE  StoryHolds(s)'
<1> DEFINE e == events[s]
           f == Drive!RemoveAt(e, d)
           From(k) == IF k < d THEN k ELSE k + 1
<1>1. /\ UNCHANGED <<snap, states, driveFaults, scan>>
      /\ events'[s] = f /\ ~e[d].auto
  BY DEF Drive!DeleteNote, Drive!Erasable, DriveTypes, Drive!scanVars
<1>2. e \in Seq(Event)
  BY DEF DriveTypes
<1>3. /\ Len(e) \in Nat /\ d \in 1 .. Len(e) /\ DOMAIN e = 1 .. Len(e)
      /\ DOMAIN f = 1 .. Len(e) - 1
      /\ \A k \in 1 .. Len(e) - 1 : f[k] = IF k < d THEN e[k] ELSE e[k + 1]
  <2>1. d \in DOMAIN e
    OBVIOUS
  <2> HIDE DEF e
  <2> QED
    BY <1>2, <2>1, RemovedEvent
<1> HIDE DEF e, f
<1>4. \A k \in 1 .. Len(e) - 1 : f[k] = e[From(k)] /\ From(k) \in 1 .. Len(e)
  BY <1>3
<1>5. /\ Drive!Told(s)' = {k \in 1 .. Len(e) - 1 : From(k) \in Drive!Told(s)}
      /\ Drive!Told(s) \subseteq 1 .. Len(e) /\ d \notin Drive!Told(s)
  BY <1>1, <1>3, <1>4 DEF Drive!Told, e
<1>6. \A t \in Drive!Told(s) : \E k \in Drive!Told(s)' : t = From(k)
  <2> TAKE t \in Drive!Told(s)
  <2>1. CASE t < d
    BY <1>3, <1>5, <2>1
  <2>2. CASE d < t
    <3>1. t - 1 \in 1 .. Len(e) - 1 /\ From(t - 1) = t
      BY <1>3, <1>5, <2>2
    <3> QED
      BY <1>5, <3>1
  <2> QED
    BY <1>3, <1>5, <2>1, <2>2
<1>7. \A j,
k \in Nat : (j < k <=> From(j) < From(k)) /\ (j <= k <=> From(j) <= From(k))
  BY <1>3
<1>8. \A k \in Drive!Told(s)' : /\ From(k) \in Drive!Told(s) /\ k \in Nat
                                /\ events'[s][k] = events[s][From(k)]
  BY <1>1, <1>3, <1>4, <1>5 DEF e
<1>9. \A k \in Drive!Told(s)' : Drive!After(s, k)' = Drive!After(s, From(k))
  BY <1>1, <1>8 DEF Drive!After
<1> HIDE DEF From
<1>10. \A i,
j \in Drive!Told(s)' :
         Drive!IsNextTold(s, i, j)' => Drive!IsNextTold(s, From(i), From(j))
  BY <1>6, <1>7, <1>8 DEF Drive!IsNextTold
<1>11. \A i \in Drive!Told(s)' :
         Drive!IsLastTold(s, i)' => Drive!IsLastTold(s, From(i))
  BY <1>6, <1>7, <1>8 DEF Drive!IsLastTold
<1>12. Drive!Told(s) = {} => Drive!Told(s)' = {}
  BY <1>8
<1> QED
  BY <1>1, <1>8, <1>9, <1>10, <1>11, <1>12 DEF StoryHolds

\* Whatever a step does to another slot, it tells no tales of this one.
LEMMA StoryStep ==
  ASSUME DriveTypes, Drive!DriveAssumption, NEW s \in Slots, StoryHolds(s),
         [Drive!Next]_(Drive!vars)
  PROVE  StoryHolds(s)'
<1>1. ASSUME NEW t \in Slots,
             \/ \E d \in Drives \cup {NoDrive} : Drive!Swap(t, d)
             \/ Drive!SpinDown(t) \/ Drive!SpinUp(t)
      PROVE  StoryHolds(s)'
  BY <1>1, StoryStill
  DEF Drive!Swap, Drive!SpinDown, Drive!SpinUp, Drive!scanVars,
      Drive!storeVars, DriveTypes
<1>2. ASSUME NEW failed \in SUBSET Slots, Drive!StartScan(failed)
      PROVE  StoryHolds(s)'
  <2>1. /\ UNCHANGED <<events, states>> /\ scan # s /\ scan' # s
        /\ driveFaults' \in {driveFaults, driveFaults + 1}
    BY <1>2 DEF Drive!StartScan, Drive!Fault, Drive!Idle, Drive!DriveAssumption
  <2> QED
    BY <2>1, StoryStill
<1>3. ASSUME NEW failed \in SUBSET Slots, Drive!Wake(failed)
      PROVE  StoryHolds(s)'
  <2>1. /\ UNCHANGED <<events, states>> /\ scan # s /\ scan' # s
        /\ driveFaults' \in {driveFaults, driveFaults + 1}
    BY <1>3 DEF Drive!Wake, Drive!Fault, Drive!storeVars, Drive!DriveAssumption
  <2> QED
    BY <2>1, StoryStill
<1>4. ASSUME NEW stored \in BOOLEAN, Drive!EndScan(stored)
      PROVE  StoryHolds(s)'
  <2>1. /\ UNCHANGED <<events, states>> /\ scan # s /\ scan' # s
        /\ driveFaults' \in {driveFaults, driveFaults + 1}
    BY <1>4 DEF Drive!EndScan, Drive!Fault, Drive!Idle, Drive!DriveAssumption
  <2> QED
    BY <2>1, StoryStill
<1>5. CASE Drive!DetectFails \/ Drive!Crash
  <2>1. /\ UNCHANGED <<events, states>> /\ scan' # s
        /\ driveFaults' = driveFaults + 1
    BY <1>5 DEF Drive!DetectFails, Drive!Crash, Drive!Fault, Drive!Idle,
                Drive!storeVars, Drive!DriveAssumption
  <2> QED
    BY <2>1, StoryStill
<1>6. CASE UNCHANGED Drive!vars
  BY <1>6, StoryStill DEF Drive!vars, Drive!scanVars, Drive!storeVars
<1>7. ASSUME NEW t \in Slots, t # s,
             \/ Drive!Observe(t) \/ Drive!SaveEvent(t) \/ Drive!SaveState(t)
             \/ Drive!AddNote(t)
             \/ \E i \in DOMAIN events[t] : Drive!DeleteNote(t, i)
      PROVE  StoryHolds(s)'
  <2>1. /\ events'[s] = events[s] /\ states'[s] = states[s]
        /\ driveFaults' = driveFaults /\ snap' = snap
    BY <1>7 DEF Drive!Observe, Drive!SaveEvent, Drive!SaveState, Drive!AddNote,
                Drive!DeleteNote,
                Drive!scanVars, DriveTypes
  <2>2. scan' = scan \/ (scan # s /\ scan' # s)
    BY <1>7 DEF Drive!Observe, Drive!SaveEvent, Drive!SaveState, Drive!AddNote,
                Drive!DeleteNote,
                Drive!scanVars, Drive!DriveAssumption
  <2> QED
    BY <2>1, <2>2, StoryStill
<1>8. ASSUME \/ Drive!Observe(s) \/ Drive!SaveEvent(s)
             \/ Drive!SaveState(s) \/ Drive!AddNote(s)
               \/ \E i \in DOMAIN events[s] : Drive!DeleteNote(s, i)
      PROVE  StoryHolds(s)'
  BY <1>8, StoryObserve, StorySaveEvent, StorySaveState, StoryAddNote,
     StoryDeleteNote
<1> QED
  BY <1>1, <1>2, <1>3, <1>4, <1>5, <1>6, <1>7, <1>8 DEF Drive!Next

-----------------------------------------------------------------------------
(* Types.                                                                  *)

\* An age grows by one up to its limit.
LEMMA OlderBy ==
  ASSUME NEW n \in Nat, NEW limit \in Nat
  PROVE  /\ Drive!Older(n, limit) \in Nat /\ Drive!Older(n, limit) <= n + 1
         /\ Drive!Older(n, limit) # limit =>
               n # limit /\ Drive!Older(n, limit) = n + 1
BY DEF Drive!Older

\* Every step keeps the types.
LEMMA DriveTypesStep ==
  ASSUME DriveTypes, Drive!DriveAssumption, [Drive!Next]_(Drive!vars)
  PROVE  DriveTypes'
<1>0. /\ NoDrive \in Seen /\ Drives \subseteq Seen
      /\ Drive!Tired \in Nat /\ Drive!NoRow \in Nat /\ SmartEvery \in Nat
      /\ \A n, limit \in Nat : Drive!Older(n, limit) \in Nat
  BY OlderBy DEF Seen, Drive!Tired, Drive!NoRow, Drive!DriveAssumption
<1>1. ASSUME NEW t \in Slots,
             \/ \E d \in Drives \cup {NoDrive} : Drive!Swap(t, d)
             \/ Drive!SpinDown(t) \/ Drive!SpinUp(t)
      PROVE  DriveTypes'
  <2>1. /\ UNCHANGED <<driveFaults, since, snap, standby, latest, states, events,
                       row, scan, todo>>
        /\ asleep' \subseteq Slots
    BY <1>1 DEF Drive!Swap, Drive!SpinDown, Drive!SpinUp, Drive!scanVars,
                Drive!storeVars, DriveTypes
  <2>2. bay' \in [Slots -> Seen]
    <3>1. bay' = bay \/ \E d \in Seen : bay' = [bay EXCEPT ![t] = d]
      BY <1>1 DEF Drive!Swap, Drive!SpinDown, Drive!SpinUp, Seen
    <3> QED
      BY <3>1 DEF DriveTypes
  <2>3. unread' \in [Slots -> Nat]
    <3>1. unread' = unread \/ unread' = [unread EXCEPT ![t] = 0]
      BY <1>1 DEF Drive!Swap, Drive!SpinDown, Drive!SpinUp
    <3>2. unread \in [Slots -> Nat]
      BY DEF DriveTypes
    <3> QED
      BY <3>1, <3>2
  <2> QED
    BY <2>1, <2>2, <2>3 DEF DriveTypes
<1>2. ASSUME NEW failed \in SUBSET Slots, Drive!StartScan(failed)
      PROVE  DriveTypes'
  <2>1. /\ driveFaults' \in Nat /\ scan' \in {"wake", "detect"}
        /\ todo' = Slots
        /\ UNCHANGED <<bay, asleep, latest, states, events>>
    BY <1>2 DEF Drive!StartScan, Drive!Fault, Drive!envVars, DriveTypes
  <2>2. row' \in [Slots -> Nat]
    BY <1>0, <1>2 DEF Drive!StartScan, DriveTypes
  <2>3. /\ snap' \in [Slots -> Seen] /\ standby' \subseteq Slots
        /\ since' \in Nat
    <3>1. CASE Drive!Collect(failed)
      BY <1>0, <3>1 DEF Drive!Collect, DriveTypes
    <3>2. CASE Drive!CarryForward
      BY <3>2 DEF Drive!CarryForward, DriveTypes
    <3> QED
      BY <1>2, <3>1, <3>2 DEF Drive!StartScan
  <2>4. unread' \in [Slots -> Nat]
    <3>1. CASE Drive!Collect(failed)
      BY <1>0, <3>1 DEF Drive!Collect, DriveTypes
    <3>2. CASE Drive!CarryForward
      BY <1>0, <3>2 DEF Drive!CarryForward, DriveTypes
    <3> QED
      BY <1>2, <3>1, <3>2 DEF Drive!StartScan
  <2> QED
    BY <2>1, <2>2, <2>3, <2>4 DEF DriveTypes
<1>3. ASSUME NEW failed \in SUBSET Slots, Drive!Wake(failed)
      PROVE  DriveTypes'
  <2>1. /\ driveFaults' \in Nat /\ scan' = "detect"
        /\ UNCHANGED <<bay, since, latest, todo, states, events, row>>
    BY <1>3 DEF Drive!Wake, Drive!Fault, Drive!storeVars, DriveTypes
  <2>2. /\ snap' \in [Slots -> Seen] /\ standby' \subseteq Slots
        /\ asleep' \subseteq Slots /\ unread' \in [Slots -> Nat]
    BY <1>0, <1>3 DEF Drive!Wake, DriveTypes
  <2> QED
    BY <2>1, <2>2 DEF DriveTypes
<1>4. ASSUME NEW stored \in BOOLEAN, Drive!EndScan(stored)
      PROVE  DriveTypes'
  <2>1. /\ driveFaults' \in Nat /\ scan' = Drive!Idle
        /\ UNCHANGED <<bay, asleep, since, snap, standby, todo, states,
                       events, unread>>
        /\ latest' = [smart |-> snap, standby |-> standby]
    BY <1>4 DEF Drive!EndScan, Drive!Fault, Drive!envVars, DriveTypes
  <2>2. row' \in [Slots -> Nat]
    BY <1>4 DEF Drive!EndScan, DriveTypes
  <2> QED
    BY <2>1, <2>2 DEF DriveTypes, Drive!Idle
<1>5. CASE Drive!DetectFails \/ Drive!Crash
  <2>1. CASE Drive!DetectFails
    BY <2>1 DEF Drive!DetectFails, Drive!Fault, Drive!storeVars, Drive!envVars,
                DriveTypes
  <2>2. CASE Drive!Crash
    <3>1. Drive!Nothing \in [Slots -> Seen]
      BY <1>0 DEF Drive!Nothing
    <3>2. /\ UNCHANGED <<states, events, row, bay, asleep, unread>>
          /\ driveFaults' = driveFaults + 1 /\ since' = SmartEvery
          /\ scan' = "idle"
          /\ snap' = Drive!Nothing /\ standby' = {} /\ todo' = {}
      BY <2>2 DEF Drive!Crash, Drive!Fault, Drive!Idle, Drive!storeVars,
                  Drive!envVars
    <3>3. latest' = [smart |-> Drive!Nothing, standby |-> {}]
      BY <2>2 DEF Drive!Crash
    <3>4. latest' \in [smart : [Slots -> Seen], standby : SUBSET Slots]
      BY <3>1, <3>3
    <3>5. /\ states' \in [Slots -> Seen] /\ events' \in [Slots -> Seq(Event)]
          /\ row' \in [Slots -> Nat] /\ bay' \in [Slots -> Seen]
          /\ asleep' \subseteq Slots /\ unread' \in [Slots -> Nat]
      BY <3>2 DEF DriveTypes
    <3>6. /\ driveFaults' \in Nat /\ since' \in Nat
          /\ snap' \in [Slots -> Seen]
          /\ standby' \subseteq Slots /\ todo' \subseteq Slots
          /\ scan' \in {"idle", "wake", "detect"} \cup Slots
      BY <1>0, <3>1, <3>2 DEF DriveTypes
    <3> QED
      BY <3>4, <3>5, <3>6 DEF DriveTypes
  <2> QED
    BY <1>5, <2>1, <2>2
<1>6. CASE UNCHANGED Drive!vars
  BY <1>6 DEF Drive!vars, Drive!scanVars, Drive!storeVars, Drive!envVars,
              DriveTypes
<1>7. ASSUME NEW t \in Slots, Drive!Observe(t) \/ Drive!SaveState(t)
      PROVE  DriveTypes'
  BY <1>7 DEF Drive!Observe, Drive!SaveState, Drive!envVars, DriveTypes
<1>8. ASSUME NEW t \in Slots,
             \/ Drive!SaveEvent(t) \/ Drive!AddNote(t)
             \/ \E i \in DOMAIN events[t] : Drive!DeleteNote(t, i)
      PROVE  DriveTypes'
  <2>1. \E e \in Seq(Event) : events' = [events EXCEPT ![t] = e]
    <3>1. events[t] \in Seq(Event)
      BY DEF DriveTypes
    <3>2. CASE Drive!SaveEvent(t)
      <4>1. Drive!Replacement(t) \in Event
        BY DEF Drive!Replacement, Event, DriveTypes
      <4>2. Append(events[t], Drive!Replacement(t)) \in Seq(Event)
        BY <3>1, <4>1, AddedEvent, Zenon
      <4>3. events' =
              [events EXCEPT ![t] = Append(events[t], Drive!Replacement(t))]
        BY <3>2 DEF Drive!SaveEvent
      <4> QED
        BY <4>2, <4>3, Zenon
    <3>3. CASE Drive!AddNote(t)
      <4> DEFINE x == [auto |-> FALSE, old |-> NoDrive, new |-> NoDrive]
      <4>1. x \in Event
        BY DEF Event, Seen
      <4>2. events' = [events EXCEPT ![t] = Append(events[t], x)]
        BY <3>3 DEF Drive!AddNote
      <4> HIDE DEF x
      <4>3. Append(events[t], x) \in Seq(Event)
        BY <3>1, <4>1, AddedEvent, Zenon
      <4> QED
        BY <4>2, <4>3, Zenon
    <3>4. ASSUME NEW i \in DOMAIN events[t], Drive!DeleteNote(t, i)
          PROVE  \E e \in Seq(Event) : events' = [events EXCEPT ![t] = e]
      <4>1. Drive!RemoveAt(events[t], i) \in Seq(Event)
        BY <3>1, RemovedEvent, Zenon
      <4>2. events' = [events EXCEPT ![t] = Drive!RemoveAt(events[t], i)]
        BY <3>4 DEF Drive!DeleteNote
      <4> QED
        BY <4>1, <4>2, Zenon
    <3> QED
      BY <1>8, <3>2, <3>3, <3>4
  <2>2. events' \in [Slots -> Seq(Event)]
    <3>1. PICK e \in Seq(Event) : events' = [events EXCEPT ![t] = e]
      BY <2>1
    <3>2. events \in [Slots -> Seq(Event)]
      BY DEF DriveTypes
    <3> DEFINE S == Seq(Event)
    <3> HIDE DEF S
    <3> QED
      BY <3>1, <3>2 DEF S
  <2>3. /\ UNCHANGED <<since, snap, standby, latest, todo, states, row, bay,
                       asleep, unread, driveFaults>>
        /\ scan' \in {scan, t}
    BY <1>8 DEF Drive!SaveEvent, Drive!AddNote, Drive!DeleteNote,
                Drive!scanVars, Drive!envVars
  <2> QED
    BY <2>2, <2>3 DEF DriveTypes
<1> QED
  BY <1>1, <1>2, <1>3, <1>4, <1>5, <1>6, <1>7, <1>8 DEF Drive!Next

-----------------------------------------------------------------------------
(* How long a drive stays unread.                                          *)

\* The bound stays where the ages, the copies and the bay do.
LEMMA BoundedStill ==
  ASSUME DriveTypes, Drive!DriveAssumption, NEW s \in Slots, Bounded(s),
         since' = since, snap'[s] = snap[s], row'[s] = row[s],
         standby' = standby,
         scan' = Drive!Idle => scan = Drive!Idle,
         scan' = "wake" <=> scan = "wake",
         unread'[s] \in Nat, unread'[s] <= unread[s],
         bay'[s] = NoDrive => unread'[s] = 0
  PROVE  Bounded(s)'
<1>1. /\ since \in Nat /\ row[s] \in Nat /\ unread[s] \in Nat
  BY DEF DriveTypes
<1>2. snap'[s] # NoDrive => /\ unread'[s] <= since
                            /\ scan' = Drive!Idle => row[s] = 0
  BY <1>1 DEF Bounded
<1>3. ASSUME snap'[s] = NoDrive, row[s] # Drive!NoRow
      PROVE  \/ unread'[s] <= since
             \/ /\ unread'[s] <= row[s] + SmartEvery - 1
                /\ IF scan' = "wake" /\ s \in standby
                     THEN unread'[s] < Drive!Tired
                     ELSE row[s] <= SmartMaxAge + since
  <2>1. CASE unread[s] <= since
    BY <1>1, <2>1
  <2>2. CASE /\ unread[s] <= row[s] + SmartEvery - 1
             /\ IF scan = "wake" /\ s \in standby
                  THEN unread[s] < Drive!Tired
                  ELSE row[s] <= SmartMaxAge + since
    <3>1. SmartEvery \in Nat /\ Drive!Tired \in Nat
      BY DEF Drive!DriveAssumption, Drive!Tired
    <3> QED
      BY <1>1, <2>2, <3>1
  <2> QED
    BY <1>3, <2>1, <2>2 DEF Bounded
<1> QED
  BY <1>2, <1>3 DEF Bounded, Drive!NoRow

\* A collection reads the drives that are awake; those asleep are as old as
\* their row tells, or were seen or pushed in since the last collection.
LEMMA BoundedCollect ==
  ASSUME DriveTypes, Drive!DriveAssumption, NEW s \in Slots, Bounded(s), Begun,
         scan = Drive!Idle, scan' = "wake", Drive!Collect({}),
         row'[s] = Drive!Older(row[s], Drive!NoRow), bay' = bay
  PROVE  Bounded(s)'
<1>1. /\ since \in Nat /\ row[s] \in Nat /\ unread[s] \in Nat
      /\ SmartEvery \in Nat /\ SmartEvery > 0 /\ SmartMaxAge \in Nat
      /\ Drive!NoRow \in Nat /\ Drive!Tired = SmartMaxAge + 2 * SmartEvery
      /\ Drive!Tired \in Nat
  BY DEF DriveTypes, Drive!DriveAssumption, Drive!NoRow, Drive!Tired
<1>2. /\ since' = 0
      /\ snap'[s] = IF s \in asleep THEN NoDrive ELSE bay[s]
      /\ unread'[s] = IF bay[s] = NoDrive \/ s \notin asleep THEN 0
                      ELSE Drive!Older(unread[s], Drive!Tired)
      /\ standby' = asleep
  BY DEF Drive!Collect
<1>3. CASE unread'[s] = 0
  <2>1. unread'[s] <= since'
    BY <1>2, <1>3
  <2> QED
    BY <1>2, <1>3, <2>1 DEF Bounded, Drive!Idle
<1>4. CASE s \in asleep /\ bay[s] # NoDrive
  <2>1. /\ snap'[s] = NoDrive /\ s \in standby'
        /\ unread'[s] = Drive!Older(unread[s], Drive!Tired)
    BY <1>2, <1>4
  <2>2. unread'[s] \in Nat /\ unread'[s] <= unread[s] + 1
    BY <1>1, <2>1, OlderBy
  <2>3. ASSUME row'[s] # Drive!NoRow
        PROVE  /\ unread'[s] <= row'[s] + SmartEvery - 1
               /\ unread'[s] < Drive!Tired
    <3>1. row[s] # Drive!NoRow /\ row'[s] = row[s] + 1
      BY <1>1, <2>3, OlderBy
    <3>2. since < SmartEvery
      BY <3>1 DEF Begun
    <3>3. CASE unread[s] <= since
      BY <1>1, <2>2, <3>1, <3>2, <3>3
    <3>4. CASE /\ unread[s] <= row[s] + SmartEvery - 1
               /\ row[s] <= SmartMaxAge + since
      BY <1>1, <2>2, <3>1, <3>2, <3>4
    <3> QED
      BY <3>1, <3>3, <3>4 DEF Bounded, Drive!Idle
  <2> QED
    BY <1>4, <2>1, <2>3 DEF Bounded, Drive!NoRow
<1> QED
  BY <1>2, <1>3, <1>4

\* A scan between two collections makes everything one scan older.
LEMMA BoundedCarry ==
  ASSUME DriveTypes, Drive!DriveAssumption, NEW s \in Slots, Bounded(s),
         scan = Drive!Idle, scan' = "detect", Drive!CarryForward,
         latest.smart = snap,
         row'[s] = Drive!Older(row[s], Drive!NoRow), bay' = bay
  PROVE  Bounded(s)'
<1>1. /\ since \in Nat /\ row[s] \in Nat /\ unread[s] \in Nat
      /\ SmartEvery \in Nat /\ SmartMaxAge \in Nat
      /\ Drive!NoRow \in Nat /\ Drive!Tired \in Nat
  BY DEF DriveTypes, Drive!DriveAssumption, Drive!NoRow, Drive!Tired
<1>2. /\ since' = since + 1 /\ snap' = snap
      /\ unread'[s] = IF bay[s] = NoDrive THEN 0
                       ELSE Drive!Older(unread[s], Drive!Tired)
  BY DEF Drive!CarryForward
<1>3. unread'[s] \in Nat /\ unread'[s] <= unread[s] + 1
  <2>1. /\ Drive!Older(unread[s], Drive!Tired) \in Nat
        /\ Drive!Older(unread[s], Drive!Tired) <= unread[s] + 1
    BY <1>1, OlderBy
  <2> QED
    BY <1>1, <1>2, <2>1
<1>4. snap[s] # NoDrive => unread'[s] <= since'
  BY <1>1, <1>2, <1>3 DEF Bounded
<1>5. ASSUME snap[s] = NoDrive, row'[s] # Drive!NoRow
      PROVE  \/ unread'[s] <= since'
             \/ /\ unread'[s] <= row'[s] + SmartEvery - 1
                /\ row'[s] <= SmartMaxAge + since'
  <2>1. row[s] # Drive!NoRow /\ row'[s] = row[s] + 1
    BY <1>1, <1>5, OlderBy
  <2>2. CASE unread[s] <= since
    BY <1>1, <1>2, <1>3, <2>2
  <2>3. CASE /\ unread[s] <= row[s] + SmartEvery - 1
             /\ row[s] <= SmartMaxAge + since
    BY <1>1, <1>2, <1>3, <2>1, <2>3
  <2> QED
    BY <1>5, <2>1, <2>2, <2>3 DEF Bounded, Drive!Idle
<1> QED
  BY <1>2, <1>4, <1>5 DEF Bounded, Drive!Idle, Drive!NoRow

\* A drive whose row is too old is read however it sleeps.
LEMMA BoundedWake ==
  ASSUME DriveTypes, Drive!DriveAssumption, NEW s \in Slots, Bounded(s),
         SmartMaxAge > 0, Drive!Wake({})
  PROVE  Bounded(s)'
<1> DEFINE woken == s \in Drive!Stale /\ bay[s] # NoDrive
<1>1. /\ since \in Nat /\ row[s] \in Nat /\ unread[s] \in Nat
      /\ SmartEvery \in Nat /\ SmartMaxAge \in Nat
  BY DEF DriveTypes, Drive!DriveAssumption
<1>2. /\ scan = "wake" /\ scan' = "detect"
      /\ UNCHANGED <<since, row, bay>>
      /\ snap'[s] = IF woken THEN bay[s] ELSE snap[s]
      /\ unread'[s] = IF woken THEN 0 ELSE unread[s]
  BY DEF Drive!Wake, Drive!storeVars
<1>3. CASE woken
  BY <1>1, <1>2, <1>3 DEF Bounded, Drive!Idle
<1>4. CASE ~woken
  <2>1. snap'[s] = snap[s] /\ unread'[s] = unread[s]
    BY <1>2, <1>4
  <2>2. snap[s] # NoDrive => unread[s] <= since
    BY DEF Bounded
  <2>3. bay[s] = NoDrive => unread[s] = 0
    BY DEF Bounded
  <2>4. ASSUME snap[s] = NoDrive, row[s] # Drive!NoRow
        PROVE  \/ unread[s] <= since
               \/ /\ unread[s] <= row[s] + SmartEvery - 1
                  /\ row[s] <= SmartMaxAge + since
    <3>1. CASE bay[s] = NoDrive
      BY <1>1, <2>3, <3>1
    <3>2. CASE s \in standby /\ bay[s] # NoDrive
      <4>1. ~(row[s] > SmartMaxAge)
        BY <1>4, <2>4, <3>2 DEF Drive!Stale
      <4> QED
        BY <1>1, <2>4, <4>1 DEF Bounded
    <3>3. CASE s \notin standby
      BY <2>4, <3>3 DEF Bounded
    <3> QED
      BY <3>1, <3>2, <3>3
  <2> QED
    BY <1>2, <2>1, <2>2, <2>3, <2>4 DEF Bounded, Drive!Idle, Drive!NoRow
<1> QED
  BY <1>3, <1>4

\* Without failures every step keeps the bound on the time unread.
LEMMA FaultlessStep ==
  ASSUME DriveTypes, Drive!DriveAssumption, Faultless,
         [Drive!Next]_(Drive!vars)
  PROVE  Faultless'
<1> SUFFICES ASSUME SmartMaxAge > 0, driveFaults' = 0
             PROVE  /\ Begun'
                    /\ (scan = Drive!Idle => latest = [smart |-> snap,
                                                standby |-> standby])'
                    /\ \A s \in Slots : Bounded(s)'
  BY DEF Faultless
<1>0. /\ driveFaults \in Nat /\ since \in Nat /\ SmartEvery \in Nat \ {0}
      /\ row \in [Slots -> Nat] /\ unread \in [Slots -> Nat]
      /\ ~Drive!Fault /\ "detect" # Drive!Idle /\ "wake" # Drive!Idle
      /\ "detect" \notin Slots /\ "wake" \notin Slots
      /\ Drive!Idle \notin Slots
  BY DEF DriveTypes, Drive!DriveAssumption, Drive!Fault, Drive!Idle
<1>1. driveFaults' = driveFaults =>
        /\ Begun
        /\ scan = Drive!Idle =>
             latest = [smart |-> snap, standby |-> standby]
        /\ \A s \in Slots : Bounded(s)
  BY DEF Faultless
<1>2. ASSUME NEW t \in Slots,
             \/ \E d \in Drives \cup {NoDrive} : Drive!Swap(t, d)
             \/ Drive!SpinDown(t) \/ Drive!SpinUp(t)
      PROVE  Begun' /\ (scan = Drive!Idle => latest = [smart |-> snap,
                                                standby |-> standby])'
             /\ \A s \in Slots : Bounded(s)'
  <2>1. /\ UNCHANGED <<driveFaults, since, snap, standby, latest, row, scan>>
    BY <1>2 DEF Drive!Swap, Drive!SpinDown, Drive!SpinUp, Drive!scanVars,
                Drive!storeVars
  <2>2. ASSUME NEW s \in Slots
        PROVE  /\ unread'[s] \in Nat /\ unread'[s] <= unread[s]
               /\ bay'[s] = NoDrive => unread'[s] = 0
    <3>1. Bounded(s)
      BY <1>1, <2>1
    <3>2. \/ UNCHANGED <<bay, unread>>
          \/ /\ unread' = [unread EXCEPT ![t] = 0]
             /\ \E d : bay' = [bay EXCEPT ![t] = d]
      BY <1>2 DEF Drive!Swap, Drive!SpinDown, Drive!SpinUp
    <3>3. bay \in [Slots -> Seen]
      BY DEF DriveTypes
    <3> QED
      BY <1>0, <3>1, <3>2, <3>3 DEF Bounded
  <2>3. \A s \in Slots : Bounded(s)'
    BY <1>1, <2>1, <2>2, BoundedStill
  <2> QED
    BY <1>1, <2>1, <2>3 DEF Begun
<1>3. ASSUME NEW t \in Slots,
             \/ Drive!Observe(t) \/ Drive!SaveEvent(t) \/ Drive!SaveState(t)
             \/ Drive!AddNote(t)
             \/ \E i \in DOMAIN events[t] : Drive!DeleteNote(t, i)
      PROVE  Begun' /\ (scan = Drive!Idle => latest = [smart |-> snap,
                                                standby |-> standby])'
             /\ \A s \in Slots : Bounded(s)'
  <2>1. /\ UNCHANGED <<driveFaults, since, snap, standby, latest, row, bay,
                       unread>>
        /\ scan' = scan \/ {scan, scan'} \subseteq {"detect"} \cup Slots
    BY <1>3 DEF Drive!Observe, Drive!SaveEvent, Drive!SaveState, Drive!AddNote,
                Drive!DeleteNote,
                Drive!scanVars, Drive!envVars
  <2>2. \A s \in Slots : unread[s] \in Nat /\ unread[s] <= unread[s]
    BY <1>0
  <2>3. \A s \in Slots : bay[s] = NoDrive => unread[s] = 0
    BY <1>1, <2>1 DEF Bounded
  <2>4. /\ scan' = Drive!Idle => scan = Drive!Idle
        /\ scan' = "wake" <=> scan = "wake"
        /\ scan = Drive!Idle => scan' = Drive!Idle
    BY <1>0, <2>1
  <2>5. \A s \in Slots : Bounded(s)'
    BY <1>1, <2>1, <2>2, <2>3, <2>4, BoundedStill
  <2> QED
    BY <1>1, <2>1, <2>4, <2>5 DEF Begun
<1>4. ASSUME NEW failed \in SUBSET Slots, Drive!StartScan(failed)
      PROVE  Begun' /\ (scan = Drive!Idle => latest = [smart |-> snap,
                                                standby |-> standby])'
             /\ \A s \in Slots : Bounded(s)'
  <2>1. /\ failed = {} /\ driveFaults' = driveFaults /\ scan = Drive!Idle
        /\ scan' \in {"wake", "detect"} /\ bay' = bay
        /\ \A s \in Slots : row'[s] = Drive!Older(row[s], Drive!NoRow)
    BY <1>0, <1>4 DEF Drive!StartScan, Drive!envVars
  <2>2. CASE Drive!Due
    <3>1. Drive!Collect({}) /\ scan' = "wake"
      BY <1>4, <2>1, <2>2 DEF Drive!StartScan
    <3>2. since' = 0
      BY <3>1 DEF Drive!Collect
    <3> QED
      BY <1>0, <1>1, <2>1, <3>1, <3>2, BoundedCollect DEF Begun
  <2>3. CASE ~Drive!Due
    <3>1. Drive!CarryForward /\ scan' = "detect"
      BY <1>4, <2>3 DEF Drive!StartScan
    <3>2. since' = since + 1 /\ since' < SmartEvery
      BY <1>0, <2>3, <3>1 DEF Drive!CarryForward, Drive!Due
    <3>3. latest.smart = snap
      BY <1>1, <2>1
    <3> QED
      BY <1>0, <1>1, <2>1, <3>1, <3>2, <3>3, BoundedCarry DEF Begun
  <2> QED
    BY <2>2, <2>3
<1>5. ASSUME NEW failed \in SUBSET Slots, Drive!Wake(failed)
      PROVE  Begun' /\ (scan = Drive!Idle => latest = [smart |-> snap,
                                                standby |-> standby])'
             /\ \A s \in Slots : Bounded(s)'
  <2>1. /\ Drive!Wake({}) /\ driveFaults' = driveFaults /\ since' = since
        /\ scan = "wake" /\ scan' = "detect"
    BY <1>0, <1>5 DEF Drive!Wake
  <2> QED
    BY <1>0, <1>1, <2>1, BoundedWake DEF Begun
<1>6. ASSUME NEW stored \in BOOLEAN, Drive!EndScan(stored)
      PROVE  Begun' /\ (scan = Drive!Idle => latest = [smart |-> snap,
                                                standby |-> standby])'
             /\ \A s \in Slots : Bounded(s)'
  <2>1. /\ stored /\ driveFaults' = driveFaults
        /\ UNCHANGED <<since, snap, standby, bay, unread>>
        /\ scan = "detect" /\ scan' = Drive!Idle
        /\ latest' = [smart |-> snap, standby |-> standby]
        /\ \A s \in Slots : row'[s] = IF snap[s] # NoDrive THEN 0 ELSE row[s]
    BY <1>0, <1>6 DEF Drive!EndScan, Drive!envVars
  <2>2. ASSUME NEW s \in Slots
        PROVE  Bounded(s)'
    BY <1>0, <1>1, <2>1 DEF Bounded, Drive!NoRow
  <2> QED
    BY <1>0, <1>1, <2>1, <2>2 DEF Begun
<1>7. CASE Drive!DetectFails \/ Drive!Crash
  BY <1>0, <1>7 DEF Drive!DetectFails, Drive!Crash
<1>8. CASE UNCHANGED Drive!vars
  <2>1. UNCHANGED <<driveFaults, since, snap, standby, latest, row, scan, bay,
                    unread>>
    BY <1>8 DEF Drive!vars, Drive!scanVars, Drive!storeVars, Drive!envVars
  <2> QED
    BY <1>1, <2>1 DEF Begun, Bounded
<1> QED
  BY <1>2, <1>3, <1>4, <1>5, <1>6, <1>7, <1>8 DEF Drive!Next

-----------------------------------------------------------------------------
(* The theorem.                                                            *)

\* It holds before the first scan.
LEMMA DriveInvInit ==
  ASSUME Drive!DriveAssumption, Drive!Init
  PROVE  DriveIInv
<1>1. Drive!Nothing \in [Slots -> Seen]
  BY DEF Drive!Nothing, Seen
<1>2. DriveTypes
  <2>1. latest \in [smart : [Slots -> Seen], standby : SUBSET Slots]
    BY <1>1 DEF Drive!Init
  <2>2. events \in [Slots -> Seq(Event)]
    BY DEF Drive!Init
  <2>3. bay \in [Slots -> Seen]
    BY DEF Drive!Init, Seen
  <2>4. /\ row \in [Slots -> Nat] /\ unread \in [Slots -> Nat]
        /\ since \in Nat /\ driveFaults \in Nat
    BY DEF Drive!Init, Drive!DriveAssumption, Drive!NoRow
  <2> QED
    BY <1>1, <2>1, <2>2, <2>3, <2>4 DEF Drive!Init, Drive!Idle, DriveTypes
<1>3. ASSUME NEW s \in Slots
      PROVE  StoryHolds(s)
  <2>1. Drive!Told(s) = {} /\ scan # s
    BY DEF Drive!Init, Drive!Told, Drive!Idle, Drive!DriveAssumption
  <2> QED
    BY <2>1 DEF StoryHolds
<1>4. Faultless
  <2>1. \A s \in Slots : /\ snap[s] = NoDrive /\ row[s] = Drive!NoRow
                         /\ unread[s] = 0
    BY DEF Drive!Init, Drive!Nothing
  <2>2. /\ since = SmartEvery /\ scan = Drive!Idle /\ snap = Drive!Nothing
        /\ standby = {} /\ latest = [smart |-> Drive!Nothing, standby |-> {}]
    BY DEF Drive!Init
  <2> QED
    BY <2>1, <2>2 DEF Faultless, Begun, Bounded
<1> QED
  BY <1>2, <1>3, <1>4 DEF DriveIInv

\* Whatever fails and whatever users do with their notes, the events of a slot
\* tell its whole story; and without failures no sleeping drive is older than
\* its limit and two collections, if it has a limit (MaxAge > 0).
THEOREM DrivesAreFollowed ==
  ASSUME Drive!DriveAssumption
  PROVE  Drive!Spec => []DriveIsFollowed
<1>1. Drive!Init => DriveIInv
  BY DriveInvInit
<1>2. DriveIInv /\ [Drive!Next]_(Drive!vars) => DriveIInv'
  BY DriveTypesStep, StoryStep, FaultlessStep DEF DriveIInv
<1>3. ASSUME DriveIInv
      PROVE  DriveIsFollowed
  <2>1. Drive!StoryIsWhole
    BY <1>3 DEF DriveIInv, StoryHolds, Drive!StoryIsWhole
  <2>2. ASSUME NEW s \in Slots, SmartMaxAge > 0, driveFaults = 0,
               row[s] # Drive!NoRow
        PROVE  unread[s] < Drive!Tired
    <3>1. /\ since \in Nat /\ row[s] \in Nat /\ unread[s] \in Nat
          /\ SmartEvery \in Nat \ {0} /\ SmartMaxAge \in Nat
          /\ Drive!Tired = SmartMaxAge + 2 * SmartEvery
      BY <1>3 DEF DriveIInv, DriveTypes, Drive!DriveAssumption, Drive!Tired
    <3>2. Bounded(s) /\ since < SmartEvery
      BY <1>3, <2>2 DEF DriveIInv, Faultless, Begun
    <3>3. \/ unread[s] <= since
          \/ unread[s] < Drive!Tired
          \/ /\ unread[s] <= row[s] + SmartEvery - 1
             /\ row[s] <= SmartMaxAge + since
      BY <2>2, <3>2 DEF Bounded
    <3> QED
      BY <3>1, <3>2, <3>3
  <2> QED
    BY <2>1, <2>2 DEF DriveIsFollowed, Drive!DriveIsFollowed, Drive!WokenInTime
<1> QED
  BY <1>1, <1>2, <1>3, PTL DEF Drive!Spec

-----------------------------------------------------------------------------
(* The backups.                                                            *)

BackupTypes ==
  /\ second \in Backup!Times
  /\ files \in [Backup!Times -> {"none", "partial", "torn", "whole"}]
  /\ writer \in [Backup!Writers -> [at : 0 .. MaxTime,
                             stage : {"idle", "copying", "pruning"}]]
  /\ clashes \in Nat /\ backupFaults \in Nat

Copying(w) == writer[w].stage = "copying"
Copied(t) == \E w \in Backup!Writers : Copying(w) /\ writer[w].at = t

\* No file is from the future, and one that is complete is nobody's.
FilesAreOld ==
  /\ \A t \in Backup!Times : Backup!Exists(t) => t <= second
  /\ \A w \in Backup!Writers :
       writer[w].stage # "idle" => writer[w].at \in Backup!Times
                                   /\ writer[w].at <= second
  /\ \A w \in Backup!Writers : Copying(w) => files[writer[w].at] # "whole"
  /\ \A v, w \in Backup!Writers :
       (v # w /\ Copying(v) /\ Copying(w) /\ writer[v].at = writer[w].at)
         => files[writer[w].at] \in {"torn", "none"}

\* Files that nobody will complete, and the one of this second that was
\* removed under a writer's hands.
Lost ==
  {t \in Backup!Times : \/ files[t] = "torn"
                        \/ files[t] = "partial" /\ ~Copied(t)
                        \/ files[t] = "none" /\ t = second /\ Copied(t)}

LostAreCounted == Cardinality(Lost) <= clashes + 2 * backupFaults

Partial(t) == files[t] \in {"partial", "torn"}

\* A writer's own file is its own, and all newer ones are complete, but for
\* the one being written.
SoleFiles ==
  /\ \A t \in Backup!Times : files[t] # "torn"
  /\ \A w \in Backup!Writers :
       Copying(w) /\ writer[w].at = second => Backup!Exists(second)
  /\ \A v, w \in Backup!Writers :
       v # w /\ Copying(v) /\ Copying(w) => writer[v].at # writer[w].at
  /\ \A w \in Backup!Writers, u \in Backup!Times :
       (writer[w].stage # "idle" /\ u > writer[w].at /\ Partial(u)) =>
         \E v \in Backup!Writers \ {w} : Copying(v) /\ writer[v].at = u
  /\ \A w \in Backup!Writers :
       writer[w].stage = "pruning" =>
         \E u \in Backup!Times : u >= writer[w].at /\ files[u] = "whole"

\* As long as no two backups have begun in one second.
NoClash == clashes = 0 => SoleFiles

Sound == FilesAreOld /\ LostAreCounted /\ NoClash

BackupIInv ==
  /\ BackupTypes /\ lastAuto = lastBackup
  /\ KeepCount >= 2 => Sound

-----------------------------------------------------------------------------
(* Times.                                                                  *)

\* A set of times is finite, and one time makes it larger by one at most.
LEMMA TimesAreCounted ==
  ASSUME Backup!BackupAssumption, NEW S \in SUBSET Backup!Times
  PROVE  /\ IsFiniteSet(S) /\ Cardinality(S) \in Nat
         /\ \A t : Cardinality(S \cup {t}) <= Cardinality(S) + 1
         /\ \A T \in SUBSET S : Cardinality(T) <= Cardinality(S)
<1>1. IsFiniteSet(Backup!Times)
  BY FS_Interval DEF Backup!Times, Backup!BackupAssumption
<1>2. IsFiniteSet(S) /\ Cardinality(S) \in Nat
  BY <1>1, PartIsCounted
<1>3. \A t : Cardinality(S \cup {t}) <= Cardinality(S) + 1
  <2> TAKE t
  <2>1. Cardinality(S \cup {t}) = IF t \in S THEN Cardinality(S)
                                  ELSE Cardinality(S) + 1
    BY <1>2, FS_AddElement
  <2> QED
    BY <1>2, <2>1
<1>4. \A T \in SUBSET S : Cardinality(T) <= Cardinality(S)
  BY <1>2, PartIsCounted
<1> QED
  BY <1>2, <1>3, <1>4

\* Of the complete backups one is the newest.
LEMMA NewestWhole ==
  ASSUME Backup!BackupAssumption, Backup!HasWhole
  PROVE  \E m \in Backup!Times :
           /\ files[m] = "whole"
           /\ \A u \in Backup!Times : files[u] = "whole" => u <= m
<1> DEFINE S == {MaxTime - t : t \in {u \in Backup!Times : files[u] = "whole"}}
<1>1. S \subseteq Nat /\ S # {}
  BY DEF Backup!HasWhole, Backup!Times, Backup!BackupAssumption
<1>2. PICK x \in S : \A y \in S : x <= y
  <2> HIDE DEF S
  <2> QED
    BY <1>1, LeastNatural
<1>3. PICK m \in Backup!Times : x = MaxTime - m /\ files[m] = "whole"
  BY <1>2
<1>4. ASSUME NEW u \in Backup!Times, files[u] = "whole"
      PROVE  u <= m
  <2>1. MaxTime - u \in S
    BY <1>4
  <2>2. MaxTime - m <= MaxTime - u
    BY <1>2, <1>3, <2>1
  <2> QED
    BY <2>2 DEF Backup!Times, Backup!BackupAssumption
<1> QED
  BY <1>3, <1>4

\* As many lost files as before, or one more.
LEMMA LostOneMore ==
  ASSUME Backup!BackupAssumption, NEW t, Lost' \subseteq Lost \cup {t}
  PROVE  /\ Cardinality(Lost) \in Nat /\ Cardinality(Lost') \in Nat
         /\ Cardinality(Lost') <= Cardinality(Lost) + 1
         /\ Lost' \subseteq Lost => Cardinality(Lost') <= Cardinality(Lost)
<1>1. /\ Lost \in SUBSET Backup!Times /\ Lost' \in SUBSET Backup!Times
      /\ Lost \cup {t} \in SUBSET (Backup!Times \cup {t})
  BY DEF Lost, Backup!Times
<1>2. /\ IsFiniteSet(Lost) /\ Cardinality(Lost) \in Nat
      /\ Cardinality(Lost') \in Nat
      /\ Cardinality(Lost \cup {t}) <= Cardinality(Lost) + 1
  BY <1>1, TimesAreCounted
<1>3. IsFiniteSet(Lost \cup {t})
  BY <1>2, FS_AddElement
<1>4. /\ Cardinality(Lost') <= Cardinality(Lost \cup {t})
      /\ Cardinality(Lost \cup {t}) \in Nat
  BY <1>3, PartIsCounted, FS_CardinalityType
<1>5. Lost' \subseteq Lost => Cardinality(Lost') <= Cardinality(Lost)
  BY <1>2, PartIsCounted
<1> QED
  BY <1>2, <1>4, <1>5

\* The same with two.
LEMMA LostTwoMore ==
  ASSUME Backup!BackupAssumption, NEW s, NEW t,
         Lost' \subseteq Lost \cup {s, t}
  PROVE  /\ Cardinality(Lost) \in Nat /\ Cardinality(Lost') \in Nat
         /\ Cardinality(Lost') <= Cardinality(Lost) + 2
<1>1. Lost \in SUBSET Backup!Times /\ Lost' \in SUBSET Backup!Times
  BY DEF Lost, Backup!Times
<1>2. /\ IsFiniteSet(Lost) /\ Cardinality(Lost) \in Nat
      /\ Cardinality(Lost \cup {s}) <= Cardinality(Lost) + 1
      /\ Cardinality(Lost') \in Nat
  BY <1>1, TimesAreCounted
<1>3. IsFiniteSet(Lost \cup {s}) /\ Cardinality(Lost \cup {s}) \in Nat
  BY <1>2, FS_AddElement, FS_CardinalityType
<1>4. /\ Cardinality((Lost \cup {s}) \cup {t}) =
           IF t \in Lost \cup {s} THEN Cardinality(Lost \cup {s})
                                 ELSE Cardinality(Lost \cup {s}) + 1
      /\ IsFiniteSet((Lost \cup {s}) \cup {t})
  BY <1>3, FS_AddElement
<1>5. /\ Cardinality(Lost') <= Cardinality((Lost \cup {s}) \cup {t})
      /\ Cardinality((Lost \cup {s}) \cup {t}) \in Nat
  <2>1. Lost' \in SUBSET ((Lost \cup {s}) \cup {t})
    OBVIOUS
  <2> QED
    BY <1>4, <2>1, PartIsCounted, FS_CardinalityType
<1> QED
  BY <1>2, <1>3, <1>4, <1>5

\* If none was lost, none more than before.
LEMMA LostNoMore ==
  ASSUME Backup!BackupAssumption, Lost' \subseteq Lost
  PROVE  /\ Cardinality(Lost) \in Nat /\ Cardinality(Lost') \in Nat
         /\ Cardinality(Lost') <= Cardinality(Lost)
BY LostOneMore

\* Apart from one writer there is one other.
LEMMA TwoWriters ==
  ASSUME NEW w \in Backup!Writers, NEW v \in Backup!Writers,
         NEW x \in Backup!Writers,
         v # w, x # w
  PROVE  v = x
BY DEF Backup!Writers

-----------------------------------------------------------------------------
(* The invariant.                                                          *)

\* The writers' records, and who else there is.
LEMMA WriterParts ==
  ASSUME BackupTypes, NEW w \in Backup!Writers
  PROVE  /\ writer[w].at \in 0 .. MaxTime
         /\ writer[w].stage \in {"idle", "copying", "pruning"}
         /\ writer[w] = Backup!Idle => writer[w].stage = "idle"
         /\ \A t : writer[w] = [at |-> t, stage |-> "copying"] <=>
                     Copying(w) /\ writer[w].at = t
BY DEF BackupTypes, Backup!Idle, Copying

\* Every step keeps the types.
LEMMA BackupTypesStep ==
  ASSUME BackupTypes, Backup!BackupAssumption, [Backup!Next]_(Backup!vars)
  PROVE  BackupTypes'
<1>0. /\ Backup!Idle \in [at : 0 .. MaxTime,
                        stage : {"idle", "copying", "pruning"}]
      /\ MaxTime \in Nat
  BY DEF Backup!Idle, Backup!None, Backup!BackupAssumption
<1>1. ASSUME NEW w \in Backup!Writers, Backup!Begin(w)
      PROVE  BackupTypes'
  <2>1. files' \in [Backup!Times -> {"none", "partial", "torn", "whole"}]
    BY <1>1 DEF Backup!Begin, BackupTypes
  <2>2. /\ second' = second /\ backupFaults' = backupFaults
        /\ clashes' = clashes \/ clashes' = clashes + 1
        /\ writer' = [writer EXCEPT ![w] = [at |-> second,
                                            stage |-> "copying"]]
    BY <1>1 DEF Backup!Begin
  <2>3. [at |-> second, stage |-> "copying"] \in
          [at : 0 .. MaxTime, stage : {"idle", "copying", "pruning"}]
    BY <1>0 DEF BackupTypes, Backup!Times
  <2> QED
    BY <2>1, <2>2, <2>3 DEF BackupTypes
<1>2. ASSUME NEW w \in Backup!Writers, Backup!Finish(w)
      PROVE  BackupTypes'
  <2>1. files' \in [Backup!Times -> {"none", "partial", "torn", "whole"}]
    BY <1>2 DEF Backup!Finish, BackupTypes
  <2>2. /\ second' = second /\ backupFaults' = backupFaults
        /\ clashes' = clashes
        /\ \/ writer' = [writer EXCEPT ![w].stage = "pruning"]
           \/ writer' = [writer EXCEPT ![w] = Backup!Idle]
    BY <1>2 DEF Backup!Finish
  <2> QED
    BY <1>0, <2>1, <2>2 DEF BackupTypes
<1>3. ASSUME NEW w \in Backup!Writers, Backup!Fail(w)
      PROVE  BackupTypes'
  <2>1. files' \in [Backup!Times -> {"none", "partial", "torn", "whole"}]
    BY <1>3 DEF Backup!Fail, BackupTypes
  <2>2. /\ second' = second /\ backupFaults' = backupFaults + 1
        /\ clashes' = clashes
        /\ writer' = [writer EXCEPT ![w] = Backup!Idle]
    BY <1>3 DEF Backup!Fail, Backup!Fault
  <2> QED
    BY <1>0, <2>1, <2>2 DEF BackupTypes
<1>4. ASSUME NEW w \in Backup!Writers, Backup!Prune(w)
      PROVE  BackupTypes'
  BY <1>0, <1>4 DEF Backup!Prune, BackupTypes
<1>5. CASE Backup!Tick \/ Backup!SaveSettings \/ UNCHANGED Backup!vars
  BY <1>5 DEF Backup!Tick, Backup!SaveSettings, Backup!vars, BackupTypes,
              Backup!Times, Backup!BackupAssumption
<1>6. CASE Backup!Crash
  BY <1>0, <1>6 DEF Backup!Crash, Backup!Fault, BackupTypes
<1> QED
  BY <1>1, <1>2, <1>3, <1>4, <1>5, <1>6 DEF Backup!Next

\* A second that is a file's already is counted as a clash; one whose file was
\* removed under a writer has been counted before.
LEMMA SoundBegin ==
  ASSUME BackupTypes, Backup!BackupAssumption, KeepCount >= 2, Sound,
         NEW w \in Backup!Writers, Backup!Begin(w)
  PROVE  Sound'
<1>0. /\ second \in Backup!Times /\ second \in Nat /\ clashes \in Nat
      /\ backupFaults \in Nat
  BY DEF BackupTypes, Backup!Times, Backup!BackupAssumption
<1>1. /\ UNCHANGED <<second, backupFaults>>
      /\ writer[w].stage = "idle"
      /\ writer'[w].at = second /\ writer'[w].stage = "copying"
      /\ \A v \in Backup!Writers \ {w} : writer'[v] = writer[v]
      /\ \A t \in Backup!Times \ {second} : files'[t] = files[t]
  BY WriterParts DEF Backup!Begin, BackupTypes
<1>2. \/ clashes' = clashes + 1
      \/ clashes' = clashes /\ files[second] = "none"
  BY DEF Backup!Begin, Backup!Exists
<1>3. files'[second] = IF Copied(second) THEN "torn" ELSE "partial"
  BY <1>0, WriterParts DEF Backup!Begin, Copied, BackupTypes
<1>4. /\ Copied(second)'
      /\ \A t \in Backup!Times \ {second} : Copied(t)' <=> Copied(t)
  <2>1. Copied(second)'
    BY <1>1 DEF Copied, Copying
  <2>2. ASSUME NEW t \in Backup!Times \ {second}, Copied(t)'
        PROVE  Copied(t)
    <3>1. PICK v \in Backup!Writers :
            writer'[v].stage = "copying" /\ writer'[v].at = t
      BY <2>2 DEF Copied, Copying
    <3>2. writer'[v] = writer[v]
      BY <1>1, <3>1
    <3> QED
      BY <3>1, <3>2 DEF Copied, Copying
  <2>3. ASSUME NEW t \in Backup!Times \ {second}, Copied(t)
        PROVE  Copied(t)'
    <3>1. PICK v \in Backup!Writers :
            writer[v].stage = "copying" /\ writer[v].at = t
      BY <2>3 DEF Copied, Copying
    <3>2. writer'[v] = writer[v]
      BY <1>1, <3>1
    <3> QED
      BY <3>1, <3>2 DEF Copied, Copying
  <2> QED
    BY <2>1, <2>2, <2>3, Zenon
<1>5. FilesAreOld'
  <2>1. ASSUME NEW t \in Backup!Times, Backup!Exists(t)'
        PROVE  t <= second
    <3>1. CASE t = second
      BY <1>0, <3>1
    <3>2. CASE t # second
      BY <1>1, <2>1, <3>2 DEF Sound, FilesAreOld, Backup!Exists
    <3> QED
      BY <3>1, <3>2
  <2>2. \A v \in Backup!Writers :
          writer'[v].stage # "idle" => writer'[v].at \in Backup!Times
                                       /\ writer'[v].at <= second
    BY <1>0, <1>1 DEF Sound, FilesAreOld
  <2>3. ASSUME NEW v \in Backup!Writers, Copying(v)'
        PROVE  files'[writer'[v].at] # "whole"
    <3>1. CASE writer'[v].at = second
      BY <1>3, <3>1
    <3>2. CASE writer'[v].at # second
      BY <1>1, <2>3, <3>2 DEF Sound, FilesAreOld, Copying
    <3> QED
      BY <3>1, <3>2
  <2>4. ASSUME NEW v \in Backup!Writers, NEW x \in Backup!Writers, v # x,
               Copying(v)', Copying(x)', writer'[v].at = writer'[x].at
        PROVE  files'[writer'[x].at] \in {"torn", "none"}
    <3>1. CASE v # w /\ x # w
      <4>1. /\ files[writer[x].at] \in {"torn", "none"}
            /\ writer[x].at \in Backup!Times
        BY <1>1, <2>4, <3>1 DEF Sound, FilesAreOld, Copying
      <4>2. writer[x].at # second \/ Copied(second)
        BY <1>1, <2>4, <3>1 DEF Copied, Copying
      <4> QED
        BY <1>1, <1>3, <3>1, <4>1, <4>2
    <3>2. CASE v = w \/ x = w
      <4>1. writer'[x].at = second
        BY <1>1, <2>4, <3>2
      <4>2. Copied(second)
        BY <1>1, <2>4, <3>2, <4>1 DEF Copied, Copying
      <4> QED
        BY <1>3, <4>1, <4>2
    <3> QED
      BY <3>1, <3>2
  <2> QED
    BY <1>1, <2>1, <2>2, <2>3, <2>4 DEF FilesAreOld
<1>6. LostAreCounted'
  <2>1. Lost' \subseteq Lost \cup {second}
    BY <1>1, <1>4 DEF Lost
  <2>2. clashes' = clashes => Lost' \subseteq Lost
    <3>1. ASSUME clashes' = clashes, second \in Lost'
          PROVE  second \in Lost
      <4>1. Copied(second) /\ files[second] = "none"
        BY <1>0, <1>1, <1>2, <1>3, <1>4, <3>1 DEF Lost
      <4> QED
        BY <1>0, <4>1 DEF Lost
    <3> QED
      BY <2>1, <3>1
  <2>3. Cardinality(Lost') <= clashes' + 2 * backupFaults
    BY <1>0, <1>2, <2>1, <2>2, LostOneMore DEF Sound, LostAreCounted
  <2> QED
    BY <1>1, <2>3 DEF LostAreCounted
<1>7. NoClash'
  <2> SUFFICES ASSUME clashes' = 0
      PROVE  SoleFiles'
    BY DEF NoClash
  <2>0. clashes = 0 /\ files[second] = "none"
    BY <1>0, <1>2
  <2>1. ~Copied(second)
    BY <2>0 DEF Sound, NoClash, SoleFiles, Copied, Backup!Exists
  <2>2. files'[second] = "partial"
    BY <1>3, <2>1
  <2>3. \A t \in Backup!Times : files'[t] # "torn"
    BY <1>1, <2>0, <2>2 DEF Sound, NoClash, SoleFiles
  <2>4. Backup!Exists(second)'
    BY <1>1, <2>2 DEF Backup!Exists
  <2>5. ASSUME NEW v \in Backup!Writers, NEW x \in Backup!Writers, v # x,
               Copying(v)', Copying(x)', writer'[v].at = writer'[x].at
        PROVE  FALSE
    <3>1. CASE v # w /\ x # w
      BY <1>1, <2>0, <2>5, <3>1 DEF Sound, NoClash, SoleFiles, Copying
    <3>2. CASE v = w
      BY <1>1, <2>1, <2>5, <3>2 DEF Copied, Copying
    <3>3. CASE x = w
      BY <1>1, <2>1, <2>5, <3>3 DEF Copied, Copying
    <3> QED
      BY <3>1, <3>2, <3>3
  <2>6. ASSUME NEW v \in Backup!Writers, NEW u \in Backup!Times,
               writer'[v].stage # "idle", u > writer'[v].at, Partial(u)'
        PROVE  \E x \in Backup!Writers \ {v} : Copying(x)' /\ writer'[x].at = u
    <3>1. CASE v = w
      <4>1. u > second
        BY <1>1, <2>6, <3>1
      <4>2. files'[u] = files[u]
        BY <1>0, <1>1, <4>1
      <4>3. files[u] # "none"
        BY <2>6, <4>2 DEF Partial
      <4> QED
        BY <1>0, <4>1, <4>3
           DEF Sound, FilesAreOld, Backup!Exists, Backup!Times
    <3>2. CASE v # w /\ u = second
      BY <1>1, <3>2 DEF Copying
    <3>3. CASE v # w /\ u # second
      <4>1. PICK x \in Backup!Writers \ {v} : Copying(x) /\ writer[x].at = u
        BY <1>1, <2>0, <2>6, <3>3 DEF Sound, NoClash, SoleFiles, Partial
      <4>2. x # w
        BY <1>1, <4>1 DEF Copying
      <4> QED
        BY <1>1, <4>1, <4>2 DEF Copying
    <3> QED
      BY <3>1, <3>2, <3>3
  <2>7. ASSUME NEW v \in Backup!Writers, writer'[v].stage = "pruning"
        PROVE  \E u \in Backup!Times :
                 u >= writer'[v].at /\ files'[u] = "whole"
    <3>1. v # w /\ writer'[v] = writer[v]
      BY <1>1, <2>7
    <3>2. PICK u \in Backup!Times : u >= writer[v].at /\ files[u] = "whole"
      BY <2>0, <2>7, <3>1 DEF Sound, NoClash, SoleFiles
    <3> QED
      BY <1>1, <2>0, <3>1, <3>2
  <2> QED
    BY <1>1, <2>3, <2>4, <2>5, <2>6, <2>7 DEF SoleFiles
<1> QED
  BY <1>5, <1>6, <1>7 DEF Sound

\* A copy that ends makes no file incomplete.
LEMMA SoundFinish ==
  ASSUME BackupTypes, Backup!BackupAssumption, KeepCount >= 2, Sound,
         NEW w \in Backup!Writers, Backup!Finish(w)
  PROVE  Sound'
<1> DEFINE t == writer[w].at
<1>1. /\ UNCHANGED <<second, backupFaults, clashes>>
      /\ Copying(w) /\ t \in Backup!Times /\ t <= second
      /\ files[t] # "whole"
  BY DEF Backup!Finish, Copying, Sound, FilesAreOld
<1>2. /\ writer'[w].stage # "copying"
      /\ writer'[w].stage # "idle" =>
           writer'[w].at = t /\ files[t] # "none"
      /\ \A v \in Backup!Writers \ {w} : writer'[v] = writer[v]
  BY DEF Backup!Finish, BackupTypes, Backup!Idle, Backup!Exists
<1>3. /\ files'[t] = IF files[t] = "partial" THEN "whole" ELSE files[t]
      /\ \A u \in Backup!Times \ {t} : files'[u] = files[u]
  BY <1>1 DEF Backup!Finish, BackupTypes
<1>4. \A v \in Backup!Writers : Copying(v)' => v # w /\ Copying(v)
  BY <1>2 DEF Copying
<1> HIDE DEF t
<1>5. FilesAreOld'
  <2>1. ASSUME NEW u \in Backup!Times, Backup!Exists(u)'
        PROVE  u <= second
    BY <1>1, <1>3, <2>1 DEF Sound, FilesAreOld, Backup!Exists
  <2>2. \A v \in Backup!Writers :
          writer'[v].stage # "idle" => writer'[v].at \in Backup!Times
                                       /\ writer'[v].at <= second
    BY <1>1, <1>2 DEF Sound, FilesAreOld
  <2>3. ASSUME NEW v \in Backup!Writers, Copying(v)'
        PROVE  files'[writer'[v].at] # "whole"
    <3>1. v # w /\ Copying(v) /\ writer'[v] = writer[v]
      BY <1>2, <1>4, <2>3
    <3>2. CASE writer[v].at = t
      <4>1. files[t] \in {"torn", "none"}
        BY <1>1, <3>1, <3>2 DEF Sound, FilesAreOld, t
      <4> QED
        BY <1>3, <3>1, <3>2, <4>1
    <3>3. CASE writer[v].at # t
      BY <1>3, <3>1, <3>3 DEF Sound, FilesAreOld, Copying
    <3> QED
      BY <3>2, <3>3
  <2>4. \A v, x \in Backup!Writers : Copying(v)' /\ Copying(x)' => v = x
    BY <1>4, TwoWriters
  <2> QED
    BY <1>1, <2>1, <2>2, <2>3, <2>4 DEF FilesAreOld
<1>6. LostAreCounted'
  <2>1. ASSUME NEW u \in Backup!Times, u \in Lost'
        PROVE  u \in Lost
    <3>1. Copied(u)' => Copied(u)
      BY <1>2, <1>4 DEF Copied
    <3>2. CASE u = t
      BY <1>1, <1>3, <2>1, <3>1, <3>2 DEF Lost
    <3>3. CASE u # t
      <4>1. Copied(u) => Copied(u)'
        BY <1>2, <3>3 DEF Copied, Copying, t
      <4> QED
        BY <1>1, <1>3, <2>1, <3>1, <3>3, <4>1 DEF Lost
    <3> QED
      BY <3>2, <3>3
  <2>2. Lost' \subseteq Lost
    BY <2>1 DEF Lost, Backup!Times
  <2> QED
    BY <1>1, <2>2, LostNoMore DEF Sound, LostAreCounted, BackupTypes
<1>7. NoClash'
  <2> SUFFICES ASSUME clashes' = 0
      PROVE  SoleFiles'
    BY DEF NoClash
  <2>0. SoleFiles /\ files[t] # "torn"
    BY <1>1 DEF Sound, NoClash, SoleFiles
  <2>1. \A u \in Backup!Times : files'[u] # "torn"
    BY <1>3, <2>0 DEF SoleFiles
  <2>2. ASSUME NEW v \in Backup!Writers, Copying(v)', writer'[v].at = second
        PROVE  Backup!Exists(second)'
    BY <1>1, <1>2, <1>3, <1>4, <2>0, <2>2 DEF SoleFiles, Backup!Exists,
                                              BackupTypes
  <2>3. \A v, x \in Backup!Writers : Copying(v)' /\ Copying(x)' => v = x
    BY <1>4, TwoWriters
  <2>4. ASSUME NEW v \in Backup!Writers, NEW u \in Backup!Times,
               writer'[v].stage # "idle", u > writer'[v].at, Partial(u)'
        PROVE  \E x \in Backup!Writers \ {v} : Copying(x)' /\ writer'[x].at = u
    <3>1. u # t /\ Partial(u)
      BY <1>3, <2>0, <2>4 DEF Partial
    <3>2. writer[v].stage # "idle" /\ writer'[v].at = writer[v].at
      BY <1>1, <1>2, <2>4 DEF Copying, t
    <3>3. PICK x \in Backup!Writers \ {v} : Copying(x) /\ writer[x].at = u
      BY <2>0, <2>4, <3>1, <3>2 DEF SoleFiles
    <3>4. x # w
      BY <3>1, <3>3 DEF t
    <3> QED
      BY <1>2, <3>3, <3>4 DEF Copying
  <2>5. ASSUME NEW v \in Backup!Writers, writer'[v].stage = "pruning"
        PROVE  \E u \in Backup!Times :
                 u >= writer'[v].at /\ files'[u] = "whole"
    <3>1. CASE v = w
      <4>1. files[t] = "partial"
        BY <1>1, <1>2, <2>0, <2>5, <3>1 DEF BackupTypes
      <4> QED
        BY <1>1, <1>2, <1>3, <2>5, <3>1, <4>1 DEF Backup!Times
    <3>2. CASE v # w
      <4>1. PICK u \in Backup!Times : u >= writer[v].at /\ files[u] = "whole"
        BY <1>2, <2>0, <2>5, <3>2 DEF SoleFiles
      <4> QED
        BY <1>1, <1>2, <1>3, <3>2, <4>1
    <3> QED
      BY <3>1, <3>2
  <2> QED
    BY <1>1, <2>1, <2>2, <2>3, <2>4, <2>5 DEF SoleFiles
<1> QED
  BY <1>5, <1>6, <1>7 DEF Sound

\* A copy that fails takes its file with it; what was lost of a file that two
\* were writing was counted when the second began.
LEMMA SoundFail ==
  ASSUME BackupTypes, Backup!BackupAssumption, KeepCount >= 2, Sound,
         NEW w \in Backup!Writers, Backup!Fail(w)
  PROVE  Sound'
<1> DEFINE t == writer[w].at
<1>1. /\ UNCHANGED <<second, clashes>> /\ backupFaults' = backupFaults + 1
      /\ Copying(w) /\ t \in Backup!Times /\ t <= second
  BY DEF Backup!Fail, Backup!Fault, Copying, Sound, FilesAreOld
<1>2. /\ writer'[w].stage = "idle"
      /\ \A v \in Backup!Writers \ {w} : writer'[v] = writer[v]
  BY DEF Backup!Fail, BackupTypes, Backup!Idle
<1>3. /\ files'[t] = "none"
      /\ \A u \in Backup!Times \ {t} : files'[u] = files[u]
  BY <1>1 DEF Backup!Fail, BackupTypes
<1>4. \A v \in Backup!Writers : writer'[v].stage # "idle" => v # w
  BY <1>2
<1>5. \A v \in Backup!Writers : Copying(v)' => v # w /\ Copying(v)
  BY <1>2 DEF Copying
<1>6. \A v, x \in Backup!Writers : Copying(v)' /\ Copying(x)' => v = x
  BY <1>5, TwoWriters
<1> HIDE DEF t
<1>7. FilesAreOld'
  <2>1. ASSUME NEW u \in Backup!Times, Backup!Exists(u)'
        PROVE  u <= second
    BY <1>1, <1>3, <2>1 DEF Sound, FilesAreOld, Backup!Exists
  <2>2. \A v \in Backup!Writers :
          writer'[v].stage # "idle" => writer'[v].at \in Backup!Times
                                       /\ writer'[v].at <= second
    BY <1>2, <1>4 DEF Sound, FilesAreOld
  <2>3. ASSUME NEW v \in Backup!Writers, Copying(v)'
        PROVE  files'[writer'[v].at] # "whole"
    BY <1>2, <1>3, <1>5, <2>3 DEF Sound, FilesAreOld, Copying
  <2> QED
    BY <1>1, <1>6, <2>1, <2>2, <2>3 DEF FilesAreOld
<1>8. LostAreCounted'
  <2>1. ASSUME NEW u \in Backup!Times, u \in Lost'
        PROVE  u \in Lost
    <3>1. CASE u = t
      <4>1. u = second /\ Copied(u)'
        BY <1>1, <1>3, <2>1, <3>1 DEF Lost
      <4>2. PICK v \in Backup!Writers : Copying(v)' /\ writer'[v].at = u
        BY <4>1 DEF Copied
      <4>3. v # w /\ Copying(v) /\ writer[v].at = t
        BY <1>2, <1>5, <3>1, <4>2
      <4>4. files[t] \in {"torn", "none"} /\ Copied(t)
        BY <1>1, <4>3 DEF Sound, FilesAreOld, Copied, t
      <4> QED
        BY <1>1, <3>1, <4>1, <4>4 DEF Lost
    <3>2. CASE u # t
      <4>1. Copied(u)' => Copied(u)
        BY <1>2, <1>5 DEF Copied
      <4>2. ASSUME Copied(u)
            PROVE  Copied(u)'
        <5>1. PICK v \in Backup!Writers : Copying(v) /\ writer[v].at = u
          BY <4>2 DEF Copied
        <5>2. v # w
          BY <3>2, <5>1 DEF t
        <5> QED
          BY <1>2, <5>1, <5>2 DEF Copied, Copying
      <4>3. files'[u] = files[u]
        BY <1>3, <3>2
      <4> QED
        BY <1>1, <2>1, <4>1, <4>2, <4>3 DEF Lost
    <3> QED
      BY <3>1, <3>2
  <2>2. Lost' \subseteq Lost
    BY <2>1 DEF Lost, Backup!Times
  <2> QED
    BY <1>1, <2>2, LostNoMore DEF Sound, LostAreCounted, BackupTypes
<1>9. NoClash'
  <2> SUFFICES ASSUME clashes' = 0
      PROVE  SoleFiles'
    BY DEF NoClash
  <2>0. SoleFiles
    BY <1>1 DEF Sound, NoClash
  <2>1. \A u \in Backup!Times : files'[u] # "torn"
    BY <1>3, <2>0 DEF SoleFiles
  <2>2. ASSUME NEW v \in Backup!Writers, Copying(v)', writer'[v].at = second
        PROVE  Backup!Exists(second)'
    <3>1. v # w /\ Copying(v) /\ writer[v].at = second
      BY <1>2, <1>5, <2>2
    <3>2. second # t /\ Backup!Exists(second)
      BY <1>1, <2>0, <3>1 DEF SoleFiles, t
    <3> QED
      BY <1>1, <1>3, <3>2 DEF Backup!Exists, BackupTypes
  <2>3. ASSUME NEW v \in Backup!Writers, NEW u \in Backup!Times,
               writer'[v].stage # "idle", u > writer'[v].at, Partial(u)'
        PROVE  \E x \in Backup!Writers \ {v} : Copying(x)' /\ writer'[x].at = u
    <3>1. u # t /\ Partial(u)
      BY <1>3, <2>3 DEF Partial
    <3>2. v # w /\ writer'[v] = writer[v]
      BY <1>2, <1>4, <2>3
    <3>3. PICK x \in Backup!Writers \ {v} : Copying(x) /\ writer[x].at = u
      BY <2>0, <2>3, <3>1, <3>2 DEF SoleFiles
    <3>4. x # w
      BY <3>1, <3>3 DEF t
    <3> QED
      BY <1>2, <3>3, <3>4 DEF Copying
  <2>4. ASSUME NEW v \in Backup!Writers, writer'[v].stage = "pruning"
        PROVE  \E u \in Backup!Times :
                 u >= writer'[v].at /\ files'[u] = "whole"
    <3>1. v # w /\ writer'[v] = writer[v]
      BY <1>2, <1>4, <2>4
    <3>2. PICK u \in Backup!Times : u >= writer[v].at /\ files[u] = "whole"
      BY <2>0, <2>4, <3>1 DEF SoleFiles
    <3>3. u # t
      BY <1>1, <3>2 DEF Sound, FilesAreOld, t
    <3> QED
      BY <1>3, <3>1, <3>2, <3>3
  <2> QED
    BY <1>1, <1>6, <2>1, <2>2, <2>3, <2>4 DEF SoleFiles
<1> QED
  BY <1>7, <1>8, <1>9 DEF Sound

\* The number of a set's elements is the same in both modules.
LEMMA SameSize == \A S : Backup!Cardinality(S) = Cardinality(S)
  BY DEF Backup!Cardinality, Cardinality

\* What is kept: every file with no more than KeepCount - 1 newer ones.
LEMMA NewestIsKept ==
  ASSUME BackupTypes, Backup!BackupAssumption, NEW w \in Backup!Writers,
         Backup!Prune(w),
         NEW t \in Backup!Times, Backup!Exists(t),
         Cardinality({u \in Backup!Times : u > t /\ Backup!Exists(u)})
           < KeepCount
  PROVE  files'[t] = files[t]
<1>1. t \in Backup!Kept(w)
  <2>1. Backup!Cardinality({u \in Backup!Times : u > t /\ Backup!Exists(u)})
          < KeepCount
    BY SameSize
  <2> QED
    BY <2>1 DEF Backup!Kept
<1>2. \A u \in Backup!Times :
        files'[u] = IF u \in Backup!Kept(w) THEN files[u] ELSE "none"
  BY DEF Backup!Prune
<1> QED
  BY <1>1, <1>2

\* PruneBackups removes nothing a writer of this second needs, and not the
\* newest complete file if all that is newer belongs to somebody.
LEMMA SoundPrune ==
  ASSUME BackupTypes, Backup!BackupAssumption, KeepCount >= 2, Sound,
         NEW w \in Backup!Writers, Backup!Prune(w)
  PROVE  Sound'
<1>1. /\ UNCHANGED <<second, clashes, backupFaults>> /\ second \in Backup!Times
      /\ writer[w].stage = "pruning"
  BY DEF Backup!Prune, BackupTypes
<1>2. /\ writer'[w].stage = "idle"
      /\ \A v \in Backup!Writers \ {w} : writer'[v] = writer[v]
  BY DEF Backup!Prune, BackupTypes, Backup!Idle
<1>3. \A u \in Backup!Times : files'[u] \in {files[u], "none"}
  BY DEF Backup!Prune
<1>4. ASSUME NEW t \in Backup!Times, Backup!Exists(t),
             \A u \in Backup!Times : u > t => ~Backup!Exists(u)
      PROVE  files'[t] = files[t]
  <2>1. {u \in Backup!Times : u > t /\ Backup!Exists(u)} = {}
    BY <1>4
  <2>2. Cardinality({u \in Backup!Times : u > t /\ Backup!Exists(u)})
           < KeepCount
    BY <2>1, FS_EmptySet DEF Backup!BackupAssumption
  <2> QED
    BY <1>4, <2>2, NewestIsKept
<1>5. Backup!Exists(second) => files'[second] = files[second]
  BY <1>1, <1>4 DEF Sound, FilesAreOld, Backup!Times
<1>6. \A v \in Backup!Writers : writer'[v].stage # "idle" => v # w
  BY <1>2
<1>7. /\ \A v \in Backup!Writers : Copying(v)' => v # w /\ Copying(v)
      /\ \A v \in Backup!Writers : Copying(v) => v # w /\ Copying(v)'
  BY <1>1, <1>2 DEF Copying
<1>8. \A v, x \in Backup!Writers : Copying(v)' /\ Copying(x)' => v = x
  BY <1>7, TwoWriters
<1>9. FilesAreOld'
  <2>1. ASSUME NEW u \in Backup!Times, Backup!Exists(u)'
        PROVE  u <= second
    BY <1>3, <2>1 DEF Sound, FilesAreOld, Backup!Exists
  <2>2. \A v \in Backup!Writers :
          writer'[v].stage # "idle" => writer'[v].at \in Backup!Times
                                       /\ writer'[v].at <= second
    BY <1>2, <1>6 DEF Sound, FilesAreOld
  <2>3. ASSUME NEW v \in Backup!Writers, Copying(v)'
        PROVE  files'[writer'[v].at] # "whole"
    <3>1. Copying(v) /\ writer'[v] = writer[v]
      BY <1>2, <1>7, <2>3
    <3>2. files[writer[v].at] # "whole" /\ writer[v].at \in Backup!Times
      BY <3>1 DEF Sound, FilesAreOld, Copying
    <3> QED
      BY <1>3, <3>1, <3>2
  <2> QED
    BY <1>1, <1>8, <2>1, <2>2, <2>3 DEF FilesAreOld
<1>10. LostAreCounted'
  <2>1. ASSUME NEW u \in Backup!Times, u \in Lost'
        PROVE  u \in Lost
    <3>1. Copied(u)' <=> Copied(u)
      BY <1>2, <1>7 DEF Copied
    <3>2. u = second /\ files'[u] = "none" => files[u] = "none"
      BY <1>5 DEF Backup!Exists
    <3> QED
      BY <1>1, <1>3, <2>1, <3>1, <3>2 DEF Lost
  <2>2. Lost' \subseteq Lost
    BY <2>1 DEF Lost, Backup!Times
  <2> QED
    BY <1>1, <2>2, LostNoMore DEF Sound, LostAreCounted, BackupTypes
<1>11. NoClash'
  <2> SUFFICES ASSUME clashes' = 0
      PROVE  SoleFiles'
    BY DEF NoClash
  <2>0. SoleFiles
    BY <1>1 DEF Sound, NoClash
  <2>1. \A u \in Backup!Times : files'[u] # "torn"
    BY <1>3, <2>0 DEF SoleFiles
  <2>2. ASSUME NEW v \in Backup!Writers, Copying(v)', writer'[v].at = second
        PROVE  Backup!Exists(second)'
    BY <1>1, <1>2, <1>5, <1>7, <2>0, <2>2 DEF SoleFiles, Backup!Exists
  <2>3. ASSUME NEW v \in Backup!Writers, NEW u \in Backup!Times,
               writer'[v].stage # "idle", u > writer'[v].at, Partial(u)'
        PROVE  \E x \in Backup!Writers \ {v} : Copying(x)' /\ writer'[x].at = u
    <3>1. Partial(u)
      BY <1>3, <2>3 DEF Partial
    <3>2. v # w /\ writer'[v] = writer[v]
      BY <1>2, <1>6, <2>3
    <3>3. PICK x \in Backup!Writers \ {v} : Copying(x) /\ writer[x].at = u
      BY <2>0, <2>3, <3>1, <3>2 DEF SoleFiles
    <3> QED
      BY <1>2, <1>7, <3>3
  <2>4. ASSUME NEW v \in Backup!Writers, writer'[v].stage = "pruning"
        PROVE  \E u \in Backup!Times :
                 u >= writer'[v].at /\ files'[u] = "whole"
    <3>1. v # w /\ writer'[v] = writer[v]
      BY <1>2, <1>6, <2>4
    <3>2. PICK u \in Backup!Times : u >= writer[v].at /\ files[u] = "whole"
      BY <2>0, <2>4, <3>1 DEF SoleFiles
    <3>3. PICK m \in Backup!Times :
            /\ files[m] = "whole"
            /\ \A x \in Backup!Times : files[x] = "whole" => x <= m
      BY <3>2, NewestWhole DEF Backup!HasWhole
    <3>4. m >= writer[v].at
      BY <3>2, <3>3 DEF Backup!Times, BackupTypes
    <3>5. ASSUME NEW x \in Backup!Times, x > m, Backup!Exists(x)
          PROVE  FALSE
      <4>1. files[x] # "whole"
        BY <3>3, <3>5 DEF Backup!Times
      <4>2. Partial(x) /\ x > writer[v].at
        BY <3>4, <3>5, <4>1 DEF Partial, Backup!Exists, BackupTypes,
                                Backup!Times
      <4>3. PICK y \in Backup!Writers \ {v} : Copying(y)
        BY <2>0, <2>4, <3>1, <4>2 DEF SoleFiles
      <4> QED
        BY <1>7, <3>1, <4>3, TwoWriters
    <3>6. files'[m] = "whole"
      BY <1>4, <3>3, <3>5 DEF Backup!Exists
    <3> QED
      BY <3>1, <3>4, <3>6
  <2> QED
    BY <1>1, <1>8, <2>1, <2>2, <2>3, <2>4 DEF SoleFiles
<1> QED
  BY <1>9, <1>10, <1>11 DEF Sound

\* Of a file that is to be begun in the next second nothing is known yet.
LEMMA SoundTick ==
  ASSUME BackupTypes, Backup!BackupAssumption, Sound, Backup!Tick
  PROVE  Sound'
<1>1. /\ UNCHANGED <<files, writer, clashes, backupFaults>>
      /\ second' = second + 1 /\ second \in Nat
  BY DEF Backup!Tick, BackupTypes, Backup!Times
<1>2. \A w \in Backup!Writers : Copying(w) => writer[w].at # second'
  BY <1>1 DEF Sound, FilesAreOld, Copying, Backup!Times,
              Backup!BackupAssumption
<1>3. FilesAreOld'
  <2>1. /\ \A t \in Backup!Times : Backup!Exists(t) => t <= second'
        /\ \A w \in Backup!Writers :
             writer[w].stage # "idle" => writer[w].at \in Backup!Times
                                         /\ writer[w].at <= second'
    BY <1>1 DEF Sound, FilesAreOld, Backup!Times
  <2> QED
    BY <1>1, <2>1 DEF Sound, FilesAreOld, Copying, Backup!Exists
<1>4. LostAreCounted'
  <2>1. Lost' \subseteq Lost
    BY <1>1, <1>2 DEF Lost, Copied, Copying
  <2> QED
    BY <1>1, <2>1, LostNoMore DEF Sound, LostAreCounted, BackupTypes
<1>5. NoClash'
  <2>1. SoleFiles => SoleFiles'
    BY <1>1, <1>2 DEF SoleFiles, Copying, Partial
  <2> QED
    BY <1>1, <2>1 DEF Sound, NoClash
<1> QED
  BY <1>3, <1>4, <1>5 DEF Sound

\* A crash leaves two files behind that nobody completes.
LEMMA SoundCrash ==
  ASSUME BackupTypes, Backup!BackupAssumption, Sound, Backup!Crash
  PROVE  Sound'
<1>1. /\ UNCHANGED <<files, second, clashes>>
      /\ backupFaults' = backupFaults + 1
      /\ \A w \in Backup!Writers : writer'[w].stage = "idle"
  BY DEF Backup!Crash, Backup!Fault, Backup!Idle
<1>2. FilesAreOld'
  BY <1>1 DEF Sound, FilesAreOld, Copying, Backup!Exists
<1>3. LostAreCounted'
  <2>1. Lost' \subseteq Lost \cup {writer[Scanner].at, writer[Request].at}
    <3>1. \A t \in Backup!Times : Copied(t) =>
                             t \in {writer[Scanner].at, writer[Request].at}
      BY DEF Copied, Backup!Writers
    <3>2. \A t \in Backup!Times : ~Copied(t)'
      BY <1>1 DEF Copied, Copying
    <3> QED
      BY <1>1, <3>1, <3>2 DEF Lost
  <2>2. /\ Cardinality(Lost) \in Nat /\ Cardinality(Lost') \in Nat
        /\ Cardinality(Lost') <= Cardinality(Lost) + 2
    BY <2>1, LostTwoMore
  <2>3. backupFaults \in Nat /\ clashes \in Nat
    BY DEF BackupTypes
  <2>4. Cardinality(Lost') <= clashes' + 2 * backupFaults'
    BY <1>1, <2>2, <2>3 DEF Sound, LostAreCounted
  <2> QED
    BY <2>4 DEF LostAreCounted
<1>4. NoClash'
  BY <1>1 DEF Sound, NoClash, SoleFiles, Copying
<1> QED
  BY <1>2, <1>3, <1>4 DEF Sound

\* Every step keeps the count of the lost files and what follows from it.
LEMMA SoundStep ==
  ASSUME BackupTypes, Backup!BackupAssumption, KeepCount >= 2, Sound,
         [Backup!Next]_(Backup!vars)
  PROVE  Sound'
<1>1. ASSUME NEW w \in Backup!Writers,
             \/ Backup!Begin(w) \/ Backup!Finish(w)
               \/ Backup!Fail(w) \/ Backup!Prune(w)
      PROVE  Sound'
  BY <1>1, SoundBegin, SoundFinish, SoundFail, SoundPrune
<1>2. CASE Backup!SaveSettings \/ UNCHANGED Backup!vars
  <2>1. UNCHANGED <<second, files, writer, clashes, backupFaults>>
    BY <1>2 DEF Backup!SaveSettings, Backup!vars
  <2>2. Lost' = Lost
    BY <2>1 DEF Lost, Copied, Copying
  <2> QED
    BY <2>1, <2>2 DEF Sound, FilesAreOld, LostAreCounted, NoClash, SoleFiles,
                      Copying, Backup!Exists, Partial
<1>3. CASE Backup!Tick
  BY <1>3, SoundTick
<1>4. CASE Backup!Crash
  BY <1>4, SoundCrash
<1> QED
  BY <1>1, <1>2, <1>3, <1>4 DEF Backup!Next

\* It holds before the first backup.
LEMMA BackupInvInit ==
  ASSUME Backup!BackupAssumption, Backup!Init
  PROVE  BackupIInv
<1>1. /\ second = 1 /\ clashes = 0 /\ backupFaults = 0
      /\ \A t \in Backup!Times : files[t] = "none"
      /\ \A w \in Backup!Writers : writer[w] = Backup!Idle
  BY DEF Backup!Init
<1>2. Backup!Idle \in [at : 0 .. MaxTime,
                        stage : {"idle", "copying", "pruning"}]
      /\ Backup!Idle.stage = "idle"
  BY DEF Backup!Idle, Backup!None, Backup!BackupAssumption
<1>3. BackupTypes
  BY <1>2 DEF Backup!Init, BackupTypes, Backup!Times, Backup!BackupAssumption
<1>4. FilesAreOld /\ NoClash
  BY <1>1, <1>2 DEF FilesAreOld, NoClash, SoleFiles, Backup!Exists, Copying,
                    Partial
<1>5. Lost = {}
  BY <1>1, <1>2 DEF Lost, Copied, Copying
<1>6. LostAreCounted
  BY <1>1, <1>5, FS_EmptySet DEF LostAreCounted
<1> QED
  BY <1>3, <1>4, <1>6 DEF BackupIInv, Sound, Backup!Init

\* Every step keeps the invariant.
LEMMA BackupInvStep ==
  ASSUME Backup!BackupAssumption, BackupIInv, [Backup!Next]_(Backup!vars)
  PROVE  BackupIInv'
<1>1. BackupTypes'
  BY BackupTypesStep DEF BackupIInv
<1>2. KeepCount >= 2 => Sound'
  BY SoundStep DEF BackupIInv
<1>3. (lastAuto = lastBackup)'
  <2>1. lastAuto = lastBackup
    BY DEF BackupIInv
  <2>2. ASSUME NEW w \in Backup!Writers,
               \/ Backup!Begin(w) \/ Backup!Finish(w)
               \/ Backup!Fail(w) \/ Backup!Prune(w)
        PROVE  lastAuto' = lastBackup'
    BY <2>1, <2>2 DEF Backup!Begin, Backup!Finish, Backup!Fail, Backup!Prune
  <2> QED
    BY <2>1, <2>2 DEF Backup!Next, Backup!Tick, Backup!SaveSettings,
                      Backup!Crash, Backup!vars
<1> QED
  BY <1>1, <1>2, <1>3 DEF BackupIInv

-----------------------------------------------------------------------------
(* What the invariant gives.                                               *)

\* The files newer than the newest complete one when a backup has ended: with
\* no clash there is at most the other writer's, else those that were lost
\* besides.
LEMMA NewerAreFew ==
  ASSUME BackupTypes, Backup!BackupAssumption, KeepCount >= 2, Sound,
         NEW w \in Backup!Writers, Backup!Prune(w),
         KeepCount > Backup!Incomplete,
         NEW m \in Backup!Times, files[m] = "whole",
         \A u \in Backup!Times : files[u] = "whole" => u <= m
  PROVE  Cardinality({u \in Backup!Times : u > m /\ Backup!Exists(u)})
           < KeepCount
<1> DEFINE Newer == {u \in Backup!Times : u > m /\ Backup!Exists(u)}
<1>0. /\ clashes' = clashes /\ backupFaults' = backupFaults
      /\ writer[w].stage = "pruning"
      /\ clashes \in Nat /\ backupFaults \in Nat /\ KeepCount \in Nat
  BY DEF Backup!Prune, BackupTypes, Backup!BackupAssumption
<1>1. PICK o \in Backup!Writers : \A v \in Backup!Writers : v = w \/ v = o
  BY DEF Backup!Writers
<1>2. \A u \in Newer : Partial(u) /\ u \in Backup!Times /\ u > m
  BY DEF Partial, Backup!Exists, BackupTypes, Backup!Times
<1>3. \A u \in Backup!Times : Copied(u) => u = writer[o].at
  BY <1>0, <1>1 DEF Copied, Copying
<1>4. CASE clashes = 0
  <2>1. SoleFiles
    BY <1>4 DEF Sound, NoClash
  <2>2. m >= writer[w].at
    BY <1>0, <2>1 DEF SoleFiles, Backup!Times, BackupTypes
  <2>3. ASSUME NEW u \in Newer
        PROVE  u = writer[o].at
    <3>1. u > writer[w].at /\ Partial(u) /\ u \in Backup!Times
      BY <1>2, <2>2, <2>3 DEF BackupTypes, Backup!Times
    <3>2. PICK v \in Backup!Writers \ {w} : Copying(v) /\ writer[v].at = u
      BY <1>0, <2>1, <3>1 DEF SoleFiles
    <3> QED
      BY <1>1, <3>2
  <2>4. Newer \subseteq {writer[o].at}
    BY <2>3
  <2>5. /\ IsFiniteSet({writer[o].at}) /\ Cardinality({writer[o].at}) = 1
    BY FS_Singleton
  <2>6. Cardinality(Newer) \in Nat /\ Cardinality(Newer) <= 1
    <3> HIDE DEF Newer
    <3> QED
      BY <2>4, <2>5, PartIsCounted
  <2> QED
    BY <1>0, <2>6
<1>5. CASE clashes # 0
  <2>1. Newer \subseteq Lost \cup {writer[o].at}
    BY <1>2, <1>3 DEF Lost, Partial
  <2>2. Lost \in SUBSET Backup!Times
    BY DEF Lost
  <2>3. /\ IsFiniteSet(Lost) /\ Cardinality(Lost) \in Nat
        /\ Cardinality(Lost \cup {writer[o].at}) <= Cardinality(Lost) + 1
    BY <2>2, TimesAreCounted
  <2>4. IsFiniteSet(Lost \cup {writer[o].at})
    BY <2>3, FS_AddElement
  <2>5. /\ Cardinality(Newer) \in Nat
        /\ Cardinality(Lost \cup {writer[o].at}) \in Nat
        /\ Cardinality(Newer) <= Cardinality(Lost \cup {writer[o].at})
    <3> HIDE DEF Newer
    <3> QED
      BY <2>1, <2>4, PartIsCounted, FS_CardinalityType
  <2>6. Backup!Incomplete = 1 + (clashes + 2 * backupFaults)
    BY <1>0, <1>5 DEF Backup!Incomplete
  <2>7. Cardinality(Lost) <= clashes + 2 * backupFaults
    BY DEF Sound, LostAreCounted
  <2> HIDE DEF Newer
  <2>8. Cardinality(Newer) < KeepCount
    BY <1>0, <2>3, <2>5, <2>6, <2>7
  <2> QED
    BY <2>8 DEF Newer
<1> QED
  BY <1>4, <1>5

\* A complete backup is there after every step but one that empties it.
LEMMA GoodStays ==
  ASSUME Backup!BackupAssumption, BackupIInv, BackupIInv',
         [Backup!Next]_(Backup!vars),
         Backup!HasWhole, KeepCount > Backup!Incomplete
  PROVE  Backup!HasWhole' \/ clashes' # clashes
<1>1. KeepCount >= 2
  <2>1. clashes' \in Nat /\ backupFaults' \in Nat /\ KeepCount \in Nat
    BY DEF BackupIInv, BackupTypes, Backup!BackupAssumption
  <2>2. Backup!Incomplete \in Nat /\ Backup!Incomplete >= 1
    <3>1. CASE clashes' = 0
      BY <3>1 DEF Backup!Incomplete
    <3>2. CASE clashes' # 0
      <4>1. Backup!Incomplete = 1 + (clashes' + 2 * backupFaults')
        BY <3>2 DEF Backup!Incomplete
      <4>2. ASSUME NEW x \in Nat, NEW y \in Nat
            PROVE  1 + (x + 2 * y) \in Nat /\ 1 + (x + 2 * y) >= 1
        OBVIOUS
      <4> QED
        BY <2>1, <4>1, <4>2, Zenon
    <3> QED
      BY <3>1, <3>2
  <2> QED
    BY <2>1, <2>2
<1>2. BackupTypes /\ Sound
  BY <1>1 DEF BackupIInv
<1>3. PICK t \in Backup!Times : files[t] = "whole"
  BY DEF Backup!HasWhole
<1>4. ASSUME NEW w \in Backup!Writers, Backup!Begin(w), clashes' = clashes
      PROVE  Backup!HasWhole'
  <2>1. files[second] = "none"
    BY <1>2, <1>4 DEF Backup!Begin, Backup!Exists, BackupTypes
  <2>2. files'[t] = "whole"
    BY <1>2, <1>3, <1>4, <2>1 DEF Backup!Begin, BackupTypes
  <2> QED
    BY <2>2 DEF Backup!HasWhole
<1>5. ASSUME NEW w \in Backup!Writers, Backup!Finish(w) \/ Backup!Fail(w)
      PROVE  Backup!HasWhole'
  <2>1. files[writer[w].at] # "whole"
    BY <1>2, <1>5 DEF Backup!Finish, Backup!Fail, Sound, FilesAreOld, Copying
  <2>2. files'[t] = "whole"
    BY <1>2, <1>3, <1>5, <2>1 DEF Backup!Finish, Backup!Fail, BackupTypes
  <2> QED
    BY <2>2 DEF Backup!HasWhole
<1>6. ASSUME NEW w \in Backup!Writers, Backup!Prune(w)
      PROVE  Backup!HasWhole'
  <2>1. PICK m \in Backup!Times :
          /\ files[m] = "whole"
          /\ \A u \in Backup!Times : files[u] = "whole" => u <= m
    BY NewestWhole
  <2>2. files'[m] = files[m]
    BY <1>1, <1>2, <1>6, <2>1, NewerAreFew, NewestIsKept DEF Backup!Exists
  <2> QED
    BY <2>1, <2>2 DEF Backup!HasWhole
<1>7. CASE UNCHANGED files
  BY <1>3, <1>7 DEF Backup!HasWhole
<1> QED
  BY <1>4, <1>5, <1>6, <1>7
     DEF Backup!Next, Backup!Tick, Backup!SaveSettings, Backup!Crash,
         Backup!vars

\* A scan begins a backup when the interval has passed since the last one.
LEMMA SpacedStep ==
  ASSUME Backup!BackupAssumption, BackupIInv, [Backup!Next]_(Backup!vars),
         writer[Scanner] = Backup!Idle, writer'[Scanner].stage = "copying",
         lastAuto # Backup!None
  PROVE  second - lastAuto >= Interval
<1>1. Scanner \in Backup!Writers /\ Backup!Idle.stage = "idle"
  BY DEF Backup!Writers, Backup!Idle
<1>2. ASSUME NEW w \in Backup!Writers, Backup!Begin(w)
      PROVE  second - lastAuto >= Interval
  <2>1. CASE w = Scanner
    BY <1>2, <2>1 DEF Backup!Begin, Backup!Due, BackupIInv
  <2>2. CASE w # Scanner
    <3>1. writer'[Scanner] = writer[Scanner]
      BY <1>1, <1>2, <2>2 DEF Backup!Begin, BackupIInv, BackupTypes
    <3> QED
      BY <1>1, <3>1
  <2> QED
    BY <2>1, <2>2
<1>3. ASSUME NEW w \in Backup!Writers,
             Backup!Finish(w) \/ Backup!Fail(w) \/ Backup!Prune(w)
      PROVE  FALSE
  <2>1. w # Scanner
    BY <1>1, <1>3 DEF Backup!Finish, Backup!Fail, Backup!Prune
  <2>2. writer'[Scanner] = writer[Scanner]
    BY <1>1, <1>3, <2>1 DEF Backup!Finish, Backup!Fail, Backup!Prune,
                            BackupIInv, BackupTypes
  <2> QED
    BY <1>1, <2>2
<1>4. CASE Backup!Crash
  BY <1>1, <1>4 DEF Backup!Crash
<1>5. CASE UNCHANGED writer
  BY <1>1, <1>5
<1> QED
  BY <1>2, <1>3, <1>4, <1>5 DEF Backup!Next, Backup!Tick, Backup!SaveSettings,
                                Backup!vars

\* Whatever scans, requests, settings saves, failures and crashes do beside
\* each other, once there is a complete backup there always is one while
\* KeepCount is over the files that may be incomplete, and the scan's backups
\* are an interval apart.
THEOREM BackupsStaySafe ==
  ASSUME Backup!BackupAssumption
  PROVE  Backup!Spec => BackupsAreSafe
<1>1. Backup!Init => BackupIInv
  BY BackupInvInit
<1>2. BackupIInv /\ [Backup!Next]_(Backup!vars) => BackupIInv'
  BY BackupInvStep
<1>3. BackupIInv /\ BackupIInv' /\ [Backup!Next]_(Backup!vars) =>
        [(Backup!HasWhole /\ KeepCount > Backup!Incomplete)
           => Backup!HasWhole' \/ clashes' # clashes]_(Backup!vars)
  BY GoodStays
<1>4. BackupIInv /\ BackupIInv' /\ [Backup!Next]_(Backup!vars) =>
        [(/\ writer[Scanner] = Backup!Idle
          /\ writer'[Scanner].stage = "copying"
          /\ lastAuto # Backup!None)
           => second - lastAuto >= Interval]_(Backup!vars)
  BY SpacedStep
<1> QED
  BY <1>1, <1>2, <1>3, <1>4, PTL
     DEF Backup!Spec, BackupsAreSafe, Backup!BackupsAreSafe,
         Backup!GoodBackupSurvives, Backup!BackupsAreSpaced
=============================================================================
