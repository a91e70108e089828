-------------------------- MODULE ScanCycleProofs ---------------------------
(***************************************************************************)
(* Proofs about ScanCycle, for any callers, subsystems and bounds: scans   *)
(* exclude each other, what was shown is stored, the data shown never goes *)
(* back in time, and the time shown for it is its own.                     *)
(*                                                                         *)
(* The scan that holds the flag is the newest one begun, so whatever it    *)
(* saves and caches is newer than all there is; from the moment it has     *)
(* carried data forward, each subsystem is either still to be run or its   *)
(* data in the new snapshot is at least as new as in the cached one.       *)
(***************************************************************************)
EXTENDS ScanCycle, TLAPS

\* A scan in progress is the last one begun.
Newest(c) ==
  Active(c) => /\ begun > 0 /\ scan[c].snap.at = begun
               /\ \A n \in Subsystems : scan[c].snap.data[n] <= begun

\* A scan caches its snapshot after the store has it.
Stored(c) ==
  (errors = 0 /\ scan[c].at = "saved") => disk = scan[c].snap

\* What the scan will not look at any more it has carried forward, and once
\* it is analysed it looks at nothing.
Carried(c) ==
  /\ (~reader.late /\ scan[c].at \in {"running", "analysed", "saved"}) =>
       \A n \in Subsystems \ scan[c].due :
         latest.data[n] <= scan[c].snap.data[n]
  /\ scan[c].at \in {"analysed", "saved"} => scan[c].due = {}

\* Nothing stored, shown or seen is newer than the last scan begun, and a
\* snapshot's data is not newer than the snapshot.
NothingFromTheFuture ==
  /\ disk.at <= begun /\ latest.at <= begun
  /\ reader.seen.at <= disk.at
  /\ \A n \in Subsystems : /\ latest.data[n] <= begun
                           /\ disk.data[n] <= begun
                           /\ reader.seen.data[n] <= begun

IInv ==
  /\ TypeOK
  /\ OneScan
  /\ NothingFromTheFuture
  /\ ServedIsStored
  /\ \A c \in Callers : Newest(c) /\ Stored(c) /\ Carried(c)

-----------------------------------------------------------------------------
(* Types.                                                                  *)

\* The empty snapshot, scan and reader are of their types.
LEMMA NoneOK ==
  /\ None.at = 0 /\ None.data \in Times /\ None.ran \in Times
  /\ \A n \in Subsystems : None.data[n] = 0
  /\ NoScan \in ScanStates /\ NoReader \in ReaderStates
  BY ScanAssumption DEF None, Times, NoScan, NoReader, ScanStates, ReaderStates

\* A snapshot that is there, or None.
LEMMA SnapshotFields ==
  ASSUME NEW s \in Snapshots \cup {None}
  PROVE  /\ s.at \in 0..MaxScans /\ s.data \in Times /\ s.ran \in Times
         /\ s.at > 0 => s \in Snapshots
         /\ s = [at |-> s.at, data |-> s.data, ran |-> s.ran]
  BY ScanAssumption, NoneOK DEF Snapshots, None

\* The initial state satisfies the invariant.
LEMMA InitIInv == Init => IInv
  <1> SUFFICES ASSUME Init PROVE IInv
    OBVIOUS
  <1> USE ScanAssumption, NoneOK DEF Init
  <1>1. TypeOK
    <2>1. /\ begun \in 0..MaxScans /\ panics \in 0..MaxPanics
          /\ errors \in 0..MaxErrors /\ restarts \in 0..MaxRestarts
      OBVIOUS
    <2>2. lastRun \in Times
      BY DEF Times
    <2> QED BY <2>1, <2>2, Zenon DEF TypeOK
  <1>2. \A c \in Callers : scan[c].at = "idle"
    BY DEF NoScan
  <1>3. OneScan /\ \A c \in Callers : Newest(c) /\ Stored(c) /\ Carried(c)
    BY <1>2 DEF OneScan, Active, Newest, Stored, Carried
  <1>4. NothingFromTheFuture /\ ServedIsStored
    BY DEF NothingFromTheFuture, ServedIsStored, NoReader
  <1> QED BY <1>1, <1>3, <1>4 DEF IInv

\* A scan's state and its fields.
LEMMA ScanFields ==
  ASSUME NEW r \in ScanStates
  PROVE  /\ r.snap \in Snapshots \cup {None} /\ r.due \in SUBSET Subsystems
         /\ \A at \in {"idle", "launched", "collected", "ticked", "running",
                       "analysed", "saved", "published"} :
            \A due \in SUBSET Subsystems : \A s \in Snapshots \cup {None} :
              [at |-> at, due |-> due, snap |-> s] \in ScanStates
  BY DEF ScanStates

\* The scan states stay of their type.
LEMMA ScanType ==
  ASSUME IInv, NEW c \in Callers,
         \/ Trigger(c) \/ Begin(c) \/ Skip(c) \/ Work(c)
  PROVE  scan' \in [Callers -> ScanStates]
  <1> USE ScanAssumption, ScanFields, SnapshotFields, NoneOK
  <1> DEFINE r == scan[c]
  <1>1. scan \in [Callers -> ScanStates] /\ r \in ScanStates
    BY DEF IInv, TypeOK
  <1>2. \A q \in ScanStates :
          [scan EXCEPT ![c] = q] \in [Callers -> ScanStates]
    BY <1>1
  <1>4. Active(c) => r.snap \in Snapshots
    BY <1>1 DEF IInv, Newest
  <1>5. ASSUME Trigger(c) \/ Skip(c) \/ Finish(c)
        PROVE  scan' \in [Callers -> ScanStates]
    <2>1. [NoScan EXCEPT !.at = "launched"] \in ScanStates
      BY DEF NoScan, ScanStates
    <2> QED BY <1>2, <1>5, <2>1 DEF Trigger, Skip, Finish
  <1>6. ASSUME Begin(c)
        PROVE  scan' \in [Callers -> ScanStates]
    <2>1. [None EXCEPT !.at = begun'] \in Snapshots
      BY <1>6 DEF Begin, IInv, TypeOK, Snapshots, None
    <2> QED BY <1>2, <1>6, <2>1 DEF Begin, To
  <1>7. ASSUME Tick(c)
        PROVE  scan' \in [Callers -> ScanStates]
    BY ZenonT(30), <1>1, <1>2, <1>7 DEF Tick, To
  <1>8. ASSUME CarryForward(c)
        PROVE  scan' \in [Callers -> ScanStates]
    <2> DEFINE d == [n \in Subsystems |->
                       IF n \in r.due THEN r.snap.data[n] ELSE latest.data[n]]
    <2>1. r.snap \in Snapshots
      BY <1>4, <1>8 DEF CarryForward, Active
    <2>2. d \in Times
      BY <1>1, <2>1 DEF IInv, TypeOK, Times
    <2>3. [r.snap EXCEPT !.data = d] \in Snapshots
      BY <2>1, <2>2 DEF Snapshots
    <2> QED BY <1>1, <1>2, <1>8, <2>3 DEF CarryForward, To
  <1>9. ASSUME NEW n \in Subsystems, RunSubsystem(c, n)
        PROVE  scan' \in [Callers -> ScanStates]
    <2>1. r.snap \in Snapshots
      BY <1>4, <1>9 DEF RunSubsystem, Active
    <2>2. [r.snap EXCEPT !.data[n] = r.snap.at] \in Snapshots
      BY <2>1 DEF Snapshots, Times
    <2> QED BY <1>1, <1>2, <1>9, <2>2 DEF RunSubsystem, To
  <1>10. ASSUME Stamp(c)
         PROVE  scan' \in [Callers -> ScanStates]
    <2>1. r.snap \in Snapshots
      BY <1>4, <1>10 DEF Stamp, Active
    <2>2. [r.snap EXCEPT !.ran = lastRun] \in Snapshots
      BY <2>1 DEF Snapshots, IInv, TypeOK
    <2> QED BY <1>1, <1>2, <1>10, <2>2 DEF Stamp, To
  <1>11. ASSUME Save(c) \/ Publish(c)
         PROVE  scan' \in [Callers -> ScanStates]
    BY ZenonT(30), <1>1, <1>2, <1>11 DEF Save, Publish, To
  <1> QED
    BY <1>5, <1>6, <1>7, <1>8, <1>9, <1>10, <1>11 DEF Work

\* Whatever happens, the types stay what they are.
LEMMA TypeStep == ASSUME IInv, Next PROVE TypeOK'
  <1> USE ScanAssumption, NoneOK
  <1>1. scan' \in [Callers -> ScanStates]
    <2>1. ASSUME MemoryLost \/ RecoveredPanic
          PROVE  scan' \in [Callers -> ScanStates]
      BY <2>1 DEF MemoryLost, RecoveredPanic, IInv, TypeOK
    <2>2. ASSUME UNCHANGED scan
          PROVE  scan' \in [Callers -> ScanStates]
      BY <2>2 DEF IInv, TypeOK
    <2> QED
      BY <2>1, <2>2, ScanType
         DEF Next, Restart, FatalPanic, ReaderMisses, ReaderLoads, ReaderSeeds
  <1>2. running' \in BOOLEAN
    <2>1. running' = running \/ running' = TRUE \/ running' = FALSE
      BY SMT
         DEF Next, Trigger, Begin, Skip, Work, Tick, CarryForward,
             RunSubsystem,
             Stamp, Save, Publish, Finish, RecoveredPanic, FatalPanic, Restart,
             MemoryLost, ReaderMisses, ReaderLoads, ReaderSeeds
    <2> QED BY <2>1, Zenon DEF IInv, TypeOK
  <1>3. /\ begun' \in 0..MaxScans /\ panics' \in 0..MaxPanics
        /\ errors' \in 0..MaxErrors /\ restarts' \in 0..MaxRestarts
    <2> DEFINE C == /\ begun \in 0..MaxScans /\ panics \in 0..MaxPanics
                    /\ errors \in 0..MaxErrors /\ restarts \in 0..MaxRestarts
    <2> USE DEF IInv, TypeOK, faults
    <2>1. ASSUME NEW c \in Callers, Trigger(c) \/ Begin(c) \/ Skip(c)
          PROVE  C'
      BY <2>1, SMT DEF Trigger, Begin, Skip
    <2>2. ASSUME NEW c \in Callers,
                 \/ Tick(c) \/ CarryForward(c) \/ Stamp(c) \/ Publish(c)
                 \/ Finish(c) \/ \E n \in Subsystems : RunSubsystem(c, n)
          PROVE  C'
      <3>1. UNCHANGED <<begun, faults>>
        BY <2>2, Zenon
           DEF Tick, CarryForward, RunSubsystem, Stamp, Publish, Finish
      <3> QED BY <3>1
    <2>3. ASSUME NEW c \in Callers, Save(c)
          PROVE  C'
      BY <2>3, SMT DEF Save
    <2>4. CASE RecoveredPanic \/ FatalPanic \/ Restart
      BY <2>4, SMT DEF RecoveredPanic, FatalPanic, Restart
    <2>5. CASE ReaderMisses \/ ReaderLoads \/ ReaderSeeds
      BY <2>5, SMT DEF ReaderMisses, ReaderLoads, ReaderSeeds
    <2> QED BY <2>1, <2>2, <2>3, <2>4, <2>5 DEF Next, Work
  <1>4. lastRun' \in Times
    <2>1. ASSUME NEW c \in Callers, NEW n \in Subsystems, RunSubsystem(c, n)
          PROVE  lastRun' \in Times
      <3>1. scan[c].snap.at \in 0..MaxScans
        BY ScanFields, SnapshotFields DEF IInv, TypeOK
      <3> QED BY <2>1, <3>1 DEF IInv, TypeOK, RunSubsystem, Times
    <2>2. ASSUME MemoryLost
          PROVE  lastRun' \in Times
      BY <2>2 DEF MemoryLost, Times
    <2>3. ASSUME UNCHANGED lastRun
          PROVE  lastRun' \in Times
      BY <2>3 DEF IInv, TypeOK
    <2> QED
      BY <2>1, <2>2, <2>3
         DEF Next, Trigger, Begin, Skip, Work, Tick, CarryForward, Stamp, Save,
             Publish, Finish, RecoveredPanic, FatalPanic, Restart,
             ReaderMisses, ReaderLoads, ReaderSeeds
  <1> DEFINE T == /\ latest \in Snapshots \cup {None}
                  /\ disk \in Snapshots \cup {None}
                  /\ reader \in ReaderStates
  <1>5. T'
    <2>1. \A c \in Callers : scan[c].snap \in Snapshots \cup {None}
      BY ScanFields DEF IInv, TypeOK
    <2>2. ASSUME NEW c \in Callers, Save(c) \/ Publish(c)
          PROVE  T'
      BY <2>1, <2>2 DEF IInv, TypeOK, Save, Publish
    <2>3. ASSUME ReaderMisses \/ ReaderLoads
          PROVE  T'
      BY ZenonT(30), <2>3
      DEF IInv, TypeOK, ReaderMisses, ReaderLoads, ReaderStates
    <2>4. ASSUME ReaderSeeds
          PROVE  T'
      BY <2>4 DEF IInv, TypeOK, ReaderSeeds, ReaderStates, NoReader
    <2>5. ASSUME MemoryLost, UNCHANGED disk
          PROVE  T'
      BY <2>5 DEF IInv, TypeOK, MemoryLost, ReaderStates, NoReader
    <2>6. ASSUME UNCHANGED <<latest, disk, reader>>
          PROVE  T'
      BY <2>6 DEF IInv, TypeOK
    <2>7. ASSUME NEW c \in Callers,
                 \/ Trigger(c) \/ Begin(c) \/ Skip(c) \/ Tick(c)
                 \/ CarryForward(c) \/ Stamp(c) \/ Finish(c) \/ RecoveredPanic
                 \/ \E n \in Subsystems : RunSubsystem(c, n)
          PROVE  UNCHANGED <<latest, disk, reader>>
      BY <2>7, Zenon
         DEF Trigger, Begin, Skip, Tick, CarryForward, RunSubsystem, Stamp,
             Finish, RecoveredPanic
    <2>8. CASE FatalPanic \/ Restart
      BY <2>5, <2>8 DEF FatalPanic, Restart
    <2>9. Main \in Callers
      BY DEF Callers
    <2> QED BY <2>2, <2>3, <2>4, <2>5, <2>6, <2>7,
              <2>8, <2>9, Zenon DEF Next, Work
  <1> QED BY <1>1, <1>2, <1>3, <1>4, <1>5, Zenon DEF TypeOK

-----------------------------------------------------------------------------
(* The other parts of the invariant.                                       *)

\* A caller outside RunOnce has nothing to keep.
LEMMA OutsideOK ==
  ASSUME NEW c, scan[c].at \in {"idle", "launched"}
  PROVE  ~Active(c) /\ Newest(c) /\ Stored(c) /\ Carried(c)
  BY DEF Active, Newest, Stored, Carried

\* When the one scan in progress goes on, it stays the only one.
LEMMA GoesOn ==
  ASSUME IInv, NEW c \in Callers, Active(c), NEW at, NEW due, NEW snap,
         at \notin {"idle", "launched"},
         To(c, at, due, snap), UNCHANGED running
  PROVE  /\ scan'[c] = [at |-> at, due |-> due, snap |-> snap]
         /\ \A d \in Callers \ {c} : scan'[d].at \in {"idle", "launched"}
         /\ OneScan'
  <1>1. scan'[c] = [at |-> at, due |-> due, snap |-> snap]
    BY DEF To, IInv, TypeOK
  <1>2. ASSUME NEW d \in Callers \ {c}
        PROVE  scan'[d].at \in {"idle", "launched"}
    BY DEF To, IInv, TypeOK, OneScan, Active
  <1>3. running
    BY DEF IInv, OneScan
  <1> QED BY <1>1, <1>2, <1>3 DEF OneScan, Active

\* The due list is chosen: nothing else changes.
LEMMA TickIInv == ASSUME IInv, NEW c \in Callers, Tick(c), TypeOK' PROVE IInv'
  <1>1. PICK due : To(c, "ticked", due, scan[c].snap)
    BY DEF Tick
  <1>2. Active(c)
    BY DEF Tick, Active
  <1>3. /\ scan'[c] = [at |-> "ticked", due |-> due, snap |-> scan[c].snap]
        /\ \A d \in Callers \ {c} : scan'[d].at \in {"idle", "launched"}
        /\ OneScan'
    BY <1>1, <1>2, GoesOn DEF Tick
  <1>4. NothingFromTheFuture' /\ ServedIsStored'
    BY DEF Tick, faults, IInv, NothingFromTheFuture, ServedIsStored
  <1>5. (Newest(c) /\ Stored(c) /\ Carried(c))'
    BY <1>2, <1>3 DEF Tick, IInv, Newest, Stored, Carried, Active
  <1>6. \A d \in Callers : (Newest(d) /\ Stored(d) /\ Carried(d))'
    BY <1>3, <1>5 DEF Active, Newest, Stored, Carried
  <1> QED BY <1>3, <1>4, <1>6 DEF IInv


\* What is not due keeps the cached data, which is not newer than the scan.
LEMMA CarryForwardIInv ==
  ASSUME IInv, NEW c \in Callers, CarryForward(c), TypeOK'
  PROVE  IInv'
  <1> DEFINE snap == [scan[c].snap EXCEPT !.data =
                      [n \in Subsystems |->
                         IF n \in scan[c].due THEN @[n] ELSE latest.data[n]]]
  <1>0. /\ scan[c].snap \in Snapshots \cup {None}
        /\ \A n \in Subsystems : /\ scan[c].snap.data[n] \in Nat
                                 /\ latest.data[n] \in Nat
        /\ begun \in Nat
    BY ScanFields, SnapshotFields, ScanAssumption DEF IInv, TypeOK, Times
  <1>6. scan[c].snap \in Snapshots
    BY SnapshotFields, ScanFields
       DEF CarryForward, Active, IInv, TypeOK, Newest
  <1>1. Active(c) /\ To(c, "running", scan[c].due, snap)
    BY DEF CarryForward, Active
  <1>2. /\ scan'[c] = [at |-> "running", due |-> scan[c].due, snap |-> snap]
        /\ \A d \in Callers \ {c} : scan'[d].at \in {"idle", "launched"}
        /\ OneScan'
    <2> HIDE DEF snap
    <2> QED BY <1>1, GoesOn DEF CarryForward
  <1>3. NothingFromTheFuture' /\ ServedIsStored'
    BY DEF CarryForward, faults, IInv, NothingFromTheFuture, ServedIsStored
  <1>7. /\ snap.at = scan[c].snap.at
        /\ \A n \in Subsystems :
             snap.data[n] = IF n \in scan[c].due THEN scan[c].snap.data[n]
                                                 ELSE latest.data[n]
    BY <1>6 DEF Snapshots
  <1>4. (Newest(c) /\ Stored(c) /\ Carried(c))'
    <2>1. /\ begun > 0 /\ snap.at = begun
          /\ \A n \in Subsystems : snap.data[n] <= begun
      BY <1>0, <1>1, <1>7 DEF IInv, Newest, NothingFromTheFuture
    <2>2. \A n \in Subsystems \ scan[c].due : latest.data[n] <= snap.data[n]
      BY <1>0, <1>7
    <2>3. UNCHANGED <<begun, latest>>
      BY DEF CarryForward
    <2> HIDE DEF snap
    <2> QED BY <1>2, <2>1, <2>2, <2>3 DEF Newest, Stored, Carried, Active
  <1>5. \A d \in Callers : (Newest(d) /\ Stored(d) /\ Carried(d))'
    BY <1>2, <1>4 DEF Active, Newest, Stored, Carried
  <1> QED BY <1>2, <1>3, <1>5 DEF IInv

\* A subsystem's data becomes the scan's own, the newest there is.
LEMMA RunSubsystemIInv ==
  ASSUME IInv, NEW c \in Callers, NEW n \in Subsystems, RunSubsystem(c, n),
         TypeOK'
  PROVE  IInv'
  <1> DEFINE snap == [scan[c].snap EXCEPT !.data[n] = scan[c].snap.at]
  <1>0. /\ scan[c].snap \in Snapshots \cup {None}
        /\ \A m \in Subsystems : /\ scan[c].snap.data[m] \in Nat
                                 /\ latest.data[m] \in Nat
        /\ begun \in Nat
    BY ScanFields, SnapshotFields, ScanAssumption DEF IInv, TypeOK, Times
  <1>6. scan[c].snap \in Snapshots
    BY SnapshotFields, ScanFields
       DEF RunSubsystem, Active, IInv, TypeOK, Newest
  <1>1. Active(c) /\ To(c, "running", scan[c].due \ {n}, snap)
    BY DEF RunSubsystem, Active
  <1>2. /\ scan'[c] = [at |-> "running", due |-> scan[c].due \ {n},
                       snap |-> snap]
        /\ \A d \in Callers \ {c} : scan'[d].at \in {"idle", "launched"}
        /\ OneScan'
    <2> HIDE DEF snap
    <2> QED BY <1>1, GoesOn DEF RunSubsystem
  <1>3. NothingFromTheFuture' /\ ServedIsStored'
    BY DEF RunSubsystem, faults, IInv, NothingFromTheFuture, ServedIsStored
  <1>7. /\ snap.at = scan[c].snap.at
        /\ \A m \in Subsystems :
             snap.data[m] = IF m = n THEN scan[c].snap.at
                                     ELSE scan[c].snap.data[m]
    BY <1>6 DEF Snapshots, Times
  <1>4. (Newest(c) /\ Stored(c) /\ Carried(c))'
    <2>1. /\ begun > 0 /\ snap.at = begun
          /\ \A m \in Subsystems : snap.data[m] <= begun
      BY <1>0, <1>1, <1>7 DEF IInv, Newest
    <2>2. ASSUME ~reader.late, NEW m \in Subsystems \ (scan[c].due \ {n})
          PROVE  latest.data[m] <= snap.data[m]
      BY <1>0, <1>1, <1>7, <2>2
         DEF RunSubsystem, IInv, Newest, NothingFromTheFuture, Carried
    <2>3. UNCHANGED <<begun, latest, reader>>
      BY DEF RunSubsystem
    <2> HIDE DEF snap
    <2> QED BY <1>2, <2>1, <2>2, <2>3 DEF Newest, Stored, Carried, Active
  <1>5. \A d \in Callers : (Newest(d) /\ Stored(d) /\ Carried(d))'
    BY <1>2, <1>4 DEF Active, Newest, Stored, Carried
  <1> QED BY <1>2, <1>3, <1>5 DEF IInv

\* The last-ran times do not touch the data.
LEMMA StampIInv ==
  ASSUME IInv, NEW c \in Callers, Stamp(c), TypeOK'
  PROVE  IInv'
  <1> DEFINE snap == [scan[c].snap EXCEPT !.ran = lastRun]
  <1>6. scan[c].snap \in Snapshots
    BY SnapshotFields, ScanFields
       DEF Stamp, Active, IInv, TypeOK, Newest
  <1>1. Active(c) /\ To(c, "analysed", {}, snap)
    BY DEF Stamp, Active
  <1>2. /\ scan'[c] = [at |-> "analysed", due |-> {}, snap |-> snap]
        /\ \A d \in Callers \ {c} : scan'[d].at \in {"idle", "launched"}
        /\ OneScan'
    <2> HIDE DEF snap
    <2> QED BY <1>1, GoesOn DEF Stamp
  <1>3. NothingFromTheFuture' /\ ServedIsStored'
    BY DEF Stamp, faults, IInv, NothingFromTheFuture, ServedIsStored
  <1>7. snap.at = scan[c].snap.at /\ snap.data = scan[c].snap.data
    BY <1>6 DEF Snapshots
  <1>4. (Newest(c) /\ Stored(c) /\ Carried(c))'
    <2> HIDE DEF snap
    <2> QED
      BY <1>1, <1>2, <1>7 DEF Stamp, IInv, Newest, Stored, Carried, Active
  <1>5. \A d \in Callers : (Newest(d) /\ Stored(d) /\ Carried(d))'
    BY <1>2, <1>4 DEF Active, Newest, Stored, Carried
  <1> QED BY <1>2, <1>3, <1>5 DEF IInv

\* What is saved is newer than what was stored and what was shown.
LEMMA SaveIInv ==
  ASSUME IInv, NEW c \in Callers, Save(c), TypeOK'
  PROVE  IInv'
  <1> DEFINE snap == scan[c].snap
  <1>0. /\ scan[c].snap \in Snapshots \cup {None}
        /\ \A n \in Subsystems : /\ scan[c].snap.data[n] \in Nat
                                 /\ latest.data[n] \in Nat
        /\ begun \in Nat
    BY ScanFields, SnapshotFields, ScanAssumption DEF IInv, TypeOK, Times
  <1>1. Active(c) /\ To(c, "saved", {}, snap)
    BY DEF Save, Active
  <1>2. /\ scan'[c] = [at |-> "saved", due |-> {}, snap |-> snap]
        /\ \A d \in Callers \ {c} : scan'[d].at \in {"idle", "launched"}
        /\ OneScan'
    <2> HIDE DEF snap
    <2> QED BY <1>1, GoesOn DEF Save
  <1>3. NothingFromTheFuture' /\ ServedIsStored'
    <2>1. /\ scan[c].snap.at = begun
          /\ \A n \in Subsystems : scan[c].snap.data[n] <= begun
      BY <1>1 DEF IInv, Newest
    <2>2. /\ disk.at \in Nat /\ latest.at \in Nat /\ reader.seen.at \in Nat
          /\ errors \in Nat
      BY SnapshotFields, ScanAssumption DEF IInv, TypeOK, ReaderStates
    <2> QED
      BY <1>0, <2>1, <2>2
         DEF Save, IInv, NothingFromTheFuture, ServedIsStored
  <1>4. (Newest(c) /\ Stored(c) /\ Carried(c))'
    <2>1. errors \in Nat
      BY ScanAssumption DEF IInv, TypeOK
    <2> QED
      BY <1>1, <1>2, <2>1 DEF Save, IInv, Newest, Stored, Carried, Active
  <1>5. \A d \in Callers : (Newest(d) /\ Stored(d) /\ Carried(d))'
    BY <1>2, <1>4 DEF Active, Newest, Stored, Carried
  <1> QED BY <1>2, <1>3, <1>5 DEF IInv

\* What is cached was saved, and everything in it is at least as new.
LEMMA PublishIInv ==
  ASSUME IInv, NEW c \in Callers, Publish(c), TypeOK'
  PROVE  IInv'
  <1> DEFINE snap == scan[c].snap
  <1>0. /\ scan[c].snap \in Snapshots \cup {None}
        /\ \A n \in Subsystems : /\ scan[c].snap.data[n] \in Nat
                                 /\ latest.data[n] \in Nat
        /\ begun \in Nat
    BY ScanFields, SnapshotFields, ScanAssumption DEF IInv, TypeOK, Times
  <1>1. Active(c) /\ To(c, "published", {}, snap)
    BY DEF Publish, Active
  <1>2. /\ scan'[c] = [at |-> "published", due |-> {}, snap |-> snap]
        /\ \A d \in Callers \ {c} : scan'[d].at \in {"idle", "launched"}
        /\ OneScan'
    <2> HIDE DEF snap
    <2> QED BY <1>1, GoesOn DEF Publish
  <1>3. NothingFromTheFuture' /\ ServedIsStored'
    <2>1. /\ scan[c].snap.at = begun
          /\ \A n \in Subsystems : scan[c].snap.data[n] <= begun
      BY <1>1 DEF IInv, Newest
    <2> QED
      BY <1>0, <2>1
         DEF Publish, faults, IInv, NothingFromTheFuture, ServedIsStored,
             Stored
  <1>4. (Newest(c) /\ Stored(c) /\ Carried(c))'
    BY <1>1, <1>2 DEF Publish, IInv, Newest, Stored, Carried, Active
  <1>5. \A d \in Callers : (Newest(d) /\ Stored(d) /\ Carried(d))'
    BY <1>2, <1>4 DEF Active, Newest, Stored, Carried
  <1> QED BY <1>2, <1>3, <1>5 DEF IInv

\* A caller that is kept outside changes nothing for the scan in progress.
LEMMA OutsideIInv ==
  ASSUME IInv, NEW c \in Callers, Trigger(c) \/ Skip(c), TypeOK'
  PROVE  IInv'
  <1>1. /\ scan[c].at \in {"idle", "launched"}
        /\ scan'[c].at \in {"idle", "launched"}
        /\ \A d \in Callers \ {c} : scan'[d] = scan[d]
    BY NoneOK, ScanFields
       DEF Trigger, Skip, MayBegin, NoScan, IInv, TypeOK, ScanStates
  <1>2. UNCHANGED <<running, begun, latest, disk, reader, errors>>
    BY DEF Trigger, Skip, faults
  <1>3. OneScan'
    BY <1>1, <1>2 DEF IInv, OneScan, Active
  <1>4. NothingFromTheFuture' /\ ServedIsStored'
    BY <1>2 DEF IInv, NothingFromTheFuture, ServedIsStored
  <1>5. \A d \in Callers : (Newest(d) /\ Stored(d) /\ Carried(d))'
    BY <1>1, <1>2 DEF IInv, Newest, Stored, Carried, Active
  <1> QED BY <1>3, <1>4, <1>5 DEF IInv

\* The scan that is let in is the newest.
LEMMA BeginIInv ==
  ASSUME IInv, NEW c \in Callers, Begin(c), TypeOK'
  PROVE  IInv'
  <1> DEFINE snap == [None EXCEPT !.at = begun']
  <1>1. /\ scan'[c] = [at |-> "collected", due |-> {}, snap |-> snap]
        /\ \A d \in Callers \ {c} : scan'[d].at \in {"idle", "launched"}
    <2> HIDE DEF snap
    <2>1. To(c, "collected", {}, snap) /\ ~running
      BY DEF Begin, snap
    <2> QED BY <2>1 DEF To, IInv, TypeOK, OneScan, Active
  <1>2. begun \in Nat /\ begun' = begun + 1 /\ running'
    BY ScanAssumption DEF Begin, IInv, TypeOK
  <1>3. OneScan'
    BY <1>1, <1>2 DEF OneScan, Active
  <1>4. NothingFromTheFuture' /\ ServedIsStored'
    <2>1. /\ disk.at \in Nat /\ latest.at \in Nat
          /\ \A n \in Subsystems : /\ latest.data[n] \in Nat
                                   /\ disk.data[n] \in Nat
                                   /\ reader.seen.data[n] \in Nat
      BY SnapshotFields, ScanAssumption DEF IInv, TypeOK, Times, ReaderStates
    <2>2. UNCHANGED <<latest, disk, reader, errors>>
      BY DEF Begin, faults
    <2> QED
      BY <1>2, <2>1, <2>2 DEF IInv, NothingFromTheFuture, ServedIsStored
  <1>5. (Newest(c) /\ Stored(c) /\ Carried(c))'
    <2>1. snap.at = begun' /\ \A n \in Subsystems : snap.data[n] = 0
      BY DEF None
    <2> HIDE DEF snap
    <2> QED BY <1>1, <1>2, <2>1 DEF Newest, Stored, Carried, Active
  <1>6. \A d \in Callers : (Newest(d) /\ Stored(d) /\ Carried(d))'
    BY <1>1, <1>5 DEF Active, Newest, Stored, Carried
  <1> QED BY <1>3, <1>4, <1>6 DEF IInv

\* The end of the scan, regular or by a recovered panic, leaves none.
LEMMA EndIInv ==
  ASSUME IInv, NEW c \in Callers, Active(c), TypeOK',
         scan' = [scan EXCEPT ![c] = NoScan], running' = FALSE,
         UNCHANGED <<begun, latest, disk, reader, errors>>
  PROVE  IInv'
  <1>1. \A d \in Callers : scan'[d].at \in {"idle", "launched"}
    BY NoneOK DEF IInv, TypeOK, OneScan, Active, NoScan
  <1>2. OneScan' /\ \A d \in Callers : (Newest(d) /\ Stored(d) /\ Carried(d))'
    BY <1>1 DEF OneScan, Active, Newest, Stored, Carried
  <1>3. NothingFromTheFuture' /\ ServedIsStored'
    BY DEF IInv, NothingFromTheFuture, ServedIsStored
  <1> QED BY <1>2, <1>3 DEF IInv

\* After a restart there is the stored snapshot and no scan.
LEMMA RestartIInv == ASSUME IInv, FatalPanic \/ Restart, TypeOK' PROVE IInv'
  <1>1. MemoryLost /\ UNCHANGED <<begun, disk, errors>>
    BY DEF FatalPanic, Restart
  <1>2. \A d \in Callers : scan'[d].at = "idle"
    BY <1>1 DEF MemoryLost, NoScan
  <1>3. OneScan' /\ \A d \in Callers : (Newest(d) /\ Stored(d) /\ Carried(d))'
    BY <1>1, <1>2 DEF MemoryLost, OneScan, Active, Newest, Stored, Carried
  <1>4. NothingFromTheFuture' /\ ServedIsStored'
    <2>1. disk.at \in Nat /\ begun \in Nat
      BY SnapshotFields, ScanAssumption DEF IInv, TypeOK
    <2>2. latest' = None /\ reader'.seen = None
      BY <1>1 DEF MemoryLost, NoReader
    <2>3. /\ latest'.at = 0 /\ reader'.seen.at = 0
          /\ \A n \in Subsystems : /\ latest'.data[n] = 0
                                   /\ reader'.seen.data[n] = 0
      BY <2>2, NoneOK
    <2> QED
      BY <1>1, <2>1, <2>3
         DEF IInv, NothingFromTheFuture, ServedIsStored
  <1> QED BY <1>3, <1>4 DEF IInv

\* A reader shows nothing but what is stored, and is marked when it may have
\* covered what a scan had cached.
LEMMA ReaderIInv ==
  ASSUME IInv, ReaderMisses \/ ReaderLoads \/ ReaderSeeds, TypeOK'
  PROVE  IInv'
  <1>1. UNCHANGED <<running, begun, scan, disk, errors>>
    BY DEF ReaderMisses, ReaderLoads, ReaderSeeds, faults
  <1>2. OneScan'
    BY <1>1 DEF IInv, OneScan, Active
  <1>3. /\ \/ reader'.seen \in {reader.seen, disk} /\ latest' = latest
           \/ reader'.seen = None /\ latest' = reader.seen
        /\ reader.late => reader'.late
    BY DEF ReaderMisses, ReaderLoads, ReaderSeeds, NoReader, IInv, TypeOK,
           ReaderStates
  <1>4. NothingFromTheFuture' /\ ServedIsStored'
    <2>1. disk.at \in Nat /\ begun \in Nat /\ reader.seen.at \in Nat
      BY SnapshotFields, ScanAssumption DEF IInv, TypeOK, ReaderStates
    <2> QED
      BY <1>1, <1>3, <2>1, NoneOK
         DEF IInv, NothingFromTheFuture, ServedIsStored
  <1>5. ASSUME NEW d \in Callers
        PROVE  (Newest(d) /\ Stored(d) /\ Carried(d))'
    <2>1. CASE UNCHANGED latest
      BY <1>1, <1>3, <2>1 DEF IInv, Newest, Stored, Carried, Active
    <2>2. CASE ReaderSeeds /\ (running \/ latest # None)
      <3>1. reader'.late
        BY <2>2 DEF ReaderSeeds, NoReader
      <3> QED BY <1>1, <3>1 DEF IInv, Newest, Stored, Carried, Active
    <2>3. CASE ~running
      BY <1>1, <2>3 DEF IInv, OneScan, Newest, Stored, Carried, Active
    <2> QED BY <2>1, <2>2, <2>3 DEF ReaderMisses, ReaderLoads
  <1> QED BY <1>2, <1>4, <1>5 DEF IInv

\* The invariant holds in every behaviour.
THEOREM Invariant == Spec => []IInv
  <1>1. ASSUME IInv, [Next]_vars PROVE IInv'
    <2>1. CASE UNCHANGED vars
      BY <1>1, <2>1
         DEF vars, memory, faults, IInv, TypeOK, OneScan, NothingFromTheFuture,
             ServedIsStored, Newest, Stored, Carried, Active
    <2>2. CASE Next
      <3>1. TypeOK'
        BY <1>1, <2>2, TypeStep
      <3>2. ASSUME NEW c \in Callers, Trigger(c) \/ Begin(c) \/ Skip(c)
            PROVE  IInv'
        BY <1>1, <3>1, <3>2, OutsideIInv, BeginIInv
      <3>3. ASSUME NEW c \in Callers, Work(c)
            PROVE  IInv'
        <4>1. CASE Finish(c)
          BY <1>1, <3>1, <4>1, EndIInv DEF Finish, Active, faults
        <4> QED
          BY <1>1, <3>1, <3>3, <4>1, TickIInv, CarryForwardIInv,
             RunSubsystemIInv, StampIInv, SaveIInv, PublishIInv
             DEF Work
      <3>4. CASE RecoveredPanic
        BY <1>1, <3>1, <3>4, EndIInv DEF RecoveredPanic, Callers
      <3>5. CASE FatalPanic \/ Restart
        BY <1>1, <3>1, <3>5, RestartIInv
      <3>6. CASE ReaderMisses \/ ReaderLoads \/ ReaderSeeds
        BY <1>1, <3>1, <3>6, ReaderIInv
      <3> QED BY <2>2, <3>2, <3>3, <3>4, <3>5, <3>6 DEF Next
    <2> QED BY <1>1, <2>1, <2>2
  <1> QED BY InitIInv, <1>1, PTL DEF Spec

-----------------------------------------------------------------------------
(* What follows from it.                                                   *)

\* Every variable keeps its type (scheduler.go, scan_dispatcher.go: the
\* fields of Scheduler and ScanDispatcher, a Snapshot's timestamps).
THEOREM TypeCorrect == Spec => []TypeOK
  BY Invariant, PTL DEF IInv

\* However many callers ask for a scan, and whatever panics, at most one runs
\* and the running flag is up exactly while it does (scheduler.go:631-651).
THEOREM OneScanAtATime == Spec => []OneScan
  BY Invariant, PTL DEF IInv

\* What a reader was shown survives a crash (scheduler.go:736-771).
THEOREM ShownIsStored == Spec => []ServedIsStored
  BY Invariant, PTL DEF IInv

\* Panics and skipped subsystems never make the data shown go back in time
\* (carryForwardSubsystems, scheduler.go:865-895).
THEOREM NoRegression == Spec => DataNeverRegresses
  <1> DEFINE D == (latest # None /\ latest' # None /\ ~reader'.late) =>
                    /\ latest'.at >= latest.at
                    /\ \A n \in Subsystems : latest'.data[n] >= latest.data[n]
  <1>1. ASSUME IInv, Next PROVE D
    <2>1. /\ latest.at \in Nat /\ begun \in Nat
          /\ \A n \in Subsystems : latest.data[n] \in Nat
      BY <1>1, SnapshotFields, ScanAssumption DEF IInv, TypeOK, Times
    <2>2. ASSUME UNCHANGED latest
          PROVE  D
      BY <2>1, <2>2
    <2>3. ASSUME NEW c \in Callers, Publish(c)
          PROVE  D
      <3>1. Active(c) /\ scan[c].due = {}
        BY <1>1, <2>3 DEF Publish, Active, IInv, Carried
      <3>2. latest' = scan[c].snap /\ scan[c].snap.at = begun
        BY <1>1, <2>3, <3>1 DEF Publish, IInv, Newest
      <3>3. ~reader'.late =>
              \A n \in Subsystems : latest.data[n] <= latest'.data[n]
        BY <1>1, <2>3, <3>1 DEF Publish, IInv, Carried
      <3>4. \A n \in Subsystems : scan[c].snap.data[n] \in Nat
        BY <1>1, ScanFields, SnapshotFields, ScanAssumption
           DEF IInv, TypeOK, Times
      <3> QED
        BY <1>1, <2>1, <3>2, <3>3, <3>4 DEF IInv, NothingFromTheFuture
    <2>4. CASE ReaderSeeds
      <3>1. latest # None => reader'.late
        BY <2>4 DEF ReaderSeeds, NoReader
      <3> QED BY <3>1
    <2>5. CASE FatalPanic \/ Restart
      BY <2>5 DEF FatalPanic, Restart, MemoryLost
    <2>6. CASE RecoveredPanic \/ ReaderMisses \/ ReaderLoads
      BY <2>2, <2>6 DEF RecoveredPanic, ReaderMisses, ReaderLoads
    <2>7. ASSUME NEW c \in Callers,
                 \/ Trigger(c) \/ Begin(c) \/ Skip(c) \/ Tick(c)
                 \/ CarryForward(c) \/ Stamp(c) \/ Save(c) \/ Finish(c)
                 \/ \E n \in Subsystems : RunSubsystem(c, n)
          PROVE  UNCHANGED latest
      BY <2>7, Zenon
         DEF Trigger, Begin, Skip, Tick, CarryForward, RunSubsystem, Stamp,
             Save, Finish
    <2> HIDE DEF D
    <2> QED
      BY <1>1, <2>2, <2>3, <2>4, <2>5, <2>6, <2>7, Zenon DEF Next, Work
  <1> QED BY Invariant, <1>1, PTL DEF Spec, DataNeverRegresses

-----------------------------------------------------------------------------
(* The time on a subsystem is that of its data (StampIsDataTime).          *)
(*                                                                         *)
(* The dispatcher's lastRun and the cached snapshot agree on every         *)
(* subsystem that has run while no scan is active; a scan passes this on   *)
(* from phase to phase, to its own snapshot, until it is the cached one.   *)
(* A panic between MarkRan and the caching breaks the agreement for good,  *)
(* and so does a reader that covers what a scan has cached.                *)


\* The stamps of a snapshot are the times of its data.
Stamped(s) == s.ran = s.data

\* What has run is cached.
Agrees == \A n \in Subsystems : lastRun[n] # 0 => latest.data[n] = lastRun[n]

\* How far the scan of caller c has carried the agreement on.
PassedOn(c) ==
  /\ scan[c].at = "collected" => Agrees
  /\ scan[c].at = "ticked" =>
       \A n \in Subsystems \ scan[c].due : latest.data[n] = lastRun[n]
  /\ scan[c].at = "running" =>
       \A n \in Subsystems \ scan[c].due : scan[c].snap.data[n] = lastRun[n]
  /\ scan[c].at \in {"analysed", "saved", "published"} =>
       scan[c].snap.ran = lastRun /\ scan[c].snap.data = lastRun
  /\ scan[c].at = "published" => latest.data = lastRun

Undisturbed == panics = 0 /\ ~reader.late

StampInv ==
  Undisturbed =>
    /\ Stamped(latest) /\ Stamped(disk) /\ Stamped(reader.seen)
    /\ ~running => Agrees
    /\ \A c \in Callers : PassedOn(c)

-----------------------------------------------------------------------------

\* No subsystem has run, and none is stamped, before the first scan.
LEMMA InitStamp == Init => StampInv
  <1> SUFFICES ASSUME Init PROVE StampInv
    OBVIOUS
  <1>1. Stamped(latest) /\ Stamped(disk) /\ Stamped(reader.seen)
    BY DEF Init, Stamped, None, NoReader
  <1>2. Agrees
    BY DEF Init, Agrees
  <1>3. \A c \in Callers : scan[c].at = "idle"
    BY DEF Init, NoScan
  <1> QED
    BY <1>1, <1>2, <1>3 DEF StampInv, PassedOn

\* While a caller's scan is active nobody else's is.
LEMMA OthersRest ==
  ASSUME IInv, NEW c \in Callers, Active(c), NEW d \in Callers, d # c
  PROVE  running /\ scan[d].at \in {"idle", "launched"}
  BY DEF IInv, OneScan, Active

\* A step of an active scan changes nobody else's, so that it keeps the
\* invariant when it passes its own agreement on.
LEMMA OwnStep ==
  ASSUME IInv, StampInv, Undisturbed', NEW c \in Callers, Active(c),
         NEW r, scan' = [scan EXCEPT ![c] = r], PassedOn(c)',
         ~running' => Agrees', Stamped(latest)', Stamped(disk)',
         UNCHANGED <<reader, panics>>
  PROVE  StampInv'
  <1>1. Undisturbed
    BY DEF Undisturbed
  <1>2. Stamped(reader.seen)'
    BY <1>1 DEF StampInv, Stamped
  <1>3. ASSUME NEW d \in Callers, d # c
        PROVE  PassedOn(d)'
    <2>1. scan'[d] = scan[d]
      BY <1>3 DEF IInv, TypeOK
    <2>2. scan[d].at \in {"idle", "launched"}
      BY <1>3, OthersRest
    <2> QED
      BY <2>1, <2>2 DEF PassedOn
  <1> QED
    BY <1>2, <1>3, Zenon DEF StampInv

\* There is a scan state for every caller.
LEMMA OwnState ==
  ASSUME IInv
  PROVE  scan = [c \in Callers |-> scan[c]]
  BY DEF IInv, TypeOK

\* A tick chooses what is due; no data moves.
LEMMA StampTick ==
  ASSUME IInv, StampInv, NEW c \in Callers, Tick(c)
  PROVE  StampInv'
  <1> SUFFICES ASSUME Undisturbed' PROVE StampInv'
    BY DEF StampInv
  <1>1. PICK more \in SUBSET Subsystems :
          scan' = [scan EXCEPT ![c] =
            [at |-> "ticked",
             due |-> more \cup {n \in Subsystems : lastRun[n] = 0},
             snap |-> scan[c].snap]]
    BY DEF Tick, To
  <1>2. Active(c) /\ Undisturbed
    BY DEF Tick, Active, Undisturbed, faults
  <1>3. Agrees /\ Stamped(latest)' /\ Stamped(disk)'
    BY <1>2 DEF Tick, StampInv, PassedOn, Stamped
  <1>4. PassedOn(c)'
    BY <1>1, <1>3, OwnState DEF Tick, PassedOn, Agrees
  <1>5. ~running' => Agrees'
    BY <1>2 DEF Tick, IInv, OneScan
  <1> QED
    BY <1>1, <1>2, <1>3, <1>4, <1>5, OwnStep DEF Tick, faults

\* What is carried forward keeps the time it was read at.
LEMMA StampCarryForward ==
  ASSUME IInv, StampInv, NEW c \in Callers, CarryForward(c)
  PROVE  StampInv'
  <1> SUFFICES ASSUME Undisturbed' PROVE StampInv'
    BY DEF StampInv
  <1> DEFINE d == [n \in Subsystems |-> IF n \in scan[c].due
                                          THEN scan[c].snap.data[n]
                                          ELSE latest.data[n]]
             s == [scan[c].snap EXCEPT !.data = d]
  <1>1. scan' = [scan EXCEPT ![c] =
                   [at |-> "running", due |-> scan[c].due, snap |-> s]]
    BY DEF CarryForward, To
  <1>2. Active(c) /\ Undisturbed
    BY DEF CarryForward, Active, Undisturbed, faults
  <1>3. /\ \A n \in Subsystems \ scan[c].due : latest.data[n] = lastRun[n]
        /\ Stamped(latest)' /\ Stamped(disk)'
    BY <1>2 DEF CarryForward, StampInv, PassedOn, Stamped
  <1>4. s.data = d
    <2>1. scan[c].snap \in Snapshots
      BY <1>2, ScanFields, SnapshotFields DEF IInv, TypeOK, Newest
    <2> QED
      BY <2>1 DEF Snapshots
  <1> HIDE DEF s
  <1>5. scan'[c].at = "running" /\ scan'[c].due = scan[c].due
        /\ scan'[c].snap = s
    BY <1>1, OwnState
  <1>6. PassedOn(c)'
    BY <1>3, <1>4, <1>5 DEF CarryForward, PassedOn
  <1>7. ~running' => Agrees'
    BY <1>2 DEF CarryForward, IInv, OneScan
  <1> QED
    BY <1>1, <1>2, <1>3, <1>6, <1>7, OwnStep DEF CarryForward, faults

\* A subsystem that runs has the data and the time of this scan.
LEMMA StampRunSubsystem ==
  ASSUME IInv, StampInv, NEW c \in Callers, NEW n \in Subsystems,
         RunSubsystem(c, n)
  PROVE  StampInv'
  <1> SUFFICES ASSUME Undisturbed' PROVE StampInv'
    BY DEF StampInv
  <1> DEFINE s == [scan[c].snap EXCEPT !.data[n] = scan[c].snap.at]
  <1>1. scan' = [scan EXCEPT ![c] =
                   [at |-> "running", due |-> scan[c].due \ {n}, snap |-> s]]
    BY DEF RunSubsystem, To
  <1>2. Active(c) /\ Undisturbed
    BY DEF RunSubsystem, Active, Undisturbed, faults
  <1>3. /\ \A m \in Subsystems \ scan[c].due :
             scan[c].snap.data[m] = lastRun[m]
        /\ Stamped(latest)' /\ Stamped(disk)'
    BY <1>2 DEF RunSubsystem, StampInv, PassedOn, Stamped
  <1>4. scan[c].snap \in Snapshots /\ lastRun \in Times
    BY <1>2, ScanFields, SnapshotFields DEF IInv, TypeOK, Newest
  <1>5. s.data = [scan[c].snap.data EXCEPT ![n] = scan[c].snap.at]
    BY <1>4 DEF Snapshots
  <1> HIDE DEF s
  <1>6. scan'[c].at = "running" /\ scan'[c].due = scan[c].due \ {n}
        /\ scan'[c].snap = s
    BY <1>1, OwnState
  <1>7. lastRun' = [lastRun EXCEPT ![n] = scan[c].snap.at]
    BY DEF RunSubsystem
  <1>8. \A m \in Subsystems \ scan'[c].due :
          scan'[c].snap.data[m] = lastRun'[m]
    BY <1>3, <1>4, <1>5, <1>6, <1>7 DEF Snapshots, Times
  <1>9. PassedOn(c)'
    BY <1>6, <1>8 DEF PassedOn
  <1>10. ~running' => Agrees'
    BY <1>2 DEF RunSubsystem, IInv, OneScan
  <1> QED
    BY <1>1, <1>2, <1>3, <1>9, <1>10, OwnStep DEF RunSubsystem, faults

\* The times written into a snapshot are those of its data.
LEMMA StampStamp ==
  ASSUME IInv, StampInv, NEW c \in Callers, Stamp(c)
  PROVE  StampInv'
  <1> SUFFICES ASSUME Undisturbed' PROVE StampInv'
    BY DEF StampInv
  <1> DEFINE s == [scan[c].snap EXCEPT !.ran = lastRun]
  <1>1. scan' = [scan EXCEPT ![c] =
                   [at |-> "analysed", due |-> {}, snap |-> s]]
    BY DEF Stamp, To
  <1>2. Active(c) /\ Undisturbed
    BY DEF Stamp, Active, Undisturbed, faults
  <1>3. /\ \A m \in Subsystems : scan[c].snap.data[m] = lastRun[m]
        /\ Stamped(latest)' /\ Stamped(disk)'
    BY <1>2 DEF Stamp, StampInv, PassedOn, Stamped
  <1>4. scan[c].snap \in Snapshots /\ lastRun \in Times
    BY <1>2, ScanFields, SnapshotFields DEF IInv, TypeOK, Newest
  <1>5. scan[c].snap.data = lastRun
    BY <1>3, <1>4 DEF Snapshots, Times
  <1>6. s.ran = lastRun /\ s.data = lastRun
    BY <1>4, <1>5 DEF Snapshots
  <1>7. scan'[c].at = "analysed" /\ scan'[c].snap = s
    BY <1>1, OwnState
  <1>8. PassedOn(c)'
    BY <1>6, <1>7 DEF Stamp, PassedOn
  <1>9. ~running' => Agrees'
    BY <1>2 DEF Stamp, IInv, OneScan
  <1> QED
    BY <1>1, <1>2, <1>3, <1>8, <1>9, OwnStep DEF Stamp, faults

\* A save stores the snapshot as it was stamped.
LEMMA StampSave ==
  ASSUME IInv, StampInv, NEW c \in Callers, Save(c)
  PROVE  StampInv'
  <1> SUFFICES ASSUME Undisturbed' PROVE StampInv'
    BY DEF StampInv
  <1>1. scan' = [scan EXCEPT ![c] =
                   [at |-> "saved", due |-> {}, snap |-> scan[c].snap]]
    BY DEF Save, To
  <1>2. Active(c) /\ Undisturbed
    BY DEF Save, Active, Undisturbed
  <1>3. /\ scan[c].snap.ran = lastRun /\ scan[c].snap.data = lastRun
        /\ Stamped(latest)' /\ Stamped(disk)'
    BY <1>2 DEF Save, StampInv, PassedOn, Stamped
  <1>4. scan'[c].at = "saved" /\ scan'[c].snap = scan[c].snap
    BY <1>1, OwnState
  <1>5. PassedOn(c)'
    BY <1>3, <1>4 DEF Save, PassedOn
  <1>6. ~running' => Agrees'
    BY <1>2 DEF Save, IInv, OneScan
  <1> QED
    BY <1>1, <1>2, <1>3, <1>5, <1>6, OwnStep DEF Save

\* A reader is shown the snapshot as it was stamped.
LEMMA StampPublish ==
  ASSUME IInv, StampInv, NEW c \in Callers, Publish(c)
  PROVE  StampInv'
  <1> SUFFICES ASSUME Undisturbed' PROVE StampInv'
    BY DEF StampInv
  <1>1. scan' = [scan EXCEPT ![c] =
                   [at |-> "published", due |-> {}, snap |-> scan[c].snap]]
    BY DEF Publish, To
  <1>2. Active(c) /\ Undisturbed
    BY DEF Publish, Active, Undisturbed, faults
  <1>3. /\ scan[c].snap.ran = lastRun /\ scan[c].snap.data = lastRun
        /\ Stamped(latest)' /\ Stamped(disk)'
    BY <1>2 DEF Publish, StampInv, PassedOn, Stamped
  <1>4. scan'[c].at = "published" /\ scan'[c].snap = scan[c].snap
    BY <1>1, OwnState
  <1>5. PassedOn(c)'
    BY <1>3, <1>4 DEF Publish, PassedOn
  <1>6. ~running' => Agrees'
    BY <1>2 DEF Publish, IInv, OneScan
  <1> QED
    BY <1>1, <1>2, <1>3, <1>5, <1>6, OwnStep DEF Publish, faults

\* The end of a scan moves no data.
LEMMA StampFinish ==
  ASSUME IInv, StampInv, NEW c \in Callers, Finish(c)
  PROVE  StampInv'
  <1> SUFFICES ASSUME Undisturbed' PROVE StampInv'
    BY DEF StampInv
  <1>1. Active(c) /\ Undisturbed
    BY DEF Finish, Active, Undisturbed, faults
  <1>2. latest.data = lastRun /\ Stamped(latest)' /\ Stamped(disk)'
    BY <1>1 DEF Finish, StampInv, PassedOn, Stamped
  <1>3. Agrees'
    BY <1>2 DEF Finish, Agrees
  <1>4. scan'[c].at = "idle"
    BY OwnState DEF Finish, NoScan
  <1>5. PassedOn(c)'
    BY <1>4 DEF PassedOn
  <1> QED
    BY <1>1, <1>2, <1>3, <1>5, OwnStep DEF Finish, faults

\* Who asks for a scan changes nothing; the scan that begins takes over what
\* held while none was active.
LEMMA StampOutside ==
  ASSUME IInv, StampInv, NEW c \in Callers, Trigger(c) \/ Begin(c) \/ Skip(c)
  PROVE  StampInv'
  <1> SUFFICES ASSUME Undisturbed' PROVE StampInv'
    BY DEF StampInv
  <1>1. UNCHANGED <<lastRun, latest, disk, reader, panics>>
    BY DEF Trigger, Begin, Skip, faults
  <1>2. Undisturbed
    BY <1>1 DEF Undisturbed
  <1>3. Stamped(latest)' /\ Stamped(disk)' /\ Stamped(reader.seen)'
    BY <1>1, <1>2 DEF StampInv, Stamped
  <1>4. ~running' => Agrees'
    BY <1>1, <1>2 DEF StampInv, Agrees, Trigger, Begin, Skip
  <1>5. ASSUME NEW d \in Callers
        PROVE  PassedOn(d)'
    <2>1. CASE d # c
      <3>1. scan'[d] = scan[d]
        BY <2>1 DEF Trigger, Begin, Skip, To, IInv, TypeOK
      <3> QED
        BY <1>1, <1>2, <3>1 DEF StampInv, PassedOn, Agrees
    <2>2. CASE d = c /\ Begin(c)
      <3>1. scan'[d].at = "collected"
        BY <2>2, OwnState DEF Begin, To
      <3>2. Agrees'
        BY <1>1, <1>2, <2>2 DEF Begin, StampInv, Agrees
      <3> QED
        BY <3>1, <3>2 DEF PassedOn
    <2>3. CASE d = c /\ (Trigger(c) \/ Skip(c))
      <3>1. scan'[d].at \in {"idle", "launched"}
        BY <2>3, OwnState DEF Trigger, Skip, NoScan
      <3> QED
        BY <3>1 DEF PassedOn
    <2> QED
      BY <2>1, <2>2, <2>3
  <1> QED
    BY <1>3, <1>4, <1>5, Zenon DEF StampInv

\* A restart forgets both sides.
LEMMA StampRestart ==
  ASSUME IInv, StampInv, Restart
  PROVE  StampInv'
  <1> SUFFICES ASSUME Undisturbed' PROVE StampInv'
    BY DEF StampInv
  <1>1. /\ latest' = None /\ reader'.seen = None /\ disk' = disk
        /\ reader'.late = reader.late /\ panics' = panics
        /\ \A n \in Subsystems : lastRun'[n] = 0
        /\ \A d \in Callers : scan'[d].at = "idle"
    BY DEF Restart, MemoryLost, NoScan, NoReader
  <1>2. Undisturbed
    BY <1>1 DEF Undisturbed
  <1>3. Stamped(latest)' /\ Stamped(disk)' /\ Stamped(reader.seen)'
    BY <1>1, <1>2 DEF StampInv, Stamped, None
  <1>4. Agrees'
    BY <1>1 DEF Agrees
  <1>5. \A d \in Callers : PassedOn(d)'
    BY <1>1 DEF PassedOn
  <1> QED
    BY <1>3, <1>4, <1>5, Zenon DEF StampInv

\* A reader that is not late seeds an empty cache, when nothing has run.
LEMMA StampReader ==
  ASSUME IInv, StampInv, ReaderMisses \/ ReaderLoads \/ ReaderSeeds
  PROVE  StampInv'
  <1> SUFFICES ASSUME Undisturbed' PROVE StampInv'
    BY DEF StampInv
  <1>1. UNCHANGED <<running, scan, lastRun, disk, panics>>
    BY DEF ReaderMisses, ReaderLoads, ReaderSeeds, faults
  <1>2. reader \in ReaderStates
    BY DEF IInv, TypeOK
  <1>3. CASE ReaderMisses \/ ReaderLoads
    <2>1. /\ latest' = latest /\ reader'.late = reader.late
          /\ reader'.seen \in {reader.seen, disk}
      BY <1>2, <1>3 DEF ReaderMisses, ReaderLoads, ReaderStates
    <2>2. Undisturbed
      BY <1>1, <2>1 DEF Undisturbed
    <2>3. Stamped(latest)' /\ Stamped(disk)' /\ Stamped(reader.seen)'
      BY <1>1, <2>1, <2>2 DEF StampInv, Stamped
    <2>4. (~running' => Agrees') /\ \A d \in Callers : PassedOn(d)'
      BY <1>1, <2>1, <2>2 DEF StampInv, Agrees, PassedOn
    <2> QED
      BY <2>3, <2>4, Zenon DEF StampInv
  <1>4. CASE ReaderSeeds
    <2>1. ~reader.late /\ ~running /\ latest = None /\ latest' = reader.seen
          /\ reader'.seen = None
      BY <1>4 DEF ReaderSeeds, NoReader, Undisturbed
    <2>2. Undisturbed
      BY <1>1, <2>1 DEF Undisturbed
    <2>3. Stamped(latest)' /\ Stamped(disk)' /\ Stamped(reader.seen)'
      BY <1>1, <2>1, <2>2 DEF StampInv, Stamped, None
    <2>4. \A n \in Subsystems : lastRun[n] = 0
      BY <2>1, <2>2, NoneOK DEF StampInv, Agrees
    <2>5. Agrees'
      BY <1>1, <2>4 DEF Agrees
    <2>6. \A d \in Callers : scan[d].at \in {"idle", "launched"}
      BY <2>1 DEF IInv, OneScan, Active
    <2>7. \A d \in Callers : PassedOn(d)'
      BY <1>1, <2>6 DEF PassedOn
    <2> QED
      BY <2>3, <2>5, <2>7, Zenon DEF StampInv
  <1> QED
    BY <1>3, <1>4

\* Nothing is said once somebody has panicked.
LEMMA StampPanic ==
  ASSUME IInv, RecoveredPanic \/ FatalPanic
  PROVE  StampInv'
  <1>1. panics \in Nat /\ panics' = panics + 1
    BY ScanAssumption DEF RecoveredPanic, FatalPanic, IInv, TypeOK
  <1>2. panics' # 0
    BY <1>1
  <1> QED
    BY <1>2 DEF StampInv, Undisturbed

\* Without panics and late readers the time on each subsystem is the time of
\* its data, whatever is due when and however often the process restarts
\* (scheduler.go:865-895, ScanDispatcher.MarkRan and LastRunMap).
THEOREM StampsAreTrue == Spec => []StampIsDataTime
  <1>1. ASSUME IInv, StampInv, [Next]_vars PROVE StampInv'
    <2>1. CASE UNCHANGED vars
      <3>1. UNCHANGED <<running, scan, lastRun, latest, disk, reader, panics>>
        BY <2>1 DEF vars, memory, faults
      <3> QED
        BY <1>1, <3>1 DEF StampInv, Undisturbed, Stamped, Agrees, PassedOn
    <2>2. ASSUME NEW c \in Callers, Work(c)
          PROVE  StampInv'
      BY <1>1, <2>2, StampTick, StampCarryForward, StampRunSubsystem,
         StampStamp, StampSave, StampPublish, StampFinish, Zenon DEF Work
    <2>3. ASSUME NEW c \in Callers, Trigger(c) \/ Begin(c) \/ Skip(c)
          PROVE  StampInv'
      BY <1>1, <2>3, StampOutside
    <2>4. CASE RecoveredPanic \/ FatalPanic
      BY <1>1, <2>4, StampPanic
    <2>5. CASE Restart
      BY <1>1, <2>5, StampRestart
    <2>6. CASE ReaderMisses \/ ReaderLoads \/ ReaderSeeds
      BY <1>1, <2>6, StampReader
    <2> QED
      BY <1>1, <2>1, <2>2, <2>3, <2>4, <2>5, <2>6, Zenon DEF Next
  <1>2. StampInv => StampIsDataTime
    BY DEF StampInv, Undisturbed, Stamped, StampIsDataTime
  <1> QED
    BY Invariant, InitStamp, <1>1, <1>2, PTL DEF Spec

=============================================================================
