---------------------------- MODULE DriveHistory ----------------------------
(***************************************************************************)
(* What the scans learn of the drives: the SMART data of the drives that   *)
(* are awake, the forced read of those that have slept too long            *)
(* (scheduler/stale_smart.go), and the story of every slot: which drive    *)
(* replaced which (scheduler/drive_events.go), beside the notes users      *)
(* write into it (api/drive_events.go).  Time is counted in scans.         *)
(***************************************************************************)
EXTENDS Naturals, Sequences, SequencesExt, FiniteSets

CONSTANTS
  Slots,         \* array slots; each has its device
  Drives,        \* serial numbers
  NoDrive,
  SmartEvery,    \* scans from one SMART collection to the next
  MaxAge,        \* Settings.SMART.MaxAgeDays, 0 for never waking a drive
  Retain,        \* retention of smart_history
  MaxSwaps, MaxNotes, MaxFaults   \* bounds

NoRow == Retain + 1
Tired == MaxAge + 2 * SmartEvery    \* where the ghost stops counting

\* What the constants must be: a slot is none of the other values of "scan".
DriveAssumption ==
  /\ SmartEvery \in Nat \ {0} /\ MaxAge \in Nat /\ Retain \in Nat
  /\ MaxFaults \in Nat
  /\ NoDrive \notin Drives
  /\ {"idle", "wake", "detect"} \cap Slots = {}

VARIABLES
  bay,           \* the drive in each slot
  asleep,        \* slots whose drive is spun down
  swaps,
  scan,          \* what the scan does next; a slot: its event is inserted
  since,         \* scans since SMART last ran
  snap,          \* snap.SMART: the drive seen in each slot
  standby,       \* snap.SMARTStandbyDevices
  latest,        \* s.latest.SMART and its standby list
  todo,          \* slots the detection has not reached
  states,        \* drive_slot_state
  events,        \* drive_events of each slot, oldest first
  row,           \* scans since the newest smart_history row of the device
  unread,        \* scans since the drive in the slot was read (a ghost)
  notes, faults

scanVars == <<scan, since, snap, standby, latest, todo>>
storeVars == <<states, events, row>>
envVars == <<bay, asleep, swaps>>
vars == <<scanVars, storeVars, envVars, unread, notes, faults>>

Nothing == [s \in Slots |-> NoDrive]
Idle == "idle"

Init ==
  /\ bay \in [Slots -> Drives]
  /\ Cardinality({bay[s] : s \in Slots}) = Cardinality(Slots)
  /\ asleep = {} /\ swaps = 0
  /\ scan = Idle /\ since = SmartEvery
  /\ snap = Nothing /\ standby = {}
  /\ latest = [smart |-> Nothing, standby |-> {}]
  /\ todo = {}
  /\ states = Nothing
  /\ events = [s \in Slots |-> <<>>]
  /\ row = [s \in Slots |-> NoRow]
  /\ unread = [s \in Slots |-> 0]
  /\ notes = 0 /\ faults = 0

Fault == faults < MaxFaults /\ faults' = faults + 1

-----------------------------------------------------------------------------
(* The drives.                                                             *)

\* Somebody pulls the drive of a slot, or pushes another one in.
Swap(s, d) ==
  /\ swaps < MaxSwaps
  /\ d # bay[s]
  /\ d = NoDrive \/ \A t \in Slots : bay[t] # d
  /\ bay' = [bay EXCEPT ![s] = d]
  /\ asleep' = asleep \ {s}
  /\ swaps' = swaps + 1
  /\ unread' = [unread EXCEPT ![s] = 0]
  /\ UNCHANGED <<scanVars, storeVars, notes, faults>>

SpinDown(s) ==
  /\ bay[s] # NoDrive /\ s \notin asleep
  /\ asleep' = asleep \cup {s}
  /\ UNCHANGED <<scanVars, storeVars, bay, swaps, unread, notes, faults>>

SpinUp(s) ==
  /\ s \in asleep
  /\ asleep' = asleep \ {s}
  /\ UNCHANGED <<scanVars, storeVars, bay, swaps, unread, notes, faults>>

-----------------------------------------------------------------------------
(* A scan.                                                                 *)

Older(n, limit) == IF n < limit THEN n + 1 ELSE limit

Due == since + 1 >= SmartEvery

\* collectSMART with "-n standby": the drives that are awake, but for one
\* that cannot be read; the sleeping ones are listed.
Collect(failed) ==
  /\ snap' = [s \in Slots |->
       IF s \in asleep \cup failed THEN NoDrive ELSE bay[s]]
  /\ standby' = asleep
  /\ since' = 0
  /\ unread' = [s \in Slots |->
       IF bay[s] = NoDrive \/ s \notin asleep \cup failed THEN 0
       ELSE Older(unread[s], Tired)]

\* carryForwardSubsystems: what the previous snapshot has of the drives.
CarryForward ==
  /\ snap' = latest.smart
  /\ standby' = latest.standby
  /\ since' = since + 1
  /\ unread' = [s \in Slots |-> IF bay[s] = NoDrive THEN 0
                                ELSE Older(unread[s], Tired)]

\* A scan begins; rows grow older, and the retention drops those too old.
StartScan(failed) ==
  /\ scan = Idle
  /\ row' = [s \in Slots |-> Older(row[s], NoRow)]
  /\ IF Due THEN Collect(failed) /\ scan' = "wake"
            ELSE CarryForward /\ scan' = "detect"
  /\ IF Due /\ failed # {} THEN Fault ELSE failed = {} /\ UNCHANGED faults
  /\ todo' = Slots
  /\ UNCHANGED <<envVars, latest, states, events, notes>>

\* StaleSMARTChecker.Check: sleeping devices whose newest row is too old; a
\* device without a row is new and left alone, and all are with MaxAge 0.
Stale == {s \in standby : MaxAge > 0 /\ row[s] # NoRow /\ row[s] > MaxAge}

\* StaleSMARTChecker.Apply with CollectSMARTForced: the stale drives are read
\* however they sleep, each of them or not; those read are awake.
Wake(failed) ==
  LET woken == {s \in Stale \ failed : bay[s] # NoDrive}
  IN /\ scan = "wake"
     /\ snap' = [s \in Slots |-> IF s \in woken THEN bay[s] ELSE snap[s]]
     /\ standby' = standby \ woken
     /\ asleep' = asleep \ woken
     /\ unread' = [s \in Slots |-> IF s \in woken THEN 0 ELSE unread[s]]
     /\ failed \subseteq Stale
     /\ IF failed # {} THEN Fault ELSE UNCHANGED faults
     /\ scan' = "detect"
     /\ UNCHANGED <<bay, swaps, since, latest, todo, storeVars, notes>>

Replacement(s) ==
  [auto |-> TRUE, old |-> states[s], new |-> snap[s]]

\* detectDriveReplacements skips a slot whose drive was not seen; the first
\* drive of a slot and an unchanged one only refresh the slot's state.
Observe(s) ==
  /\ scan = "detect" /\ s \in todo
  /\ snap[s] \in {NoDrive, states[s]} \/ states[s] = NoDrive
  /\ todo' = todo \ {s}
  /\ states' = [states EXCEPT ![s] = IF snap[s] = NoDrive THEN @ ELSE snap[s]]
  /\ UNCHANGED <<scan, since, snap, standby, latest, events, row, envVars,
                 unread, notes, faults>>

\* Another serial number: the event is inserted first ...
SaveEvent(s) ==
  /\ scan = "detect" /\ s \in todo
  /\ snap[s] # NoDrive /\ states[s] \notin {NoDrive, snap[s]}
  /\ events' = [events EXCEPT ![s] = Append(@, Replacement(s))]
  /\ scan' = s
  /\ UNCHANGED <<since, snap, standby, latest, todo, states, row, envVars,
                 unread, notes, faults>>

\* ... and then the state of the slot.
SaveState(s) ==
  /\ scan = s
  /\ states' = [states EXCEPT ![s] = snap[s]]
  /\ todo' = todo \ {s}
  /\ scan' = "detect"
  /\ UNCHANGED <<since, snap, standby, latest, events, row, envVars,
                 unread, notes, faults>>

\* A store call fails: the slots that are left wait for the next scan.
DetectFails ==
  /\ scan \in {"detect"} \cup Slots /\ todo # {}
  /\ Fault
  /\ todo' = {}
  /\ scan' = "detect"
  /\ UNCHANGED <<since, snap, standby, latest, storeVars, envVars, unread,
                 notes>>

\* Mutant: a row for every drive, those asleep too.
EndScanRowForAll(stored) ==
  /\ scan = "detect" /\ todo = {}
  /\ row' = [s \in Slots |-> IF stored THEN 0 ELSE row[s]]
  /\ IF stored THEN UNCHANGED faults ELSE Fault
  /\ latest' = [smart |-> snap, standby |-> standby]
  /\ scan' = Idle
  /\ UNCHANGED <<since, snap, standby, todo, states, events, envVars,
                 unread, notes>>

\* SaveSnapshot writes a smart_history row for every drive of the snapshot,
\* those carried forward too, or nothing at all; the snapshot is cached.
EndScan(stored) ==
  /\ scan = "detect" /\ todo = {}
  /\ row' = [s \in Slots |-> IF stored /\ snap[s] # NoDrive THEN 0
                                                            ELSE row[s]]
  /\ IF stored THEN UNCHANGED faults ELSE Fault
  /\ latest' = [smart |-> snap, standby |-> standby]
  /\ scan' = Idle
  /\ UNCHANGED <<since, snap, standby, todo, states, events, envVars,
                 unread, notes>>

\* The process dies and comes back: every subsystem is due again.
Crash ==
  /\ Fault
  /\ scan' = Idle /\ since' = SmartEvery
  /\ latest' = [smart |-> Nothing, standby |-> {}]
  /\ snap' = Nothing /\ standby' = {} /\ todo' = {}
  /\ UNCHANGED <<storeVars, envVars, unread, notes>>

-----------------------------------------------------------------------------
(* The users' notes.                                                       *)

\* handleCreateDriveEvent.
AddNote(s) ==
  /\ notes < MaxNotes
  /\ notes' = notes + 1
  /\ events' = [events EXCEPT ![s] = Append(@,
       [auto |-> FALSE, old |-> NoDrive, new |-> NoDrive])]
  /\ UNCHANGED <<scanVars, states, row, envVars, unread, faults>>

\* Mutant: any event can be deleted.
ErasableAny(s) == DOMAIN events[s]

\* UpdateDriveEvent and DeleteDriveEvent refuse the scans' own events and
\* those of another slot.
Erasable(s) == {i \in DOMAIN events[s] : ~events[s][i].auto}

\* handleDeleteDriveEvent; an edit changes the text only.
DeleteNote(s, i) ==
  /\ i \in Erasable(s)
  /\ events' = [events EXCEPT ![s] = RemoveAt(@, i)]
  /\ UNCHANGED <<scanVars, states, row, envVars, unread, notes, faults>>

Next ==
  \/ \E s \in Slots :
       \/ \E d \in Drives \cup {NoDrive} : Swap(s, d)
       \/ SpinDown(s)
       \/ SpinUp(s)
       \/ Observe(s)
       \/ SaveEvent(s)
       \/ SaveState(s)
       \/ AddNote(s)
       \/ \E i \in DOMAIN events[s] : DeleteNote(s, i)
  \/ \E failed \in SUBSET Slots :
       \/ StartScan(failed)
       \/ Wake(failed)
  \/ DetectFails
  \/ \E stored \in BOOLEAN : EndScan(stored)
  \/ Crash

Spec == Init /\ [][Next]_vars

-----------------------------------------------------------------------------
(* Properties.                                                             *)

Told(s) == {i \in DOMAIN events[s] : events[s][i].auto}
IsNextTold(s, i, j) == i < j /\ \A k \in Told(s) : k <= i \/ j <= k
IsLastTold(s, i) == \A k \in Told(s) : k <= i

\* The drives the slot may have after its event i.
After(s, i) ==
  {events[s][i].new} \cup IF faults > 0 THEN {events[s][i].old} ELSE {}

\* Whatever fails between the two writes, and whatever users add and delete,
\* the automatic events of a slot tell its whole story: each begins with the
\* drive the one before it ended with, and the last ends with the drive the
\* slot's state names.  After a failure the last event is told again (from
\* the same drive); it is never lost.
StoryIsWhole ==
  \A s \in Slots : \A i \in Told(s) :
    /\ \A j \in Told(s) :
         IsNextTold(s, i, j) => events[s][j].old \in After(s, i)
    /\ IsLastTold(s, i) => \/ states[s] \in After(s, i)
                           \/ scan = s /\ states[s] = events[s][i].old

\* A drive that is asleep whenever SMART is collected is read all the same,
\* at most two collections after its age was reached: the snapshots in
\* between carry its data forward and date the copy as new.  With MaxAge 0 it
\* may sleep for ever.
WokenInTime ==
  \A s \in Slots :
    (MaxAge > 0 /\ faults = 0 /\ row[s] # NoRow) => unread[s] < Tired

\* The drives are followed: both of the above.
DriveIsFollowed == StoryIsWhole /\ WokenInTime

\* A drive that stays in its slot is in the end the one the slot's state
\* names, though it sleeps, if its device has ever been read and drives are
\* woken at all.
SwapIsNoticed ==
  \A s \in Slots, d \in Drives :
    <>[](MaxAge > 0 /\ bay[s] = d /\ row[s] # NoRow) => <>[](states[s] = d)
=============================================================================
