--------------------------- MODULE SnapshotCache ----------------------------
(***************************************************************************)
(* The cached snapshot s.latest, changed in place by whoever holds it: a   *)
(* scan replaces it, the container loop writes fresh Docker data into it,  *)
(* the speed-test handler its result, and every request for the latest     *)
(* snapshot filters the hidden containers out of the very object           *)
(* (api/api.go) and fills in a missing speed test, without a lock.         *)
(***************************************************************************)
EXTENDS Naturals, FiniteSets

CONSTANTS
  Containers,
  MaxChanges, MaxTests    \* bounds

VARIABLES
  world,       \* the containers that run
  hidden,      \* settings.DockerHiddenContainers
  changes,
  latest,      \* s.latest: [docker, count, test]
  scan,        \* a scan: [stage, snap]
  loop,        \* the container loop: [stage, docker]
  request,     \* a request: [stage, shared, snap, found, kept]
  rows,        \* speedtest_history: tests 1 .. rows; the newest is rows
  mirrored     \* tests the handler has put into the cache

vars == <<world, hidden, changes, latest, scan, loop, request, rows,
          mirrored>>

NoTest == 0
Empty == [docker |-> {}, count |-> 0, test |-> NoTest]

Idle == [stage |-> "idle", shared |-> FALSE, snap |-> Empty,
         found |-> NoTest, kept |-> Empty]

Init ==
  /\ world = Containers /\ hidden = {} /\ changes = 0
  /\ latest = Empty
  /\ scan = [stage |-> "idle", snap |-> Empty]
  /\ loop = [stage |-> "idle", docker |-> {}]
  /\ request = Idle
  /\ rows = 0 /\ mirrored = 0

-----------------------------------------------------------------------------
(* The host, the settings and the tests.                                   *)

\* Containers start and stop.
Change(w) ==
  /\ changes < MaxChanges /\ w # world
  /\ world' = w /\ changes' = changes + 1
  /\ UNCHANGED <<hidden, latest, scan, loop, request, rows, mirrored>>

\* A settings save hides some and shows others.
Hide(h) ==
  /\ changes < MaxChanges /\ h # hidden
  /\ hidden' = h /\ changes' = changes + 1
  /\ UNCHANGED <<world, latest, scan, loop, request, rows, mirrored>>

\* A test has ended: its row is stored ...
SaveTest ==
  /\ rows < MaxTests /\ mirrored = rows
  /\ rows' = rows + 1
  /\ UNCHANGED <<world, hidden, changes, latest, scan, loop, request,
                 mirrored>>

\* The object the request holds changes with the cache while it is the same.
Shared(snap) ==
  request' = IF request.shared THEN [request EXCEPT !.snap = snap]
                               ELSE request

\* ... and recordSpeedTestSuccess puts it on the snapshot cached by then.
MirrorTest ==
  /\ mirrored < rows
  /\ mirrored' = rows
  /\ latest' = [latest EXCEPT !.test = rows]
  /\ Shared(latest')
  /\ UNCHANGED <<world, hidden, changes, scan, loop, rows>>

-----------------------------------------------------------------------------
(* A scan.                                                                 *)

Collected(docker) == [docker |-> docker, count |-> 0, test |-> NoTest]
Carried == [latest EXCEPT !.test = NoTest]

\* RunOnce reads Docker, or takes over what the cache has of it; no collector
\* fills in a speed test.
ScanDocker(due) ==
  /\ scan.stage = "idle"
  /\ scan' = [stage |-> "running",
              snap |-> IF due THEN Collected(world) ELSE Carried]
  /\ UNCHANGED <<world, hidden, changes, latest, loop, request, rows,
                 mirrored>>

\* Mutant: the scan keeps the speed test it finds in the cache.
ScanHydratesCached ==
  /\ scan.stage = "running"
  /\ scan' = [stage |-> "done",
              snap |-> [scan.snap EXCEPT !.test =
                          IF latest.test = NoTest THEN rows ELSE latest.test]]
  /\ UNCHANGED <<world, hidden, changes, latest, loop, request, rows,
                 mirrored>>

\* hydrateSpeedTestFromHistory: the newest row, if there is one.
ScanHydrates ==
  /\ scan.stage = "running"
  /\ scan' = [stage |-> "done", snap |-> [scan.snap EXCEPT !.test = rows]]
  /\ UNCHANGED <<world, hidden, changes, latest, loop, request, rows,
                 mirrored>>

\* The snapshot is cached; a request goes on with the one it has.
Publish ==
  /\ scan.stage = "done"
  /\ latest' = scan.snap
  /\ scan' = [stage |-> "idle", snap |-> Empty]
  /\ request' = [request EXCEPT !.shared = FALSE]
  /\ UNCHANGED <<world, hidden, changes, loop, rows, mirrored>>

-----------------------------------------------------------------------------
(* The container loop (collectContainerStats).                             *)

LoopCollects ==
  /\ loop.stage = "idle"
  /\ loop' = [stage |-> "collected", docker |-> world]
  /\ UNCHANGED <<world, hidden, changes, latest, scan, request, rows,
                 mirrored>>

\* The collector returns an error or finds no Docker, or the save is refused.
LoopGivesUp ==
  /\ loop.stage = "collected"
  /\ loop' = [stage |-> "idle", docker |-> {}]
  /\ UNCHANGED <<world, hidden, changes, latest, scan, request, rows,
                 mirrored>>

\* Saved, and written over whatever Docker data the cache has by then.
LoopWrites ==
  /\ loop.stage = "collected"
  /\ latest' = [latest EXCEPT !.docker = loop.docker, !.count = 0]
  /\ Shared(latest')
  /\ loop' = [stage |-> "idle", docker |-> {}]
  /\ UNCHANGED <<world, hidden, changes, scan, rows, mirrored>>

-----------------------------------------------------------------------------
(* A request for the latest snapshot (handleLatestSnapshot).               *)

\* What the request writes into its snapshot, it may write into the cache.
Write(snap, stage) ==
  /\ request' = [request EXCEPT !.snap = snap, !.stage = stage]
  /\ latest' = IF request.shared THEN snap ELSE latest

\* Latest returns the cached object; a missing test is looked up ...
Begin ==
  /\ request.stage = "idle"
  /\ request' = [stage |-> "found", shared |-> TRUE, snap |-> latest,
                 found |-> IF latest.test = NoTest THEN rows ELSE NoTest,
                 kept |-> Empty]
  /\ UNCHANGED <<world, hidden, changes, latest, scan, loop, rows,
                 mirrored>>

\* ... and written, whatever is there by now.
Hydrate ==
  /\ request.stage = "found"
  /\ Write(IF request.found = NoTest THEN request.snap
           ELSE [request.snap EXCEPT !.test = request.found], "filter")
  /\ UNCHANGED <<world, hidden, changes, scan, loop, rows, mirrored>>

\* applyDockerHiddenContainers changes nothing when nothing is hidden; else it
\* picks from the containers it finds those it keeps ...
Filter ==
  /\ request.stage = "filter"
  /\ request' =
       IF hidden = {} THEN [request EXCEPT !.stage = "encode"]
       ELSE [request EXCEPT !.stage = "keep",
               !.kept = [request.snap EXCEPT !.docker = @ \ hidden,
                  !.count = Cardinality(request.snap.docker \cap hidden)]]
  /\ UNCHANGED <<world, hidden, changes, latest, scan, loop, rows, mirrored>>

\* ... and writes them over what is there by now.
Keep ==
  /\ request.stage = "keep"
  /\ Write([request.snap EXCEPT !.docker = request.kept.docker,
                                !.count = request.kept.count], "encode")
  /\ UNCHANGED <<world, hidden, changes, scan, loop, rows, mirrored>>

\* The answer is what the object holds when it is encoded.
Answer ==
  /\ request.stage = "encode"
  /\ request' = Idle
  /\ UNCHANGED <<world, hidden, changes, latest, scan, loop, rows, mirrored>>

ScanStep ==
  \/ \E due \in BOOLEAN : ScanDocker(due)
  \/ ScanHydrates
  \/ Publish
LoopStep == LoopCollects \/ LoopWrites \/ LoopGivesUp
RequestStep == Hydrate \/ Filter \/ Keep \/ Answer

Next ==
  \/ \E w \in SUBSET Containers : Change(w)
  \/ \E h \in SUBSET Containers : Hide(h)
  \/ SaveTest
  \/ MirrorTest
  \/ ScanStep
  \/ LoopStep
  \/ Begin
  \/ RequestStep

Spec == Init /\ [][Next]_vars

-----------------------------------------------------------------------------
(* Properties.                                                             *)

\* Once containers and settings stay as they are, nothing that has stopped is
\* left in the cache and nothing that is shown is missing from it, although
\* the loop overwrites what newer scans found, scans carry on what a request
\* has filtered, and requests filter what the loop has just written.
DockerSettles ==
  \A w, h \in SUBSET Containers :
    <>[](world = w /\ hidden = h)
      => <>[](w \ h \subseteq latest.docker /\ latest.docker \subseteq w)

\* When no more tests run the cache ends up with the newest, although a scan
\* may publish the one before and a request may write one it looked up long
\* ago over it.
TestSettles ==
  \A n \in 0 .. MaxTests : <>[](rows = n) => <>[](latest.test = n)

=============================================================================
