----------------------------- MODULE MCMonitors -----------------------------
(***************************************************************************)
(* What runs beside the scans: the fleet poller, the cached snapshot and   *)
(* its readers, and the test button's stream.  They share no state;        *)
(* "focus" names the one that moves while the others stay where they       *)
(* begin.  The cache is looked at twice, for its containers and for its    *)
(* speed test: nothing reads one to write the other.                       *)
(***************************************************************************)
EXTENDS Monitors, Naturals

CONSTANTS nas, app

VARIABLES
  focus,
  world, hidden, changes, latest, running, loop, request, rows, mirrored

fleetVars == <<servers, statuses, polls>>
cacheVars == <<world, hidden, changes, latest, running, loop, request, rows,
               mirrored>>
streamVars == <<kind, client, producer, updates, final, handler, wrote,
                parsed>>
vars == <<focus, fleetVars, cacheVars, streamVars>>

MCLists ==
  {[i \in {nas} |-> s] : s \in
     {[url |-> "old", enabled |-> TRUE],
      [url |-> "new", enabled |-> TRUE],
      [url |-> "new", enabled |-> FALSE],
      [url |-> "none", enabled |-> FALSE]}}

Docker == INSTANCE SnapshotCache WITH
  Containers <- {app}, MaxChanges <- 2, MaxTests <- 0, scan <- running
Speed == INSTANCE SnapshotCache WITH
  Containers <- {app}, MaxChanges <- 0, MaxTests <- 2, scan <- running

Init ==
  /\ Fleet!Init /\ Docker!Init /\ Test!Init
  /\ focus \in {"fleet", "containers", "tests", "stream"}
  /\ focus = "fleet" \/ servers[nas] = Fleet!None
  /\ focus = "stream" \/ kind = "speed"

Polling(A) ==
  focus = "fleet" /\ A /\ UNCHANGED <<focus, cacheVars, streamVars>>
Showing(A) ==
  focus = "containers" /\ A /\ UNCHANGED <<focus, fleetVars, streamVars>>
Testing(A) ==
  focus = "tests" /\ A /\ UNCHANGED <<focus, fleetVars, streamVars>>
Streaming(A) ==
  focus = "stream" /\ A /\ UNCHANGED <<focus, fleetVars, cacheVars>>

Next ==
  \/ Polling(Fleet!Next)
  \/ Showing(Docker!Next)
  \/ Testing(Speed!Next)
  \/ Streaming(Test!Next)

\* The ticker ticks, and a poll that has begun ends: the client's timeout
\* bounds every request.  Scans and the container loop go round, and Docker
\* is due in one scan after another (NeverLongOverdue in ScanCadence); a
\* request and a handler that have begun go on.  mtr and the engine end.
Spec ==
  /\ Init
  /\ [][Next]_vars
  /\ WF_vars(Polling(Fleet!Ticks))
  /\ \A p \in Fleet!Pollers :
       /\ WF_vars(Polling(Fleet!Copy(p)))
       /\ WF_vars(Polling(Fleet!Return(p)))
       /\ WF_vars(Polling(\E online \in BOOLEAN :
                             Fleet!Answer(p, nas, online)))
  /\ SF_vars(Showing(Docker!ScanDocker(TRUE)))
  /\ WF_vars(Showing(Docker!ScanStep))
  /\ WF_vars(Showing(Docker!LoopStep))
  /\ WF_vars(Showing(Docker!RequestStep))
  /\ WF_vars(Testing(Speed!MirrorTest))
  /\ WF_vars(Testing(Speed!ScanStep))
  /\ WF_vars(Testing(Speed!LoopStep))
  /\ WF_vars(Testing(Speed!RequestStep))
  /\ WF_vars(Streaming(Test!ProducerStep))
  /\ WF_vars(Streaming(Test!HandlerStep))

-----------------------------------------------------------------------------
\* What runs beside the scans catches up: every server that stays in the list
\* is polled, the cache shows the containers Docker has and the user's choice
\* of them, and the newest speed test, and a stream and what produces it end,
\* whether the browser stays or leaves.
EverythingSettles ==
  /\ focus = "fleet" => Fleet!FleetSettles
  /\ focus = "containers" => Docker!DockerSettles
  /\ focus = "tests" => Speed!TestSettles
  /\ focus = "stream" => Test!BothEnd
=============================================================================
