---------------------------- MODULE FleetMonitor ----------------------------
(***************************************************************************)
(* The fleet: other instances whose status this one polls                  *)
(* (internal/fleet/fleet.go: Manager).  Every poll copies the list of      *)
(* servers and asks all of them at once; a settings request replaces the   *)
(* list and starts a poll of its own, while older ones are under way.      *)
(***************************************************************************)
EXTENDS Naturals

CONSTANTS
  Ids,
  Ticker,        \* the polling loop
  Requests,      \* settings requests, each with the poll it starts
  Lists          \* server lists: functions from Ids to Servers

None == [url |-> "none", enabled |-> FALSE]
Pollers == {Ticker} \cup Requests

VARIABLES
  servers,       \* m.servers; None: not in the list
  statuses,      \* m.statuses: the URL asked and whether it answered
  polls          \* each PollAll: before its copy, or whom it still waits for

vars == <<servers, statuses, polls>>

NotPolled == [url |-> "none", online |-> FALSE]
Resting == [at |-> "resting", asked |-> [i \in Ids |-> None]]
Calling == [Resting EXCEPT !.at = "calling"]
Nobody == [i \in Ids |-> None]

Init ==
  /\ servers \in Lists
  /\ statuses = [i \in Ids |-> NotPolled]
  /\ polls = [p \in Pollers |-> IF p = Ticker THEN Calling ELSE Resting]

\* Mutant: the statuses of removed servers stay.
SetServersOnly(list) ==
  /\ servers' = list
  /\ UNCHANGED statuses

\* SetServers: the list, and no status of a server that has left it.
SetServers(list) ==
  /\ servers' = list
  /\ statuses' = [i \in Ids |-> IF list[i] = None THEN NotPolled
                                                  ELSE statuses[i]]

\* handleFleetUpdateServers.
Update(r, list) ==
  /\ polls[r] = Resting
  /\ list # servers
  /\ SetServers(list)
  /\ polls' = [polls EXCEPT ![r] = Calling]

\* The ticker fires: the next poll begins when the last one has returned.
Ticks ==
  /\ polls[Ticker] = Resting
  /\ polls' = [polls EXCEPT ![Ticker] = Calling]
  /\ UNCHANGED <<servers, statuses>>

\* PollAll copies the list and starts a goroutine for each enabled server.
Copy(p) ==
  /\ polls[p] = Calling
  /\ polls' = [polls EXCEPT ![p] =
       [at |-> "waiting",
        asked |-> [i \in Ids |-> IF servers[i].enabled THEN servers[i]
                                                       ELSE None]]]
  /\ UNCHANGED <<servers, statuses>>

\* One of them has its answer, or an error, and writes the status.
Answer(p, i, online) ==
  /\ polls[p].asked[i] # None
  /\ statuses' = [statuses EXCEPT ![i] =
       [url |-> polls[p].asked[i].url, online |-> online]]
  /\ polls' = [polls EXCEPT ![p].asked[i] = None]
  /\ UNCHANGED servers

Return(p) ==
  /\ polls[p].at = "waiting"
  /\ polls[p].asked = Nobody
  /\ polls' = [polls EXCEPT ![p] = Resting]
  /\ UNCHANGED <<servers, statuses>>

Next ==
  \/ \E r \in Requests, list \in Lists : Update(r, list)
  \/ Ticks
  \/ \E p \in Pollers :
       \/ Copy(p)
       \/ \E i \in Ids, online \in BOOLEAN : Answer(p, i, online)
       \/ Return(p)

Spec == Init /\ [][Next]_vars

\* What GetStatuses shows of a server: the status kept under its id, if any.
Shown(i) == IF servers[i] = None THEN NotPolled ELSE statuses[i]

-----------------------------------------------------------------------------
(* Properties.                                                             *)

\* A status that is kept is that of a server in the list, unless a poll that
\* copied an older list was still waiting for it: the map does not grow with
\* every server ever configured, and an id that comes back starts afresh.
NoStatusOutlivesItsServer ==
  [][\A i \in Ids :
       (servers'[i] = None /\ statuses'[i] # NotPolled)
         => \/ statuses'[i] = statuses[i] /\ servers[i] = None
            \/ \E p \in Pollers : polls[p].asked[i] # None]_vars

\* Whatever order the answers of overlapping polls come in, once the list
\* stays the status shown of an enabled server is in the end that of the URL
\* it has, not of one it had.
FleetSettles ==
  \A list \in Lists :
    <>[](servers = list)
      => \A i \in Ids : list[i].enabled =>
           <>[](Shown(i).url = list[i].url)
=============================================================================
