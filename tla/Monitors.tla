------------------------------ MODULE Monitors ------------------------------
(***************************************************************************)
(* What runs beside the scans and tells somebody of it: the test button's  *)
(* stream and the fleet poller, and what each of them promises.  They      *)
(* share no state.                                                         *)
(***************************************************************************)
CONSTANTS Cycles, Buffer
VARIABLES kind, client, producer, updates, final, handler, wrote, parsed

Test == INSTANCE CheckTestStream

CONSTANTS Ids, Ticker, Requests, Lists
VARIABLES servers, statuses, polls

Fleet == INSTANCE FleetMonitor

-----------------------------------------------------------------------------
\* CheckTestStream: a client that stays has been sent every update, in order,
\* before the result, although select may find the final value first.
ResultComesLast == Test!ResultComesLast

\* FleetMonitor: a status that is kept is that of a server in the list, unless
\* a poll that copied an older list was still waiting for it.
NoStatusOutlivesItsServer == Fleet!NoStatusOutlivesItsServer
=============================================================================
