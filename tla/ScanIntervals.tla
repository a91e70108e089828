--------------------------- MODULE ScanIntervals ----------------------------
(***************************************************************************)
(* How a settings save changes the scan cadence (internal/api:             *)
(* handleUpdateSettings, ApplyRuntimeSettings; internal/scheduler:         *)
(* SetDispatcherIntervals, UpdateInterval, the main loop of Start, and     *)
(* ScanDispatcher).                                                        *)
(*                                                                         *)
(* Any number of HTTP requests save at the same time and tell the main     *)
(* loop through the restart channel, which holds one value and on which a  *)
(* sender never waits.  The loop receives only between scans.  Durations   *)
(* are natural numbers, 0 a parsed duration that is not positive.          *)
(***************************************************************************)
EXTENDS Naturals, FiniteSets, FiniteSetsExt

CONSTANTS
  Savers,          \* requests that may save at the same time
  Subsystems,      \* configurableSubsystems
  Intervals,       \* cadences a user may pick
  MinInterval,     \* UpdateInterval's lower clamp
  DefaultInterval, \* what the dispatcher takes for a global of 0
  MaxSaves         \* bound: saves in a behaviour

ASSUME IntervalsAssumption ==
  /\ Intervals \subseteq Nat
  /\ MinInterval \in Intervals /\ DefaultInterval \in Intervals
  /\ \A i \in Intervals : i >= MinInterval
  /\ 0 \notin Intervals
  /\ Subsystems # {} /\ IsFiniteSet(Subsystems)
  /\ MaxSaves \in Nat

\* A settings blob: the scan interval and the per-subsystem overrides, where
\* 0 means "use global".
Blobs == [scan : Intervals \cup {0}, raw : [Subsystems -> Intervals \cup {0}]]

VARIABLES
  stored,       \* the blob in the config table
  interval,     \* s.interval
  global, raw,  \* the dispatcher's global and rawCfg
  restart,      \* the restart channel; 0 when it is empty
  loop,         \* the main loop: where it is and the value it received
  ticker,       \* the period of its ticker
  saver,        \* each request: where it is, its blob, the period it read
  alone,        \* no other save was under way when the last one was stored
  saves         \* how many saves were made

dispatcher == <<global, raw>>
history == <<alone, saves>>
vars == <<stored, interval, dispatcher, restart, loop, ticker, saver, history>>

\* The interval applyIntervalsLocked resolves for subsystem n.
Effective(n) == IF raw[n] = 0 THEN global ELSE raw[n]

FastestInterval == Min({global} \cup {Effective(n) : n \in Subsystems})

\* UpdateIntervals' default for a global that is not positive.
Global(d) == IF d = 0 THEN DefaultInterval ELSE d

IdleSaver ==
  [at |-> "idle", value |-> 0,
   blob |-> [scan |-> 0, raw |-> [n \in Subsystems |-> 0]]]

\* The boot path applies a stored blob through the same code before Start,
\* which leaves its FastestInterval in the channel, unread; on a first boot
\* there is none to apply.  The flag's interval stands in for a stored one
\* that does not parse, but not for one of 0.
Init ==
  /\ stored \in Blobs
  /\ interval \in Intervals \cup {0}
  /\ stored.scan # 0 => interval = stored.scan
  /\ global = Global(interval)
  /\ raw = stored.raw
  /\ restart \in {0, FastestInterval}
  /\ loop = [at |-> "scanning", value |-> 0]
  /\ ticker = FastestInterval
  /\ saver = [p \in Savers |-> IdleSaver]
  /\ alone = TRUE
  /\ saves = 0

\* UpdateInterval's send: dropped when a value is waiting.
Send(d) ==
  restart' = IF restart = 0 THEN (IF d < MinInterval THEN MinInterval ELSE d)
                            ELSE restart

-----------------------------------------------------------------------------
(* One settings save, in handler order.                                    *)

Step(p, from, to) ==
  /\ saver[p].at = from
  /\ saver' = [saver EXCEPT ![p].at = to]

\* SetConfig
Persist(p, b) ==
  /\ saves < MaxSaves
  /\ saves' = saves + 1
  /\ saver[p].at = "idle"
  /\ saver' = [saver EXCEPT
                  ![p] = [at |-> "persisted", blob |-> b, value |-> 0]]
  /\ stored' = b
  /\ alone' = \A q \in Savers : saver[q].at = "idle"
  /\ UNCHANGED <<interval, dispatcher, restart, loop, ticker>>

\* s.scheduler.UpdateInterval(d)
SendGlobal(p) ==
  /\ Step(p, "persisted", "sent")
  /\ Send(saver[p].blob.scan)
  /\ UNCHANGED <<stored, interval, dispatcher, loop, ticker, history>>

\* SetDispatcherIntervals takes s.mu, which the loop may hold: a positive
\* global replaces s.interval, otherwise s.interval is used.
SetInterval(p) ==
  /\ loop.at # "pushing"
  /\ saver[p].at = "sent"
  /\ LET g == IF saver[p].blob.scan > 0 THEN saver[p].blob.scan ELSE interval
     IN  /\ interval' = g
         /\ saver' = [saver EXCEPT
                         ![p] = [at |-> "set", blob |-> @.blob,
                                 value |-> g]]
  /\ UNCHANGED <<stored, dispatcher, restart, loop, ticker, history>>

UpdateIntervals(p) ==
  /\ Step(p, "set", "updated")
  /\ global' = Global(saver[p].value)
  /\ raw' = saver[p].blob.raw
  /\ UNCHANGED <<stored, interval, restart, loop, ticker, history>>

\* The argument of UpdateInterval(s.dispatcher.FastestInterval()).
ReadFastest(p) ==
  /\ saver[p].at = "updated"
  /\ saver' = [saver EXCEPT
                  ![p] = [at |-> "read", blob |-> @.blob,
                          value |-> FastestInterval]]
  /\ UNCHANGED <<stored, interval, dispatcher, restart, loop, ticker, history>>

SendFastest(p) ==
  /\ saver[p].at = "read"
  /\ saver' = [saver EXCEPT ![p] = IdleSaver]
  /\ Send(saver[p].value)
  /\ UNCHANGED <<stored, interval, dispatcher, loop, ticker, history>>

SaverStep(p) ==
  \/ SendGlobal(p) \/ SetInterval(p) \/ UpdateIntervals(p)
  \/ ReadFastest(p) \/ SendFastest(p)

-----------------------------------------------------------------------------
(* The main loop.                                                          *)

LoopStep(from, to) ==
  /\ loop.at = from
  /\ loop' = [loop EXCEPT !.at = to]

Tick ==
  /\ LoopStep("waiting", "scanning")
  /\ UNCHANGED <<stored, interval, dispatcher, restart, ticker, saver,
                 history>>

\* RunOnce returns, or panics and is recovered.
ScanEnds ==
  /\ LoopStep("scanning", "waiting")
  /\ UNCHANGED <<stored, interval, dispatcher, restart, ticker, saver,
                 history>>

\* case newInterval := <-s.restart
Receive ==
  /\ loop.at = "waiting"
  /\ restart # 0
  /\ loop' = [at |-> "received", value |-> restart]
  /\ restart' = 0
  /\ UNCHANGED <<stored, interval, dispatcher, ticker, saver, history>>

\* Mutant: a value equal to the fastest interval is taken for no change.
CompareSkips ==
  /\ LoopStep("received",
              IF loop.value = FastestInterval THEN "waiting" ELSE "pushing")
  /\ UNCHANGED <<stored, interval, dispatcher, restart, ticker, saver,
                 history>>

\* Takes s.mu.  A value that is not the fastest interval is taken for a new
\* global; s.mu is kept until it is pushed.
Compare ==
  /\ LoopStep("received",
              IF loop.value = FastestInterval THEN "rebuilding" ELSE "pushing")
  /\ UNCHANGED <<stored, interval, dispatcher, restart, ticker, saver,
                 history>>

\* Mutant: SetGlobal forgets the overrides.
PushForgetsRaw ==
  /\ LoopStep("pushing", "rebuilding")
  /\ interval' = loop.value
  /\ global' = loop.value
  /\ raw' = [n \in Subsystems |-> 0]
  /\ UNCHANGED <<stored, restart, ticker, saver, history>>

\* s.interval and SetGlobal, which keeps rawCfg.
PushGlobal ==
  /\ LoopStep("pushing", "rebuilding")
  /\ interval' = loop.value
  /\ global' = loop.value
  /\ UNCHANGED <<stored, raw, restart, ticker, saver, history>>

\* Mutant: a new ticker with the value that was received.
RebuildFromValue ==
  /\ loop.at = "rebuilding"
  /\ loop' = [at |-> "waiting", value |-> 0]
  /\ ticker' = loop.value
  /\ UNCHANGED <<stored, interval, dispatcher, restart, saver, history>>

\* A new ticker with the fastest interval of now.
Rebuild ==
  /\ loop.at = "rebuilding"
  /\ loop' = [at |-> "waiting", value |-> 0]
  /\ ticker' = FastestInterval
  /\ UNCHANGED <<stored, interval, dispatcher, restart, saver, history>>

Loop == Tick \/ ScanEnds \/ Receive \/ Compare \/ PushGlobal \/ Rebuild

-----------------------------------------------------------------------------
Next ==
  \/ Loop
  \/ \E p \in Savers : SaverStep(p) \/ \E b \in Blobs : Persist(p, b)

Spec == Init /\ [][Next]_vars

\* Requests run to their end; scans end, and between two scans the select
\* picks among its ready cases at random, so a waiting value is not passed
\* over for ever.
FairSpec ==
  /\ Spec
  /\ \A p \in Savers : WF_vars(SaverStep(p))
  /\ WF_vars(ScanEnds) /\ SF_vars(Receive)
  /\ WF_vars(Compare) /\ WF_vars(PushGlobal) /\ WF_vars(Rebuild)

-----------------------------------------------------------------------------
(* Properties.                                                             *)

TypeOK ==
  /\ stored \in Blobs
  /\ interval \in Intervals \cup {0}
  /\ global \in Intervals
  /\ raw \in [Subsystems -> Intervals \cup {0}]
  /\ restart \in Intervals \cup {0}
  /\ loop \in [at : {"waiting", "scanning", "received", "pushing",
                     "rebuilding"}, value : Intervals \cup {0}]
  /\ ticker \in Intervals
  /\ saver \in [Savers -> [at : {"idle", "persisted", "sent", "set",
                                 "updated", "read"},
                           blob : Blobs, value : Intervals \cup {0}]]
  /\ alone \in BOOLEAN
  /\ saves \in Nat

\* A loop that will not be told again ticks at the dispatcher's pace: no
\* dropped send, however many saves race, leaves it on an old ticker while
\* the channel is empty and nobody is about to send.
TickerIsFastest ==
  ( /\ restart = 0
    /\ loop.at \in {"waiting", "scanning"}
    /\ \A p \in Savers : saver[p].at \notin {"updated", "read"} )
  => ticker = FastestInterval

\* After a save that overlapped no other, the overrides in force are the
\* stored ones, whatever the loop did to the global in between and whatever
\* earlier saves raced.
OverridesStick ==
  (alone /\ \A p \in Savers : saver[p].at = "idle") => raw = stored.raw

\* When saving stops the ticker settles on the fastest interval in force.
TickerSettles ==
  (<>[](\A p \in Savers : saver[p].at = "idle")) =>
    <>[](restart = 0 /\ ticker = FastestInterval)
=============================================================================
