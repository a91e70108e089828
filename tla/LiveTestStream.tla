--------------------------- MODULE LiveTestStream ---------------------------
(***************************************************************************)
(* The samples of one speed test on their way from the engine to the       *)
(* browsers: collector.RunWithLiveSamples (speedtest_sink.go), LiveTest's  *)
(* replay buffer and subscriber channels (livetest.go), the SSE handler    *)
(* that drains one channel per browser (api/speedtest_sse.go), and the     *)
(* completion handler that stores the samples (scheduler.go).              *)
(*                                                                         *)
(*   engine --sink--> live --driver--> samples --emit--> buf[c] --> got[c] *)
(*                                                                         *)
(* Samples are the numbers 1, 2, 3... in the order they are measured.      *)
(***************************************************************************)
EXTENDS Naturals, Sequences

CONSTANTS
  Clients,            \* browsers that may open /speedtest/stream/{id}
  MaxSamples,         \* bound: samples the engine measures
  LiveBuffer,         \* liveSampleBuffer
  SubscribeBuffer     \* SubscribeBufferSize

ASSUME BufferAssumption ==
  /\ MaxSamples \in Nat
  /\ LiveBuffer \in Nat \ {0}
  /\ SubscribeBuffer \in Nat \ {0}

VARIABLES
  measured,      \* how many samples the engine has measured
  overflowed,    \* the sink dropped a sample because live was full
  live,          \* the channel between the engine's goroutines and the driver
  engine,        \* "running", or what Run did: "success", "failed", "panicked"
  driver,        \* where driveTest is
  cancelled,     \* t.cancelled
  terminal,      \* what was stamped: "success", "failed", "cancelled"
  samples,       \* t.samples, the replay buffer
  row,           \* the kind of the test's speedtest_history row, or "none"
  history,       \* its speedtest_samples rows
  refused,       \* the store refused a write
  subscribers,   \* t.subscribers
  chan,          \* each client's channel: capacity, buffer, closed
  got,           \* what each client's handler has read from its channel
  stream         \* each handler: "absent", "open", "over", "gone"

engineVars == <<measured, overflowed, engine>>
stored == <<row, history, refused>>
testVars == <<cancelled, terminal, samples, stored, subscribers>>
clientVars == <<got, stream>>
vars == <<engineVars, live, driver, testVars, chan, clientVars>>

NoChannel == [cap |-> 0, buf |-> << >>, closed |-> FALSE]

Init ==
  /\ measured = 0
  /\ overflowed = FALSE
  /\ live = << >>
  /\ engine = "running"
  /\ driver = "pumping"
  /\ cancelled = FALSE
  /\ terminal = "none"
  /\ samples = << >>
  /\ row = "none"
  /\ history = << >>
  /\ refused = FALSE
  /\ subscribers = {}
  /\ chan = [c \in Clients |-> NoChannel]
  /\ got = [c \in Clients |-> << >>]
  /\ stream = [c \in Clients |-> "absent"]

-----------------------------------------------------------------------------
(* The engine: the sink never blocks it.                                   *)

Measure ==
  /\ engine = "running"
  /\ measured < MaxSamples
  /\ measured' = measured + 1
  /\ IF Len(live) < LiveBuffer
       THEN live' = Append(live, measured') /\ UNCHANGED overflowed
       ELSE overflowed' = TRUE /\ UNCHANGED live
  /\ UNCHANGED <<engine, driver, testVars, chan, clientVars>>

EngineReturns ==
  /\ engine = "running"
  /\ \E o \in {"success", "failed", "panicked"} : engine' = o
  /\ UNCHANGED <<measured, overflowed, live, driver, testVars, chan,
                 clientVars>>

-----------------------------------------------------------------------------
(* LiveTest.emit and the driver loop that calls it.                        *)

\* Subscribers whose channel is full: emit drops them and closes it.
Full == {c \in subscribers : Len(chan[c].buf) = chan[c].cap}

Delivered(s) ==
  [c \in Clients |->
     IF c \in Full THEN [chan[c] EXCEPT !.closed = TRUE]
     ELSE IF c \in subscribers THEN [chan[c] EXCEPT !.buf = Append(@, s)]
     ELSE chan[c]]

\* Mutant: a full subscriber is closed and stays subscribed.
EmitKeepsClosed(s) ==
  /\ samples' = Append(samples, s)
  /\ chan' = Delivered(s)
  /\ UNCHANGED <<cancelled, terminal, stored, subscribers>>

Emit(s) ==
  /\ samples' = Append(samples, s)
  /\ chan' = Delivered(s)
  /\ subscribers' = subscribers \ Full
  /\ UNCHANGED <<cancelled, terminal, stored>>

\* case s := <-live, in the select loop and in the drain loop
PumpLive ==
  /\ driver \in {"pumping", "draining"}
  /\ live # << >>
  /\ Emit(Head(live))
  /\ live' = Tail(live)
  /\ UNCHANGED <<engineVars, driver, clientVars>>

\* case o := <-done.  The select may take it before queued samples; a panic
\* is raised again at once, which leaves them unread.
TakeOutcome ==
  /\ driver = "pumping"
  /\ engine # "running"
  /\ driver' = IF engine = "panicked" THEN "finished" ELSE "draining"
  /\ UNCHANGED <<engineVars, live, testVars, chan, clientVars>>

\* The drain loop finds live empty.
Drained ==
  /\ driver = "draining"
  /\ live = << >>
  /\ driver' = IF engine = "success" THEN "reading" ELSE "finished"
  /\ UNCHANGED <<engineVars, live, testVars, chan, clientVars>>

\* A runner without a sink reports its samples through the channel it
\* returned, after Run (Ookla: none; the demo runner: all of them).
ReadReturned ==
  /\ driver = "reading"
  /\ measured < MaxSamples
  /\ measured' = measured + 1
  /\ Emit(measured')
  /\ UNCHANGED <<overflowed, engine, live, driver, clientVars>>

ReturnedClosed ==
  /\ driver = "reading"
  /\ driver' = "finished"
  /\ UNCHANGED <<engineVars, live, testVars, chan, clientVars>>

\* handleSpeedtestCancel.  A Cancel that comes after wasCancelled has been
\* read changes nothing that anyone reads.
Cancel ==
  /\ driver \in {"pumping", "draining", "reading", "finished"}
  /\ ~cancelled
  /\ cancelled' = TRUE
  /\ UNCHANGED <<engineVars, live, driver, terminal, samples, stored,
                 subscribers, chan, clientVars>>

\* wasCancelled overrides what Run returned, a measurement included; then
\* stampTerminal: t.closed is set, Err() and Result() become readable.
Stamp ==
  /\ driver = "finished"
  /\ driver' = "stamped"
  /\ terminal' = IF cancelled THEN "cancelled"
                 ELSE IF engine = "success" THEN "success" ELSE "failed"
  /\ UNCHANGED <<engineVars, live, cancelled, samples, stored, subscribers,
                 chan, clientVars>>

\* The completion handler: the history row of a success or a cancellation.
\* The store may refuse it, which is logged.
SaveRow ==
  /\ driver = "stamped"
  /\ driver' = "recorded"
  /\ \/ row' = (IF terminal = "failed" THEN row ELSE terminal)
        /\ UNCHANGED refused
     \/ terminal # "failed" /\ refused' = TRUE /\ UNCHANGED row
  /\ UNCHANGED <<engineVars, live, cancelled, terminal, samples, history,
                 subscribers, chan, clientVars>>

\* Mutant: the samples are stored whether or not there is a row.
InsertOrphans ==
  /\ driver = "recorded"
  /\ driver' = "persisted"
  /\ history' = samples
  /\ UNCHANGED <<engineVars, live, cancelled, terminal, samples, row, refused,
                 subscribers, chan, clientVars>>

\* SnapshotSamples, inserted in one transaction under the row of a success,
\* if there is one; the store may refuse it, which is logged.
InsertSamples ==
  /\ driver = "recorded"
  /\ driver' = "persisted"
  /\ \/ history' = (IF row = "success" THEN samples ELSE history)
        /\ UNCHANGED refused
     \/ /\ row = "success" /\ samples # << >>
        /\ refused' = TRUE /\ UNCHANGED history
  /\ UNCHANGED <<engineVars, live, cancelled, terminal, samples, row,
                 subscribers, chan, clientVars>>

\* Mutant: the subscribers are forgotten without being closed.
ForgetSubscribers ==
  /\ driver = "persisted"
  /\ driver' = "done"
  /\ subscribers' = {}
  /\ UNCHANGED <<engineVars, live, cancelled, terminal, samples, stored, chan,
                 clientVars>>

\* closeSubscribersAndDone
CloseSubscribers ==
  /\ driver = "persisted"
  /\ driver' = "done"
  /\ chan' = [c \in Clients |-> IF c \in subscribers
                                  THEN [chan[c] EXCEPT !.closed = TRUE]
                                  ELSE chan[c]]
  /\ subscribers' = {}
  /\ UNCHANGED <<engineVars, live, cancelled, terminal, samples, stored,
                 clientVars>>

DriverStep ==
  \/ PumpLive \/ TakeOutcome \/ Drained \/ ReturnedClosed
  \/ Stamp \/ SaveRow \/ InsertSamples \/ CloseSubscribers

-----------------------------------------------------------------------------
(* One SSE handler per client.                                             *)

\* t.closed
Closed == driver \in {"stamped", "recorded", "persisted", "done"}

\* Mutant: no replay.
SubscribeLiveOnly(c) ==
  /\ stream[c] = "absent"
  /\ stream' = [stream EXCEPT ![c] = "open"]
  /\ chan' = [chan EXCEPT ![c] = [cap |-> SubscribeBuffer, buf |-> << >>,
                                  closed |-> Closed]]
  /\ subscribers' = IF Closed THEN subscribers ELSE subscribers \cup {c}
  /\ UNCHANGED <<engineVars, live, driver, cancelled, terminal, samples,
                 stored, got>>

\* LiveTest.Subscribe: the whole replay is put into a channel with room for
\* SubscribeBuffer more; after the end the channel is closed at once.
Subscribe(c) ==
  /\ stream[c] = "absent"
  /\ stream' = [stream EXCEPT ![c] = "open"]
  /\ chan' = [chan EXCEPT ![c] = [cap |-> Len(samples) + SubscribeBuffer,
                                  buf |-> samples, closed |-> Closed]]
  /\ subscribers' = IF Closed THEN subscribers ELSE subscribers \cup {c}
  /\ UNCHANGED <<engineVars, live, driver, cancelled, terminal, samples,
                 stored, got>>

\* case s, ok := <-sub with a sample: a phase_change and a sample event
Receive(c) ==
  /\ stream[c] = "open"
  /\ chan[c].buf # << >>
  /\ got' = [got EXCEPT ![c] = Append(@, Head(chan[c].buf))]
  /\ chan' = [chan EXCEPT ![c].buf = Tail(@)]
  /\ UNCHANGED <<engineVars, live, driver, testVars, stream>>

\* The channel is closed and empty: the handler writes the terminal event,
\* if there is one to write, then "end".
EndStream(c) ==
  /\ stream[c] = "open"
  /\ chan[c].buf = << >>
  /\ chan[c].closed
  /\ stream' = [stream EXCEPT ![c] = "over"]
  /\ UNCHANGED <<engineVars, live, driver, testVars, chan, got>>

\* The browser closed the connection: the handler returns and leaves its
\* channel among the subscribers.
ClientGone(c) ==
  /\ stream[c] = "open"
  /\ stream' = [stream EXCEPT ![c] = "gone"]
  /\ UNCHANGED <<engineVars, live, driver, testVars, chan, got>>

-----------------------------------------------------------------------------
Next ==
  \/ Measure
  \/ EngineReturns
  \/ ReadReturned
  \/ DriverStep
  \/ Cancel
  \/ \E c \in Clients :
       Subscribe(c) \/ Receive(c) \/ EndStream(c) \/ ClientGone(c)

Spec == Init /\ [][Next]_vars

\* The engine's own timeout ends Run, the driver goroutine and the handlers
\* of connected browsers are scheduled.
FairSpec ==
  /\ Spec
  /\ WF_vars(EngineReturns)
  /\ WF_vars(DriverStep)
  /\ \A c \in Clients : WF_vars(Receive(c) \/ EndStream(c))

-----------------------------------------------------------------------------
(* Properties.                                                             *)

TypeOK ==
  /\ measured \in 0..MaxSamples
  /\ overflowed \in BOOLEAN
  /\ live \in Seq(Nat) /\ Len(live) <= LiveBuffer
  /\ engine \in {"running", "success", "failed", "panicked"}
  /\ driver \in {"pumping", "draining", "reading", "finished", "stamped",
                 "recorded", "persisted", "done"}
  /\ cancelled \in BOOLEAN
  /\ terminal \in {"none", "success", "failed", "cancelled"}
  /\ samples \in Seq(Nat)
  /\ row \in {"none", "success", "cancelled"}
  /\ history \in Seq(Nat)
  /\ refused \in BOOLEAN
  /\ subscribers \subseteq Clients
  /\ chan \in [Clients -> [cap : Nat, buf : Seq(Nat), closed : BOOLEAN]]
  /\ got \in [Clients -> Seq(Nat)]
  /\ stream \in [Clients -> {"absent", "open", "over", "gone"}]

\* What the client has read and what waits in its channel.
Seen(c) == got[c] \o chan[c].buf

\* A subscribed client has seen or will read every sample emitted so far,
\* however late it attached: replay and live samples join without a gap, a
\* duplicate or a swap.
ReplayIsLossless ==
  \A c \in subscribers : Seen(c) = samples

\* Even a client dropped for being slow has only lost a tail: the index the
\* handler counts for it is the sample_index of the persisted row.
WireIndexIsSampleIndex ==
  \A c \in Clients : \E n \in 0..Len(samples) : Seen(c) = SubSeq(samples, 1, n)

\* A channel still among the subscribers is open and within its capacity,
\* so emit never sends on a closed channel (a panic that would kill the
\* driver) and never blocks, and it is closed only once.
SubscribersAreOpen ==
  \A c \in subscribers : ~chan[c].closed /\ Len(chan[c].buf) <= chan[c].cap

\* Sample rows are all of what was streamed or none, and stand under the row
\* of a test that measured and was not cancelled.  Such a test is without its
\* row or its samples only if the store refused a write.
HistoryMatchesStream ==
  /\ history # << >> => history = samples /\ row = "success"
  /\ row = "success" => engine = "success" /\ ~cancelled
  /\ driver \in {"persisted", "done"} /\ ~refused =>
       /\ row = (IF terminal = "failed" THEN "none" ELSE terminal)
       /\ row = "success" => history = samples

\* Samples are lost only when the live buffer overflowed or the engine
\* panicked; what is kept is in measuring order.
OnlyOverflowOrPanicLoses ==
  /\ \A i, j \in DOMAIN samples : i < j => samples[i] < samples[j]
  /\ (Closed /\ ~overflowed /\ engine # "panicked") =>
       Len(samples) = measured

\* What a browser is shown is what was measured and what is kept, whenever it
\* attached: the four above together.
StreamIsFaithful ==
  /\ TypeOK /\ ReplayIsLossless /\ WireIndexIsSampleIndex
  /\ HistoryMatchesStream /\ OnlyOverflowOrPanicLoses

\* Every stream that is opened ends, unless the browser leaves.
EveryStreamEnds ==
  \A c \in Clients : (stream[c] = "open") ~> (stream[c] \in {"over", "gone"})
=============================================================================
