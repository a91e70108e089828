--------------------------- MODULE MonitorsProofs ---------------------------
(***************************************************************************)
(* Proofs about what runs beside the scans and tells somebody of it.       *)
(*                                                                         *)
(* LiveTestStream, for any browsers, samples and buffers: nothing is sent  *)
(* on a closed or full channel, and what a browser sees is what was        *)
(* measured and what is kept.  What a browser has read and what waits for  *)
(* it is a prefix of the replay buffer, the whole of it while it is        *)
(* subscribed; and the replay buffer with what waits in the live channel   *)
(* is a rising sequence that only an overflow can leave gaps in.  Reading  *)
(* and pumping move one element from the head of a sequence to the end of  *)
(* another and leave these alone.                                          *)
(*                                                                         *)
(* CheckTestStream, for any number of cycles and any buffer: a client that *)
(* stays has every update before the result.  What it has been sent, what  *)
(* waits in the channel and what the producer holds are one rising         *)
(* sequence, as long as all that was reported; and the handler comes to    *)
(* the result only over a channel the producer's last step has closed.     *)
(*                                                                         *)
(* FleetMonitor, for any servers, polls and lists: no status outlives its  *)
(* server.                                                                 *)
(***************************************************************************)
EXTENDS LiveTestStream, Monitors, SequenceTheorems, TLAPS

-----------------------------------------------------------------------------
(* The live stream.                                                        *)

IsPrefix(s, t) == Len(s) <= Len(t) /\ \A i \in 1 .. Len(s) : s[i] = t[i]

\* A browser's channel: empty before it subscribes, in step with the samples
\* while it is subscribed, behind them afterwards.
Follows(c) ==
  /\ stream[c] = "absent" => c \notin subscribers /\ got[c] = << >>
  /\ IsPrefix(Seen(c), samples)
  /\ c \in subscribers => /\ Seen(c) = samples
                          /\ ~chan[c].closed
                          /\ Len(chan[c].buf) <= chan[c].cap

\* Where the driver is tells what the engine did and what is left to read.
DriverAgrees ==
  /\ driver # "pumping" => engine # "running"
  /\ driver \in {"draining", "reading"} => engine # "panicked"
  /\ (driver \notin {"pumping", "draining"} /\ engine # "panicked") =>
       live = << >>

\* What is stored, and how far: nothing before the outcome is stamped, all
\* or nothing afterwards.
StoreAgrees ==
  /\ Closed <=> terminal # "none"
  /\ terminal = "success" => engine = "success" /\ ~cancelled
  /\ driver \notin {"recorded", "persisted", "done"} =>
       row = "none" /\ ~refused
  /\ driver \notin {"persisted", "done"} => history = << >>
  /\ row # "none" => row = terminal
  /\ Closed /\ driver # "stamped" /\ ~refused =>
       row = (IF terminal = "failed" THEN "none" ELSE terminal)
  /\ history # << >> => history = samples /\ row = "success"
  /\ driver \in {"persisted", "done"} /\ ~refused /\ row = "success" =>
       history = samples

\* What was measured and not lost.
Queue == samples \o live

QueueRises ==
  /\ \A i, j \in 1 .. Len(Queue) : i < j => Queue[i] < Queue[j]
  /\ \A i \in 1 .. Len(Queue) : Queue[i] <= measured
  /\ ~overflowed => Len(Queue) = measured

IInv ==
  /\ TypeOK /\ DriverAgrees /\ StoreAgrees /\ QueueRises
  /\ \A c \in Clients : Follows(c)

-----------------------------------------------------------------------------
(* Sequences.                                                              *)

\* Appending to the second part appends to the whole.
LEMMA ConcatAppend ==
  ASSUME NEW s \in Seq(Nat), NEW t \in Seq(Nat), NEW e \in Nat
  PROVE  s \o Append(t, e) = Append(s \o t, e)
  <1>1. s \o t \in Seq(Nat) /\ <<e>> \in Seq(Nat)
    BY ConcatProperties
  <1>2. Append(t, e) = t \o <<e>> /\ Append(s \o t, e) = (s \o t) \o <<e>>
    BY <1>1, AppendIsConcat
  <1> QED
    BY <1>1, <1>2, ConcatAssociative

\* Moving the head of the second part to the end of the first.
LEMMA MoveHead ==
  ASSUME NEW s \in Seq(Nat), NEW t \in Seq(Nat), t # << >>
  PROVE  Append(s, Head(t)) \o Tail(t) = s \o t
  <1> DEFINE u == Append(s, Head(t)) \o Tail(t)
             v == s \o t
  <1>1. Head(t) \in Nat /\ Tail(t) \in Seq(Nat) /\ Len(Tail(t)) = Len(t) - 1
        /\ \A i \in 1 .. Len(Tail(t)) : Tail(t)[i] = t[i + 1]
    BY HeadTailProperties
  <1>2. Append(s, Head(t)) \in Seq(Nat)
        /\ Len(Append(s, Head(t))) = Len(s) + 1
        /\ \A i \in 1 .. Len(s) : Append(s, Head(t))[i] = s[i]
        /\ Append(s, Head(t))[Len(s) + 1] = Head(t)
    BY <1>1, AppendProperties
  <1>3. Len(s) \in Nat /\ Len(t) \in Nat \ {0} /\ Head(t) = t[1]
    BY LenProperties, EmptySeq
  <1>4. u \in Seq(Nat) /\ Len(u) = Len(s) + Len(t)
        /\ \A i \in 1 .. Len(u) : u[i] =
             IF i <= Len(s) + 1 THEN Append(s, Head(t))[i]
                                ELSE Tail(t)[i - (Len(s) + 1)]
    BY <1>1, <1>2, <1>3, ConcatProperties
  <1>5. v \in Seq(Nat) /\ Len(v) = Len(s) + Len(t)
        /\ \A i \in 1 .. Len(v) : v[i] = IF i <= Len(s) THEN s[i]
                                                        ELSE t[i - Len(s)]
    BY <1>3, ConcatProperties
  <1> HIDE DEF u, v
  <1>6. ASSUME NEW i \in 1 .. Len(u)
        PROVE  u[i] = v[i]
    <2>1. i \in Int /\ 1 <= i /\ i <= Len(s) + Len(t)
      BY <1>3, <1>4
    <2>2. CASE i <= Len(s)
      <3>1. i \in 1 .. Len(s)
        BY <1>3, <2>1, <2>2
      <3>2. u[i] = Append(s, Head(t))[i]
        BY <1>3, <1>4, <2>1, <2>2
      <3>3. v[i] = s[i]
        BY <1>3, <1>4, <1>5, <2>1, <2>2
      <3> QED
        BY <1>2, <3>1, <3>2, <3>3
    <2>3. CASE i = Len(s) + 1
      <3>1. i <= Len(s) + 1 /\ ~ (i <= Len(s)) /\ i - Len(s) = 1
            /\ i \in 1 .. Len(v)
        BY <1>3, <1>4, <1>5, <2>3
      <3>2. u[i] = Append(s, Head(t))[i]
        BY <1>4, <3>1
      <3>3. v[i] = t[i - Len(s)]
        BY <1>5, <3>1
      <3>4. Append(s, Head(t))[Len(s) + 1] = t[1]
        BY <1>2, <1>3
      <3>5. Append(s, Head(t))[i] = Append(s, Head(t))[Len(s) + 1]
        BY <2>3, Zenon
      <3> QED
        BY <3>1, <3>2, <3>3, <3>4, <3>5, Zenon
    <2>4. CASE i > Len(s) + 1
      <3>1. u[i] = Tail(t)[i - (Len(s) + 1)]
        BY <1>3, <1>4, <2>1, <2>4
      <3>2. i - (Len(s) + 1) \in 1 .. Len(Tail(t))
        BY <1>1, <1>3, <2>1, <2>4
      <3>3. Tail(t)[i - (Len(s) + 1)] = t[i - (Len(s) + 1) + 1]
        BY <1>1, <3>2
      <3>4. i - (Len(s) + 1) + 1 = i - Len(s)
        BY <1>3, <2>1
      <3>5. v[i] = t[i - Len(s)]
        BY <1>3, <1>4, <1>5, <2>1, <2>4
      <3> QED
        BY <3>1, <3>3, <3>4, <3>5
    <2> QED
      BY <1>3, <2>1, <2>2, <2>3, <2>4
  <1> QED
    BY <1>4, <1>5, <1>6, SeqEqual DEF u, v

\* A prefix stays one when the sequence grows.
LEMMA PrefixGrows ==
  ASSUME NEW s \in Seq(Nat), NEW t \in Seq(Nat), NEW e \in Nat,
         IsPrefix(s, t)
  PROVE  IsPrefix(s, Append(t, e))
  <1>1. Len(s) \in Nat /\ Len(t) \in Nat
    BY LenProperties
  <1>2. Len(Append(t, e)) = Len(t) + 1
        /\ \A i \in 1 .. Len(t) : Append(t, e)[i] = t[i]
    BY AppendProperties
  <1> QED
    BY <1>1, <1>2 DEF IsPrefix

\* A sequence is a prefix of itself.
LEMMA PrefixOfItself ==
  ASSUME NEW s \in Seq(Nat)
  PROVE  IsPrefix(s, s)
  BY LenProperties DEF IsPrefix

-----------------------------------------------------------------------------
(* The browsers.                                                           *)

Channels == [cap : Nat, buf : Seq(Nat), closed : BOOLEAN]

\* The parts of a browser's state are of their types.
LEMMA ClientTypes ==
  ASSUME TypeOK, NEW c \in Clients
  PROVE  /\ chan[c] \in Channels /\ chan[c].buf \in Seq(Nat)
         /\ chan[c].cap \in Nat /\ chan[c].closed \in BOOLEAN
         /\ got[c] \in Seq(Nat) /\ Seen(c) \in Seq(Nat)
  <1>1. chan[c] \in Channels /\ got[c] \in Seq(Nat)
    BY DEF TypeOK, Channels
  <1>2. chan[c].buf \in Seq(Nat) /\ chan[c].cap \in Nat
        /\ chan[c].closed \in BOOLEAN
    BY <1>1 DEF Channels
  <1>3. Seen(c) \in Seq(Nat)
    BY <1>1, <1>2, ConcatProperties DEF Seen
  <1> QED
    BY <1>1, <1>2, <1>3

\* A browser nothing happens to, while nothing is emitted.
LEMMA FollowsStill ==
  ASSUME NEW c \in Clients, Follows(c), chan'[c] = chan[c], got'[c] = got[c],
         stream'[c] = "absent" => stream[c] = "absent",
         c \in subscribers' => c \in subscribers, samples' = samples
  PROVE  Follows(c)'
  BY DEF Follows, Seen

\* Emitting a sample keeps every browser in step, or drops it.
LEMMA EmitFollows ==
  ASSUME TypeOK, \A c \in Clients : Follows(c), NEW s \in Nat, Emit(s),
         UNCHANGED <<got, stream>>
  PROVE  /\ samples' \in Seq(Nat) /\ subscribers' \subseteq Clients
         /\ chan' \in [Clients -> Channels]
         /\ \A c \in Clients : Follows(c)'
  <1>1. samples \in Seq(Nat) /\ subscribers \subseteq Clients
    BY DEF TypeOK
  <1>2. samples' = Append(samples, s) /\ samples' \in Seq(Nat)
    BY <1>1, AppendProperties DEF Emit
  <1>3. subscribers' = subscribers \ Full
    BY DEF Emit
  <1>4. ASSUME NEW c \in Clients
        PROVE  chan'[c] \in Channels /\ Follows(c)'
    <2>1. chan'[c] = IF c \in Full THEN [chan[c] EXCEPT !.closed = TRUE]
                     ELSE IF c \in subscribers
                       THEN [chan[c] EXCEPT !.buf = Append(@, s)]
                     ELSE chan[c]
      BY DEF Emit, Delivered
    <2>2. got'[c] = got[c] /\ stream'[c] = stream[c]
      OBVIOUS
    <2>3. Follows(c) /\ Seen(c) \in Seq(Nat)
      BY ClientTypes
    <2>4. IsPrefix(Seen(c), samples')
      BY <1>1, <1>2, <2>3, PrefixGrows DEF Follows
    <2>5. CASE c \in Full
      <3>1. chan'[c] \in Channels /\ chan'[c].buf = chan[c].buf
        BY <2>1, <2>5, ClientTypes DEF Channels
      <3>2. Seen(c)' = Seen(c)
        BY <2>2, <3>1 DEF Seen
      <3>3. c \notin subscribers'
        BY <1>3, <2>5
      <3> QED
        BY <2>2, <2>3, <2>4, <3>1, <3>2, <3>3 DEF Follows
    <2>6. CASE c \notin Full /\ c \in subscribers
      <3>1. chan'[c] = [chan[c] EXCEPT !.buf = Append(@, s)]
        BY <2>1, <2>6
      <3>2. Append(chan[c].buf, s) \in Seq(Nat)
            /\ Len(Append(chan[c].buf, s)) = Len(chan[c].buf) + 1
        BY ClientTypes, AppendProperties
      <3>3. /\ chan'[c] \in Channels
            /\ chan'[c].buf = Append(chan[c].buf, s)
            /\ chan'[c].cap = chan[c].cap
            /\ chan'[c].closed = chan[c].closed
        BY <3>1, <3>2, ClientTypes DEF Channels
      <3>4. Seen(c)' = Append(Seen(c), s)
        BY ZenonT(30), <2>2, <3>3, ClientTypes, ConcatAppend DEF Seen
      <3>5. Seen(c)' = samples'
        BY <1>2, <2>3, <2>6, <3>4 DEF Follows
      <3>6. Len(chan'[c].buf) <= chan'[c].cap
        <4>1. Len(chan[c].buf) \in Nat /\ chan[c].cap \in Nat
          BY ClientTypes, LenProperties
        <4>2. Len(chan[c].buf) <= chan[c].cap
              /\ Len(chan[c].buf) # chan[c].cap
          BY <2>3, <2>6 DEF Follows, Full
        <4> QED
          BY <3>2, <3>3, <4>1, <4>2
      <3>7. ~chan'[c].closed
        BY <2>3, <2>6, <3>3 DEF Follows
      <3>8. IsPrefix(Seen(c)', samples')
        BY <1>2, <3>5, PrefixOfItself
      <3>9. stream'[c] # "absent"
        BY <2>2, <2>3, <2>6 DEF Follows
      <3> QED
        BY <3>3, <3>5, <3>6, <3>7, <3>8, <3>9 DEF Follows
    <2>7. CASE c \notin Full /\ c \notin subscribers
      <3>1. chan'[c] = chan[c] /\ Seen(c)' = Seen(c)
        BY <2>1, <2>2, <2>7 DEF Seen
      <3>2. c \notin subscribers'
        BY <1>3, <2>7
      <3> QED
        BY <2>2, <2>3, <2>4, <3>1, <3>2, ClientTypes DEF Follows
    <2> QED
      BY <2>5, <2>6, <2>7
  <1>5. chan' \in [Clients -> Channels]
    <2>1. chan' = [c \in Clients |-> chan'[c]]
      BY DEF Emit, Delivered
    <2> QED
      BY <1>4, <2>1
  <1> QED
    BY <1>1, <1>2, <1>3, <1>4, <1>5

-----------------------------------------------------------------------------
(* The invariant.                                                          *)

\* The invariant holds before the test starts.
LEMMA InvInit == Init => IInv
  <1> SUFFICES ASSUME Init PROVE IInv
    OBVIOUS
  <1>1. << >> \in Seq(Nat) /\ Len(<< >>) = 0
    BY EmptySeq
  <1>2. TypeOK
    <2>1. measured \in 0 .. MaxSamples /\ 0 <= LiveBuffer
      BY BufferAssumption DEF Init
    <2>2. NoChannel \in Channels
      BY <1>1 DEF NoChannel, Channels
    <2>3. chan \in [Clients -> Channels]
      BY <2>2 DEF Init
    <2>4. got \in [Clients -> Seq(Nat)]
      BY <1>1 DEF Init
    <2>5. live \in Seq(Nat) /\ Len(live) <= LiveBuffer
      BY <1>1, <2>1 DEF Init
    <2> QED
      BY <1>1, <2>1, <2>3, <2>4, <2>5 DEF Init, TypeOK, Channels
  <1>3. DriverAgrees /\ StoreAgrees
    BY DEF Init, DriverAgrees, StoreAgrees, Closed
  <1>4. Queue = << >>
    BY <1>1, ConcatEmptySeq DEF Init, Queue
  <1>5. QueueRises
    BY <1>1, <1>4 DEF Init, QueueRises
  <1>6. ASSUME NEW c \in Clients
        PROVE  Follows(c)
    <2>1. Seen(c) = << >>
      BY <1>1, ConcatEmptySeq DEF Init, NoChannel, Seen
    <2> QED
      BY <1>1, <2>1 DEF Init, Follows, IsPrefix
  <1> QED
    BY <1>2, <1>3, <1>5, <1>6 DEF IInv

\* The queue when a new sample comes to its end.
LEMMA QueueAppends ==
  ASSUME TypeOK, QueueRises, Queue' = Append(Queue, measured'),
         measured' = measured + 1, UNCHANGED overflowed
  PROVE  QueueRises'
  <1>1. Queue \in Seq(Nat) /\ measured \in Nat
    BY ConcatProperties DEF Queue, TypeOK
  <1> DEFINE q == Queue
             r == Append(q, measured + 1)
  <1>2. Len(q) \in Nat /\ Len(r) = Len(q) + 1 /\ r[Len(q) + 1] = measured + 1
        /\ \A i \in 1 .. Len(q) : r[i] = q[i]
    BY <1>1, LenProperties, AppendProperties
  <1>3. \A i \in 1 .. Len(q) : q[i] \in Nat /\ q[i] <= measured
    BY <1>1, ElementOfSeq DEF QueueRises
  <1>4. \A i, j \in 1 .. Len(q) : i < j => q[i] < q[j]
    BY DEF QueueRises
  <1>5. ~overflowed => Len(q) = measured
    BY DEF QueueRises
  <1>6. Queue' = r
    OBVIOUS
  <1> HIDE DEF q, r
  <1>7. ASSUME NEW i \in 1 .. Len(r)
        PROVE  r[i] <= measured + 1
    <2>1. CASE i \in 1 .. Len(q)
      <3>1. r[i] = q[i] /\ q[i] \in Nat /\ q[i] <= measured
        BY <1>2, <1>3, <2>1
      <3> QED
        BY <1>1, <3>1
    <2>2. CASE i = Len(q) + 1
      BY <1>1, <1>2, <2>2
    <2> QED
      BY <1>2, <2>1, <2>2
  <1>8. ASSUME NEW i \in 1 .. Len(r), NEW j \in 1 .. Len(r), i < j
        PROVE  r[i] < r[j]
    <2>1. i \in 1 .. Len(q)
      BY <1>2, <1>8
    <2>2. CASE j \in 1 .. Len(q)
      BY <1>2, <1>4, <1>8, <2>1, <2>2
    <2>3. CASE j = Len(q) + 1
      <3>1. r[j] = measured + 1 /\ r[i] = q[i]
        BY <1>2, <2>1, <2>3
      <3> QED
        BY <1>1, <1>3, <2>1, <3>1
    <2> QED
      BY <1>2, <2>2, <2>3
  <1>9. ~overflowed => Len(r) = measured + 1
    BY <1>2, <1>5
  <1> QED
    BY <1>6, <1>7, <1>8, <1>9 DEF QueueRises

\* The queue when nothing comes to it.
LEMMA QueueStays ==
  ASSUME QueueRises, Queue' = Queue, UNCHANGED <<measured, overflowed>>
  PROVE  QueueRises'
  BY DEF QueueRises

\* A sample measured is either buffered for the driver or lost, on record.
LEMMA KeepsMeasure ==
  ASSUME IInv, Measure
  PROVE  IInv'
  <1>1. /\ engine = "running" /\ measured < MaxSamples
        /\ measured' = measured + 1
        /\ UNCHANGED <<engine, driver, testVars, chan, got, stream>>
        /\ UNCHANGED <<cancelled, terminal, samples, row, history, refused,
                       subscribers>>
    BY DEF Measure, testVars, stored, clientVars
  <1>2. measured' \in 0 .. MaxSamples /\ measured' \in Nat /\ measured \in Nat
    BY <1>1, BufferAssumption DEF IInv, TypeOK
  <1>3. live \in Seq(Nat) /\ samples \in Seq(Nat)
    BY DEF IInv, TypeOK
  <1>4. \A c \in Clients : Follows(c)'
    BY <1>1, FollowsStill DEF IInv
  <1>5. DriverAgrees' /\ StoreAgrees'
    BY <1>1 DEF IInv, DriverAgrees, StoreAgrees, Closed
  <1>6. CASE Len(live) < LiveBuffer
    <2>1. live' = Append(live, measured') /\ UNCHANGED overflowed
      BY <1>6 DEF Measure
    <2>2. live' \in Seq(Nat) /\ Len(live') = Len(live) + 1
      BY <1>2, <1>3, <2>1, AppendProperties
    <2>3. Len(live') <= LiveBuffer
      BY <1>3, <1>6, <2>2, LenProperties, BufferAssumption
    <2>4. Queue' = Append(Queue, measured')
      BY <1>1, <1>2, <1>3, <2>1, ConcatAppend DEF Queue
    <2>5. QueueRises'
      BY <1>1, <2>1, <2>4, QueueAppends DEF IInv
    <2>6. TypeOK'
      BY <1>1, <1>2, <2>1, <2>2, <2>3 DEF IInv, TypeOK
    <2> QED
      BY <1>4, <1>5, <2>5, <2>6 DEF IInv
  <1>7. CASE ~ (Len(live) < LiveBuffer)
    <2>1. overflowed' = TRUE /\ UNCHANGED live
      BY <1>7 DEF Measure
    <2>2. Queue' = Queue /\ Queue \in Seq(Nat)
      BY <1>1, <1>3, <2>1, ConcatProperties DEF Queue
    <2>3. \A i \in 1 .. Len(Queue) : Queue[i] \in Nat
      BY <2>2, ElementOfSeq
    <2>4. QueueRises'
      BY <1>1, <1>2, <2>1, <2>2, <2>3 DEF IInv, QueueRises
    <2>5. TypeOK'
      BY <1>1, <1>2, <2>1 DEF IInv, TypeOK
    <2> QED
      BY <1>4, <1>5, <2>4, <2>5 DEF IInv
  <1> QED
    BY <1>6, <1>7

\* The end of the engine leaves what it measured where it is.
LEMMA KeepsEngineReturns ==
  ASSUME IInv, EngineReturns
  PROVE  IInv'
  <1>1. /\ engine = "running" /\ engine' \in {"success", "failed", "panicked"}
        /\ UNCHANGED <<measured, overflowed, live, driver, cancelled,
                       terminal, samples, row, history, refused,
                       subscribers, chan, got, stream>>
    BY DEF EngineReturns, testVars, stored, clientVars
  <1>2. \A c \in Clients : Follows(c)'
    BY <1>1, FollowsStill DEF IInv
  <1>3. driver = "pumping"
    BY <1>1 DEF IInv, DriverAgrees
  <1>4. DriverAgrees' /\ StoreAgrees'
    BY <1>1, <1>3 DEF IInv, DriverAgrees, StoreAgrees, Closed
  <1>5. QueueRises'
    BY <1>1, QueueStays DEF IInv, Queue
  <1>6. TypeOK'
    BY <1>1 DEF IInv, TypeOK
  <1> QED
    BY <1>2, <1>4, <1>5, <1>6 DEF IInv

\* The driver emits the oldest sample it has not emitted.
LEMMA KeepsPumpLive ==
  ASSUME IInv, PumpLive
  PROVE  IInv'
  <1>1. /\ driver \in {"pumping", "draining"} /\ live # << >>
        /\ Emit(Head(live)) /\ live' = Tail(live)
        /\ UNCHANGED <<measured, overflowed, engine, driver, got, stream>>
    BY DEF PumpLive, engineVars, clientVars
  <1>2. live \in Seq(Nat) /\ samples \in Seq(Nat)
    BY DEF IInv, TypeOK
  <1>3. Head(live) \in Nat /\ live' \in Seq(Nat) /\ Len(live') = Len(live) - 1
    BY <1>1, <1>2, HeadTailProperties
  <1>4. /\ samples' \in Seq(Nat) /\ subscribers' \subseteq Clients
        /\ chan' \in [Clients -> Channels]
        /\ \A c \in Clients : Follows(c)'
    BY <1>1, <1>3, EmitFollows DEF IInv
  <1>5. /\ samples' = Append(samples, Head(live))
        /\ UNCHANGED <<cancelled, terminal, row, history, refused>>
    BY <1>1 DEF Emit, stored
  <1>6. Queue' = Queue
    BY <1>1, <1>2, <1>5, MoveHead DEF Queue
  <1>7. QueueRises'
    BY <1>1, <1>6, QueueStays DEF IInv
  <1>8. Len(live') <= LiveBuffer
    BY <1>2, <1>3, LenProperties, BufferAssumption DEF IInv, TypeOK
  <1>9. TypeOK'
    BY <1>1, <1>3, <1>4, <1>5, <1>8 DEF IInv, TypeOK, Channels
  <1>10. DriverAgrees' /\ StoreAgrees'
    BY <1>1, <1>5 DEF IInv, DriverAgrees, StoreAgrees, Closed
  <1> QED
    BY <1>4, <1>7, <1>9, <1>10 DEF IInv

\* What a driver without a live channel reads is emitted as it is read.
LEMMA KeepsReadReturned ==
  ASSUME IInv, ReadReturned
  PROVE  IInv'
  <1>1. /\ driver = "reading" /\ measured < MaxSamples
        /\ measured' = measured + 1 /\ Emit(measured')
        /\ UNCHANGED <<overflowed, engine, live, driver, got, stream>>
    BY DEF ReadReturned, clientVars
  <1>2. samples \in Seq(Nat) /\ measured' \in Nat
        /\ measured' \in 0 .. MaxSamples
    BY <1>1, BufferAssumption DEF IInv, TypeOK
  <1>3. /\ samples' \in Seq(Nat) /\ subscribers' \subseteq Clients
        /\ chan' \in [Clients -> Channels]
        /\ \A c \in Clients : Follows(c)'
    BY <1>1, <1>2, EmitFollows DEF IInv
  <1>4. /\ samples' = Append(samples, measured')
        /\ UNCHANGED <<cancelled, terminal, row, history, refused>>
    BY <1>1 DEF Emit, stored
  <1>5. live = << >>
    BY <1>1 DEF IInv, DriverAgrees
  <1>6. Queue = samples /\ Queue' = samples'
    BY <1>1, <1>2, <1>3, <1>5, ConcatEmptySeq DEF Queue
  <1>7. QueueRises'
    BY <1>1, <1>4, <1>6, QueueAppends DEF IInv
  <1>8. TypeOK'
    BY <1>1, <1>2, <1>3, <1>4 DEF IInv, TypeOK, Channels
  <1>9. DriverAgrees' /\ StoreAgrees'
    BY <1>1, <1>4 DEF IInv, DriverAgrees, StoreAgrees, Closed
  <1> QED
    BY <1>3, <1>7, <1>8, <1>9 DEF IInv

\* The driver's own steps and a Cancel change no sample and no channel.
LEMMA KeepsDriver ==
  ASSUME IInv, \/ TakeOutcome \/ Drained \/ ReturnedClosed \/ Cancel
               \/ Stamp \/ SaveRow \/ InsertSamples
  PROVE  IInv'
  <1> USE DEF TakeOutcome, Drained, ReturnedClosed, Cancel, Stamp, SaveRow,
              InsertSamples, engineVars, testVars, stored, clientVars
  <1>1. UNCHANGED <<measured, overflowed, engine, live, samples, subscribers,
                    chan, got, stream>>
    OBVIOUS
  <1>2. /\ driver' \in {"pumping", "draining", "reading", "finished",
                        "stamped", "recorded", "persisted"}
        /\ cancelled' \in BOOLEAN /\ refused' \in BOOLEAN
        /\ terminal' \in {"none", "success", "failed", "cancelled"}
        /\ row' \in {"none", "success", "cancelled"}
    BY DEF IInv, TypeOK
  <1>3. history' \in Seq(Nat)
    BY DEF IInv, TypeOK
  <1>4. DriverAgrees'
    BY DEF IInv, TypeOK, DriverAgrees
  <1>5. StoreAgrees'
    <2>1. CASE TakeOutcome \/ Drained \/ ReturnedClosed \/ Cancel
      BY <2>1 DEF IInv, TypeOK, StoreAgrees, Closed
    <2>2. CASE Stamp
      BY <2>2 DEF IInv, TypeOK, StoreAgrees, Closed
    <2>3. CASE SaveRow
      BY <2>3 DEF IInv, TypeOK, StoreAgrees, Closed
    <2>4. CASE InsertSamples
      BY <2>4 DEF IInv, TypeOK, StoreAgrees, Closed
    <2> QED
      BY <2>1, <2>2, <2>3, <2>4
  <1> HIDE DEF TakeOutcome, Drained, ReturnedClosed, Cancel, Stamp, SaveRow,
               InsertSamples
  <1>6. TypeOK'
    BY <1>1, <1>2, <1>3 DEF IInv, TypeOK
  <1>7. \A c \in Clients : Follows(c)'
    BY <1>1, FollowsStill DEF IInv
  <1>8. QueueRises'
    BY <1>1, QueueStays DEF IInv, Queue
  <1> QED
    BY <1>4, <1>5, <1>6, <1>7, <1>8 DEF IInv

\* Only after the history is stored is any channel closed.
LEMMA KeepsCloseSubscribers ==
  ASSUME IInv, CloseSubscribers
  PROVE  IInv'
  <1>1. /\ driver = "persisted" /\ driver' = "done" /\ subscribers' = {}
        /\ chan' = [c \in Clients |-> IF c \in subscribers
                                        THEN [chan[c] EXCEPT !.closed = TRUE]
                                        ELSE chan[c]]
        /\ UNCHANGED <<measured, overflowed, engine, live, cancelled,
                       terminal, samples, row, history, refused, got, stream>>
    BY DEF CloseSubscribers, engineVars, stored, clientVars
  <1>2. ASSUME NEW c \in Clients
        PROVE  chan'[c] \in Channels /\ chan'[c].buf = chan[c].buf
    BY <1>1, ClientTypes DEF IInv, Channels
  <1>3. chan' \in [Clients -> Channels]
    BY <1>1, <1>2
  <1>4. TypeOK'
    BY <1>1, <1>3 DEF IInv, TypeOK, Channels
  <1>5. \A c \in Clients : Follows(c)'
    BY <1>1, <1>2 DEF IInv, Follows, Seen
  <1>6. DriverAgrees' /\ StoreAgrees' /\ QueueRises'
    BY <1>1, QueueStays DEF IInv, DriverAgrees, StoreAgrees, Closed, Queue
  <1> QED
    BY <1>4, <1>5, <1>6 DEF IInv

\* A channel begins with every sample so far and room for more.
LEMMA KeepsSubscribe ==
  ASSUME IInv, NEW c \in Clients, Subscribe(c)
  PROVE  IInv'
  <1>1. /\ stream[c] = "absent"
        /\ stream' = [stream EXCEPT ![c] = "open"]
        /\ chan' = [chan EXCEPT ![c] = [cap |-> Len(samples) + SubscribeBuffer,
                                        buf |-> samples, closed |-> Closed]]
        /\ subscribers' = IF Closed THEN subscribers
                                    ELSE subscribers \cup {c}
        /\ UNCHANGED <<measured, overflowed, engine, live, driver, cancelled,
                       terminal, samples, row, history, refused, got>>
    BY DEF Subscribe, engineVars, stored
  <1>2. samples \in Seq(Nat) /\ Len(samples) \in Nat /\ Closed \in BOOLEAN
    BY LenProperties DEF IInv, TypeOK, Closed
  <1>3. Len(samples) + SubscribeBuffer \in Nat
        /\ Len(samples) <= Len(samples) + SubscribeBuffer
    BY <1>2, BufferAssumption
  <1>4. /\ chan'[c].buf = samples /\ chan'[c].closed = Closed
        /\ chan'[c].cap = Len(samples) + SubscribeBuffer
        /\ chan' \in [Clients -> Channels]
    BY <1>1, <1>2, <1>3 DEF IInv, TypeOK, Channels
  <1>5. TypeOK'
    BY <1>1, <1>4 DEF IInv, TypeOK, Channels
  <1>6. Seen(c)' = samples'
    BY <1>1, <1>2, <1>4, ConcatEmptySeq DEF IInv, Follows, Seen
  <1>7. IsPrefix(Seen(c)', samples')
    BY <1>1, <1>2, <1>6, PrefixOfItself
  <1>8. Follows(c)'
    <2>1. stream'[c] = "open"
      BY <1>1 DEF IInv, TypeOK
    <2>2. c \in subscribers' => ~Closed
      BY <1>1 DEF IInv, Follows
    <2> QED
      BY <1>1, <1>3, <1>4, <1>6, <1>7, <2>1, <2>2 DEF Follows
  <1>9. ASSUME NEW d \in Clients, d # c
        PROVE  Follows(d)'
    <2>1. chan'[d] = chan[d] /\ stream'[d] = stream[d]
      BY <1>1, <1>9 DEF IInv, TypeOK
    <2> QED
      BY <1>1, <1>9, <2>1, FollowsStill DEF IInv
  <1>10. DriverAgrees' /\ StoreAgrees' /\ QueueRises'
    BY <1>1, QueueStays DEF IInv, DriverAgrees, StoreAgrees, Closed, Queue
  <1> QED
    BY <1>5, <1>8, <1>9, <1>10 DEF IInv

\* What is received moves from the front of the channel.
LEMMA KeepsReceive ==
  ASSUME IInv, NEW c \in Clients, Receive(c)
  PROVE  IInv'
  <1>1. /\ stream[c] = "open" /\ chan[c].buf # << >>
        /\ got' = [got EXCEPT ![c] = Append(@, Head(chan[c].buf))]
        /\ chan' = [chan EXCEPT ![c].buf = Tail(@)]
        /\ UNCHANGED <<measured, overflowed, engine, live, driver, cancelled,
                       terminal, samples, row, history, refused, subscribers,
                       stream>>
    BY DEF Receive, engineVars, testVars, stored
  <1>2. chan[c].buf \in Seq(Nat) /\ got[c] \in Seq(Nat) /\ chan[c] \in Channels
    BY ClientTypes DEF IInv
  <1>3. Head(chan[c].buf) \in Nat /\ Tail(chan[c].buf) \in Seq(Nat)
        /\ Len(Tail(chan[c].buf)) = Len(chan[c].buf) - 1
    BY <1>1, <1>2, HeadTailProperties
  <1>4. /\ chan'[c].buf = Tail(chan[c].buf) /\ chan'[c].cap = chan[c].cap
        /\ chan'[c].closed = chan[c].closed /\ chan'[c] \in Channels
        /\ chan' \in [Clients -> Channels]
    BY <1>1, <1>2, <1>3 DEF IInv, TypeOK, Channels
  <1>5. got'[c] = Append(got[c], Head(chan[c].buf))
        /\ got' \in [Clients -> Seq(Nat)]
    <2>1. Append(got[c], Head(chan[c].buf)) \in Seq(Nat)
      BY <1>2, <1>3, AppendProperties
    <2> QED
      BY <1>1, <2>1 DEF IInv, TypeOK
  <1>6. TypeOK'
    BY <1>1, <1>4, <1>5 DEF IInv, TypeOK, Channels
  <1>7. Seen(c)' = Seen(c)
    BY <1>1, <1>2, <1>4, <1>5, MoveHead DEF Seen
  <1>8. Follows(c)'
    <2>1. Len(chan[c].buf) \in Nat /\ chan[c].cap \in Nat
      BY <1>2, LenProperties DEF Channels
    <2>2. Follows(c)
      BY DEF IInv
    <2>3. Len(chan[c].buf) <= chan[c].cap => Len(chan'[c].buf) <= chan'[c].cap
      BY <1>3, <1>4, <2>1
    <2> QED
      BY <1>1, <1>4, <1>7, <2>2, <2>3 DEF Follows
  <1>9. ASSUME NEW d \in Clients, d # c
        PROVE  Follows(d)'
    <2>1. chan'[d] = chan[d] /\ got'[d] = got[d]
      BY <1>1, <1>9 DEF IInv, TypeOK
    <2> QED
      BY <1>1, <2>1, FollowsStill DEF IInv
  <1>10. DriverAgrees' /\ StoreAgrees' /\ QueueRises'
    BY <1>1, QueueStays DEF IInv, DriverAgrees, StoreAgrees, Closed, Queue
  <1> QED
    BY <1>6, <1>8, <1>9, <1>10 DEF IInv

\* A client that leaves takes nothing of another one.
LEMMA KeepsLeaving ==
  ASSUME IInv, NEW c \in Clients, EndStream(c) \/ ClientGone(c)
  PROVE  IInv'
  <1>1. /\ stream' = [stream EXCEPT ![c] = "over"]
           \/ stream' = [stream EXCEPT ![c] = "gone"]
        /\ UNCHANGED <<measured, overflowed, engine, live, driver, cancelled,
                       terminal, samples, row, history, refused, subscribers,
                       chan, got>>
    BY DEF EndStream, ClientGone, engineVars, testVars, stored
  <1>2. stream' \in [Clients -> {"absent", "open", "over", "gone"}]
        /\ \A d \in Clients : stream'[d] = "absent" => stream[d] = "absent"
    BY <1>1 DEF IInv, TypeOK
  <1>3. TypeOK'
    BY <1>1, <1>2 DEF IInv, TypeOK
  <1>4. \A d \in Clients : Follows(d)'
    BY <1>1, <1>2, FollowsStill DEF IInv
  <1>5. DriverAgrees' /\ StoreAgrees' /\ QueueRises'
    BY <1>1, QueueStays DEF IInv, DriverAgrees, StoreAgrees, Closed, Queue
  <1> QED
    BY <1>3, <1>4, <1>5 DEF IInv

\* The invariant holds in every behaviour.
THEOREM Invariant == Spec => []IInv
  <1>1. ASSUME IInv, [Next]_vars PROVE IInv'
    <2>1. CASE Next
      BY <1>1, <2>1, KeepsMeasure, KeepsEngineReturns, KeepsPumpLive,
         KeepsReadReturned, KeepsDriver, KeepsCloseSubscribers,
         KeepsSubscribe, KeepsReceive, KeepsLeaving, Zenon
         DEF Next, DriverStep
    <2>2. CASE UNCHANGED vars
      <3>1. UNCHANGED <<measured, overflowed, live, engine, driver, cancelled,
                        terminal, samples, row, history, refused, subscribers,
                        chan, got, stream>>
        BY <2>2 DEF vars, engineVars, testVars, stored, clientVars
      <3>2. TypeOK' /\ DriverAgrees' /\ StoreAgrees' /\ QueueRises'
        BY <1>1, <3>1, QueueStays
           DEF IInv, TypeOK, DriverAgrees, StoreAgrees, Closed, Queue
      <3>3. \A c \in Clients : Follows(c)'
        BY <1>1, <3>1, FollowsStill DEF IInv
      <3> QED
        BY <3>2, <3>3 DEF IInv
    <2> QED
      BY <1>1, <2>1, <2>2
  <1> QED
    BY InvInit, <1>1, PTL DEF Spec

-----------------------------------------------------------------------------
(* What follows from it.                                                   *)

\* However slow a browser is and whenever it attaches, emit never sends on a
\* closed channel and never blocks (livetest.go: emit, Subscribe,
\* closeSubscribersAndDone).
THEOREM NeverSendsOnClosed == Spec => []SubscribersAreOpen
  <1>1. IInv => SubscribersAreOpen
    <2> SUFFICES ASSUME IInv, NEW c \in subscribers
                 PROVE  ~chan[c].closed /\ Len(chan[c].buf) <= chan[c].cap
      BY DEF SubscribersAreOpen
    <2>1. c \in Clients
      BY DEF IInv, TypeOK
    <2> QED
      BY <2>1 DEF IInv, Follows
  <1> QED
    BY Invariant, <1>1, PTL

\* What has been read and what waits is the whole replay cut short.
LEMMA SeenIsPrefix ==
  ASSUME IInv, NEW c \in Clients
  PROVE  \E n \in 0 .. Len(samples) : Seen(c) = SubSeq(samples, 1, n)
  <1>1. Seen(c) \in Seq(Nat) /\ samples \in Seq(Nat)
    BY ClientTypes DEF IInv, TypeOK
  <1> DEFINE n == Len(Seen(c))
             t == SubSeq(samples, 1, n)
  <1>2. n \in Nat /\ Len(samples) \in Nat
    BY <1>1, LenProperties
  <1>3. n <= Len(samples) /\ \A i \in 1 .. n : Seen(c)[i] = samples[i]
    BY DEF IInv, Follows, IsPrefix
  <1>4. \A i \in 1 .. n : samples[i] \in Nat
    BY <1>1, <1>2, <1>3, ElementOfSeq
  <1>5. /\ t \in Seq(Nat)
        /\ Len(t) = IF 1 <= n THEN n - 1 + 1 ELSE 0
        /\ \A i \in 1 .. n - 1 + 1 : t[i] = samples[1 + i - 1]
    BY <1>2, <1>4, SubSeqProperties
  <1> HIDE DEF t
  <1>6. Len(t) = n
    BY <1>2, <1>5
  <1>7. \A i \in 1 .. n : t[i] = samples[i]
    BY <1>2, <1>5
  <1>8. Seen(c) = t
    BY <1>1, <1>3, <1>5, <1>6, <1>7, SeqEqual
  <1>9. n \in 0 .. Len(samples)
    BY <1>2, <1>3
  <1> HIDE DEF n
  <1>10. Seen(c) = SubSeq(samples, 1, n)
    BY <1>8 DEF t
  <1> QED
    BY <1>9, <1>10, Zenon

\* The samples kept are a rising sequence, all of those measured when the
\* test is over, unless the live channel overflowed or the engine panicked.
LEMMA NothingElseLoses == IInv => OnlyOverflowOrPanicLoses
  <1> SUFFICES ASSUME IInv PROVE OnlyOverflowOrPanicLoses
    OBVIOUS
  <1>1. samples \in Seq(Nat) /\ live \in Seq(Nat)
    BY DEF IInv, TypeOK
  <1>2. /\ Len(samples) \in Nat /\ Len(live) \in Nat
        /\ DOMAIN samples = 1 .. Len(samples)
    BY <1>1, LenProperties
  <1>3. /\ Len(Queue) = Len(samples) + Len(live)
        /\ \A i \in 1 .. Len(samples) + Len(live) :
             Queue[i] = IF i <= Len(samples) THEN samples[i]
                                             ELSE live[i - Len(samples)]
    BY <1>1, ConcatProperties DEF Queue
  <1>4. ASSUME NEW i \in DOMAIN samples, NEW j \in DOMAIN samples, i < j
        PROVE  samples[i] < samples[j]
    <2>1. i \in 1 .. Len(Queue) /\ j \in 1 .. Len(Queue)
          /\ i <= Len(samples) /\ j <= Len(samples)
      BY <1>2, <1>3
    <2>2. Queue[i] = samples[i] /\ Queue[j] = samples[j]
      BY <1>3, <2>1
    <2> QED
      BY <1>4, <2>1, <2>2 DEF IInv, QueueRises
  <1>5. ASSUME Closed, ~overflowed, engine # "panicked"
        PROVE  Len(samples) = measured
    <2>1. live = << >>
      BY <1>5 DEF IInv, DriverAgrees, Closed
    <2>2. Len(Queue) = Len(samples)
      BY <1>2, <1>3, <2>1, EmptySeq
    <2> QED
      BY <1>5, <2>2 DEF IInv, QueueRises
  <1> QED
    BY <1>4, <1>5 DEF OnlyOverflowOrPanicLoses

\* Replay and live samples join without a gap, a dropped browser has lost a
\* tail, the sample rows are all of what was streamed or, when the test did
\* not measure, was cancelled or a write was refused, none, and only an
\* overflow or a panic loses a sample (speedtest_sink.go, livetest.go,
\* speedtest_sse.go, scheduler.go: handleSpeedTestResultWithSamples).
THEOREM StreamTellsTheTruth == Spec => []StreamIsFaithful
  <1>1. IInv => StreamIsFaithful
    <2> SUFFICES ASSUME IInv PROVE StreamIsFaithful
      OBVIOUS
    <2>1. ReplayIsLossless
      BY DEF IInv, TypeOK, Follows, ReplayIsLossless
    <2>2. WireIndexIsSampleIndex
      BY SeenIsPrefix DEF WireIndexIsSampleIndex
    <2>3. HistoryMatchesStream
      BY DEF IInv, TypeOK, StoreAgrees, Closed, HistoryMatchesStream
    <2>4. OnlyOverflowOrPanicLoses
      BY NothingElseLoses
    <2> QED
      BY <2>1, <2>2, <2>3, <2>4 DEF IInv, StreamIsFaithful
  <1> QED
    BY Invariant, <1>1, PTL

-----------------------------------------------------------------------------
(* The test button's stream.                                              *)

Tables == [sent : Nat, answered : {0, 1}]
Updates == [cycle : Nat, hops : Tables]
Finals == [result : Tables, failed : BOOLEAN]
Producers ==
  [stage : {"run", "send", "closeFinal", "closeUpdates", "done"},
   cycle : Nat, update : Updates \cup {Test!None}, result : Tables,
   failed : BOOLEAN]
Handlers ==
  [stage : {"select", "drain", "result", "done"}, listens : BOOLEAN,
   verdict : {Test!None, "up", "down"}]

TestTypes ==
  /\ kind \in {"traceroute", "speed"} /\ client \in {"here", "gone"}
  /\ producer \in Producers
  /\ updates \in [items : Seq(Updates), closed : BOOLEAN]
  /\ final \in [items : Seq(Finals), closed : BOOLEAN]
  /\ handler \in Handlers
  /\ wrote \in Seq(Updates)
  /\ parsed \in Seq(BOOLEAN)

\* The updates are closed by the producer's last step, and the handler writes
\* the result only when it has found them closed and empty.
ClosedIsLast ==
  /\ updates.closed => producer.stage = "done"
  /\ (\/ ~handler.listens
      \/ handler.stage = "result"
      \/ handler.stage = "done" /\ client = "here")
       => updates.closed /\ updates.items = <<>>

Ascending(s) == \A i, j \in DOMAIN s : i < j => s[i].cycle < s[j].cycle
AllBefore(s, n) == \A i \in DOMAIN s : s[i].cycle < n

\* What was sent comes before what waits in the channel, and that before what
\* the producer holds.
UpdatesInOrder ==
  /\ Ascending(wrote) /\ Ascending(updates.items)
  /\ \A j \in DOMAIN updates.items :
       AllBefore(wrote, updates.items[j].cycle)
  /\ AllBefore(wrote, producer.cycle)
  /\ AllBefore(updates.items, producer.cycle)
  /\ producer.stage = "send" =>
       producer.update \in Updates /\ producer.update.cycle = producer.cycle

\* As long as the client stays, what mtr has reported is with it, in the
\* channel, or in the producer's hands.
NothingIsLost ==
  (client = "here" /\ kind = "traceroute") =>
    Len(parsed) = Len(wrote) + Len(updates.items)
                    + IF producer.stage = "send" THEN 1 ELSE 0

TestIInv == TestTypes /\ ClosedIsLast /\ UpdatesInOrder /\ NothingIsLost

-----------------------------------------------------------------------------
\* An update that comes after all others can be appended.
LEMMA AppendAscends ==
  ASSUME NEW s \in Seq(Updates), NEW u \in Updates,
         Ascending(s), AllBefore(s, u.cycle)
  PROVE  Ascending(Append(s, u))
<1>1. /\ DOMAIN Append(s, u) = 1 .. Len(s) + 1 /\ Len(s) \in Nat
      /\ \A i \in 1 .. Len(s) : Append(s, u)[i] = s[i]
      /\ Append(s, u)[Len(s) + 1] = u
      /\ DOMAIN s = 1 .. Len(s)
  OBVIOUS
<1> HIDE DEF Updates
<1>2. SUFFICES ASSUME NEW i \in 1 .. Len(s) + 1, NEW j \in 1 .. Len(s) + 1,
                      i < j
               PROVE  Append(s, u)[i].cycle < Append(s, u)[j].cycle
  BY <1>1 DEF Ascending
<1>3. CASE j = Len(s) + 1
  BY <1>1, <1>2, <1>3 DEF AllBefore
<1>4. CASE j # Len(s) + 1
  BY <1>1, <1>2, <1>4 DEF Ascending
<1> QED
  BY <1>3, <1>4

\* What all precede, they precede with one more.
LEMMA AppendBefore ==
  ASSUME NEW s \in Seq(Updates), NEW u \in Updates, NEW n \in Nat,
         AllBefore(s, n), u.cycle < n
  PROVE  AllBefore(Append(s, u), n)
<1>1. /\ DOMAIN Append(s, u) = 1 .. Len(s) + 1 /\ Len(s) \in Nat
      /\ \A i \in 1 .. Len(s) : Append(s, u)[i] = s[i]
      /\ Append(s, u)[Len(s) + 1] = u
      /\ DOMAIN s = 1 .. Len(s)
  OBVIOUS
<1> QED
  BY <1>1 DEF AllBefore

\* The first of a rising sequence comes before what it leaves.
LEMMA TailAscends ==
  ASSUME NEW s \in Seq(Updates), s # <<>>, Ascending(s)
  PROVE  /\ Ascending(Tail(s)) /\ Head(s) \in Updates
         /\ Tail(s) \in Seq(Updates) /\ Len(Tail(s)) = Len(s) - 1
         /\ 1 \in DOMAIN s /\ s[1] = Head(s)
         /\ \A j \in DOMAIN Tail(s) :
              /\ j + 1 \in DOMAIN s /\ Tail(s)[j] = s[j + 1]
              /\ Head(s).cycle < Tail(s)[j].cycle
<1>1. /\ Tail(s) \in Seq(Updates) /\ Head(s) \in Updates
      /\ Len(s) \in Nat /\ Len(s) > 0 /\ Len(Tail(s)) = Len(s) - 1
      /\ DOMAIN s = 1 .. Len(s) /\ DOMAIN Tail(s) = 1 .. Len(s) - 1
      /\ \A j \in DOMAIN Tail(s) : Tail(s)[j] = s[j + 1]
      /\ s[1] = Head(s)
  OBVIOUS
<1> QED
  BY <1>1 DEF Ascending

\* A step of the producer, as far as the handler can tell.
LEMMA FinishStep ==
  ASSUME TestTypes, NEW result \in Tables, NEW failed \in BOOLEAN,
         Test!Finish(result, failed)
  PROVE  /\ final' \in [items : Seq(Finals), closed : BOOLEAN]
         /\ producer' \in Producers
         /\ producer'.stage = "closeFinal" /\ producer'.cycle = producer.cycle
<1> DEFINE value == [result |-> result, failed |-> failed]
<1>1. value \in Finals
  BY DEF Finals
<1> HIDE DEF value
<1>2. <<value>> \in Seq(Finals)
  BY <1>1
<1>3. final' = [final EXCEPT !.items = <<value>>]
  BY DEF Test!Finish, value
<1>4. final' \in [items : Seq(Finals), closed : BOOLEAN]
  BY <1>2, <1>3 DEF TestTypes
<1>5. producer' = [producer EXCEPT !.stage = "closeFinal",
                                   !.update = Test!None]
  BY DEF Test!Finish
<1>6. /\ producer' \in Producers
      /\ producer'.stage = "closeFinal" /\ producer'.cycle = producer.cycle
  BY <1>5 DEF TestTypes, Producers
<1> QED
  BY <1>4, <1>6

\* What the producer does before it finishes: it goes on to its next cycle
\* without an update, or has one for this cycle, reported if it is mtr's.
GoesOn ==
  /\ producer' \in Producers /\ producer'.stage = "run"
  /\ producer'.cycle = producer.cycle + 1
Offers ==
  /\ producer' \in Producers /\ producer'.stage = "send"
  /\ producer'.cycle = producer.cycle
  /\ producer'.update \in Updates
  /\ producer'.update.cycle = producer.cycle
Finishes ==
  /\ final' \in [items : Seq(Finals), closed : BOOLEAN]
  /\ producer' \in Producers
  /\ producer'.stage \in {"closeFinal", "closeUpdates", "done"}
  /\ producer'.cycle = producer.cycle

\* The producer's steps, each with the stage it begins in.
LEMMA ProducerSteps ==
  ASSUME TestTypes, Test!ProducerStep
  PROVE  /\ UNCHANGED <<kind, client, handler, wrote>>
         /\ \/ /\ producer.stage = "run" /\ GoesOn
               /\ UNCHANGED <<final, parsed, updates>>
            \/ /\ producer.stage = "run" /\ Offers
               /\ \/ kind = "speed" /\ parsed' = parsed
                  \/ \E answer \in BOOLEAN : parsed' = Append(parsed, answer)
               /\ UNCHANGED <<final, updates>>
            \/ /\ producer.stage = "run" /\ Finishes
               /\ UNCHANGED <<parsed, updates>>
            \/ /\ producer.stage = "send" /\ GoesOn
               /\ UNCHANGED <<final, parsed>>
               /\ updates' = [updates EXCEPT !.items =
                                Append(@, producer.update)]
            \/ /\ producer.stage = "send" /\ Test!Cancelled
               /\ \/ GoesOn /\ UNCHANGED final
                  \/ Finishes
               /\ UNCHANGED <<parsed, updates>>
            \/ /\ producer.stage = "closeFinal" /\ Finishes
               /\ UNCHANGED <<parsed, updates>>
            \/ /\ Finishes /\ producer'.stage = "done"
               /\ producer.stage = "closeUpdates"
               /\ updates' = [updates EXCEPT !.closed = TRUE]
               /\ UNCHANGED parsed
<1>0. /\ producer \in Producers /\ producer.cycle \in Nat
      /\ producer.result \in Tables /\ producer.failed \in BOOLEAN
      /\ final \in [items : Seq(Finals), closed : BOOLEAN]
  BY DEF TestTypes, Producers
<1>1. ASSUME NEW result \in Tables, NEW failed \in BOOLEAN,
             Test!Finish(result, failed)
      PROVE  Finishes
  BY <1>1, FinishStep DEF Finishes
<1>10. ASSUME producer' = [producer EXCEPT !.stage = "run", !.cycle = @ + 1,
                                           !.update = Test!None]
       PROVE  GoesOn
  <2> DEFINE next == producer.cycle + 1
  <2>1. next \in Nat
    BY <1>0
  <2>2. producer' = [producer EXCEPT !.stage = "run", !.cycle = next,
                                     !.update = Test!None]
    BY <1>0, <1>10
  <2> HIDE DEF next
  <2>3. producer' \in Producers /\ producer'.stage = "run"
        /\ producer'.cycle = next
    BY <1>0, <2>1, <2>2 DEF Producers
  <2> QED
    BY <2>3 DEF GoesOn, next
<1>11. ASSUME NEW f \in BOOLEAN, NEW n \in Nat, producer.stage = "run",
              producer' = [producer EXCEPT !.cycle = n, !.failed = f]
       PROVE  /\ producer' \in Producers /\ producer'.stage = "run"
              /\ producer'.cycle = n
  BY <1>0, <1>11 DEF Producers
<1>2. CASE Test!CyclesOver \/ Test!CycleCancelled
  BY <1>0, <1>1, <1>2 DEF Test!CyclesOver, Test!CycleCancelled
<1>3. CASE Test!Cycle
  <2>1. CASE Test!Finish(producer.result, TRUE) /\ UNCHANGED parsed
    BY <1>0, <1>1, <1>3, <2>1 DEF Test!Cycle
  <2>2. ASSUME NEW failed \in {producer.failed, TRUE},
               producer' = [producer EXCEPT !.cycle = @ + 1, !.failed = failed]
        PROVE  GoesOn
    <3> DEFINE next == producer.cycle + 1
    <3>0. failed \in BOOLEAN
      BY <1>0, Zenon
    <3>1. next \in Nat
      BY <1>0
    <3>2. producer' = [producer EXCEPT !.cycle = next, !.failed = failed]
      BY <1>0, <2>2
    <3>3. producer.stage = "run"
      BY <1>3 DEF Test!Cycle
    <3> HIDE DEF next
    <3>4. producer' \in Producers /\ producer'.stage = "run"
          /\ producer'.cycle = next
      BY <1>11, <3>0, <3>1, <3>2, <3>3, Zenon
    <3> QED
      BY <3>4 DEF GoesOn, next
  <2>3. ASSUME NEW answer \in BOOLEAN,
               producer' = [producer EXCEPT !.stage = "send",
                            !.result = Test!Report(answer), !.failed = FALSE,
                            !.update = [cycle |-> producer.cycle,
                                        hops |-> Test!Report(answer)]]
        PROVE  Offers
    <3>1. Test!Report(answer) \in Tables
      BY DEF Test!Report, Tables
    <3> DEFINE u == [cycle |-> producer.cycle, hops |-> Test!Report(answer)]
    <3>2. u \in Updates /\ u.cycle = producer.cycle
      BY <1>0, <3>1 DEF Updates
    <3> HIDE DEF u
    <3>3. producer' = [producer EXCEPT !.stage = "send",
                         !.result = Test!Report(answer), !.failed = FALSE,
                         !.update = u]
      BY <2>3 DEF u
    <3> QED
      BY <1>0, <3>1, <3>2, <3>3 DEF Offers, Producers
  <2> QED
    BY <1>3, <2>1, <2>2, <2>3 DEF Test!Cycle
<1>4. CASE Test!Sample
  <2> DEFINE u == [cycle |-> producer.cycle, hops |-> Test!NoTable]
  <2>1. u \in Updates /\ u.cycle = producer.cycle
    BY <1>0 DEF Updates, Test!NoTable, Tables
  <2> HIDE DEF u
  <2>2. producer' = [producer EXCEPT !.stage = "send", !.update = u]
    BY <1>4 DEF Test!Sample, u
  <2>3. Offers
    BY <1>0, <2>1, <2>2 DEF Offers, Producers
  <2> QED
    BY <1>4, <2>3 DEF Test!Sample
<1>5. CASE Test!EngineEnds
  <2>1. /\ [sent |-> 1, answered |-> 1] \in Tables /\ Test!NoTable \in Tables
    BY DEF Tables, Test!NoTable
  <2> QED
    BY <1>0, <1>1, <1>5, <2>1 DEF Test!EngineEnds
<1>6. CASE Test!Send
  <2>1. GoesOn
    BY <1>6, <1>10 DEF Test!Send
  <2> QED
    BY <1>6, <2>1 DEF Test!Send
<1>7. CASE Test!SendCancelled
  BY <1>0, <1>1, <1>7, <1>10 DEF Test!SendCancelled
<1>8. CASE Test!CloseFinal
  <2>1. Finishes
    BY <1>0, <1>8 DEF Test!CloseFinal, Finishes, Producers
  <2> QED
    BY <1>8, <2>1 DEF Test!CloseFinal
<1>9. CASE Test!CloseUpdates
  <2>1. Finishes /\ producer'.stage = "done"
    BY <1>0, <1>9 DEF Test!CloseUpdates, Finishes, Producers
  <2> QED
    BY <1>9, <2>1 DEF Test!CloseUpdates
<1> QED
  BY <1>2, <1>3, <1>4, <1>5, <1>6, <1>7, <1>8, <1>9 DEF Test!ProducerStep

\* The handler's and the client's: either one update is moved, or the channel
\* and what was sent stay as they are.
LEMMA HandlerSteps ==
  ASSUME TestTypes, Test!HandlerStep \/ Test!Leave \/ UNCHANGED Test!vars
  PROVE  /\ UNCHANGED <<kind, producer, parsed>>
         /\ final' \in [items : Seq(Finals), closed : BOOLEAN]
         /\ handler' \in Handlers
         /\ client' \in {"here", "gone"}
         /\ client = "gone" => client' = "gone"
         /\ \/ /\ UNCHANGED <<updates, wrote>>
               /\ \/ UNCHANGED handler
                  \/ client' = "gone" /\ handler'.listens = handler.listens
                     /\ handler'.stage = "done"
                  \/ /\ updates.items = <<>> /\ updates.closed
                  \/ /\ handler.listens /\ handler'.listens
                     /\ handler'.stage = "drain"
                  \/ /\ ~handler.listens /\ handler'.stage = "result"
                  \/ /\ handler.stage = "result"
            \/ /\ UNCHANGED handler
               /\ updates.items # <<>>
               /\ updates' = [updates EXCEPT !.items = Tail(@)]
               /\ wrote' = Append(wrote, Head(updates.items))
<1>0. /\ handler \in Handlers
      /\ final \in [items : Seq(Finals), closed : BOOLEAN]
  BY DEF TestTypes
<1>1. CASE Test!Leave \/ UNCHANGED Test!vars
  BY <1>0, <1>1 DEF Test!Leave, Test!vars, TestTypes
<1>2. ASSUME Test!Return
      PROVE  /\ handler' \in Handlers /\ handler'.stage = "done"
             /\ handler'.listens = handler.listens
  BY <1>0, <1>2 DEF Test!Return, Handlers
<1>3. CASE Test!ClientGone \/ Test!WriteResult
  BY <1>0, <1>2, <1>3 DEF Test!ClientGone, Test!WriteResult, TestTypes
<1>4. CASE Test!Receive
  BY <1>0, <1>4 DEF Test!Receive, TestTypes
<1>5. CASE Test!UpdatesClosed
  <2>1. handler' \in Handlers
    BY <1>0, <1>5 DEF Test!UpdatesClosed, Handlers
  <2> QED
    BY <1>0, <1>5, <2>1 DEF Test!UpdatesClosed, TestTypes
<1>6. CASE Test!ReceiveFinal
  <2>1. /\ final' = [final EXCEPT !.items = <<>>]
        /\ handler.stage = "select"
        /\ UNCHANGED <<kind, client, producer, updates, wrote, parsed>>
    BY <1>6 DEF Test!ReceiveFinal
  <2>2. final' \in [items : Seq(Finals), closed : BOOLEAN]
    <3>1. <<>> \in Seq(Finals)
      OBVIOUS
    <3> QED
      BY <1>0, <2>1, <3>1
  <2>3. PICK stage, verdict :
          /\ stage = IF handler.listens THEN "drain" ELSE "result"
          /\ verdict \in {"up", "down"}
          /\ handler' = [handler EXCEPT !.stage = stage, !.verdict = verdict]
    BY <1>6 DEF Test!ReceiveFinal, Test!Status
  <2>4. /\ handler' \in Handlers /\ handler'.listens = handler.listens
        /\ handler'.stage = stage
    BY <1>0, <2>3 DEF Handlers
  <2> QED
    BY <1>0, <2>1, <2>2, <2>3, <2>4 DEF TestTypes
<1> QED
  BY <1>1, <1>3, <1>4, <1>5, <1>6 DEF Test!HandlerStep

\* The parts of the channel record.
LEMMA ChannelParts ==
  ASSUME TestTypes
  PROVE  /\ updates.items \in Seq(Updates) /\ updates.closed \in BOOLEAN
         /\ Len(updates.items) \in Nat /\ Len(wrote) \in Nat
         /\ Len(parsed) \in Nat /\ producer.cycle \in Nat
         /\ \A q : [updates EXCEPT !.items = q].items = q
         /\ \A q : [updates EXCEPT !.items = q].closed = updates.closed
         /\ [updates EXCEPT !.closed = TRUE].items = updates.items
         /\ [updates EXCEPT !.closed = TRUE].closed
BY DEF TestTypes, Producers

\* One element more.
LEMMA AppendTypes ==
  ASSUME NEW S, NEW s \in Seq(S), NEW x \in S
  PROVE  Append(s, x) \in Seq(S) /\ Len(Append(s, x)) = Len(s) + 1
OBVIOUS

\* Updates are numbered.
LEMMA UpdateNumbers ==
  ASSUME NEW s \in Seq(Updates)
  PROVE  \A i \in DOMAIN s : s[i].cycle \in Nat
<1> TAKE i \in DOMAIN s
<1>1. s[i] \in Updates
  OBVIOUS
<1> QED
  BY <1>1 DEF Updates

\* A channel whose items are replaced, or that is closed, is a channel.
LEMMA ChannelTypes ==
  ASSUME TestTypes
  PROVE  /\ \A q \in Seq(Updates) :
              [updates EXCEPT !.items = q]
                \in [items : Seq(Updates), closed : BOOLEAN]
         /\ [updates EXCEPT !.closed = TRUE]
              \in [items : Seq(Updates), closed : BOOLEAN]
BY DEF TestTypes

\* Every step keeps the types.
LEMMA TestTypesStep ==
  ASSUME TestTypes, UpdatesInOrder, [Test!Next]_(Test!vars)
  PROVE  TestTypes'
<1>0. /\ producer \in Producers
      /\ updates \in [items : Seq(Updates), closed : BOOLEAN]
      /\ wrote \in Seq(Updates) /\ parsed \in Seq(BOOLEAN)
  BY DEF TestTypes
<1>1. CASE Test!ProducerStep
  <2>1. /\ UNCHANGED <<kind, client, handler, wrote>>
        /\ producer' \in Producers
        /\ final' \in [items : Seq(Finals), closed : BOOLEAN]
    BY <1>1, ProducerSteps DEF GoesOn, Offers, Finishes, TestTypes
  <2>2. parsed' \in Seq(BOOLEAN)
    <3>1. parsed' = parsed \/ \E answer \in BOOLEAN :
                                parsed' = Append(parsed, answer)
      BY <1>1, ProducerSteps
    <3>2. ASSUME NEW S, NEW s \in Seq(S), NEW x \in S
          PROVE  Append(s, x) \in Seq(S)
      OBVIOUS
    <3> QED
      BY <1>0, <3>1, <3>2, Zenon
  <2>3. updates' \in [items : Seq(Updates), closed : BOOLEAN]
    <3>1. \/ updates' = updates
          \/ /\ producer.stage = "send"
             /\ updates' = [updates EXCEPT !.items =
                              Append(@, producer.update)]
          \/ updates' = [updates EXCEPT !.closed = TRUE]
      BY <1>1, ProducerSteps
    <3>2. CASE producer.stage = "send" /\ updates' =
                 [updates EXCEPT !.items = Append(@, producer.update)]
      <4>1. producer.update \in Updates
        BY <3>2 DEF UpdatesInOrder
      <4> DEFINE q == Append(updates.items, producer.update)
      <4>2. q \in Seq(Updates)
        BY <4>1, ChannelParts, AppendTypes, Zenon
      <4>3. updates' = [updates EXCEPT !.items = q]
        BY <3>2
      <4> HIDE DEF q
      <4> QED
        BY <4>2, <4>3, ChannelTypes, Zenon
    <3>3. CASE updates' = [updates EXCEPT !.closed = TRUE]
      BY <3>3, ChannelTypes
    <3> QED
      BY <1>0, <3>1, <3>2, <3>3
  <2> QED
    BY <2>1, <2>2, <2>3, Zenon DEF TestTypes
<1>2. CASE Test!HandlerStep \/ Test!Leave \/ UNCHANGED Test!vars
  <2>1. /\ UNCHANGED <<kind, producer, parsed>>
        /\ final' \in [items : Seq(Finals), closed : BOOLEAN]
        /\ handler' \in Handlers /\ client' \in {"here", "gone"}
        /\ \/ UNCHANGED <<updates, wrote>>
           \/ /\ updates.items # <<>>
              /\ updates' = [updates EXCEPT !.items = Tail(@)]
              /\ wrote' = Append(wrote, Head(updates.items))
    BY <1>2, HandlerSteps
  <2>2. /\ updates' \in [items : Seq(Updates), closed : BOOLEAN]
        /\ wrote' \in Seq(Updates)
    <3>1. CASE /\ updates.items # <<>>
               /\ updates' = [updates EXCEPT !.items = Tail(@)]
               /\ wrote' = Append(wrote, Head(updates.items))
      <4>1. /\ Tail(updates.items) \in Seq(Updates)
            /\ Head(updates.items) \in Updates
        BY <3>1, ChannelParts, TailAscends DEF UpdatesInOrder
      <4>2. updates' = [updates EXCEPT !.items = Tail(updates.items)]
        BY <3>1
      <4>3. updates' \in [items : Seq(Updates), closed : BOOLEAN]
        BY <4>1, <4>2, ChannelTypes, Zenon
      <4>4. wrote' \in Seq(Updates)
        BY <1>0, <3>1, <4>1, AppendTypes, Zenon
      <4> QED
        BY <4>3, <4>4
    <3> QED
      BY <1>0, <2>1, <3>1
  <2> QED
    BY <2>1, <2>2, Zenon DEF TestTypes
<1> QED
  BY <1>1, <1>2 DEF Test!Next

\* Every step keeps the channel's end last.
LEMMA ClosedStep ==
  ASSUME TestTypes, ClosedIsLast, [Test!Next]_(Test!vars)
  PROVE  ClosedIsLast'
<1>1. CASE Test!ProducerStep
  <2>1. UNCHANGED <<handler, client>>
    BY <1>1, ProducerSteps
  <2>2. /\ updates.closed => FALSE
        /\ updates'.closed => producer'.stage = "done"
    <3>1. producer.stage # "done"
      BY <1>1, ProducerSteps
    <3>2. \/ updates'.closed = updates.closed
          \/ producer'.stage = "done"
      BY <1>1, ProducerSteps, ChannelParts
    <3> QED
      BY <3>1, <3>2 DEF ClosedIsLast
  <2> QED
    BY <2>1, <2>2 DEF ClosedIsLast
<1>2. CASE Test!HandlerStep \/ Test!Leave \/ UNCHANGED Test!vars
  <2>1. producer' = producer
    BY <1>2, HandlerSteps
  <2>2. CASE /\ UNCHANGED handler /\ updates.items # <<>>
             /\ updates' = [updates EXCEPT !.items = Tail(@)]
    <3>1. updates'.closed = updates.closed
      BY <2>2, ChannelParts
    <3>2. client' = "here" => client = "here"
      BY <1>2, HandlerSteps DEF TestTypes
    <3> QED
      BY <2>1, <2>2, <3>1, <3>2 DEF ClosedIsLast
  <2>3. CASE UNCHANGED updates
    <3>1. \/ UNCHANGED handler
          \/ client' = "gone" /\ handler'.listens = handler.listens
             /\ handler'.stage = "done"
          \/ /\ updates.items = <<>> /\ updates.closed
          \/ /\ handler.listens /\ handler'.listens
             /\ handler'.stage = "drain"
          \/ /\ ~handler.listens /\ handler'.stage = "result"
          \/ /\ handler.stage = "result"
      BY <1>2, <2>3, HandlerSteps
    <3>2. client' = "here" => client = "here"
      BY <1>2, HandlerSteps DEF TestTypes
    <3> QED
      BY <2>1, <2>3, <3>1, <3>2 DEF ClosedIsLast
  <2> QED
    BY <1>2, <2>2, <2>3, HandlerSteps
<1> QED
  BY <1>1, <1>2 DEF Test!Next

\* An update moves from the producer to the channel's end, and from its head
\* to the end of what was sent: the order stays.
LEMMA OrderStep ==
  ASSUME TestTypes, UpdatesInOrder, [Test!Next]_(Test!vars)
  PROVE  UpdatesInOrder'
<1>0. /\ wrote \in Seq(Updates) /\ updates.items \in Seq(Updates)
      /\ producer.cycle \in Nat
  BY ChannelParts DEF TestTypes
<1>1. CASE Test!ProducerStep
  <2>1. wrote' = wrote
    BY <1>1, ProducerSteps
  <2>2. producer'.cycle \in {producer.cycle, producer.cycle + 1}
    BY <1>1, ProducerSteps DEF GoesOn, Offers, Finishes
  <2>3. producer'.stage = "send" =>
          /\ producer'.update \in Updates
          /\ producer'.update.cycle = producer'.cycle
    BY <1>1, ProducerSteps DEF GoesOn, Offers, Finishes
  <2>4. /\ AllBefore(wrote, producer'.cycle)
        /\ AllBefore(updates.items, producer'.cycle)
    <3>1. /\ \A i \in DOMAIN wrote : wrote[i].cycle \in Nat
          /\ \A i \in DOMAIN updates.items : updates.items[i].cycle \in Nat
      BY <1>0, UpdateNumbers
    <3> QED
      BY <1>0, <2>2, <3>1 DEF UpdatesInOrder, AllBefore
  <2>5. CASE /\ producer.stage = "send" /\ GoesOn
             /\ updates' = [updates EXCEPT !.items =
                              Append(@, producer.update)]
    <3> DEFINE u == producer.update
               q == updates.items
    <3>1. u \in Updates /\ u.cycle = producer.cycle
      BY <2>5 DEF UpdatesInOrder
    <3>2. updates' = [updates EXCEPT !.items = Append(q, u)]
      BY <2>5
    <3> HIDE DEF u, q
    <3>3. updates'.items = Append(q, u)
      BY <3>2, ChannelParts
    <3>4. /\ q \in Seq(Updates) /\ Ascending(q) /\ AllBefore(q, u.cycle)
          /\ AllBefore(wrote, u.cycle)
          /\ \A j \in DOMAIN q : AllBefore(wrote, q[j].cycle)
      BY <1>0, <3>1 DEF UpdatesInOrder, q
    <3>5. Ascending(Append(q, u))
      BY <3>1, <3>4, AppendAscends
    <3>6. AllBefore(Append(q, u), producer'.cycle)
      <4>1. /\ producer'.cycle = producer.cycle + 1 /\ producer'.cycle \in Nat
            /\ u.cycle < producer'.cycle
        BY <1>0, <2>5, <3>1 DEF GoesOn
      <4>2. AllBefore(q, producer'.cycle)
        BY <2>4 DEF q
      <4> QED
        BY <3>1, <3>4, <4>1, <4>2, AppendBefore
    <3>7. \A j \in DOMAIN Append(q, u) :
            AllBefore(wrote, Append(q, u)[j].cycle)
      <4>1. /\ DOMAIN Append(q, u) = 1 .. Len(q) + 1 /\ Len(q) \in Nat
            /\ \A i \in 1 .. Len(q) : Append(q, u)[i] = q[i]
            /\ Append(q, u)[Len(q) + 1] = u /\ DOMAIN q = 1 .. Len(q)
        BY <3>4
      <4> QED
        BY <3>4, <4>1
    <3>8. producer'.stage # "send"
      BY <2>5 DEF GoesOn
    <3> QED
      BY <2>1, <2>4, <3>3, <3>5, <3>6, <3>7, <3>8 DEF UpdatesInOrder
  <2>6. CASE updates'.items = updates.items
    BY <2>1, <2>3, <2>4, <2>6 DEF UpdatesInOrder
  <2> QED
    BY <1>1, <2>5, <2>6, ProducerSteps, ChannelParts
<1>2. CASE Test!HandlerStep \/ Test!Leave \/ UNCHANGED Test!vars
  <2>1. producer' = producer
    BY <1>2, HandlerSteps
  <2>2. CASE UNCHANGED <<updates, wrote>>
    BY <2>1, <2>2 DEF UpdatesInOrder
  <2>3. CASE /\ updates.items # <<>>
             /\ updates' = [updates EXCEPT !.items = Tail(@)]
             /\ wrote' = Append(wrote, Head(updates.items))
    <3> DEFINE q == updates.items
    <3>1. updates' = [updates EXCEPT !.items = Tail(q)]
      BY <2>3
    <3> HIDE DEF q
    <3>2. updates'.items = Tail(q)
      BY <3>1, ChannelParts
    <3>3. q \in Seq(Updates) /\ q # <<>> /\ Ascending(q)
      BY <1>0, <2>3 DEF UpdatesInOrder, q
    <3>4. /\ Ascending(Tail(q)) /\ Head(q) \in Updates
          /\ Tail(q) \in Seq(Updates)
          /\ 1 \in DOMAIN q /\ q[1] = Head(q)
          /\ \A j \in DOMAIN Tail(q) :
               /\ j + 1 \in DOMAIN q /\ Tail(q)[j] = q[j + 1]
               /\ Head(q).cycle < Tail(q)[j].cycle
      BY <3>3, TailAscends
    <3>5. /\ Ascending(wrote) /\ AllBefore(wrote, producer.cycle)
          /\ AllBefore(q, producer.cycle)
          /\ \A j \in DOMAIN q : AllBefore(wrote, q[j].cycle)
      BY DEF UpdatesInOrder, q
    <3>6. AllBefore(wrote, Head(q).cycle) /\ Head(q).cycle < producer.cycle
      BY <3>4, <3>5 DEF AllBefore
    <3>7. wrote' = Append(wrote, Head(q))
      BY <2>3 DEF q
    <3>8. Ascending(wrote')
      BY <1>0, <3>4, <3>5, <3>6, <3>7, AppendAscends
    <3>9. AllBefore(wrote', producer.cycle)
      BY <1>0, <3>4, <3>5, <3>6, <3>7, AppendBefore
    <3>10. AllBefore(Tail(q), producer.cycle)
      BY <3>4, <3>5 DEF AllBefore
    <3>11. ASSUME NEW j \in DOMAIN Tail(q)
           PROVE  AllBefore(wrote', Tail(q)[j].cycle)
      <4>1. Tail(q)[j].cycle \in Nat
        <5>1. Tail(q)[j] \in Updates
          BY <3>4, <3>11
        <5> QED
          BY <5>1 DEF Updates
      <4>2. AllBefore(wrote, Tail(q)[j].cycle)
        BY <3>4, <3>5, <3>11
      <4> QED
        BY <1>0, <3>4, <3>7, <3>11, <4>1, <4>2, AppendBefore
    <3>12. producer.stage = "send" =>
             /\ producer.update \in Updates
             /\ producer.update.cycle = producer.cycle
      BY DEF UpdatesInOrder
    <3> QED
      BY <2>1, <3>2, <3>4, <3>8, <3>9, <3>10, <3>11, <3>12
      DEF UpdatesInOrder
  <2> QED
    BY <1>2, <2>2, <2>3, HandlerSteps
<1> QED
  BY <1>1, <1>2 DEF Test!Next

\* The producer gives up an update only when the request is over, and with
\* the client there it is over only after the producer's last step.
LEMMA NothingLostStep ==
  ASSUME TestTypes, ClosedIsLast, UpdatesInOrder, NothingIsLost,
         [Test!Next]_(Test!vars)
  PROVE  NothingIsLost'
<1>0. /\ Len(updates.items) \in Nat /\ Len(wrote) \in Nat
      /\ Len(parsed) \in Nat /\ wrote \in Seq(Updates)
      /\ updates.items \in Seq(Updates) /\ parsed \in Seq(BOOLEAN)
  BY ChannelParts DEF TestTypes
<1> DEFINE held == IF producer.stage = "send" THEN 1 ELSE 0
<1> SUFFICES ASSUME client' = "here", kind' = "traceroute"
             PROVE  Len(parsed') = Len(wrote') + Len(updates'.items) + held'
  BY DEF NothingIsLost
<1>1. CASE Test!ProducerStep
  <2>1. client = "here" /\ kind = "traceroute" /\ wrote' = wrote
    BY <1>1, ProducerSteps
  <2>2. Len(parsed) = Len(wrote) + Len(updates.items) + held
    BY <2>1 DEF NothingIsLost
  <2>3. ~(producer.stage = "send" /\ Test!Cancelled)
    BY <2>1 DEF ClosedIsLast, Test!Cancelled
  <2>4. CASE producer.stage = "run" /\ Offers
    <3>1. PICK answer \in BOOLEAN : parsed' = Append(parsed, answer)
      BY <1>1, <2>1, <2>4, ProducerSteps DEF Offers, GoesOn, Finishes
    <3>2. Len(parsed') = Len(parsed) + 1
      <4>1. ASSUME NEW S, NEW s \in Seq(S), NEW x \in S
            PROVE  Len(Append(s, x)) = Len(s) + 1
        OBVIOUS
      <4>2. parsed \in Seq(BOOLEAN) /\ answer \in BOOLEAN
        BY <1>0
      <4>3. Len(Append(parsed, answer)) = Len(parsed) + 1
        BY <4>1, <4>2, Zenon
      <4> QED
        BY <3>1, <4>3, Zenon
    <3>3. updates' = updates /\ producer'.stage = "send"
      BY <1>1, <2>4, ProducerSteps DEF Offers, GoesOn, Finishes
    <3>4. held = 0 /\ held' = 1
      BY <2>4, <3>3
    <3> HIDE DEF held
    <3> QED
      BY <1>0, <2>1, <2>2, <3>2, <3>3, <3>4
  <2>5. CASE /\ producer.stage = "send" /\ GoesOn /\ parsed' = parsed
             /\ updates' = [updates EXCEPT !.items =
                              Append(@, producer.update)]
    <3>1. updates'.items = Append(updates.items, producer.update)
      BY <2>5, ChannelParts
    <3>2. producer.update \in Updates
      BY <2>5 DEF UpdatesInOrder
    <3>3. Len(updates'.items) = Len(updates.items) + 1
      <4> DEFINE q == Append(updates.items, producer.update)
      <4>1. q \in Seq(Updates) /\ Len(q) = Len(updates.items) + 1
        BY <1>0, <3>2, AppendTypes, Zenon
      <4> QED
        BY <3>1, <4>1, Zenon
    <3> QED
      BY <1>0, <2>1, <2>2, <2>5, <3>3 DEF GoesOn
  <2>6. CASE /\ producer.stage # "send" /\ producer'.stage # "send"
             /\ parsed' = parsed /\ updates'.items = updates.items
    BY <2>1, <2>2, <2>6
  <2> QED
    BY <1>1, <2>3, <2>4, <2>5, <2>6, ProducerSteps, ChannelParts
    DEF GoesOn, Finishes
<1>2. CASE Test!HandlerStep \/ Test!Leave \/ UNCHANGED Test!vars
  <2>1. /\ producer' = producer /\ parsed' = parsed /\ kind = "traceroute"
        /\ client = "here"
    BY <1>2, HandlerSteps DEF TestTypes
  <2>2. Len(parsed) = Len(wrote) + Len(updates.items) + held
    BY <2>1 DEF NothingIsLost
  <2>3. CASE UNCHANGED <<updates, wrote>>
    BY <2>1, <2>2, <2>3
  <2>4. CASE /\ updates.items # <<>>
             /\ updates' = [updates EXCEPT !.items = Tail(@)]
             /\ wrote' = Append(wrote, Head(updates.items))
    <3>1. updates'.items = Tail(updates.items)
      BY <2>4, ChannelParts
    <3>2. /\ Head(updates.items) \in Updates
          /\ Len(Tail(updates.items)) = Len(updates.items) - 1
      BY <1>0, <2>4, TailAscends DEF UpdatesInOrder
    <3>3. Len(wrote') = Len(wrote) + 1
      <4> DEFINE q == Append(wrote, Head(updates.items))
      <4>1. q \in Seq(Updates) /\ Len(q) = Len(wrote) + 1
        BY <1>0, <3>2, AppendTypes, Zenon
      <4> QED
        BY <2>4, <4>1, Zenon
    <3>4. held' = held /\ held \in Nat
      BY <2>1
    <3> HIDE DEF held
    <3>5. /\ Len(parsed') = Len(parsed)
          /\ Len(updates'.items) = Len(updates.items) - 1
      BY <2>1, <3>1, <3>2, Zenon
    <3>6. ASSUME NEW w \in Nat, NEW u \in Nat, NEW h \in Nat
          PROVE  w + u + h = (w + 1) + (u - 1) + h
      OBVIOUS
    <3>7. Len(parsed') = (Len(wrote) + 1) + (Len(updates.items) - 1) + held
      BY <1>0, <2>2, <3>4, <3>5, <3>6, Zenon
    <3> QED
      BY <3>3, <3>4, <3>5, <3>7, Zenon
  <2> QED
    BY <1>2, <2>3, <2>4, HandlerSteps
<1> QED
  BY <1>1, <1>2 DEF Test!Next

\* The four parts hold in every state.
LEMMA TestInvariant == Test!Spec => []TestIInv
<1>1. Test!Init => TestIInv
  <2> SUFFICES ASSUME Test!Init PROVE TestIInv
    OBVIOUS
  <2>1. TestTypes
    <3>1. producer \in Producers
      BY DEF Test!Init, Producers, Test!NoTable, Tables
    <3>2. updates \in [items : Seq(Updates), closed : BOOLEAN]
      BY DEF Test!Init
    <3>3. final \in [items : Seq(Finals), closed : BOOLEAN]
      BY DEF Test!Init
    <3>4. handler \in Handlers
      BY DEF Test!Init, Handlers
    <3>5. wrote \in Seq(Updates) /\ parsed \in Seq(BOOLEAN)
      BY DEF Test!Init
    <3>6. kind \in {"traceroute", "speed"} /\ client \in {"here", "gone"}
      BY DEF Test!Init
    <3> QED
      BY <3>1, <3>2, <3>3, <3>4, <3>5, <3>6 DEF TestTypes
  <2>2. ClosedIsLast
    BY DEF Test!Init, ClosedIsLast
  <2>3. UpdatesInOrder
    BY DEF Test!Init, UpdatesInOrder, Ascending, AllBefore
  <2>4. NothingIsLost
    BY DEF Test!Init, NothingIsLost
  <2> QED
    BY <2>1, <2>2, <2>3, <2>4 DEF TestIInv
<1>2. TestIInv /\ [Test!Next]_(Test!vars) => TestIInv'
  BY TestTypesStep, ClosedStep, OrderStep, NothingLostStep DEF TestIInv
<1> QED
  BY <1>1, <1>2, PTL DEF Test!Spec

\* Whatever the number of cycles and the channel's capacity, a client that
\* stays has every update, in order, before the result.
THEOREM ResultIsLast == Test!Spec => []ResultComesLast
<1>1. TestIInv => ResultComesLast
  <2> SUFFICES ASSUME TestIInv, handler.stage = "done", client = "here"
               PROVE  /\ updates.items = <<>>
                      /\ \A i \in 1 .. Len(wrote) - 1 :
                           wrote[i].cycle < wrote[i + 1].cycle
                      /\ kind = "traceroute" => Len(wrote) = Len(parsed)
    BY DEF ResultComesLast, Test!ResultComesLast
  <2>1. updates.closed /\ updates.items = <<>> /\ producer.stage = "done"
    BY DEF TestIInv, ClosedIsLast
  <2>2. wrote \in Seq(Updates) /\ Ascending(wrote)
    BY DEF TestIInv, TestTypes, UpdatesInOrder
  <2>3. \A i \in 1 .. Len(wrote) - 1 : wrote[i].cycle < wrote[i + 1].cycle
    BY <2>2 DEF Ascending
  <2>4. kind = "traceroute" => Len(wrote) = Len(parsed)
    <3>1. Len(wrote) \in Nat /\ Len(updates.items) = 0
      BY <2>1, <2>2
    <3> QED
      BY <2>1, <3>1 DEF TestIInv, NothingIsLost
  <2> QED
    BY <2>1, <2>3, <2>4
<1> QED
  BY <1>1, TestInvariant, PTL

-----------------------------------------------------------------------------
(* The fleet.                                                              *)

\* A status is kept under an identifier.
StatusTypes == statuses = [i \in Ids |-> statuses[i]]

\* Every step keeps it.
LEMMA StatusTypesStay ==
  ASSUME StatusTypes, [Fleet!Next]_(Fleet!vars)
  PROVE  StatusTypes'
<1>1. \/ UNCHANGED statuses
      \/ \E f : statuses' = [i \in Ids |-> f[i]]
      \/ \E i \in Ids : \E status : statuses' = [statuses EXCEPT ![i] = status]
  <2>1. ASSUME NEW r \in Requests, NEW list \in Lists, Fleet!Update(r, list)
        PROVE  \E f : statuses' = [i \in Ids |-> f[i]]
    <3> DEFINE f == [i \in Ids |-> IF list[i] = Fleet!None THEN Fleet!NotPolled
                                                     ELSE statuses[i]]
    <3>1. statuses' = f /\ f = [i \in Ids |-> f[i]]
      BY <2>1 DEF Fleet!Update, Fleet!SetServers
    <3> QED
      BY <3>1
  <2> QED
    BY <2>1 DEF Fleet!Next, Fleet!vars, Fleet!Ticks, Fleet!Copy,
                Fleet!Answer, Fleet!Return
<1> QED
  BY <1>1 DEF StatusTypes

\* Whatever the lists: the only step that leaves a status with a server that
\* is not in the list is the answer of a poll that still waits for it.
LEMMA StatusStep ==
  ASSUME StatusTypes, [Fleet!Next]_(Fleet!vars), NEW i \in Ids,
         servers'[i] = Fleet!None, statuses'[i] # Fleet!NotPolled
  PROVE  \/ statuses'[i] = statuses[i] /\ servers[i] = Fleet!None
         \/ \E p \in Fleet!Pollers : polls[p].asked[i] # Fleet!None
<1>1. ASSUME NEW r \in Requests, NEW list \in Lists, Fleet!Update(r, list)
      PROVE  FALSE
  BY <1>1 DEF Fleet!Update, Fleet!SetServers
<1>2. ASSUME NEW p \in Fleet!Pollers, NEW j \in Ids, NEW online \in BOOLEAN,
             Fleet!Answer(p, j, online)
      PROVE  \/ statuses'[i] = statuses[i] /\ servers[i] = Fleet!None
             \/ \E q \in Fleet!Pollers : polls[q].asked[i] # Fleet!None
  <2>1. servers' = servers /\ polls[p].asked[j] # Fleet!None
    BY <1>2 DEF Fleet!Answer
  <2>2. CASE i # j
    <3>1. statuses'[i] = statuses[i]
      BY <1>2, <2>2 DEF Fleet!Answer, StatusTypes
    <3> QED
      BY <2>1, <3>1
  <2> QED
    BY <2>1, <2>2
<1>3. CASE UNCHANGED <<servers, statuses>>
  BY <1>3
<1> QED
  BY <1>1, <1>2, <1>3 DEF Fleet!Next, Fleet!vars,
                            Fleet!Ticks, Fleet!Copy, Fleet!Return

\* Statuses are kept under identifiers in every state.
LEMMA StatusInvariant == Fleet!Spec => []StatusTypes
<1>1. Fleet!Init => StatusTypes
  BY DEF Fleet!Init, StatusTypes
<1> QED
  BY <1>1, StatusTypesStay, PTL DEF Fleet!Spec

\* Whatever lists are saved while polls of older ones are under way, a status
\* that is kept without a server was there before, or is the answer a poll
\* that copied an older list has been waiting for.
THEOREM NoGhostStatus == Fleet!Spec => NoStatusOutlivesItsServer
<1>1. StatusTypes /\ [Fleet!Next]_(Fleet!vars) =>
        [\A i \in Ids :
           (servers'[i] = Fleet!None /\ statuses'[i] # Fleet!NotPolled)
             => \/ statuses'[i] = statuses[i] /\ servers[i] = Fleet!None
                \/ \E p \in Fleet!Pollers :
                     polls[p].asked[i] # Fleet!None]_(Fleet!vars)
  BY StatusStep
<1> QED
  BY <1>1, StatusInvariant, PTL
     DEF Fleet!Spec, NoStatusOutlivesItsServer,
         Fleet!NoStatusOutlivesItsServer
=============================================================================
