-------------------------- MODULE CheckTestStream ---------------------------
(***************************************************************************)
(* The Test button's live stream (api/service_check_test_stream.go): a     *)
(* producer goroutine (RunStreamingMTR or RunStreamingSpeedTest) and the   *)
(* handler, joined by a buffered channel of updates, a channel with one    *)
(* final value, and the request's context, which ends when the client goes *)
(* away or the handler returns.  The producer closes "final" first.        *)
(***************************************************************************)
EXTENDS Naturals, Sequences

CONSTANTS
  Cycles,      \* one mtr run each, or one speed sample
  Buffer       \* the capacity of updates

VARIABLES
  kind,        \* "traceroute" or "speed"
  client,      \* "here" or "gone"
  producer,    \* [stage, cycle, update, result, failed]
  updates,     \* the channel: [items, closed]
  final,       \* the channel: [items, closed]
  handler,     \* [stage, listens, verdict]
  wrote,       \* the updates the client has been sent
  parsed       \* the final hop's answers, one per cycle mtr has reported

vars == <<kind, client, producer, updates, final, handler, wrote, parsed>>

None == "none"
NoTable == [sent |-> 0, answered |-> 0]

Init ==
  /\ kind \in {"traceroute", "speed"}
  /\ client = "here"
  /\ producer = [stage |-> "run", cycle |-> 1, update |-> None,
                 result |-> NoTable, failed |-> FALSE]
  /\ updates = [items |-> <<>>, closed |-> FALSE]
  /\ final = updates
  /\ handler = [stage |-> "select", listens |-> TRUE, verdict |-> None]
  /\ wrote = <<>> /\ parsed = <<>>

Cancelled == client = "gone" \/ handler.stage = "done"

-----------------------------------------------------------------------------
(* The producer.                                                           *)

\* The one value, then both channels close.
Finish(result, failed) ==
  /\ final' = [final EXCEPT
                 !.items = <<[result |-> result, failed |-> failed]>>]
  /\ producer' = [producer EXCEPT !.stage = "closeFinal", !.update = None]

\* The table mtr prints of one cycle.
Report(answer) == [sent |-> 1, answered |-> IF answer THEN 1 ELSE 0]

\* mtr has run once more: it fails, or says nothing the parser understands, or
\* reports one cycle.
Cycle ==
  /\ kind = "traceroute" /\ producer.stage = "run"
  /\ producer.cycle <= Cycles /\ ~Cancelled
  /\ \/ Finish(producer.result, TRUE) /\ UNCHANGED parsed
     \/ \E failed \in {producer.failed, TRUE} :   \* empty, or noise
          /\ producer' = [producer EXCEPT !.cycle = @ + 1, !.failed = failed]
          /\ UNCHANGED <<final, parsed>>
     \/ \E answer \in BOOLEAN :
          /\ producer' = [producer EXCEPT !.stage = "send",
                            !.result = Report(answer), !.failed = FALSE,
                            !.update = [cycle |-> producer.cycle,
                                        hops |-> Report(answer)]]
          /\ parsed' = Append(parsed, answer)
          /\ UNCHANGED final
  /\ UNCHANGED <<kind, client, updates, handler, wrote>>

\* A cancelled context is seen before the next cycle, or kills the running one.
CycleCancelled ==
  /\ kind = "traceroute" /\ producer.stage = "run"
  /\ producer.cycle <= Cycles /\ Cancelled
  /\ Finish(producer.result, TRUE)
  /\ UNCHANGED <<kind, client, updates, handler, wrote, parsed>>

CyclesOver ==
  /\ kind = "traceroute" /\ producer.stage = "run" /\ producer.cycle > Cycles
  /\ Finish(producer.result, producer.failed)
  /\ UNCHANGED <<kind, client, updates, handler, wrote, parsed>>

\* The engine measures a sample ...
Sample ==
  /\ kind = "speed" /\ producer.stage = "run" /\ producer.cycle <= Cycles
  /\ producer' = [producer EXCEPT !.stage = "send",
                    !.update = [cycle |-> producer.cycle, hops |-> NoTable]]
  /\ UNCHANGED <<kind, client, updates, final, handler, wrote, parsed>>

\* ... and ends with a result or an error.
EngineEnds ==
  /\ kind = "speed" /\ producer.stage = "run"
  /\ \/ producer.cycle > Cycles /\ ~Cancelled
        /\ Finish([sent |-> 1, answered |-> 1], FALSE)
     \/ Finish(NoTable, TRUE)
  /\ UNCHANGED <<kind, client, updates, handler, wrote, parsed>>

\* select: the update goes into the channel ...
Send ==
  /\ producer.stage = "send" /\ Len(updates.items) < Buffer
  /\ updates' = [updates EXCEPT !.items = Append(@, producer.update)]
  /\ producer' = [producer EXCEPT !.stage = "run", !.cycle = @ + 1,
                    !.update = None]
  /\ UNCHANGED <<kind, client, final, handler, wrote, parsed>>

\* ... or the request is over: mtr's run ends, the engine's goes on to its
\* next sample.
SendCancelled ==
  /\ producer.stage = "send" /\ Cancelled
  /\ IF kind = "traceroute" THEN Finish(producer.result, TRUE)
     ELSE /\ producer' = [producer EXCEPT !.stage = "run", !.cycle = @ + 1,
                            !.update = None]
          /\ UNCHANGED final
  /\ UNCHANGED <<kind, client, updates, handler, wrote, parsed>>

CloseFinal ==
  /\ producer.stage = "closeFinal"
  /\ final' = [final EXCEPT !.closed = TRUE]
  /\ producer' = [producer EXCEPT !.stage = "closeUpdates"]
  /\ UNCHANGED <<kind, client, updates, handler, wrote, parsed>>

CloseUpdates ==
  /\ producer.stage = "closeUpdates"
  /\ updates' = [updates EXCEPT !.closed = TRUE]
  /\ producer' = [producer EXCEPT !.stage = "done"]
  /\ UNCHANGED <<kind, client, final, handler, wrote, parsed>>

-----------------------------------------------------------------------------
(* The handler.                                                            *)

Leave ==
  /\ client = "here" /\ client' = "gone"
  /\ UNCHANGED <<kind, producer, updates, final, handler, wrote, parsed>>

Return == handler' = [handler EXCEPT !.stage = "done"]

\* A heartbeat or an event that cannot be written, or the request's context.
ClientGone ==
  /\ handler.stage \in {"select", "drain", "result"} /\ client = "gone"
  /\ Return
  /\ UNCHANGED <<kind, client, producer, updates, final, wrote, parsed>>

\* Both the loop and the drain take an update and write it.
Receive ==
  /\ handler.stage \in {"select", "drain"} /\ handler.listens
  /\ updates.items # <<>>
  /\ updates' = [updates EXCEPT !.items = Tail(@)]
  /\ wrote' = Append(wrote, Head(updates.items))
  /\ UNCHANGED <<kind, client, producer, final, handler, parsed>>

\* Closed: the loop forgets the channel, the drain is over.
UpdatesClosed ==
  /\ handler.stage \in {"select", "drain"} /\ handler.listens
  /\ updates.items = <<>> /\ updates.closed
  /\ handler' = IF handler.stage = "select"
                  THEN [handler EXCEPT !.listens = FALSE]
                  ELSE [handler EXCEPT !.stage = "result"]
  /\ UNCHANGED <<kind, client, producer, updates, final, wrote, parsed>>

\* RunCheck of the final value: an error or nothing is down, and so is a
\* target whose final hop has not answered.
Status(fin) ==
  IF fin.failed \/ fin.result.answered = 0 THEN "down" ELSE "up"

\* Mutant: what is still in the channel is left there.
ReceiveFinalUndrained ==
  /\ handler.stage = "select" /\ final.items # <<>>
  /\ final' = [final EXCEPT !.items = <<>>]
  /\ handler' = [handler EXCEPT !.stage = "result",
                   !.verdict = Status(Head(final.items))]
  /\ UNCHANGED <<kind, client, producer, updates, wrote, parsed>>

\* The final value; what is left of the updates is drained before the result,
\* unless the loop has seen them closed.
ReceiveFinal ==
  /\ handler.stage = "select" /\ final.items # <<>>
  /\ final' = [final EXCEPT !.items = <<>>]
  /\ handler' = [handler EXCEPT
                   !.stage = IF handler.listens THEN "drain" ELSE "result",
                   !.verdict = Status(Head(final.items))]
  /\ UNCHANGED <<kind, client, producer, updates, wrote, parsed>>

\* The result and the end event.
WriteResult ==
  /\ handler.stage = "result" /\ client = "here"
  /\ Return
  /\ UNCHANGED <<kind, client, producer, updates, final, wrote, parsed>>

ProducerStep ==
  \/ Cycle \/ CycleCancelled \/ CyclesOver \/ Sample \/ EngineEnds
  \/ Send \/ SendCancelled \/ CloseFinal \/ CloseUpdates

HandlerStep ==
  ClientGone \/ Receive \/ UpdatesClosed \/ ReceiveFinal \/ WriteResult

Next == ProducerStep \/ HandlerStep \/ Leave

Spec == Init /\ [][Next]_vars

\* Both goroutines run; mtr and the engine end.  A client need not leave.
FairSpec == Spec /\ WF_vars(ProducerStep) /\ WF_vars(HandlerStep)

-----------------------------------------------------------------------------
(* Properties.                                                             *)

\* The handler returns and the producer with it, whoever stops first and
\* whichever channel is found closed or full: no stream hangs on a channel
\* that will never speak, and no goroutine is left at one nobody reads.
BothEnd == <>(handler.stage = "done" /\ producer.stage = "done")

\* A client that stays has been sent every update, in order, before the
\* result, although select may find the final value before the updates.
ResultComesLast ==
  (handler.stage = "done" /\ client = "here")
    => /\ updates.items = <<>>
       /\ \A i \in 1 .. Len(wrote) - 1 : wrote[i].cycle < wrote[i + 1].cycle
       /\ kind = "traceroute" => Len(wrote) = Len(parsed)
=============================================================================
