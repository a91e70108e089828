------------------------ MODULE ScanIntervalsProofs -------------------------
(***************************************************************************)
(* Proofs about ScanIntervals, for any number of requests, subsystems,     *)
(* cadences and saves: a loop that will not be told again ticks at the     *)
(* dispatcher's pace, and a save that overlapped no other leaves the       *)
(* stored overrides in force.                                              *)
(*                                                                         *)
(* A value on its way to the dispatcher or the ticker is a cadence, so a   *)
(* send always leaves the channel full; and while a save is alone it is    *)
(* the only request that is not idle.                                      *)
(***************************************************************************)
EXTENDS ScanIntervals, TLAPS, WellFoundedInduction

\* What the loop received is a cadence.
CarriedIsCadence ==
  loop.at \in {"received", "pushing", "rebuilding"} => loop.value \in Intervals

\* A save that overlapped no other is the only one under way, its blob is
\* the stored one, and once it has updated the dispatcher the overrides are
\* the stored ones.
AloneIsInForce ==
  alone =>
    /\ \A p, q \in Savers :
         (saver[p].at # "idle" /\ saver[q].at # "idle") => p = q
    /\ \A p \in Savers : saver[p].at # "idle" => saver[p].blob = stored
    /\ \A p \in Savers :
         saver[p].at \in {"updated", "read"} => raw = stored.raw
    /\ (\A p \in Savers : saver[p].at = "idle") => raw = stored.raw

IInv == TypeOK /\ CarriedIsCadence /\ AloneIsInForce /\ TickerIsFastest

\* A cadence, or 0.
Cadences == Intervals \cup {0}

\* The places of a request, and its states.
Places == {"idle", "persisted", "sent", "set", "updated", "read"}

SaverStates == [at : Places, blob : Blobs, value : Cadences]

\* Request p moves to state r and the other requests stay where they are.
Moves(p, r) ==
  /\ saver' \in [Savers -> SaverStates]
  /\ saver'[p] = r
  /\ \A q \in Savers \ {p} : saver'[q] = saver[q]

-----------------------------------------------------------------------------
(* The fastest interval.                                                   *)

\* A set of naturals that is not empty has its minimum.
LEMMA MinOfNaturals ==
  ASSUME NEW S, S \subseteq Nat, S # {}
  PROVE  Min(S) \in S /\ \A y \in S : Min(S) =< y
  <1>1. \E x \in S : \A y \in S : ~ (<<y, x>> \in OpToRel(<, Nat))
    BY NatLessThanWellFounded, WFMin, Zenon
  <1>2. PICK x \in S : \A y \in S : ~ (<<y, x>> \in OpToRel(<, Nat))
    BY <1>1, Zenon
  <1>3. ASSUME NEW y \in S
        PROVE  x =< y
    <2>1. x \in Nat /\ y \in Nat
      OBVIOUS
    <2>2. ~ (y < x)
      BY <1>2, <2>1, Zenon DEF OpToRel
    <2> QED
      BY <2>1, <2>2
  <1>4. \E m \in S : \A y \in S : m =< y
    BY <1>3
  <1> QED
    BY <1>4 DEF Min

\* The dispatcher's fastest interval is a cadence.
LEMMA FastestIsCadence ==
  ASSUME global \in Intervals, raw \in [Subsystems -> Intervals \cup {0}]
  PROVE  FastestInterval \in Intervals
  <1> DEFINE S == {global} \cup {Effective(n) : n \in Subsystems}
  <1>1. \A n \in Subsystems : Effective(n) \in Intervals
    BY DEF Effective
  <1>2. S \subseteq Intervals /\ S # {}
    BY <1>1
  <1>3. S \subseteq Nat
    BY <1>2, IntervalsAssumption
  <1> HIDE DEF S
  <1>4. Min(S) \in S
    BY <1>2, <1>3, MinOfNaturals
  <1>5. Min(S) \in Intervals
    BY <1>2, <1>4
  <1> QED
    BY <1>5 DEF FastestInterval, S

\* It changes only with the global interval and the overrides.
LEMMA FastestUnchanged ==
  ASSUME UNCHANGED dispatcher
  PROVE  FastestInterval' = FastestInterval
  BY DEF dispatcher, FastestInterval, Effective

\* A send leaves the channel with a cadence in it.
LEMMA SendFills ==
  ASSUME NEW d \in Intervals \cup {0}, restart \in Intervals \cup {0}, Send(d)
  PROVE  restart' \in Intervals
  BY IntervalsAssumption DEF Send

-----------------------------------------------------------------------------
(* Types.                                                                  *)

\* The boot path leaves values of their types.
LEMMA TypeInit == Init => TypeOK /\ CarriedIsCadence
  <1> SUFFICES ASSUME Init PROVE TypeOK /\ CarriedIsCadence
    OBVIOUS
  <1>1. stored \in Blobs
        /\ stored.raw \in [Subsystems -> Intervals \cup {0}]
    BY DEF Init, Blobs
  <1>2. global \in Intervals /\ raw \in [Subsystems -> Intervals \cup {0}]
        /\ interval \in Intervals \cup {0}
    BY <1>1, IntervalsAssumption DEF Init, Global
  <1>3. FastestInterval \in Intervals
    BY <1>2, FastestIsCadence
  <1>4. IdleSaver \in [at : {"idle", "persisted", "sent", "set", "updated",
                            "read"},
                      blob : Blobs, value : Intervals \cup {0}]
    BY DEF IdleSaver, Blobs
  <1>5. TypeOK
    BY <1>1, <1>2, <1>3, <1>4 DEF Init, TypeOK
  <1>6. CarriedIsCadence
    BY DEF Init, CarriedIsCadence, IdleSaver
  <1> QED
    BY <1>5, <1>6

-----------------------------------------------------------------------------
(* What a request's step does to the requests.                             *)

\* What a request holds is of its type.
LEMMA SaverFields ==
  ASSUME TypeOK, NEW p \in Savers
  PROVE  /\ saver[p] \in SaverStates
         /\ saver[p].at \in Places
         /\ saver[p].blob \in Blobs
         /\ saver[p].blob.scan \in Cadences
         /\ saver[p].blob.raw \in [Subsystems -> Cadences]
         /\ saver[p].value \in Cadences
  <1>1. saver[p] \in SaverStates
    BY DEF TypeOK, SaverStates, Places, Cadences
  <1>2. saver[p].blob \in Blobs
    BY <1>1 DEF SaverStates
  <1> QED
    BY <1>1, <1>2 DEF SaverStates, Blobs, Cadences

\* A request moves to the state it is given.
LEMMA Replaced ==
  ASSUME TypeOK, NEW p \in Savers, NEW r \in SaverStates,
         saver' = [saver EXCEPT ![p] = r]
  PROVE  Moves(p, r)
  <1>1. saver \in [Savers -> SaverStates]
    BY DEF TypeOK, SaverStates, Places, Cadences
  <1> QED
    BY <1>1 DEF Moves

\* A step between two places keeps the blob and the value read.
LEMMA Stepped ==
  ASSUME TypeOK, NEW p \in Savers, NEW from, NEW to \in Places,
         Step(p, from, to)
  PROVE  Moves(p, [at |-> to, blob |-> saver[p].blob,
                   value |-> saver[p].value])
  <1> DEFINE r == [at |-> to, blob |-> saver[p].blob, value |-> saver[p].value]
  <1>1. r \in SaverStates
    BY SaverFields DEF SaverStates
  <1>2. saver[p] = [at |-> saver[p].at, blob |-> saver[p].blob,
                    value |-> saver[p].value]
    BY SaverFields DEF SaverStates
  <1>3. [saver[p] EXCEPT !.at = to] = r
    BY <1>2
  <1>4. saver' = [saver EXCEPT ![p] = r]
    BY <1>3 DEF Step
  <1> QED
    BY <1>1, <1>4, Replaced

\* A step that reads a cadence keeps the blob.
LEMMA Reads ==
  ASSUME TypeOK, NEW p \in Savers, NEW to \in Places, NEW v \in Cadences,
         saver' = [saver EXCEPT
                     ![p] = [at |-> to, blob |-> @.blob, value |-> v]]
  PROVE  Moves(p, [at |-> to, blob |-> saver[p].blob, value |-> v])
  BY SaverFields, Replaced DEF SaverStates

-----------------------------------------------------------------------------
(* Types are kept.                                                         *)

\* What the steps of a request leave alone, or change, is of its type.
LEMMA SaverTypes ==
  ASSUME TypeOK, CarriedIsCadence, NEW p \in Savers,
         SaverStep(p) \/ \E b \in Blobs : Persist(p, b)
  PROVE  TypeOK' /\ CarriedIsCadence'
  <1> USE SaverFields
  <1>l. loop' = loop /\ ticker' = ticker
    BY DEF SaverStep, SendGlobal, SetInterval, UpdateIntervals, ReadFastest,
           SendFastest, Persist
  <1>1. ASSUME NEW b \in Blobs, Persist(p, b)
        PROVE  TypeOK' /\ CarriedIsCadence'
    <2>1. Moves(p, [at |-> "persisted", blob |-> b, value |-> 0])
      BY <1>1, Replaced DEF Persist, SaverStates, Places, Cadences
    <2>2. alone' \in BOOLEAN
      BY <1>1, Zenon DEF Persist
    <2>3. saves' \in Nat
      BY <1>1 DEF Persist, TypeOK
    <2>4. TypeOK'
      BY <1>1, <1>l, <2>1, <2>2, <2>3
      DEF Persist, Moves, dispatcher, TypeOK, SaverStates, Places, Cadences
    <2>5. CarriedIsCadence'
      BY <1>l, <2>1 DEF Moves, CarriedIsCadence
    <2> QED
      BY <2>4, <2>5
  <1>2. CASE SendGlobal(p)
    <2>1. Moves(p, [at |-> "sent", blob |-> saver[p].blob,
                    value |-> saver[p].value])
      BY <1>2, Stepped DEF SendGlobal, Places
    <2>2. restart' \in Intervals
      BY <1>2, SendFills DEF SendGlobal, TypeOK, Cadences
    <2>3. TypeOK'
      BY <1>2, <1>l, <2>1, <2>2
      DEF SendGlobal, Moves, dispatcher, history, TypeOK, SaverStates, Places,
          Cadences
    <2>4. CarriedIsCadence'
      BY <1>l, <2>1 DEF Moves, CarriedIsCadence
    <2> QED
      BY <2>3, <2>4
  <1>3. CASE SetInterval(p)
    <2> DEFINE g == IF saver[p].blob.scan > 0 THEN saver[p].blob.scan
                                              ELSE interval
    <2>1. g \in Cadences
      BY DEF TypeOK, Cadences
    <2> HIDE DEF g
    <2>2. interval' = g
          /\ saver' = [saver EXCEPT
                         ![p] = [at |-> "set", blob |-> @.blob, value |-> g]]
      BY <1>3 DEF SetInterval, g
    <2>3. Moves(p, [at |-> "set", blob |-> saver[p].blob, value |-> g])
      BY <2>1, <2>2, Reads DEF Places, Cadences
    <2>4. TypeOK'
      BY <1>3, <1>l, <2>1, <2>2, <2>3
      DEF SetInterval, Moves, dispatcher, history, TypeOK, SaverStates, Places,
          Cadences
    <2>5. CarriedIsCadence'
      BY <1>l, <2>1, <2>3 DEF Moves, CarriedIsCadence
    <2> QED
      BY <2>4, <2>5
  <1>4. CASE UpdateIntervals(p)
    <2>1. Moves(p, [at |-> "updated", blob |-> saver[p].blob,
                    value |-> saver[p].value])
      BY <1>4, Stepped DEF UpdateIntervals, Places
    <2>2. Global(saver[p].value) \in Intervals
      BY IntervalsAssumption DEF Global, Cadences
    <2>3. TypeOK'
      BY <1>4, <1>l, <2>1, <2>2
      DEF UpdateIntervals, Moves, history, TypeOK, SaverStates, Places,
          Cadences
    <2>4. CarriedIsCadence'
      BY <1>l, <2>1, <2>2 DEF Moves, CarriedIsCadence
    <2> QED
      BY <2>3, <2>4
  <1>5. CASE ReadFastest(p)
    <2>1. FastestInterval \in Intervals
      BY FastestIsCadence DEF TypeOK
    <2>2. Moves(p, [at |-> "read", blob |-> saver[p].blob,
                    value |-> FastestInterval])
      BY <1>5, <2>1, Reads DEF ReadFastest, Places, Cadences
    <2>3. TypeOK'
      BY <1>5, <1>l, <2>2
      DEF ReadFastest, Moves, dispatcher, history, TypeOK, SaverStates, Places,
          Cadences
    <2>4. CarriedIsCadence'
      BY <1>l, <2>1, <2>2 DEF Moves, CarriedIsCadence
    <2> QED
      BY <2>3, <2>4
  <1>6. CASE SendFastest(p)
    <2>1. Moves(p, IdleSaver)
      BY <1>6, Replaced
      DEF SendFastest, IdleSaver, SaverStates, Places, Cadences, Blobs
    <2>2. restart' \in Intervals
      BY <1>6, SendFills DEF SendFastest, TypeOK, Cadences
    <2>3. TypeOK'
      BY <1>6, <1>l, <2>1, <2>2
      DEF SendFastest, Moves, dispatcher, history, TypeOK, SaverStates, Places,
          Cadences
    <2>4. CarriedIsCadence'
      BY <1>l, <2>1 DEF Moves, CarriedIsCadence, IdleSaver
    <2> QED
      BY <2>3, <2>4
  <1> QED
    BY <1>1, <1>2, <1>3, <1>4, <1>5, <1>6 DEF SaverStep

\* So is what the main loop changes.
LEMMA LoopTypes ==
  ASSUME TypeOK, CarriedIsCadence, Loop
  PROVE  TypeOK' /\ CarriedIsCadence'
  <1> DEFINE LoopStates == [at : {"waiting", "scanning", "received", "pushing",
                                  "rebuilding"}, value : Cadences]
  <1>s. loop \in LoopStates /\ loop.value \in Cadences
    BY DEF TypeOK, Cadences
  <1>u. UNCHANGED <<stored, saver, history>>
    BY DEF Loop, Tick, ScanEnds, Receive, Compare, PushGlobal, Rebuild
  <1>1. CASE Tick \/ ScanEnds
    <2>1. loop' \in LoopStates
          /\ loop'.at \in {"waiting", "scanning"}
      BY <1>1, <1>s DEF Tick, ScanEnds, LoopStep
    <2>2. TypeOK'
      BY <1>1, <1>u, <2>1 DEF Tick, ScanEnds, dispatcher, history, TypeOK,
                              Cadences
    <2>3. CarriedIsCadence'
      BY <1>u, <2>1 DEF CarriedIsCadence
    <2> QED
      BY <2>2, <2>3
  <1>2. CASE Receive
    <2>1. TypeOK'
      BY <1>2, <1>u DEF Receive, dispatcher, history, TypeOK
    <2>2. CarriedIsCadence'
      BY <1>2, <1>u DEF Receive, CarriedIsCadence, TypeOK
    <2> QED
      BY <2>1, <2>2
  <1>3. CASE Compare
    <2>1. loop' \in LoopStates /\ loop'.value = loop.value
          /\ loop.at = "received"
      BY <1>3, <1>s DEF Compare, LoopStep
    <2>2. TypeOK'
      BY <1>3, <1>u, <2>1 DEF Compare, dispatcher, history, TypeOK, Cadences
    <2>3. CarriedIsCadence'
      BY <1>u, <2>1 DEF CarriedIsCadence
    <2> QED
      BY <2>2, <2>3
  <1>4. CASE PushGlobal
    <2>1. loop' \in LoopStates /\ loop'.value = loop.value
          /\ loop.at = "pushing"
      BY <1>4, <1>s DEF PushGlobal, LoopStep
    <2>2. loop.value \in Intervals
      BY <2>1 DEF CarriedIsCadence
    <2>3. TypeOK'
      BY <1>4, <1>u, <2>1, <2>2 DEF PushGlobal, history, TypeOK, Cadences
    <2>4. CarriedIsCadence'
      BY <1>u, <2>1, <2>2 DEF CarriedIsCadence
    <2> QED
      BY <2>3, <2>4
  <1>5. CASE Rebuild
    <2>1. FastestInterval \in Intervals
      BY FastestIsCadence DEF TypeOK
    <2>2. TypeOK'
      BY <1>5, <1>u, <2>1 DEF Rebuild, dispatcher, history, TypeOK
    <2>3. CarriedIsCadence'
      BY <1>5, <1>u DEF Rebuild, CarriedIsCadence
    <2> QED
      BY <2>2, <2>3
  <1> QED
    BY <1>1, <1>2, <1>3, <1>4, <1>5 DEF Loop

-----------------------------------------------------------------------------
(* The ticker.                                                             *)

\* A request's step either leaves the fastest interval and the channel be,
\* or is about to send, or has filled the channel.
LEMMA SaverKeepsTicker ==
  ASSUME TypeOK, CarriedIsCadence, TickerIsFastest, NEW p \in Savers,
         SaverStep(p) \/ \E b \in Blobs : Persist(p, b)
  PROVE  TickerIsFastest'
  <1> USE SaverFields
  <1>l. loop' = loop /\ ticker' = ticker
    BY DEF SaverStep, SendGlobal, SetInterval, UpdateIntervals, ReadFastest,
           SendFastest, Persist
  <1>0. ASSUME NEW r \in SaverStates, Moves(p, r), UNCHANGED restart,
               UNCHANGED dispatcher, saver[p].at \notin {"updated", "read"}
        PROVE  TickerIsFastest'
    <2>1. FastestInterval' = FastestInterval
      BY <1>0, FastestUnchanged
    <2>2. (\A q \in Savers : saver'[q].at \notin {"updated", "read"})
            => \A q \in Savers : saver[q].at \notin {"updated", "read"}
      BY <1>0 DEF Moves
    <2> QED
      BY <1>0, <1>l, <2>1, <2>2 DEF TickerIsFastest
  <1>1. ASSUME NEW b \in Blobs, Persist(p, b)
        PROVE  TickerIsFastest'
    <2> DEFINE r == [at |-> "persisted", blob |-> b, value |-> 0]
    <2>1. r \in SaverStates /\ Moves(p, r)
      BY <1>1, Replaced DEF Persist, SaverStates, Places, Cadences
    <2> HIDE DEF r
    <2> QED
      BY <1>0, <1>1, <2>1 DEF Persist, dispatcher
  <1>2. CASE SendGlobal(p) \/ SendFastest(p)
    <2>1. restart' \in Intervals
      BY <1>2, SendFills DEF SendGlobal, SendFastest, TypeOK, Cadences
    <2> QED
      BY <2>1, IntervalsAssumption DEF TickerIsFastest
  <1>3. CASE SetInterval(p)
    <2> DEFINE g == IF saver[p].blob.scan > 0 THEN saver[p].blob.scan
                                              ELSE interval
               r == [at |-> "set", blob |-> saver[p].blob, value |-> g]
    <2>1. g \in Cadences
      BY DEF TypeOK, Cadences
    <2>2. saver' = [saver EXCEPT
                     ![p] = [at |-> "set", blob |-> @.blob, value |-> g]]
      BY <1>3 DEF SetInterval
    <2> HIDE DEF g
    <2>3. r \in SaverStates /\ Moves(p, r)
      BY <2>1, <2>2, Reads DEF SaverStates, Places, Cadences
    <2> HIDE DEF r
    <2> QED
      BY <1>0, <1>3, <2>3 DEF SetInterval, dispatcher
  <1>4. CASE UpdateIntervals(p)
    <2>1. Moves(p, [at |-> "updated", blob |-> saver[p].blob,
                    value |-> saver[p].value])
      BY <1>4, Stepped DEF UpdateIntervals, Places
    <2> QED
      BY <2>1 DEF Moves, TickerIsFastest
  <1>5. CASE ReadFastest(p)
    <2>1. FastestInterval \in Intervals
      BY FastestIsCadence DEF TypeOK
    <2>2. Moves(p, [at |-> "read", blob |-> saver[p].blob,
                    value |-> FastestInterval])
      BY <1>5, <2>1, Reads DEF ReadFastest, Places, Cadences
    <2> QED
      BY <2>2 DEF Moves, TickerIsFastest
  <1> QED
    BY <1>1, <1>2, <1>3, <1>4, <1>5 DEF SaverStep

\* The loop leaves its places of rest when it takes a value, and comes back
\* with a new ticker.
LEMMA LoopKeepsTicker ==
  ASSUME TypeOK, TickerIsFastest, Loop
  PROVE  TickerIsFastest'
  <1>s. loop = [at |-> loop.at, value |-> loop.value]
    BY DEF TypeOK
  <1>1. CASE Tick \/ ScanEnds
    <2>1. FastestInterval' = FastestInterval
      BY <1>1, FastestUnchanged DEF Tick, ScanEnds
    <2> QED
      BY <1>1, <2>1 DEF Tick, ScanEnds, LoopStep, TickerIsFastest
  <1>2. CASE Receive \/ Compare \/ PushGlobal
    BY <1>2, <1>s DEF Receive, Compare, PushGlobal, LoopStep, TickerIsFastest
  <1>3. CASE Rebuild
    <2>1. FastestInterval' = FastestInterval
      BY <1>3, FastestUnchanged DEF Rebuild
    <2> QED
      BY <1>3, <2>1 DEF Rebuild, TickerIsFastest
  <1> QED
    BY <1>1, <1>2, <1>3 DEF Loop

-----------------------------------------------------------------------------
(* The overrides.                                                          *)

\* A request's step keeps what is said of a save that is alone.
LEMMA SaverKeepsAlone ==
  ASSUME TypeOK, CarriedIsCadence, AloneIsInForce, NEW p \in Savers,
         SaverStep(p) \/ \E b \in Blobs : Persist(p, b)
  PROVE  AloneIsInForce'
  <1> USE SaverFields
  <1>1. ASSUME NEW b \in Blobs, Persist(p, b)
        PROVE  AloneIsInForce'
    <2> SUFFICES ASSUME alone' PROVE AloneIsInForce'
      BY DEF AloneIsInForce
    <2>1. Moves(p, [at |-> "persisted", blob |-> b, value |-> 0])
      BY <1>1, Replaced DEF Persist, SaverStates, Places, Cadences
    <2>2. \A q \in Savers : saver[q].at = "idle"
      BY <1>1, Zenon DEF Persist
    <2>3. stored' = b
      BY <1>1 DEF Persist
    <2> QED
      BY <2>1, <2>2, <2>3 DEF Moves, AloneIsInForce
  <1>2. ASSUME SaverStep(p), ~alone
        PROVE  AloneIsInForce'
    <2>1. alone' = alone
      BY <1>2 DEF SaverStep, SendGlobal, SetInterval, UpdateIntervals,
                  ReadFastest, SendFastest, history
    <2> QED
      BY <1>2, <2>1, Zenon DEF AloneIsInForce
  <1>3. ASSUME SaverStep(p), alone
        PROVE  AloneIsInForce'
    <2>u. stored' = stored /\ alone' = alone
      BY <1>3 DEF SaverStep, SendGlobal, SetInterval, UpdateIntervals,
                  ReadFastest, SendFastest, history
    <2>n. saver[p].at # "idle"
      BY <1>3 DEF SaverStep, SendGlobal, SetInterval, UpdateIntervals,
                  ReadFastest, SendFastest, Step
    <2>p. saver[p].blob = stored
      BY <1>3, <2>n DEF AloneIsInForce
    <2>i. \A q \in Savers \ {p} : saver[q].at = "idle"
      BY <1>3, <2>n DEF AloneIsInForce
    \* It is enough that the request keeps its blob, and that the overrides
    \* are the stored ones by the time it has updated the dispatcher.
    <2>e. ASSUME NEW r, Moves(p, r),
                 r.at # "idle" => r.blob = stored,
                 r.at \in {"updated", "read", "idle"} => raw' = stored.raw
          PROVE  AloneIsInForce'
      BY <2>e, <2>u, <2>i DEF Moves, AloneIsInForce
    <2>1. CASE SendGlobal(p)
      <3> DEFINE r == [at |-> "sent", blob |-> saver[p].blob,
                       value |-> saver[p].value]
      <3>1. Moves(p, r)
        BY <2>1, Stepped DEF SendGlobal, Places
      <3> QED
        BY <2>e, <2>p, <3>1
    <2>2. CASE SetInterval(p)
      <3> DEFINE g == IF saver[p].blob.scan > 0 THEN saver[p].blob.scan
                                                ELSE interval
                 r == [at |-> "set", blob |-> saver[p].blob, value |-> g]
      <3>1. g \in Cadences
        BY IntervalsAssumption DEF TypeOK, Cadences
      <3>2. saver' = [saver EXCEPT
                       ![p] = [at |-> "set", blob |-> @.blob, value |-> g]]
        BY <2>2 DEF SetInterval
      <3> HIDE DEF g
      <3>3. Moves(p, r)
        BY <3>1, <3>2, Reads DEF Places
      <3> QED
        BY <2>e, <2>p, <3>3
    <2>3. CASE UpdateIntervals(p)
      <3> DEFINE r == [at |-> "updated", blob |-> saver[p].blob,
                       value |-> saver[p].value]
      <3>1. Moves(p, r)
        BY <2>3, Stepped DEF UpdateIntervals, Places
      <3>2. raw' = stored.raw
        BY <2>3, <2>p DEF UpdateIntervals
      <3> QED
        BY <2>e, <2>p, <3>1, <3>2
    <2>4. CASE ReadFastest(p)
      <3> DEFINE r == [at |-> "read", blob |-> saver[p].blob,
                       value |-> FastestInterval]
      <3>1. FastestInterval \in Cadences
        BY FastestIsCadence DEF TypeOK, Cadences
      <3>2. Moves(p, r)
        BY <2>4, <3>1, Reads DEF ReadFastest, Places
      <3>3. raw' = stored.raw
        BY <1>3, <2>4 DEF ReadFastest, dispatcher, AloneIsInForce
      <3> HIDE DEF r
      <3>4. r.at = "read" /\ r.blob = saver[p].blob
        BY DEF r
      <3> QED
        BY <2>e, <2>p, <3>2, <3>3, <3>4
    <2>5. CASE SendFastest(p)
      <3>1. Moves(p, IdleSaver) /\ IdleSaver.at = "idle"
        BY <2>5, Replaced
        DEF SendFastest, IdleSaver, SaverStates, Places, Cadences, Blobs
      <3>2. raw' = stored.raw
        BY <1>3, <2>5 DEF SendFastest, dispatcher, AloneIsInForce
      <3> QED
        BY <2>e, <3>1, <3>2
    <2> QED
      BY <1>3, <2>1, <2>2, <2>3, <2>4, <2>5 DEF SaverStep
  <1> QED
    BY <1>1, <1>2, <1>3

\* The loop never changes the overrides.
LEMMA LoopKeepsAlone ==
  ASSUME AloneIsInForce, Loop
  PROVE  AloneIsInForce'
  <1>1. UNCHANGED <<stored, raw, saver, alone>>
    BY DEF Loop, Tick, ScanEnds, Receive, Compare, PushGlobal, Rebuild,
           dispatcher, history
  <1> QED
    BY <1>1, Zenon DEF AloneIsInForce

-----------------------------------------------------------------------------
(* The theorems.                                                           *)

\* The boot path establishes the inductive invariant.
LEMMA InvInit == Init => IInv
  <1> SUFFICES ASSUME Init PROVE IInv
    OBVIOUS
  <1>1. AloneIsInForce
    BY DEF Init, AloneIsInForce, IdleSaver
  <1>2. TickerIsFastest
    BY DEF Init, TickerIsFastest
  <1> QED
    BY <1>1, <1>2, TypeInit DEF IInv

\* Every step of a request or of the loop keeps it.
LEMMA InvNext == IInv /\ [Next]_vars => IInv'
  <1> SUFFICES ASSUME IInv, [Next]_vars PROVE IInv'
    OBVIOUS
  <1>1. CASE Loop
    BY <1>1, LoopTypes, LoopKeepsTicker, LoopKeepsAlone DEF IInv
  <1>2. ASSUME NEW p \in Savers,
               SaverStep(p) \/ \E b \in Blobs : Persist(p, b)
        PROVE  IInv'
    BY <1>2, SaverTypes, SaverKeepsTicker, SaverKeepsAlone DEF IInv
  <1>3. CASE UNCHANGED vars
    <2>1. FastestInterval' = FastestInterval
      BY <1>3, FastestUnchanged DEF vars
    <2> QED
      BY <1>3, <2>1
      DEF vars, dispatcher, history, IInv, TypeOK, CarriedIsCadence,
          AloneIsInForce, TickerIsFastest
  <1> QED
    BY <1>1, <1>2, <1>3 DEF Next

\* The inductive invariant holds throughout.
THEOREM Invariant == Spec => []IInv
  BY InvInit, InvNext, PTL DEF Spec

\* Every value stays of its type: no cadence in force is ever zero, whatever
\* blob is saved.
THEOREM TypeCorrect == Spec => []TypeOK
  <1>1. IInv => TypeOK
    BY DEF IInv
  <1> QED
    BY <1>1, Invariant, PTL

\* No dropped send leaves the loop on an old ticker while the channel is
\* empty and nobody is about to send, for any number of racing saves.
THEOREM TickerFollows == Spec => []TickerIsFastest
  <1>1. IInv => TickerIsFastest
    BY DEF IInv
  <1> QED
    BY <1>1, Invariant, PTL

\* A save that overlapped no other leaves the stored overrides in force.
THEOREM OverridesHold == Spec => []OverridesStick
  <1>1. IInv => OverridesStick
    BY DEF IInv, AloneIsInForce, OverridesStick
  <1> QED
    BY <1>1, Invariant, PTL
=============================================================================
