-------------------------- MODULE LinkRuntimeProofs -------------------------
(***************************************************************************)
(* Safety of the link emulator's loop for every configuration, any number  *)
(* of packets and any faults: the internal errors its parts would raise    *)
(* (a refused enqueue, an event clock that moves backwards, a socket made  *)
(* non-blocking by a zero timeout) never occur.                            *)
(***************************************************************************)
EXTENDS LinkRuntime, FiniteSetTheorems, SequenceTheorems,
        WellFoundedInduction, TLAPS

(* No event is counted yet.                                                *)
LEMMA ZeroType == ZeroStatistics \in [CountedTypes -> Nat]
  BY DEF ZeroStatistics

(* Whatever the sink takes, emitting keeps the types of the stream.        *)
LEMMA EmitType ==
  ASSUME TypeOK, NEW notes, NEW t \in Nat, NEW k \in Nat, Emit(notes, t, k)
  PROVE  /\ eventIndex' \in Nat
         /\ statistics' \in [CountedTypes -> Nat]
         /\ lastElapsed' \in Int
         /\ start' \in Nat
         /\ recording' = recording
<1>1. eventIndex' \in Nat /\ lastElapsed' \in Int /\ start' \in Nat
  BY DEF Emit, TypeOK
<1>2. \A type \in CountedTypes : Cardinality({i \in 1..k : notes[i].type = type}) \in Nat
  <2> TAKE type \in CountedTypes
  <2>1. IsFiniteSet(1..k)
    BY FS_Interval
  <2>2. IsFiniteSet({i \in 1..k : notes[i].type = type})
    BY <2>1, FS_Subset
  <2> QED
    BY <2>2, FS_CardinalityType
<1>3. statistics' \in [CountedTypes -> Nat]
  BY <1>2 DEF Emit, TypeOK
<1>4. recording' = recording
  BY DEF Emit, Write
<1> QED
  BY <1>1, <1>3, <1>4

(* How many events the sink takes is a natural number.                     *)
LEMMA SinkTakesNat ==
  ASSUME NEW n \in Nat, NEW k \in SinkOutcomes(n)
  PROVE  k \in Nat
  BY DEF SinkOutcomes

(* One or two notes for a delivery that goes out.                           *)
LEMMA ForwardNotesFinite ==
  ASSUME NEW d
  PROVE  Len(ForwardNotes(d)) \in Nat
  BY DEF ForwardNotes, Optional, Note

(* What a handler has to say of a packet, before it is numbered.           *)
PacketNote == [type : CountedTypes, packet : Nat, detail : Int]

(* The notes of a packet form a sequence.                                  *)
LEMMA OutcomeNotesType ==
  ASSUME NEW o \in Outcomes, NEW p \in Nat
  PROVE  OutcomeNotes(o, p) \in Seq(PacketNote)
<1>1. o.copies \in Nat /\ o.corrupted \in BOOLEAN /\ o.delay \in Nat
  BY OutcomesAssumption
<1>2. \A type \in CountedTypes, detail \in Int : Note(type, p, detail) \in PacketNote
  BY DEF Note, PacketNote
<1>3. [c \in 1..o.copies |-> Note("delivery_scheduled", p, c - 1)] \in Seq(PacketNote)
  <2>1. \A c \in 1..o.copies : c - 1 \in Int
    BY <1>1
  <2>2. \A c \in 1..o.copies : Note("delivery_scheduled", p, c - 1) \in PacketNote
    BY <1>2, <2>1 DEF CountedTypes
  <2>3. [c \in 1..o.copies |-> Note("delivery_scheduled", p, c - 1)]
          \in [1..o.copies -> PacketNote]
    BY <2>2
  <2>4. [1..o.copies -> PacketNote] \subseteq UNION {[1..n -> PacketNote] : n \in Nat}
    BY <1>1, Zenon
  <2> QED
    BY <2>3, <2>4, SeqDef, Zenon
<1>4. \A note \in PacketNote : <<note>> \in Seq(PacketNote)
  OBVIOUS
<1>5. /\ Optional(o.copies = 2, Note("packet_duplicated", p, None)) \in Seq(PacketNote)
      /\ Optional(o.corrupted, Note("packet_corrupted", p, None)) \in Seq(PacketNote)
      /\ Optional(o.delay > 0, Note("packet_delayed", p, None)) \in Seq(PacketNote)
      /\ <<Note("packet_received", p, None)>> \in Seq(PacketNote)
      /\ <<Note("packet_dropped", p, None)>> \in Seq(PacketNote)
  <2>1. None \in Int
    BY DEF None
  <2>2. /\ Note("packet_duplicated", p, None) \in PacketNote
        /\ Note("packet_corrupted", p, None) \in PacketNote
        /\ Note("packet_delayed", p, None) \in PacketNote
        /\ Note("packet_received", p, None) \in PacketNote
        /\ Note("packet_dropped", p, None) \in PacketNote
    BY <1>2, <2>1 DEF CountedTypes
  <2>3. <<>> \in Seq(PacketNote)
    OBVIOUS
  <2> QED
    BY <1>4, <2>2, <2>3, Zenon DEF Optional
<1>6. OutcomeNotes(o, p) \in Seq(PacketNote)
  BY <1>3, <1>5, ConcatProperties DEF OutcomeNotes
<1> QED
  BY <1>6

(* So their number is a natural number.                                    *)
LEMMA OutcomeNotesFinite ==
  ASSUME NEW o \in Outcomes, NEW p \in Nat
  PROVE  Len(OutcomeNotes(o, p)) \in Nat
  BY OutcomeNotesType, LenProperties

(* What the scheduler is given has the type of a delivery.                 *)
LEMMA DeliveriesType ==
  ASSUME NEW o \in Outcomes, NEW p \in Nat, NEW t \in Nat
  PROVE  Deliveries(o, p, t) \subseteq Delivery
<1>1. o.copies \in 0..2 /\ o.delay \in Nat /\ o.hold \in Nat
  BY OutcomesAssumption
<1> QED
  BY <1>1 DEF Deliveries, Delivery

-----------------------------------------------------------------------------
(* Every set of natural numbers that is not empty has a least element.     *)
LEMMA LeastNat ==
  ASSUME NEW T \in SUBSET Nat, T # {}
  PROVE  \E m \in T : \A n \in T : m <= n
<1>1. PICK m \in T : \A n \in T : ~(<<n, m>> \in OpToRel(<, Nat))
  BY NatLessThanWellFounded, WFMin
<1>2. \A n \in T : ~(n < m)
  BY <1>1 DEF OpToRel
<1> QED
  BY <1>2

(* The heap's key has no infinite descent, so what is ready has a first.   *)
LEMMA FirstIsMember ==
  ASSUME NEW S \in SUBSET Delivery, S # {}
  PROVE  First(S) \in S /\ \A e \in S : ~Before(e, First(S))
<1> DEFINE Dues     == {d.due : d \in S}
           Soonest(t)  == {d \in S : d.due = t}
           Packets(t)  == {d.packet : d \in Soonest(t)}
           Oldest(t, p) == {d \in Soonest(t) : d.packet = p}
           Copies(t, p) == {d.copy : d \in Oldest(t, p)}
<1>1. PICK t \in Dues : \A u \in Dues : t <= u
  <2>1. Dues \in SUBSET Nat /\ Dues # {}
    BY DEF Delivery
  <2> QED
    BY <2>1, LeastNat
<1>2. PICK p \in Packets(t) : \A q \in Packets(t) : p <= q
  <2>1. Packets(t) \in SUBSET Nat /\ Packets(t) # {}
    BY <1>1 DEF Delivery
  <2> QED
    BY <2>1, LeastNat
<1>3. PICK c \in Copies(t, p) : \A b \in Copies(t, p) : c <= b
  <2>1. Copies(t, p) \in SUBSET Nat /\ Copies(t, p) # {}
    BY <1>2 DEF Delivery
  <2> QED
    BY <2>1, LeastNat
<1>4. PICK d \in S : d.due = t /\ d.packet = p /\ d.copy = c
  BY <1>3
<1>5. \A e \in S : ~Before(e, d)
  BY <1>1, <1>2, <1>3, <1>4 DEF Before, Delivery
<1>6. \E least \in S : \A e \in S : ~Before(e, least)
  BY <1>4, <1>5
<1> QED
  BY <1>6, Zenon DEF First
-----------------------------------------------------------------------------
(* Every variable of the link emulator keeps its type, whatever arrives,   *)
(* fails or stops it.                                                      *)
THEOREM TypeCorrect == Spec => []TypeOK
<1> USE BoundsAssumption, OutcomesAssumption
<1>1. Init => TypeOK
  <2> SUFFICES ASSUME Init PROVE TypeOK
    OBVIOUS
  <2>1. /\ statistics \in [CountedTypes -> Nat]
        /\ pending \subseteq Delivery /\ ready \subseteq Delivery /\ reordered \subseteq Nat
    BY ZeroType DEF Init
  <2>2. highest \in Nat \cup {-1} /\ highestForwarded \in Nat \cup {-1}
    BY DEF Init
  <2>3. /\ isOpen \in BOOLEAN /\ stop \in BOOLEAN
        /\ draining \in BOOLEAN /\ releaseHolds \in BOOLEAN /\ recording \in BOOLEAN
    BY DEF Init
  <2>4. phase \in Phases /\ ending \in {"none", "stopped", "drained", "failed"}
    BY DEF Init, Phases
  <2>5. /\ now \in Nat /\ nowNs \in Nat /\ start \in Nat
        /\ inbox \in Nat /\ limit \in Nat /\ received \in Nat /\ runs \in Nat
        /\ packetIndex \in Nat /\ eventIndex \in Nat /\ lastElapsed \in Int
    BY DEF Init
  <2> QED
    BY <2>1, <2>2, <2>3, <2>4, <2>5 DEF TypeOK
<1>2. TypeOK /\ [Next]_vars => TypeOK'
  <2> SUFFICES ASSUME TypeOK, [Next]_vars PROVE TypeOK'
    OBVIOUS
  <2>1. CASE CallerCloses
    <3>1. recording' \in BOOLEAN
      BY <2>1 DEF CallerCloses, TypeOK, file
    <3> QED
      BY <2>1, <3>1 DEF CallerCloses, TypeOK, Phases, scheduler, forwarder, stream, loop
  <2>2. CASE StopSeen
    BY <2>2 DEF StopSeen, TypeOK, Phases, scheduler, forwarder, stream, file, loop
  <2>3. CASE PopReady
    <3>1. ready' \subseteq Delivery /\ pending' \subseteq Delivery
      BY <2>3 DEF PopReady, ReadyAt, TypeOK
    <3> QED
      BY <2>3, <3>1 DEF PopReady, TypeOK, Phases, forwarder, stream, file, loop
  <2>4. CASE SendNext
    <3> DEFINE d == First(ready)
               notes == ForwardNotes(d)
    <3>1. PICK k \in SinkOutcomes(Len(notes)) :
            /\ Emit(notes, nowNs, k)
            /\ highestForwarded' = IF Overtaken(d) /\ k = 0
                                   THEN highestForwarded
                                   ELSE Greater(highestForwarded, d.packet)
            /\ IF k = Len(notes)
               THEN UNCHANGED <<phase, ending>>
               ELSE phase' = "finally" /\ ending' = "failed"
      BY <2>4 DEF SendNext
    <3>2. k \in Nat
      BY ForwardNotesFinite, SinkTakesNat
    <3>3. /\ eventIndex' \in Nat /\ lastElapsed' \in Int /\ start' \in Nat
          /\ statistics' \in [CountedTypes -> Nat] /\ recording' = recording
      BY <3>1, <3>2, EmitType DEF TypeOK
    <3>4. ready # {} => d \in ready
      BY <2>4, FirstIsMember DEF TypeOK
    <3>5. d \in Delivery
      BY <2>4, <3>4 DEF SendNext, TypeOK
    <3>6. highestForwarded' \in Nat \cup {-1}
      BY <3>1, <3>5 DEF Greater, Delivery, TypeOK
    <3>7. reordered' \subseteq Nat /\ ready' \subseteq Delivery
      BY <2>4, <3>5 DEF SendNext, Delivery, TypeOK
    <3>8. phase' \in Phases /\ ending' \in {"none", "stopped", "drained", "failed"}
      BY <3>1 DEF TypeOK, Phases
    <3> QED
      BY <2>4, <3>3, <3>6, <3>7, <3>8 DEF SendNext, TypeOK, scheduler, loop
  <2>5. CASE SendFails
    BY <2>5 DEF SendFails, TypeOK, Phases, scheduler, forwarder, stream, file, loop
  <2>6. CASE DrainDone
    BY <2>6 DEF DrainDone, TypeOK, Phases, scheduler, forwarder, stream, file, loop
  <2>7. CASE DrainSleeps
    BY <2>7 DEF DrainSleeps, TypeOK, Phases, scheduler, forwarder, stream, file, loop
  <2>8. CASE BlockInReceive
    BY <2>8 DEF BlockInReceive, TypeOK, Phases, scheduler, forwarder, stream, file, loop
  <2>9. CASE ReceiveTimesOut
    BY <2>9 DEF ReceiveTimesOut, TypeOK, Phases, scheduler, forwarder, stream, file, loop
  <2>10. ASSUME NEW o \in Outcomes, Receive(o) PROVE TypeOK'
    <3> DEFINE notes == OutcomeNotes(o, packetIndex)
               newReceived == received + 1
    <3>1. PICK k \in SinkOutcomes(Len(notes)) :
            /\ Emit(notes, now, k)
            /\ IF k = Len(notes) /\ packetIndex > highest
               THEN /\ highest' = packetIndex
                    /\ pending' = pending \cup Deliveries(o, packetIndex, now)
                    /\ received' = received + 1
                    /\ draining' = LimitReached(received')
                    /\ releaseHolds' = (releaseHolds \/ draining')
                    /\ phase' = "loop"
                    /\ UNCHANGED ending
               ELSE /\ phase' = "finally" /\ ending' = "failed"
                    /\ UNCHANGED <<highest, pending, received, draining, releaseHolds>>
      BY <2>10 DEF Receive
    <3>2. packetIndex \in Nat /\ now \in Nat
      BY DEF TypeOK
    <3>3. k \in Nat
      BY <3>2, OutcomeNotesFinite, SinkTakesNat
    <3>4. /\ eventIndex' \in Nat /\ lastElapsed' \in Int /\ start' \in Nat
          /\ statistics' \in [CountedTypes -> Nat] /\ recording' = recording
      BY <3>1, <3>2, <3>3, EmitType
    <3>5. Deliveries(o, packetIndex, now) \subseteq Delivery
      BY <3>2, DeliveriesType
    <3>6. /\ highest' \in Nat \cup {-1} /\ received' \in Nat
          /\ pending' \subseteq Delivery
      BY <3>1, <3>5 DEF TypeOK
    <3>7. draining' \in BOOLEAN /\ releaseHolds' \in BOOLEAN
      BY <3>1 DEF TypeOK, LimitReached
    <3>8. phase' \in Phases /\ ending' \in {"none", "stopped", "drained", "failed"}
      BY <3>1 DEF TypeOK, Phases
    <3>9. inbox' \in Nat /\ packetIndex' \in Nat
      BY <2>10 DEF Receive, TypeOK
    <3> QED
      BY <2>10, <3>4, <3>6, <3>7, <3>8, <3>9 DEF Receive, TypeOK, forwarder
  <2>11. CASE Finish
    <3>1. /\ eventIndex' \in Nat /\ lastElapsed' \in Int
          /\ ending' \in {"none", "stopped", "drained", "failed"}
          /\ recording' = recording
      BY <2>11 DEF Finish, SinkOutcomes, TypeOK, Write
    <3> QED
      BY <2>11, <3>1 DEF Finish, TypeOK, Phases, scheduler, forwarder, loop
  <2>12. CASE Open
    <3>1. /\ statistics' \in [CountedTypes -> Nat]
          /\ pending' \subseteq Delivery /\ ready' \subseteq Delivery
          /\ reordered' \subseteq Nat
      BY <2>12, ZeroType DEF Open, FreshSession
    <3>2. highest' \in Nat \cup {-1} /\ highestForwarded' \in Nat \cup {-1}
      BY <2>12 DEF Open, FreshSession
    <3>3. isOpen' \in BOOLEAN /\ releaseHolds' \in BOOLEAN
      BY <2>12 DEF Open, FreshSession
    <3>4. phase' \in Phases /\ ending' \in {"none", "stopped", "drained", "failed"}
      BY <2>12 DEF Open, Phases
    <3>5. /\ inbox' \in Nat /\ runs' \in Nat /\ packetIndex' \in Nat
          /\ eventIndex' \in Nat /\ lastElapsed' \in Int
      BY <2>12 DEF Open, FreshSession, TypeOK
    <3> QED
      BY <2>12, <3>1, <3>2, <3>3, <3>4, <3>5 DEF Open, TypeOK, loop
  <2>13. CASE StartRun
    <3>1. /\ eventIndex' \in Nat /\ lastElapsed' \in Int /\ phase' \in Phases
          /\ ending' \in {"none", "stopped", "drained", "failed"}
          /\ recording' = recording
      BY <2>13 DEF StartRun, SinkOutcomes, TypeOK, Phases, Write, file
    <3> QED
      BY <2>13, <3>1, ZeroType DEF StartRun, TypeOK, scheduler, forwarder
  <2>14. CASE Arrive
    BY <2>14 DEF Arrive, TypeOK, scheduler, forwarder, stream, file, loop
  <2>15. CASE RequestStop
    BY <2>15 DEF RequestStop, TypeOK, scheduler, forwarder, stream, file
  <2>16. CASE Tick
    BY <2>16 DEF Tick, TypeOK, scheduler, forwarder, stream, file, loop
  <2>17. CASE UNCHANGED vars
    BY <2>17 DEF vars, TypeOK, scheduler, forwarder, stream, file, loop
  <2>18. CASE InterruptAtHeader
    <3>1. /\ eventIndex' \in Nat /\ lastElapsed' \in Int /\ phase' \in Phases /\ start' \in Nat
          /\ recording' = recording
      BY <2>18 DEF InterruptAtHeader, TypeOK, Phases, InterruptedWrite
    <3> QED
      BY <2>18, <3>1, ZeroType DEF InterruptAtHeader, TypeOK, scheduler, forwarder
  <2>19. CASE InterruptAtSummary
    <3>1. /\ eventIndex' \in Nat /\ lastElapsed' \in Int /\ inbox' \in Nat
          /\ ending' \in {"none", "stopped", "drained", "failed"}
          /\ recording' = recording
      BY <2>19 DEF InterruptAtSummary, TypeOK, InterruptedWrite
    <3> QED
      BY <2>19, <3>1 DEF InterruptAtSummary, TypeOK, Phases, scheduler, forwarder, loop
  <2> QED
    BY <2>1, <2>2, <2>3, <2>4, <2>5, <2>6, <2>7, <2>8, <2>9, <2>10, <2>11, <2>12,
       <2>13, <2>14, <2>15, <2>16, <2>17, <2>18, <2>19 DEF Next, Thread, Environment
<1> QED
  BY <1>1, <1>2, PTL DEF Spec
-----------------------------------------------------------------------------
(* What the loop of run() maintains.  The engine and the scheduler count   *)
(* the same packets; past the pop nothing eligible in the heap is due yet  *)
(* at the time the loop read; and no event was stamped later than that.    *)
LoopInv ==
  /\ nowNs <= now /\ start <= now
  /\ phase \in {"opened", "loop", "send", "receive"} => packetIndex = highest + 1
  /\ phase \in {"send", "receive"} =>
       \A d \in pending : Eligible(d, highest, releaseHolds) => d.due > nowNs
  /\ Running => lastElapsed <= now - start
  /\ phase = "send" => lastElapsed <= nowNs - start

(* What an event is stamped with is the last thing the stream remembers.   *)
LEMMA EmitStamps ==
  ASSUME TypeOK, NEW notes, NEW t \in Nat, NEW k \in Nat, Emit(notes, t, k)
  PROVE  lastElapsed' \in {lastElapsed, t - start} /\ start' = start
  BY DEF Emit

(* The loop's invariant holds in every reachable state.                    *)
THEOREM LoopCorrect == Spec => []LoopInv
<1>1. Init => LoopInv
  BY DEF Init, LoopInv, Running
<1>2. TypeOK /\ TypeOK' /\ LoopInv /\ [Next]_vars => LoopInv'
  <2> SUFFICES ASSUME TypeOK, TypeOK', LoopInv, [Next]_vars PROVE LoopInv'
    OBVIOUS
  <2> USE DEF TypeOK, LoopInv, Running, Phases
  <2>1. CASE CallerCloses
    BY <2>1 DEF CallerCloses, scheduler, stream
  <2>2. CASE StopSeen
    BY <2>2 DEF StopSeen, scheduler, stream
  <2>3. CASE PopReady
    <3>1. \A d \in pending' : Eligible(d, highest', releaseHolds') => d.due > nowNs'
      BY <2>3 DEF PopReady, ReadyAt, Delivery
    <3> QED
      BY <2>3, <3>1 DEF PopReady, stream
  <2>4. CASE SendNext
    <3>1. PICK k \in SinkOutcomes(Len(ForwardNotes(First(ready)))) :
            Emit(ForwardNotes(First(ready)), nowNs, k)
      BY <2>4 DEF SendNext
    <3>2. lastElapsed' \in {lastElapsed, nowNs - start} /\ start' = start
      BY <3>1, ForwardNotesFinite, SinkTakesNat, EmitStamps
    <3>3. phase' \in {"send", "finally"}
      BY <2>4 DEF SendNext
    <3> QED
      BY <2>4, <3>2, <3>3 DEF SendNext, scheduler
  <2>5. CASE SendFails
    BY <2>5 DEF SendFails, scheduler, stream
  <2>6. CASE DrainDone
    BY <2>6 DEF DrainDone, scheduler, stream
  <2>7. CASE DrainSleeps
    BY <2>7 DEF DrainSleeps, scheduler, stream
  <2>8. CASE BlockInReceive
    BY <2>8 DEF BlockInReceive, scheduler, stream
  <2>9. CASE ReceiveTimesOut
    BY <2>9 DEF ReceiveTimesOut, scheduler, stream
  <2>10. ASSUME NEW o \in Outcomes, Receive(o) PROVE LoopInv'
    <3>1. PICK k \in SinkOutcomes(Len(OutcomeNotes(o, packetIndex))) :
            Emit(OutcomeNotes(o, packetIndex), now, k)
      BY <2>10 DEF Receive
    <3>2. lastElapsed' \in {lastElapsed, now - start} /\ start' = start
      BY <3>1, OutcomeNotesFinite, SinkTakesNat, EmitStamps
    <3>3. phase' = "finally" \/ (phase' = "loop" /\ highest' = packetIndex)
      BY <2>10 DEF Receive
    <3>4. UNCHANGED <<now, nowNs>> /\ packetIndex' = packetIndex + 1
      BY <2>10 DEF Receive
    <3>5. lastElapsed' <= now' - start'
      BY <2>10, <3>2, <3>4 DEF Receive
    <3> QED
      BY <3>2, <3>3, <3>4, <3>5
  <2>11. CASE Finish
    BY <2>11 DEF Finish, scheduler
  <2>12. CASE Open
    BY <2>12 DEF Open, FreshSession
  <2>13. CASE StartRun
    BY <2>13 DEF StartRun, scheduler
  <2>14. CASE Arrive
    BY <2>14 DEF Arrive, scheduler, stream
  <2>15. CASE RequestStop
    BY <2>15 DEF RequestStop, scheduler, stream
  <2>16. CASE Tick
    BY <2>16 DEF Tick, scheduler, stream
  <2>17. CASE UNCHANGED vars
    BY <2>17 DEF vars, scheduler, stream
  <2>18. CASE InterruptAtHeader
    BY <2>18 DEF InterruptAtHeader, scheduler
  <2>19. CASE InterruptAtSummary
    BY <2>19 DEF InterruptAtSummary, scheduler
  <2> QED
    BY <2>1, <2>2, <2>3, <2>4, <2>5, <2>6, <2>7, <2>8, <2>9, <2>10, <2>11, <2>12,
       <2>13, <2>14, <2>15, <2>16, <2>17, <2>18, <2>19 DEF Next, Thread, Environment
<1> QED
  BY <1>1, <1>2, TypeCorrect, PTL DEF Spec

(* The scheduler never refuses the next packet of the engine.              *)
THEOREM EnqueueCorrect == Spec => []EnqueueNeverRefused
<1>1. TypeOK /\ LoopInv => EnqueueNeverRefused
  BY DEF TypeOK, LoopInv, EnqueueNeverRefused
<1> QED
  BY <1>1, TypeCorrect, LoopCorrect, PTL

(* A socket that the loop blocks in was given a positive timeout: the      *)
(* deadline of a delivery that is due and released has been served.        *)
THEOREM ReceiveCorrect == Spec => []ReceiveAlwaysBlocks
<1>1. TypeOK /\ LoopInv => ReceiveAlwaysBlocks
  <2> SUFFICES ASSUME TypeOK, LoopInv, phase = "receive",
                      NEW u \in NextDeadline(pending, highest, releaseHolds)
               PROVE  Greater(0, u - nowNs) > 0
    BY DEF ReceiveAlwaysBlocks, RemainingTime
  <2>1. PICK d \in pending : Eligible(d, highest, releaseHolds) /\ u = d.due
    BY DEF NextDeadline
  <2>2. u \in Nat /\ u > nowNs
    BY <2>1 DEF LoopInv, TypeOK, Delivery
  <2> QED
    BY <2>2 DEF Greater, TypeOK
<1> QED
  BY <1>1, TypeCorrect, LoopCorrect, PTL

(* The event clock never moves backwards.                                  *)
THEOREM EventClockCorrect == Spec => []EventClockNeverRefused
<1>1. LoopInv => EventClockNeverRefused
  BY DEF LoopInv, EventClockNeverRefused
<1> QED
  BY <1>1, LoopCorrect, PTL

(* So the loop raises no error of its own making.                          *)
THEOREM NoInternalErrors == Spec => []NoInternalError
<1>1. EnqueueNeverRefused /\ ReceiveAlwaysBlocks /\ EventClockNeverRefused => NoInternalError
  BY DEF NoInternalError
<1> QED
  BY <1>1, EnqueueCorrect, ReceiveCorrect, EventClockCorrect, PTL
=============================================================================
