------------------------------- MODULE Flight -------------------------------
(***************************************************************************)
(* A flight from end to end: the simulator encodes and transmits, the link *)
(* loses, corrupts, repeats and overtakes datagrams, other senders hit the *)
(* same port, and the ground station decodes what arrives and evaluates    *)
(* its alarms.                                                             *)
(***************************************************************************)
EXTENDS Simulator, TelemetryCodec

CONSTANTS
  WarningC, CriticalC, HysteresisC,  (* the ground station's alarm policy  *)
  CriticalV, HysteresisV, AlarmOnSafe, DetectGaps,
  Positions,   (* the bytes that may be corrupted                          *)
  Masks,       (* what a corrupted byte is combined with, as sets of bits  *)
  Foreign,     (* malformed datagrams of other senders                     *)
  MaxFaults,   (* bound: faults of the link in one flight                  *)
  MaxAir       (* bound: datagrams on their way at a time                  *)

(* uint32_t and uint64_t: the counter and the clock fit their fields.       *)
ASSUME WidthAssumption ==
  /\ (SequenceModulus - 1) \div 65536 < 65536
  /\ \A time \in Clock :
       time \in Nat /\ ((time \div 65536) \div 65536) \div 65536 < 65536

ASSUME LinkAssumption ==
  /\ Positions \subseteq 1 .. PacketSize
  /\ Masks \subseteq (SUBSET (0 .. 7)) \ {{}}
  /\ MaxFaults \in Nat /\ MaxAir \in Nat \ {0}

Rules == INSTANCE AlarmRules

ASSUME GroundAssumption == Rules!ValidPolicy

VARIABLES
  air,         (* datagrams on their way                                   *)
  faults,      (* history: what the link did to them, in order             *)
  engine,      (* the alarm engine of the ground station                   *)
  heard,       (* history: the packets it decoded                          *)
  alarms       (* history: the transitions it reported                     *)

groundVars == <<engine, heard, alarms>>
vars == <<simulatorVars, air, faults, groundVars>>

(* The simulator transmits: the datagram is on the air.                    *)
Send ==
  /\ Len(air) < MaxAir
  /\ Transmit
  /\ air' = Append(air, Encode(telemetry))
  /\ UNCHANGED <<faults, groundVars>>

(* Its other steps.                                                        *)
Aboard ==
  /\ \/ Start \/ Stop \/ Drop \/ SendFails \/ Wake
     \/ \E time \in Clock : Make(time)
  /\ UNCHANGED <<air, faults, groundVars>>

Interrupt == Signal /\ UNCHANGED <<air, faults, groundVars>>

(* What the link may do to the datagrams on the air.                       *)
Fault(kind) ==
  /\ Len(faults) < MaxFaults
  /\ faults' = Append(faults, kind)
  /\ UNCHANGED <<simulatorVars, groundVars>>

Lose == air # <<>> /\ Fault("lost") /\ air' = Tail(air)
Repeat == air # <<>> /\ Fault("repeated") /\ air' = <<Head(air)>> \o air
Overtake ==
  Len(air) > 1 /\ Fault("overtaken") /\ air' = <<air[2], air[1]>> \o SubSeq(air, 3, Len(air))

(* The link inverts one bit of a datagram; here any bits of one byte.      *)
Corrupt(i, mask) ==
  /\ air # <<>> /\ i \in DOMAIN Head(air) /\ Fault("corrupted")
  /\ air' = [air EXCEPT ![1][i] = ByteOf(Xor(BitsOf(@), mask))]

Intrude(datagram) == Fault("foreign") /\ air' = <<datagram>> \o air

(* What the rules look at: the packet as the alarm engine sees it.         *)
Seen(packet) ==
  [sequence |-> packet.sequence, temperature |-> packet.temperature,
   battery |-> packet.battery, mode |-> packet.mode]

(* process_packet: a rejected datagram changes nothing.                    *)
Hear ==
  /\ air # <<>>
  /\ air' = Tail(air)
  /\ IF Rejection(Head(air)) # "none" THEN UNCHANGED groundVars
     ELSE LET packet == Decoded(Head(air))
          IN  /\ heard' = Append(heard, packet)
              /\ engine' = Rules!NextState(engine, Seen(packet))
              /\ alarms' = alarms \o Rules!Transitions(engine, Seen(packet))
  /\ UNCHANGED <<simulatorVars, faults>>

FlightInit ==
  /\ Init
  /\ air = <<>> /\ faults = <<>>
  /\ engine = Rules!Fresh /\ heard = <<>> /\ alarms = <<>>

Link ==
  \/ Lose \/ Repeat \/ Overtake
  \/ \E i \in Positions, mask \in Masks : Corrupt(i, mask)
  \/ \E datagram \in Foreign : Intrude(datagram)

FlightNext == Send \/ Aboard \/ Interrupt \/ Link \/ Hear

(* The simulator is run when it can, and what is on the air leaves it;      *)
(* signals and faults need not come.                                       *)
Flies == Program /\ (sent' = sent \/ Len(air) < MaxAir)
Leaves == air # <<>> /\ air' = Tail(air)

FlightSpec == FlightInit /\ [][FlightNext]_vars /\ WF_simulatorVars(Flies) /\ WF_air(Leaves)

-----------------------------------------------------------------------------
(* Whatever the link does, the ground station believes no packet that the  *)
(* spacecraft did not transmit, in any of its fields.                      *)
HeardWasSent == \A i \in DOMAIN heard : \E j \in DOMAIN sent : heard[i] = sent[j].telemetry

(* When the link is faultless, the gaps the ground station reports are the *)
(* packets the simulator dropped, and the wrap of the counter is no gap.   *)
GapsAreTheDrops ==
  faults = <<>> =>
    /\ \A i \in DOMAIN heard : heard[i] = sent[i].telemetry
    /\ DetectGaps =>
         Cardinality({k \in DOMAIN alarms : alarms[k].identity = "sequence-gap"}) =
           Cardinality({i \in 2 .. Len(heard) : sent[i].cycle # sent[i - 1].cycle + 1})

(* The scenarios only get worse, and so do the alarms, losses, corruption  *)
(* and intruders notwithstanding: unless a packet was overtaken or the     *)
(* counter wrapped, no alarm of the failing quantity is cleared or lowered.*)
AlarmsOnlyWorsen ==
  "overtaken" \notin Range(faults) /\ cycles <= SequenceModulus =>
    \A i \in DOMAIN alarms :
      \/ alarms[i].identity = "sequence-gap"
      \/ alarms[i].type = "raised"
      \/ alarms[i].type = "updated" /\ alarms[i].severity = "critical"
      \/ alarms[i].identity = "temperature" /\ arguments.scenario # "thermal"
=============================================================================
