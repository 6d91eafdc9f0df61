----------------------------- MODULE AlarmEngine ----------------------------
(***************************************************************************)
(* One AlarmEngine fed a stream of decoded telemetry packets, in whatever  *)
(* order and with whatever values the link and the spacecraft produce.     *)
(* The packets evaluated since the last reset and the transitions emitted  *)
(* for them are kept as history, to say what the state ought to be.        *)
(***************************************************************************)
EXTENDS AlarmRules, FiniteSets

CONSTANTS
  Packets,     (* the packets that may arrive                              *)
  MaxPackets   (* bound: packets evaluated between two resets              *)

ASSUME PacketsAssumption ==
  /\ Packets \subseteq [sequence : 0 .. SequenceModulus - 1, temperature : Int,
                        battery : Nat, mode : {"BOOT", "NOMINAL", "SAFE"}]
  /\ MaxPackets \in Nat

VARIABLES
  state,       (* the engine                                               *)
  packets,     (* the packets evaluated since the reset                    *)
  emitted      (* what was emitted since the reset, in order               *)

vars == <<state, packets, emitted>>

Evaluate(packet) ==
  /\ Len(packets) < MaxPackets
  /\ state' = NextState(state, packet)
  /\ packets' = Append(packets, packet)
  /\ emitted' = emitted \o Transitions(state, packet)

Reset ==
  /\ packets # <<>>
  /\ state' = Fresh
  /\ packets' = <<>>
  /\ emitted' = <<>>

Init == state = Fresh /\ packets = <<>> /\ emitted = <<>>

Next == Reset \/ \E packet \in Packets : Evaluate(packet)

Spec == Init /\ [][Next]_vars

-----------------------------------------------------------------------------
(* The engine has its types, and before its first packet and after every   *)
(* reset it is as good as new.                                             *)
TypeOK ==
  /\ packets = <<>> => state = Fresh
  /\ state \in [last : Nat \cup {NoSequence}, temperature : Severities,
                battery : BOOLEAN, safe : BOOLEAN]
  /\ packets \in Seq(Packets)

(* Some packet of one set entered, and all since were in the other.        *)
HeldSince(entering, keeping) ==
  \E i \in entering : \A j \in DOMAIN packets : j > i => j \in keeping

Hot(threshold)  == {i \in DOMAIN packets : packets[i].temperature >= threshold}
Weak(threshold) == {i \in DOMAIN packets : packets[i].battery <= threshold}

(* Hysteresis, said without the state machine: the temperature alarm is    *)
(* active exactly when a reading reached the warning threshold and none    *)
(* since was below the clear boundary, and it is critical exactly when     *)
(* that holds of the critical thresholds (ADR 0003).                       *)
TemperatureIsHysteresis ==
  /\ state.temperature # "none" <=>
       HeldSince(Hot(WarningC), Hot(WarningC - HysteresisC))
  /\ state.temperature = "critical" <=>
       HeldSince(Hot(CriticalC), Hot(CriticalC - HysteresisC))

(* The battery alarm is active exactly when a reading was at or below the  *)
(* critical voltage and none since was above the clear boundary.           *)
BatteryIsHysteresis ==
  state.battery <=> HeldSince(Weak(CriticalV), Weak(CriticalV + HysteresisV))

(* Both stateful alarms on measurements are what the readings make them.   *)
AlarmsAreHysteresis == TemperatureIsHysteresis /\ BatteryIsHysteresis

(* The positions of one alarm's transitions in a log.                      *)
Own(log, identity) == {i \in DOMAIN log : log[i].identity = identity}

(* A log tells the story of one stateful alarm that now has the severity   *)
(* current ("none": not active): the first transition raises it, one that  *)
(* follows a clearance raises it again and no other does, an update        *)
(* changes the severity, a clearance ends the severity that was active,    *)
(* and the last one left what is active now.                               *)
IsLifecycle(log, identity, current) ==
  LET own == Own(log, identity)
  IN  /\ own = {} => current = "none"
      /\ \A i \in own :
           /\ log[i].severity # "none"
           /\ (\A k \in own : i <= k) => log[i].type = "raised"
           /\ (\A k \in own : k <= i) =>
                current = IF log[i].type = "cleared" THEN "none" ELSE log[i].severity
      /\ \A i, j \in own :
           (i < j /\ \A k \in own : k <= i \/ j <= k) =>
             /\ log[j].type = "raised" <=> log[i].type = "cleared"
             /\ log[j].type = "updated" => log[j].severity # log[i].severity
             /\ log[j].type = "cleared" => log[j].severity = log[i].severity

(* The transitions of each stateful alarm form lifecycles: raised, any     *)
(* number of updates that each change the severity, cleared, raised again; *)
(* and the last one agrees with what is active now, and how severely.      *)
LifecyclesAreWellFormed ==
  /\ IsLifecycle(emitted, "temperature", state.temperature)
  /\ IsLifecycle(emitted, "battery", IF state.battery THEN "critical" ELSE "none")
  /\ IsLifecycle(emitted, "safe-mode", IF state.safe THEN "warning" ELSE "none")

(* The packets that do not follow the packet before them, the wrap of the  *)
(* counter included; repeats are not followers.                            *)
Breaks ==
  {i \in 2 .. Len(packets) :
     DetectGaps /\ packets[i].sequence # (packets[i - 1].sequence + 1) % SequenceModulus}

(* One gap is reported for each of them.                                   *)
GapsAreExact == Cardinality(Own(emitted, "sequence-gap")) = Cardinality(Breaks)
=============================================================================
