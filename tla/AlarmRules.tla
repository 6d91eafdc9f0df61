----------------------------- MODULE AlarmRules -----------------------------
(***************************************************************************)
(* The pure rules of the alarm engine: the state it keeps for one listener *)
(* session and what one telemetry packet does to it.                       *)
(*                                                                         *)
(* A packet has a sequence number, a temperature, a battery voltage and a  *)
(* mode; measurements are whole numbers of some unit, since the rules only *)
(* compare them with thresholds.  The engine state is the record           *)
(*   last         the last sequence number, or NoSequence                  *)
(*   temperature  "none", "warning" or "critical"                          *)
(*   battery      whether the low-battery alarm is active                  *)
(*   safe         whether the SAFE-mode alarm is active                    *)
(***************************************************************************)
EXTENDS Integers, Sequences

CONSTANTS
  WarningC, CriticalC, HysteresisC,  (* temperature thresholds             *)
  CriticalV, HysteresisV,            (* battery thresholds                 *)
  AlarmOnSafe, DetectGaps,           (* what else raises alarms            *)
  SequenceModulus                    (* sequence numbers wrap here (2^32)  *)

(* What the policy classes accept: a policy that can be loaded.            *)
ValidPolicy ==
  /\ WarningC \in Int /\ CriticalC \in Int /\ HysteresisC \in Nat
  /\ WarningC < CriticalC
  /\ CriticalC - HysteresisC >= WarningC
  /\ CriticalV \in Nat \ {0} /\ HysteresisV \in Nat
  /\ AlarmOnSafe \in BOOLEAN /\ DetectGaps \in BOOLEAN

ASSUME PolicyAssumption == ValidPolicy
ASSUME ModulusAssumption == SequenceModulus \in Nat \ {0, 1}

NoSequence == -1
Severities == {"none", "warning", "critical"}

Fresh == [last |-> NoSequence, temperature |-> "none", battery |-> FALSE, safe |-> FALSE]

(* Mutant: a duplicate counts as the packet that was expected.             *)
IsGapUnlessRepeated(last, sequence) ==
  /\ DetectGaps
  /\ last # NoSequence
  /\ sequence # (last + 1) % SequenceModulus /\ sequence # last

(* Mutant: the wrap of the counter is a gap.                               *)
IsGapAtWrap(last, sequence) ==
  /\ DetectGaps
  /\ last # NoSequence
  /\ sequence # last + 1

IsGap(last, sequence) ==
  /\ DetectGaps
  /\ last # NoSequence
  /\ sequence # (last + 1) % SequenceModulus

(* Mutant: a critical alarm that cools down is cleared at once.            *)
NextTemperatureSkippingWarning(severity, t) ==
  IF t >= CriticalC \/ (severity = "critical" /\ t >= CriticalC - HysteresisC)
  THEN "critical"
  ELSE IF t >= WarningC \/ (severity = "warning" /\ t >= WarningC - HysteresisC)
       THEN "warning" ELSE "none"

(* A severity is entered at its threshold and kept down to the threshold   *)
(* less the hysteresis, equality included.                                 *)
NextTemperature(severity, t) ==
  IF t >= CriticalC \/ (severity = "critical" /\ t >= CriticalC - HysteresisC)
  THEN "critical"
  ELSE IF t >= WarningC \/ (severity # "none" /\ t >= WarningC - HysteresisC)
       THEN "warning" ELSE "none"

NextBattery(active, v) ==
  v <= CriticalV \/ (active /\ v <= CriticalV + HysteresisV)

NextState(state, packet) ==
  [last        |-> packet.sequence,
   temperature |-> NextTemperature(state.temperature, packet.temperature),
   battery     |-> NextBattery(state.battery, packet.battery),
   safe        |-> AlarmOnSafe /\ packet.mode = "SAFE"]

Transition(identity, type, severity) ==
  [identity |-> identity, type |-> type, severity |-> severity]

(* Mutant: cooling down from critical is reported as the end of the alarm. *)
TemperatureTransitionsEndingEarly(old, new) ==
  IF old = new THEN <<>>
  ELSE CASE old = "none" -> <<Transition("temperature", "raised", new)>>
         [] new = "none" \/ old = "critical" -> <<Transition("temperature", "cleared", old)>>
         [] OTHER        -> <<Transition("temperature", "updated", new)>>

TemperatureTransitions(old, new) ==
  IF old = new THEN <<>>
  ELSE CASE old = "none" -> <<Transition("temperature", "raised", new)>>
         [] new = "none" -> <<Transition("temperature", "cleared", old)>>
         [] OTHER        -> <<Transition("temperature", "updated", new)>>

SwitchTransitions(identity, old, new, severity) ==
  IF old = new THEN <<>>
  ELSE <<Transition(identity, IF new THEN "raised" ELSE "cleared", severity)>>

(* What evaluate() returns, in its order: sequence, temperature, battery,  *)
(* mode.  A gap is an occurrence: it is never active.                      *)
Transitions(state, packet) ==
  LET next == NextState(state, packet)
  IN  (IF IsGap(state.last, packet.sequence)
       THEN <<Transition("sequence-gap", "raised", "warning")>> ELSE <<>>)
      \o TemperatureTransitions(state.temperature, next.temperature)
      \o SwitchTransitions("battery", state.battery, next.battery, "critical")
      \o SwitchTransitions("safe-mode", state.safe, next.safe, "warning")
=============================================================================
