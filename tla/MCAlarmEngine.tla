---------------------------- MODULE MCAlarmEngine ---------------------------
(* Small packet streams for the alarm engine.                               *)
EXTENDS AlarmEngine

Packet(sequence, temperature, battery, mode) ==
  [sequence |-> sequence, temperature |-> temperature, battery |-> battery, mode |-> mode]

(* Every temperature from below the clear boundary to above the critical    *)
(* threshold, with a spacecraft in order otherwise.                         *)
ThermalPackets == {Packet(0, t, 9, "NOMINAL") : t \in 0..6}

(* Voltages around both battery thresholds, in SAFE mode while hot.         *)
PowerPackets == {Packet(0, 6, v, "SAFE") : v \in 2..5}

(* Every sequence number of a small counter.                                *)
CounterPackets == {Packet(s, 0, 9, "BOOT") : s \in 0..3}

FlightPackets == ThermalPackets \cup PowerPackets \cup CounterPackets
=============================================================================
