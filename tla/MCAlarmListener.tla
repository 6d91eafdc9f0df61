--------------------------- MODULE MCAlarmListener --------------------------
(* A few packets that raise, update and clear alarms, and rejected ones.    *)
EXTENDS TelemetryReplay

Packet(sequence, temperature, battery, mode) ==
  [sequence |-> sequence, temperature |-> temperature, battery |-> battery, mode |-> mode]

(* Cool, warm, hot with everything else wrong, and a packet out of order.   *)
FlightPackets ==
  {Packet(0, 0, 9, "NOMINAL"), Packet(1, 2, 9, "NOMINAL"), Packet(2, 5, 1, "SAFE")}

Noise == [sequence |-> -2]
FlightDatagrams == FlightPackets \cup {Noise}
=============================================================================
