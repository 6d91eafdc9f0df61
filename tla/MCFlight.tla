------------------------------ MODULE MCFlight ------------------------------
(* Steep scenarios, so that a few packets pass every threshold, leave the   *)
(* range of a field and wrap a small counter.  The widths are the real ones.*)
EXTENDS Flight

SteepCurves(n) ==
  [temperature |-> IF n % 2 = 0 THEN 0 ELSE -1235, current |-> 420 + n,
   roll |-> -450 * n, pitch |-> 320 - n]

CommandLine(scenario, packets, dropEvery) ==
  [port |-> 9000, interval |-> 1000, packets |-> packets, dropEvery |-> dropEvery,
   scenario |-> scenario]

CommandLines ==
  {CommandLine("nominal", 0, 0), CommandLine("nominal", 4, 1), CommandLine("nominal", -1, 1)}
    \cup {CommandLine(s, 0, d) : s \in {"thermal", "power"}, d \in {0, 2}}

(* The version, the sequence number, the mode, the temperature and the      *)
(* checksum.                                                                *)
SomePositions == {5, 10, 19, 24, 35}
SomeMasks == {0 .. 7}

(* What another program might send: too short, another version, a mode this *)
(* version does not know, each with a checksum of its own.                  *)
SafePacket == EncodeBody(Telemetry(4, 7, "power"))
Intruders ==
  {<<1, 2, 3>>,
   AppendCrc([SafePacket EXCEPT ![5] = 2]),
   AppendCrc([SafePacket EXCEPT ![19] = 3])}
=============================================================================
