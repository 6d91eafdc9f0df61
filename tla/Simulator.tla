------------------------------ MODULE Simulator -----------------------------
(***************************************************************************)
(* The on-board simulator: it makes one telemetry record per cycle from a  *)
(* scenario, transmits it or drops it on purpose, and sleeps.  Sequence    *)
(* numbers wrap; a value that does not fit its field ends the program.     *)
(*                                                                         *)
(* Temperatures and voltages are whole numbers of a unit Grain times finer *)
(* than the unit on the wire, so that the rounding shows.                  *)
(***************************************************************************)
EXTENDS Integers, Sequences

CONSTANTS
  Arguments,           (* the command lines it may be started with         *)
  Clock,               (* what the system clock may read                   *)
  Curves(_),           (* the sine curves at a sequence number             *)
  Grain,               (* model units per unit of a telemetry field        *)
  NominalTemperature, ThermalRise, SafeTemperature,
  NominalBattery, NominalDrain, PowerDrain, SafeBattery,
  BootPackets,         (* packets sent in BOOT mode                        *)
  YawStep, HalfTurn,   (* in units of the field                            *)
  SequenceModulus,     (* sequence numbers wrap here (2^32)                *)
  MaxCycles            (* bound: cycles of one flight                      *)

Scenarios == {"nominal", "thermal", "power"}

ASSUME CycleAssumption ==
  /\ SequenceModulus \in Nat \ {0} /\ MaxCycles \in Nat
  /\ \A a \in Arguments : /\ a.scenario \in Scenarios
                          /\ a.packets \in Int /\ a.packets < SequenceModulus
                          /\ a.dropEvery \in Int

(* A sine that stays below what calls for the SAFE mode, and that never     *)
(* falls by more than a thermal flight rises in one packet; drains drain.   *)
ASSUME ScenarioAssumption ==
  /\ Grain \in Nat \ {0}
  /\ {NominalTemperature, SafeTemperature, NominalBattery, SafeBattery} \subseteq Int
  /\ {ThermalRise, NominalDrain, PowerDrain} \subseteq Nat
  /\ \A n \in 0 .. SequenceModulus - 1 :
       /\ Curves(n).temperature \in Int
       /\ NominalTemperature + Curves(n).temperature < SafeTemperature
  /\ \A n \in 1 .. SequenceModulus - 1 :
       Curves(n - 1).temperature - Curves(n).temperature <= ThermalRise

VARIABLES
  phase,       (* where the program is                                     *)
  arguments,   (* its command line                                         *)
  running,     (* g_running: no signal yet                                 *)
  sequence,    (* the sequence number of this cycle                        *)
  telemetry,   (* the record made in this cycle                            *)
  cycles,      (* history: completed cycles                                *)
  sent         (* history: what was transmitted, with its cycle            *)

simulatorVars == <<phase, arguments, running, sequence, telemetry, cycles, sent>>

Ended == {"stopped", "failed", "killed"}
Phases == {"start", "loop", "ready", "asleep"} \cup Ended

-----------------------------------------------------------------------------
(* The scenarios.                                                          *)

Temperature(scenario, n) ==
  NominalTemperature + Curves(n).temperature + (IF scenario = "thermal" THEN ThermalRise * n ELSE 0)

Battery(scenario, n) ==
  NominalBattery - NominalDrain * n - (IF scenario = "power" THEN PowerDrain * n ELSE 0)

Mode(scenario, n) ==
  IF Temperature(scenario, n) >= SafeTemperature \/ Battery(scenario, n) <= SafeBattery
  THEN "SAFE" ELSE IF n < BootPackets THEN "BOOT" ELSE "NOMINAL"

(* std::round: to the nearest unit of the field, halves away from zero.    *)
Rounded(value) ==
  IF value >= 0 THEN (2 * value + Grain) \div (2 * Grain)
  ELSE -((Grain - 2 * value) \div (2 * Grain))

Yaw(n) == ((n * YawStep + HalfTurn) % (2 * HalfTurn)) - HalfTurn

Signed == -32768 .. 32767
Unsigned16Max == 65535

Telemetry(n, time, scenario) ==
  [sequence |-> n, timestamp |-> time, mode |-> Mode(scenario, n),
   battery |-> Rounded(IF Battery(scenario, n) > 0 THEN Battery(scenario, n) ELSE 0),
   current |-> Curves(n).current,
   temperature |-> Rounded(Temperature(scenario, n)),
   roll |-> Curves(n).roll, pitch |-> Curves(n).pitch, yaw |-> Yaw(n)]

(* A record whose fields all have their width.                             *)
Records ==
  [sequence : 0 .. SequenceModulus - 1, timestamp : Clock, mode : {"BOOT", "NOMINAL", "SAFE"},
   battery : 0 .. Unsigned16Max, current : 0 .. Unsigned16Max, temperature : Signed,
   roll : Signed, pitch : Signed, yaw : Signed]

(* checked_fixed_width: no field is narrowed past its range.               *)
Representable(t) ==
  /\ {t.battery, t.current} \subseteq 0 .. Unsigned16Max
  /\ {t.temperature, t.roll, t.pitch, t.yaw} \subseteq Signed

-----------------------------------------------------------------------------
(* The program.                                                            *)

Accepted(a) ==
  /\ a.port \in 1 .. 65535
  /\ a.interval > 0
  /\ a.packets >= 0 /\ a.dropEvery >= 0

(* Parsing, the handlers, the socket and the address, in this order; any   *)
(* of them may end the program.                                            *)
Start ==
  /\ phase = "start"
  /\ \/ Accepted(arguments) /\ phase' = "loop"
     \/ phase' = "failed"
  /\ UNCHANGED <<arguments, running, sequence, telemetry, cycles, sent>>

(* Mutant: a flight without a limit does not look at the signal.           *)
GoesOnUnlimited == arguments.packets = 0 \/ (running /\ sequence < arguments.packets)

(* Zero packets means no limit.                                            *)
GoesOn == running /\ (arguments.packets = 0 \/ sequence < arguments.packets)

(* Mutant: a value that does not fit is cut to its field.                  *)
MakeCut(time) ==
  /\ phase = "loop" /\ GoesOn /\ cycles < MaxCycles
  /\ LET made == Telemetry(sequence, time, arguments.scenario)
     IN  telemetry' = [made EXCEPT !.temperature = ((@ + 32768) % 65536) - 32768]
  /\ phase' = "ready"
  /\ UNCHANGED <<arguments, running, sequence, cycles, sent>>

(* Mutant: a value that does not fit is not noticed.                       *)
MakeUnchecked(time) ==
  /\ phase = "loop" /\ GoesOn /\ cycles < MaxCycles
  /\ telemetry' = Telemetry(sequence, time, arguments.scenario)
  /\ phase' = "ready"
  /\ UNCHANGED <<arguments, running, sequence, cycles, sent>>

(* The record is made whether it will be dropped or not, and a value out   *)
(* of range is thrown before anything of it is encoded.                    *)
Make(time) ==
  /\ phase = "loop" /\ GoesOn /\ cycles < MaxCycles
  /\ telemetry' = Telemetry(sequence, time, arguments.scenario)
  /\ phase' = IF Representable(telemetry') THEN "ready" ELSE "failed"
  /\ UNCHANGED <<arguments, running, sequence, cycles, sent>>

Stop ==
  /\ phase = "loop" /\ ~GoesOn
  /\ phase' = "stopped"
  /\ UNCHANGED <<arguments, running, sequence, telemetry, cycles, sent>>

(* Mutant: the cycle of a dropped packet counts from one.                  *)
DroppedFromOne ==
  /\ arguments.dropEvery > 0
  /\ (sequence + 1) % arguments.dropEvery = 0

Dropped ==
  /\ arguments.dropEvery > 0
  /\ sequence > 0
  /\ sequence % arguments.dropEvery = 0

EndCycle ==
  /\ sequence' = (sequence + 1) % SequenceModulus
  /\ cycles' = cycles + 1
  /\ phase' = "asleep"

Drop ==
  /\ phase = "ready" /\ Dropped
  /\ EndCycle
  /\ UNCHANGED <<arguments, running, telemetry, sent>>

Transmit ==
  /\ phase = "ready" /\ ~Dropped
  /\ sent' = Append(sent, [cycle |-> cycles, telemetry |-> telemetry])
  /\ EndCycle
  /\ UNCHANGED <<arguments, running, telemetry>>

SendFails ==
  /\ phase = "ready" /\ ~Dropped
  /\ phase' = "failed"
  /\ UNCHANGED <<arguments, running, sequence, telemetry, cycles, sent>>

(* The sleep is not cut short by a signal.                                 *)
Wake ==
  /\ phase = "asleep"
  /\ phase' = "loop"
  /\ UNCHANGED <<arguments, running, sequence, telemetry, cycles, sent>>

(* SIGINT or SIGTERM, before and after the handlers are installed.         *)
Signal ==
  /\ phase \notin Ended /\ running
  /\ IF phase = "start" THEN phase' = "killed" /\ UNCHANGED running
     ELSE running' = FALSE /\ UNCHANGED phase
  /\ UNCHANGED <<arguments, sequence, telemetry, cycles, sent>>

NoTelemetry == [sequence |-> -1]

Init ==
  /\ phase = "start" /\ arguments \in Arguments /\ running = TRUE
  /\ sequence = 0 /\ telemetry = NoTelemetry /\ cycles = 0 /\ sent = <<>>

Program ==
  \/ Start \/ Stop \/ Drop \/ Transmit \/ SendFails \/ Wake
  \/ \E time \in Clock : Make(time)

Next == Program \/ Signal

Spec == Init /\ [][Next]_simulatorVars

-----------------------------------------------------------------------------
(* Every variable has its type, and what was transmitted fits its fields.  *)
TypeOK ==
  /\ phase \in Phases /\ arguments \in Arguments /\ running \in BOOLEAN
  /\ sequence \in 0 .. SequenceModulus - 1 /\ cycles \in Nat
  /\ phase = "ready" => telemetry \in Records
  /\ sent \in Seq([cycle : Nat, telemetry : Records])

(* A flight of N packets makes N cycles: never more, and fewer only when a *)
(* signal or a failure ended it.                                           *)
CountIsExact ==
  arguments.packets > 0 =>
    /\ cycles = sequence /\ cycles <= arguments.packets
    /\ phase = "stopped" /\ running => cycles = arguments.packets

NumberOf(cycle) == cycle % SequenceModulus

(* --drop-every N withholds the packets numbered N, 2N, ... of each round. *)
Withheld(cycle) ==
  \E k \in 1 .. NumberOf(cycle) : NumberOf(cycle) = k * arguments.dropEvery

(* What was transmitted: every cycle so far but those withheld, each once, *)
(* in order, with the number of its cycle, which goes on through the drops *)
(* and wraps.  In the first round that is one packet in N less.            *)
ScheduleIsExact ==
  /\ {sent[i].cycle : i \in DOMAIN sent} = {cycle \in 0 .. cycles - 1 : ~Withheld(cycle)}
  /\ \A i, j \in DOMAIN sent : i < j => sent[i].cycle < sent[j].cycle
  /\ \A i \in DOMAIN sent : sent[i].telemetry.sequence = NumberOf(sent[i].cycle)
  /\ arguments.dropEvery > 0 /\ cycles \in 1 .. SequenceModulus =>
       Len(sent) = cycles - (cycles - 1) \div arguments.dropEvery

(* A flight with a limit ends, and so does one that got a signal.          *)
FlightEnds ==
  (phase # "start" /\ (arguments.packets > 0 \/ ~running)) ~> phase \in Ended
=============================================================================
