---------------------------- MODULE FlightProofs ----------------------------
(***************************************************************************)
(* What the simulator does on its own, whatever its scenario, its command  *)
(* line and the width of its counter; in a flight it is that simulator.    *)
(* What it encodes is what the ground station decodes, so that over a      *)
(* faultless link the gaps reported are the packets dropped on board.      *)
(***************************************************************************)
EXTENDS Flight, FiniteSetTheorems, SequenceTheorems, WellFoundedInduction, TLAPS

(* Of the numbers in a set one is the least: induction, as a fact of sets.  *)
LEMMA LeastNumber ==
  ASSUME NEW T, T \subseteq Nat, T # {}
  PROVE  \E x \in T : \A y \in T : x <= y
<1> DEFINE R == OpToRel(<, Nat)
<1>1. IsWellFoundedOn(R, Nat)
  BY NatLessThanWellFounded
<1>2. \A x, y \in Nat : ~(<<y, x>> \in R) => x <= y
  BY DEF OpToRel
<1> HIDE DEF R
<1>3. \E x \in T : \A y \in T : ~(<<y, x>> \in R)
  BY <1>1, WFMin
<1> QED
  BY <1>2, <1>3

(* A set that holds zero, and with each number the next, holds them all.   *)
LEMMA SetInduction ==
  ASSUME NEW H, 0 \in H, \A n \in Nat : n \in H => n + 1 \in H
  PROVE  Nat \subseteq H
<1> SUFFICES ASSUME Nat \ H # {} PROVE FALSE
  OBVIOUS
<1>1. PICK n \in Nat \ H : \A m \in Nat \ H : n <= m
  <2>1. Nat \ H \subseteq Nat
    OBVIOUS
  <2> QED
    BY <2>1, LeastNumber
<1>2. n - 1 \in Nat /\ n - 1 \in H
  BY <1>1
<1> QED
  BY <1>1, <1>2

(* A record of a representable value has its type: the field checks of the *)
(* scenario are all that the type of what is transmitted rests on.         *)
LEMMA RepresentableIsARecord ==
  ASSUME NEW n \in 0 .. SequenceModulus - 1, NEW time \in Clock, NEW scenario \in Scenarios,
         Representable(Telemetry(n, time, scenario))
  PROVE  Telemetry(n, time, scenario) \in Records
<1> DEFINE t == Telemetry(n, time, scenario)
<1>1. /\ t.battery \in 0 .. Unsigned16Max /\ t.current \in 0 .. Unsigned16Max
      /\ t.temperature \in Signed /\ t.roll \in Signed
      /\ t.pitch \in Signed /\ t.yaw \in Signed
  BY DEF Representable
<1>2. t.mode \in {"BOOT", "NOMINAL", "SAFE"}
  BY DEF Telemetry, Mode
<1>3. t.sequence = n /\ t.timestamp = time
  BY DEF Telemetry
<1>4. t = [sequence |-> t.sequence, timestamp |-> t.timestamp, mode |-> t.mode,
           battery |-> t.battery, current |-> t.current, temperature |-> t.temperature,
           roll |-> t.roll, pitch |-> t.pitch, yaw |-> t.yaw]
  BY DEF Telemetry
<1> QED
  <2> HIDE DEF t
  <2>1. t \in Records
    BY <1>1, <1>2, <1>3, <1>4 DEF Records
  <2> QED
    BY <2>1 DEF t

(* Every variable keeps its type, and nothing is transmitted that does not *)
(* fit its fields.                                                         *)
THEOREM SimulatorTypes == Spec => []TypeOK
<1>1. Init => TypeOK
  BY CycleAssumption DEF Init, TypeOK, Phases, Ended
<1>2. TypeOK /\ [Next]_simulatorVars => TypeOK'
  <2> SUFFICES ASSUME TypeOK, [Next]_simulatorVars PROVE TypeOK'
    OBVIOUS
  <2> USE DEF TypeOK, Phases, Ended
  <2>1. CASE Start
    BY <2>1 DEF Start
  <2>2. CASE Stop
    BY <2>2 DEF Stop
  <2>3. ASSUME EndCycle, phase = "ready", sent' \in Seq([cycle : Nat, telemetry : Records]),
               UNCHANGED <<arguments, running, telemetry>>
        PROVE  TypeOK'
    <3>1. sequence' \in 0 .. SequenceModulus - 1
      BY <2>3, CycleAssumption DEF EndCycle
    <3> QED
      BY <2>3, <3>1 DEF EndCycle
  <2>4. CASE Drop
    BY <2>3, <2>4 DEF Drop
  <2>5. CASE Transmit
    <3>1. [cycle |-> cycles, telemetry |-> telemetry] \in [cycle : Nat, telemetry : Records]
      BY <2>5 DEF Transmit
    <3>2. sent' \in Seq([cycle : Nat, telemetry : Records])
      BY <2>5, <3>1 DEF Transmit
    <3> QED
      BY <2>3, <2>5, <3>2 DEF Transmit
  <2>6. CASE SendFails
    BY <2>6 DEF SendFails
  <2>7. CASE Wake
    BY <2>7 DEF Wake
  <2>8. ASSUME NEW time \in Clock, Make(time) PROVE TypeOK'
    <3>1. arguments.scenario \in Scenarios
      BY CycleAssumption
    <3>2. phase' = "ready" => telemetry' \in Records
      BY <2>8, <3>1, RepresentableIsARecord DEF Make
    <3> QED
      BY <2>8, <3>2 DEF Make
  <2>9. CASE Signal
    BY <2>9 DEF Signal
  <2>10. CASE UNCHANGED simulatorVars
    BY <2>10 DEF simulatorVars
  <2> QED
    BY <2>1, <2>2, <2>4, <2>5, <2>6, <2>7, <2>8, <2>9, <2>10 DEF Next, Program
<1> QED
  BY <1>1, <1>2, PTL DEF Spec

(* Before the wrap the counter is the number of cycles, and the limit is   *)
(* still ahead of every cycle that was begun.                              *)
CountInvariant ==
  /\ CountIsExact
  /\ phase = "ready" /\ arguments.packets > 0 => sequence < arguments.packets

(* A flight of N packets makes N cycles, whatever is dropped: never more,  *)
(* and fewer only when a signal or a failure ended it.                     *)
THEOREM CountHolds == Spec => []CountIsExact
<1>1. Init => CountInvariant
  BY CycleAssumption DEF Init, CountInvariant, CountIsExact
<1>2. TypeOK /\ CountInvariant /\ [Next]_simulatorVars => CountInvariant'
  <2> SUFFICES ASSUME TypeOK, CountInvariant, [Next]_simulatorVars PROVE CountInvariant'
    OBVIOUS
  <2>1. /\ arguments.packets \in Int /\ arguments.packets < SequenceModulus
        /\ sequence \in 0 .. SequenceModulus - 1 /\ cycles \in Nat
        /\ SequenceModulus \in Nat \ {0}
    BY CycleAssumption DEF TypeOK
  <2> USE DEF CountInvariant, CountIsExact
  <2>2. CASE Start
    BY <2>1, <2>2 DEF Start
  <2>3. CASE Stop
    BY <2>1, <2>3 DEF Stop, GoesOn
  <2>4. ASSUME EndCycle, phase = "ready", UNCHANGED <<arguments, running>>
        PROVE  CountInvariant'
    <3>1. CASE arguments.packets > 0
      <4>1. sequence + 1 \in 0 .. SequenceModulus - 1
        BY <2>1, <2>4, <3>1
      <4>2. (sequence + 1) % SequenceModulus = sequence + 1
        BY <2>1, <4>1
      <4> QED
        BY <2>1, <2>4, <3>1, <4>2 DEF EndCycle
    <3> QED
      BY <2>4, <3>1 DEF EndCycle
  <2>5. CASE Drop
    BY <2>4, <2>5 DEF Drop
  <2>6. CASE Transmit
    BY <2>4, <2>6 DEF Transmit
  <2>7. CASE SendFails
    BY <2>1, <2>7 DEF SendFails
  <2>8. CASE Wake
    BY <2>1, <2>8 DEF Wake
  <2>9. ASSUME NEW time \in Clock, Make(time) PROVE CountInvariant'
    BY <2>1, <2>9 DEF Make, GoesOn
  <2>10. CASE Signal
    BY <2>1, <2>10 DEF Signal, Ended
  <2>11. CASE UNCHANGED simulatorVars
    BY <2>1, <2>11 DEF simulatorVars
  <2> QED
    BY <2>2, <2>3, <2>5, <2>6, <2>7, <2>8, <2>9, <2>10, <2>11 DEF Next, Program
<1>3. CountInvariant => CountIsExact
  BY DEF CountInvariant
<1> QED
  BY <1>1, <1>2, <1>3, SimulatorTypes, PTL DEF Spec

(* The quotient by D grows by one exactly at the multiples of D.           *)
LEMMA QuotientStep ==
  ASSUME NEW c \in Nat \ {0}, NEW d \in Nat \ {0}
  PROVE  c \div d = (c - 1) \div d + (IF c % d = 0 THEN 1 ELSE 0)
<1> DEFINE q == (c - 1) \div d
           r == (c - 1) % d
           p == c \div d
           s == c % d
<1>1. /\ q \in Int /\ r \in 0 .. d - 1 /\ c - 1 = d * q + r
      /\ p \in Int /\ s \in 0 .. d - 1 /\ c = d * p + s
  OBVIOUS
<1> HIDE DEF q, r, p, s
<1>2. d * (p - q) = r + 1 - s
  BY <1>1
<1>3. p - q >= 0
  <2> SUFFICES ASSUME p - q <= -1 PROVE FALSE
    BY <1>1
  <2>1. d * (p - q) <= -d
    BY <1>1
  <2> QED
    BY <1>1, <1>2, <2>1
<1>4. p - q <= 1
  <2> SUFFICES ASSUME p - q >= 2 PROVE FALSE
    BY <1>1
  <2>1. d * (p - q) >= 2 * d
    BY <1>1
  <2> QED
    BY <1>1, <1>2, <2>1
<1>5. CASE p - q = 0
  BY <1>1, <1>2, <1>5
<1>6. CASE p - q = 1
  BY <1>1, <1>2, <1>6
<1>7. p = q + (IF s = 0 THEN 1 ELSE 0)
  BY <1>1, <1>3, <1>4, <1>5, <1>6
<1> QED
  BY <1>7 DEF p, q, s

(* The number after a number.                                              *)
LEMMA NextNumber ==
  ASSUME NEW M \in Nat \ {0}, NEW n \in 0 .. M - 1
  PROVE  (n + 1) % M = IF n = M - 1 THEN 0 ELSE n + 1
<1>1. CASE n = M - 1
  <2>1. n + 1 = M /\ M % M = 0
    BY <1>1
  <2> QED
    BY <1>1, <2>1
<1>2. CASE n # M - 1
  <2>1. n + 1 \in 0 .. M - 1
    BY <1>2
  <2> QED
    BY <1>2, <2>1
<1> QED
  BY <1>1, <1>2

(* A number is divided in one way.                                         *)
LEMMA RemainderIs ==
  ASSUME NEW m \in Nat \ {0}, NEW q \in Int, NEW r \in 0 .. m - 1
  PROVE  (m * q + r) % m = r
<1> DEFINE n == m * q + r
           p == n \div m
           s == n % m
<1>1. n \in Int /\ p \in Int /\ s \in 0 .. m - 1 /\ n = m * p + s /\ n = m * q + r
  OBVIOUS
<1> HIDE DEF n, p, s
<1>2. m * (p - q) = r - s
  BY <1>1
<1>3. p - q < 1
  <2> SUFFICES ASSUME p - q >= 1 PROVE FALSE
    BY <1>1
  <2>1. m * (p - q) >= m
    BY <1>1
  <2> QED
    BY <1>1, <1>2, <2>1
<1>4. p - q > -1
  <2> SUFFICES ASSUME p - q <= -1 PROVE FALSE
    BY <1>1
  <2>1. m * (p - q) <= -m
    BY <1>1
  <2> QED
    BY <1>1, <1>2, <2>1
<1>5. p - q = 0
  BY <1>1, <1>3, <1>4
<1>6. s = r
  BY <1>1, <1>2, <1>5
<1> QED
  BY <1>6 DEF n, s

(* The counter of the next cycle is the next of the counter.               *)
LEMMA NumbersGoOn ==
  ASSUME NEW c \in Nat
  PROVE  /\ NumberOf(c) \in 0 .. SequenceModulus - 1
         /\ NumberOf(c + 1) = (NumberOf(c) + 1) % SequenceModulus
<1> DEFINE M == SequenceModulus
           q == c \div M
           r == c % M
<1>1. M \in Nat \ {0} /\ q \in Int /\ r \in 0 .. M - 1 /\ c = M * q + r
  BY CycleAssumption
<1> HIDE DEF M, q, r
<1>2. CASE r = M - 1
  <2>1. c + 1 = M * (q + 1) + 0 /\ 0 \in 0 .. M - 1 /\ q + 1 \in Int
    BY <1>1, <1>2
  <2>2. (c + 1) % M = 0
    BY <1>1, <2>1, RemainderIs
  <2> QED
    BY <1>1, <1>2, <2>2, NextNumber DEF NumberOf, M, r
<1>3. CASE r # M - 1
  <2>1. c + 1 = M * q + (r + 1) /\ r + 1 \in 0 .. M - 1
    BY <1>1, <1>3
  <2>2. (c + 1) % M = r + 1
    BY <1>1, <2>1, RemainderIs
  <2> QED
    BY <1>1, <1>3, <2>2, NextNumber DEF NumberOf, M, r
<1> QED
  BY <1>2, <1>3

(* The multiples of D behind zero are the numbers that D divides.          *)
LEMMA MultiplesAreDivided ==
  ASSUME NEW n \in Nat, NEW d \in Int
  PROVE  (\E k \in 1 .. n : n = k * d) <=> d > 0 /\ n > 0 /\ n % d = 0
<1>1. ASSUME NEW k \in 1 .. n, n = k * d PROVE d > 0 /\ n > 0 /\ n % d = 0
  <2>1. n > 0
    BY <1>1
  <2>2. d > 0
    <3> SUFFICES ASSUME d <= 0 PROVE FALSE
      OBVIOUS
    <3>1. k * d <= 0
      OBVIOUS
    <3> QED
      BY <1>1, <2>1, <3>1
  <2>3. n = d * k + 0 /\ 0 \in 0 .. d - 1 /\ d \in Nat \ {0}
    BY <1>1, <2>2
  <2>4. n % d = 0
    BY <2>3, RemainderIs
  <2> QED
    BY <2>1, <2>2, <2>4
<1>2. ASSUME d > 0, n > 0, n % d = 0 PROVE \E k \in 1 .. n : n = k * d
  <2> DEFINE k == n \div d
  <2>1. k \in Int /\ n = d * k
    BY <1>2
  <2> HIDE DEF k
  <2>2. k >= 1
    <3> SUFFICES ASSUME k <= 0 PROVE FALSE
      BY <2>1
    <3>1. d * k <= 0
      BY <1>2, <2>1
    <3> QED
      BY <1>2, <2>1, <3>1
  <2>3. k <= n
    <3>1. d * k >= k
      BY <1>2, <2>1, <2>2
    <3> QED
      BY <2>1, <3>1
  <2>4. k \in 1 .. n /\ n = k * d
    BY <2>1, <2>2, <2>3
  <2> QED
    BY <2>4
<1> QED
  BY <1>1, <1>2

(* The counter is that of the cycle, the record at hand is of this cycle,  *)
(* and what was transmitted is what the multiples of --drop-every left.    *)
ScheduleInvariant ==
  /\ sequence = NumberOf(cycles)
  /\ phase = "ready" => telemetry.sequence = sequence
  /\ cycles = 0 => sent = <<>>
  /\ ScheduleIsExact

(* The code's test is the schedule's.                                      *)
LEMMA DroppedIsWithheld ==
  ASSUME TypeOK, sequence = NumberOf(cycles)
  PROVE  Dropped <=> Withheld(cycles)
<1>1. sequence \in Nat /\ arguments.dropEvery \in Int
  BY CycleAssumption DEF TypeOK
<1>2. Withheld(cycles) <=> arguments.dropEvery > 0 /\ sequence > 0 /\ sequence % arguments.dropEvery = 0
  BY <1>1, MultiplesAreDivided DEF Withheld
<1> QED
  BY <1>2 DEF Dropped

(* A cycle ends, and its packet was dropped.                               *)
LEMMA WithholdingIsScheduled ==
  ASSUME TypeOK, ScheduleInvariant, Withheld(cycles), UNCHANGED <<arguments, sent>>,
         cycles' = cycles + 1
  PROVE  /\ {sent[i].cycle : i \in DOMAIN sent}' = {c \in 0 .. cycles - 1 : ~Withheld(c)}'
         /\ \A i, j \in DOMAIN sent' : i < j => sent'[i].cycle < sent'[j].cycle
         /\ \A i \in DOMAIN sent' : sent'[i].telemetry.sequence = NumberOf(sent'[i].cycle)
<1>1. cycles \in Nat
  BY DEF TypeOK
<1>2. \A c : Withheld(c)' = Withheld(c)
  BY DEF Withheld, NumberOf
<1>3. {c \in 0 .. cycles - 1 : ~Withheld(c)}' = {c \in 0 .. cycles - 1 : ~Withheld(c)}
  <2>1. 0 .. cycles' - 1 = (0 .. cycles - 1) \cup {cycles}
    BY <1>1
  <2> QED
    BY <1>2, <2>1
<1> QED
  BY <1>3 DEF ScheduleInvariant, ScheduleIsExact

(* A cycle ends, and its packet was transmitted.                           *)
LEMMA SendingIsScheduled ==
  ASSUME TypeOK, ScheduleInvariant, ~Withheld(cycles), UNCHANGED arguments,
         phase = "ready", cycles' = cycles + 1,
         sent' = Append(sent, [cycle |-> cycles, telemetry |-> telemetry])
  PROVE  /\ {sent[i].cycle : i \in DOMAIN sent}' = {c \in 0 .. cycles - 1 : ~Withheld(c)}'
         /\ \A i, j \in DOMAIN sent' : i < j => sent'[i].cycle < sent'[j].cycle
         /\ \A i \in DOMAIN sent' : sent'[i].telemetry.sequence = NumberOf(sent'[i].cycle)
<1> DEFINE now == [cycle |-> cycles, telemetry |-> telemetry]
           n == Len(sent)
           C == {sent[i].cycle : i \in DOMAIN sent}
<1>1. /\ cycles \in Nat /\ n \in Nat /\ DOMAIN sent = 1 .. n
      /\ sent \in Seq([cycle : Nat, telemetry : Records])
  BY DEF TypeOK
<1>2. /\ DOMAIN sent' = 1 .. n + 1 /\ sent'[n + 1] = now
      /\ \A i \in 1 .. n : sent'[i] = sent[i]
  <2> HIDE DEF now
  <2> QED
    BY <1>1 DEF now
<1>3. /\ now.cycle = cycles /\ now.telemetry.sequence = NumberOf(cycles)
  BY DEF ScheduleInvariant
<1>4. /\ C = {c \in 0 .. cycles - 1 : ~Withheld(c)}
      /\ \A i, j \in 1 .. n : i < j => sent[i].cycle < sent[j].cycle
      /\ \A i \in 1 .. n : sent[i].telemetry.sequence = NumberOf(sent[i].cycle)
  BY <1>1 DEF ScheduleInvariant, ScheduleIsExact
<1>5. \A i \in 1 .. n : sent[i].cycle \in 0 .. cycles - 1
  <2>1. \A i \in 1 .. n : sent[i].cycle \in C
    BY <1>1
  <2> QED
    BY <1>4, <2>1
<1> HIDE DEF now, n
<1>6. {sent'[i].cycle : i \in DOMAIN sent'} = C \cup {cycles}
  BY <1>1, <1>2, <1>3
<1>7. {c \in 0 .. cycles - 1 : ~Withheld(c)}' = C \cup {cycles}
  <2>1. 0 .. cycles' - 1 = (0 .. cycles - 1) \cup {cycles}
    BY <1>1
  <2>2. \A c : Withheld(c)' = Withheld(c)
    BY DEF Withheld, NumberOf
  <2> HIDE DEF C
  <2> QED
    BY <1>4, <2>1, <2>2
<1>8. ASSUME NEW i \in 1 .. n + 1, NEW j \in 1 .. n + 1, i < j
      PROVE  sent'[i].cycle < sent'[j].cycle
  <2>1. CASE j = n + 1
    <3>1. i \in 1 .. n
      BY <1>1, <1>8, <2>1
    <3> QED
      BY <1>1, <1>2, <1>3, <1>5, <2>1, <3>1
  <2>2. CASE j # n + 1
    <3>1. i \in 1 .. n /\ j \in 1 .. n
      BY <1>1, <1>8, <2>2
    <3> QED
      BY <1>2, <1>4, <1>8, <3>1
  <2> QED
    BY <2>1, <2>2
<1>9. ASSUME NEW i \in 1 .. n + 1
      PROVE  sent'[i].telemetry.sequence = NumberOf(sent'[i].cycle)
  <2>1. CASE i = n + 1
    BY <1>2, <1>3, <2>1
  <2>2. CASE i # n + 1
    <3>1. i \in 1 .. n
      BY <1>1, <1>9, <2>2
    <3> QED
      BY <1>2, <1>4, <3>1
  <2> QED
    BY <2>1, <2>2
<1> QED
  BY <1>2, <1>6, <1>7, <1>8, <1>9

(* In the first round of the counter, the count that goes with it.         *)
LEMMA FirstRoundIsCounted ==
  ASSUME TypeOK, ScheduleInvariant, UNCHANGED arguments, cycles' = cycles + 1,
         \/ Dropped /\ sent' = sent
         \/ ~Dropped /\ sent' = Append(sent, [cycle |-> cycles, telemetry |-> telemetry]),
         arguments.dropEvery > 0, cycles' \in 1 .. SequenceModulus
  PROVE  Len(sent') = cycles' - (cycles' - 1) \div arguments.dropEvery
<1>1. /\ arguments.dropEvery \in Int /\ cycles \in Nat /\ SequenceModulus \in Nat \ {0}
      /\ sent \in Seq([cycle : Nat, telemetry : Records])
  BY CycleAssumption DEF TypeOK
<1>2. sequence = cycles
  <2>1. cycles \in 0 .. SequenceModulus - 1
    BY <1>1
  <2>2. cycles % SequenceModulus = cycles
    BY <1>1, <2>1
  <2> QED
    BY <2>2 DEF ScheduleInvariant, NumberOf
<1>3. CASE cycles = 0
  <2>1. ~Dropped /\ sent = <<>>
    BY <1>2, <1>3 DEF Dropped, ScheduleInvariant
  <2>2. Len(sent') = 1
    BY <2>1
  <2>3. 0 \div arguments.dropEvery = 0
    BY <1>1
  <2> QED
    BY <1>3, <2>2, <2>3
<1>4. CASE cycles # 0
  <2>1. Len(sent) = cycles - (cycles - 1) \div arguments.dropEvery
    BY <1>1, <1>4 DEF ScheduleInvariant, ScheduleIsExact
  <2>2. cycles \div arguments.dropEvery =
          (cycles - 1) \div arguments.dropEvery
            + (IF cycles % arguments.dropEvery = 0 THEN 1 ELSE 0)
    <3>1. cycles \in Nat \ {0} /\ arguments.dropEvery \in Nat \ {0}
      BY <1>1, <1>4
    <3> QED
      BY <3>1, QuotientStep, Zenon
  <2>3. Dropped <=> cycles % arguments.dropEvery = 0
    BY <1>1, <1>2, <1>4 DEF Dropped
  <2>4. (cycles - 1) \div arguments.dropEvery \in Int
    BY <1>1, <1>4
  <2>5. Len(sent') = Len(sent) + (IF Dropped THEN 0 ELSE 1)
    BY <1>1
  <2> QED
    BY <1>1, <2>1, <2>2, <2>3, <2>4, <2>5
<1> QED
  BY <1>3, <1>4

(* The loop of main() transmits exactly the cycles whose number no multiple*)
(* of --drop-every N is, each once, in order and under the number of its   *)
(* cycle, round after round of the counter: a dropped packet takes its     *)
(* number with it, and the first of a round is never dropped.              *)
THEOREM ScheduleHolds == Spec => []ScheduleIsExact
<1>1. Init => ScheduleInvariant
  <2> SUFFICES ASSUME Init PROVE ScheduleInvariant
    OBVIOUS
  <2>1. NumberOf(0) = 0
    BY CycleAssumption DEF NumberOf
  <2>2. DOMAIN sent = {} /\ cycles = 0
    BY DEF Init
  <2>3. 0 .. cycles - 1 = {}
    BY <2>2
  <2>4. ScheduleIsExact
    BY <2>2, <2>3 DEF ScheduleIsExact
  <2> QED
    BY <2>1, <2>2, <2>4 DEF Init, ScheduleInvariant
<1>2. TypeOK /\ ScheduleInvariant /\ [Next]_simulatorVars => ScheduleInvariant'
  <2> SUFFICES ASSUME TypeOK, ScheduleInvariant, [Next]_simulatorVars PROVE ScheduleInvariant'
    OBVIOUS
  <2>1. ASSUME UNCHANGED <<arguments, sequence, cycles, sent>>,
               phase' = "ready" => telemetry'.sequence = sequence
        PROVE  ScheduleInvariant'
    BY <2>1 DEF ScheduleInvariant, ScheduleIsExact, Withheld, NumberOf
  <2>2. ASSUME EndCycle, phase = "ready", UNCHANGED arguments,
               \/ Dropped /\ sent' = sent
               \/ ~Dropped /\ sent' = Append(sent, [cycle |-> cycles, telemetry |-> telemetry])
        PROVE  ScheduleInvariant'
    <3>1. cycles' = cycles + 1 /\ cycles \in Nat /\ cycles' # 0 /\ phase' = "asleep"
      BY <2>2 DEF EndCycle, TypeOK
    <3>2. sequence' = NumberOf(cycles')
      BY <2>2, <3>1, NumbersGoOn DEF EndCycle, ScheduleInvariant
    <3>3. Dropped <=> Withheld(cycles)
      BY DroppedIsWithheld DEF ScheduleInvariant
    <3>4. /\ {sent[i].cycle : i \in DOMAIN sent}' = {c \in 0 .. cycles - 1 : ~Withheld(c)}'
          /\ \A i, j \in DOMAIN sent' : i < j => sent'[i].cycle < sent'[j].cycle
          /\ \A i \in DOMAIN sent' : sent'[i].telemetry.sequence = NumberOf(sent'[i].cycle)
      BY <2>2, <3>1, <3>3, WithholdingIsScheduled, SendingIsScheduled
    <3>5. arguments.dropEvery > 0 /\ cycles' \in 1 .. SequenceModulus =>
            Len(sent') = cycles' - (cycles' - 1) \div arguments.dropEvery
      BY <2>2, <3>1, FirstRoundIsCounted
    <3>6. ScheduleIsExact'
      BY <2>2, <3>4, <3>5 DEF ScheduleIsExact, NumberOf
    <3> QED
      BY <3>1, <3>2, <3>6 DEF ScheduleInvariant, NumberOf
  <2>3. CASE Drop
    BY <2>2, <2>3 DEF Drop
  <2>4. CASE Transmit
    BY <2>2, <2>4 DEF Transmit
  <2>5. CASE \E time \in Clock : Make(time)
    <3>1. telemetry'.sequence = sequence
      BY <2>5 DEF Make, Telemetry
    <3> QED
      BY <2>1, <2>5, <3>1 DEF Make
  <2>6. CASE \/ Start \/ Stop \/ SendFails \/ Wake \/ Signal \/ UNCHANGED simulatorVars
    BY <2>1, <2>6 DEF Start, Stop, SendFails, Wake, Signal, simulatorVars, ScheduleInvariant
  <2> QED
    BY <2>3, <2>4, <2>5, <2>6 DEF Next, Program
<1>3. ScheduleInvariant => ScheduleIsExact
  BY DEF ScheduleInvariant
<1> QED
  BY <1>1, <1>2, <1>3, SimulatorTypes, PTL DEF Spec

(* The simulator of a flight is the simulator: the link and the ground     *)
(* station never touch it, and so its theorems hold of every flight.       *)
THEOREM FlightFliesTheSimulator == FlightSpec => Spec
<1>1. FlightInit => Init
  BY DEF FlightInit
<1>2. [FlightNext]_vars => [Next]_simulatorVars
  BY DEF FlightNext, vars, Send, Aboard, Interrupt, Link, Lose, Repeat, Overtake, Corrupt,
         Intrude, Fault, Hear, Next, Program, simulatorVars
<1> QED
  BY <1>1, <1>2, PTL DEF FlightSpec, Spec

(* What a flight sends is what its command line asked for.                 *)
THEOREM FlightsAreScheduled == FlightSpec => [](TypeOK /\ CountIsExact /\ ScheduleIsExact)
  BY FlightFliesTheSimulator, SimulatorTypes, CountHolds, ScheduleHolds, PTL

-----------------------------------------------------------------------------
(* What is encoded and what is decoded.                                    *)

(* What a datagram of the simulator is made of.                            *)
Octets == Byte \cup {ByteOf(bits) : bits \in SUBSET (0 .. 7)}

(* The datagram begins with these bytes.                                   *)
Begins(data, bytes) ==
  Len(bytes) <= Len(data) /\ \A i \in 1 .. Len(bytes) : data[i] = bytes[i]

(* What a second sequence adds stands right behind the first.               *)
LEMMA Joined ==
  ASSUME NEW s \in Seq(Octets), NEW t \in Seq(Octets)
  PROVE  /\ Len(s \o t) = Len(s) + Len(t)
         /\ \A i \in 1 .. Len(t) : (s \o t)[Len(s) + i] = t[i]
  OBVIOUS

(* What begins with the longer begins with the shorter.                    *)
LEMMA BeginsWithLess ==
  ASSUME NEW out \in Seq(Octets), NEW more \in Seq(Octets), NEW data, Begins(data, out \o more)
  PROVE  Begins(data, out)
<1>1. /\ Len(out \o more) = Len(out) + Len(more)
      /\ \A i \in 1 .. Len(out) : (out \o more)[i] = out[i]
  BY ConcatProperties
<1>2. Len(out) \in Nat /\ Len(more) \in Nat
  OBVIOUS
<1> DEFINE whole == out \o more
<1>3. Len(whole) = Len(out) + Len(more) /\ \A i \in 1 .. Len(out) : whole[i] = out[i]
  BY <1>1
<1>4. Len(whole) <= Len(data) /\ \A i \in 1 .. Len(whole) : data[i] = whole[i]
  BY DEF Begins
<1> HIDE DEF whole
<1>5. \A i \in 1 .. Len(out) : i \in 1 .. Len(whole)
  BY <1>2, <1>3
<1>6. \A i \in 1 .. Len(out) : data[i] = out[i]
  BY <1>3, <1>4, <1>5
<1> QED
  BY <1>2, <1>3, <1>4, <1>6 DEF Begins

(* Two numbers of a byte each.                                             *)
LEMMA Halves ==
  ASSUME NEW value \in Int
  PROVE  /\ (value \div 256) % 256 \in Byte /\ value % 256 \in Byte
         /\ 256 * ((value \div 256) % 256) + (value % 256) = value % 65536
  BY SMT DEF Byte

(* append_u16 appends two bytes.                                           *)
LEMMA Appends16 ==
  ASSUME NEW out \in Seq(Octets), NEW value \in Int
  PROVE  /\ AppendUnsigned16(out, value) \in Seq(Octets)
         /\ Len(AppendUnsigned16(out, value)) = Len(out) + 2
<1> DEFINE high == (value \div 256) % 256
           low  == value % 256
<1>1. high \in Octets /\ low \in Octets
  BY Halves DEF Octets
<1>2. AppendUnsigned16(out, value) = out \o <<high, low>>
  BY DEF AppendUnsigned16
<1> HIDE DEF high, low
<1> QED
  BY <1>1, <1>2

(* What begins with a number appended to some bytes begins with them.       *)
LEMMA Keeps16 ==
  ASSUME NEW out \in Seq(Octets), NEW value \in Int, NEW data,
         Begins(data, AppendUnsigned16(out, value))
  PROVE  Begins(data, out)
<1> DEFINE high == (value \div 256) % 256
           low  == value % 256
           pair == <<high, low>>
<1>1. high \in Octets /\ low \in Octets
  BY Halves DEF Octets
<1>2. AppendUnsigned16(out, value) = out \o pair
  BY DEF AppendUnsigned16
<1> HIDE DEF high, low
<1>3. pair \in Seq(Octets)
  BY <1>1
<1> HIDE DEF pair
<1> QED
  BY <1>2, <1>3, BeginsWithLess

(* Which are read back, modulo 2^16.                                       *)
LEMMA Reads16 ==
  ASSUME NEW out \in Seq(Octets), NEW value \in Int, NEW data,
         Begins(data, AppendUnsigned16(out, value))
  PROVE  Unsigned16(data, Len(out) + 1) = value % 65536
<1> DEFINE high == (value \div 256) % 256
           low  == value % 256
           pair == <<high, low>>
           whole == out \o pair
<1>1. high \in Octets /\ low \in Octets /\ 256 * high + low = value % 65536
  BY Halves DEF Octets
<1>2. AppendUnsigned16(out, value) = whole
  BY DEF AppendUnsigned16
<1> HIDE DEF high, low
<1>3. pair \in Seq(Octets) /\ Len(pair) = 2 /\ pair[1] = high /\ pair[2] = low
  BY <1>1
<1> HIDE DEF pair
<1>4. Len(whole) = Len(out) + Len(pair)
      /\ \A i \in 1 .. Len(pair) : whole[Len(out) + i] = pair[i]
  <2>1. pair \in Seq(Octets)
    BY <1>3
  <2> QED
    BY <2>1, Joined
<1>5. whole[Len(out) + 1] = high /\ whole[Len(out) + 2] = low
  BY <1>3, <1>4
<1> HIDE DEF whole
<1>6. data[Len(out) + 1] = whole[Len(out) + 1] /\ data[Len(out) + 2] = whole[Len(out) + 2]
  <2>1. Len(whole) = Len(out) + 2 /\ Len(out) \in Nat
    BY <1>3, <1>4
  <2>2. Len(out) + 1 \in 1 .. Len(whole) /\ Len(out) + 2 \in 1 .. Len(whole)
    BY <2>1
  <2>3. \A i \in 1 .. Len(whole) : data[i] = whole[i]
    BY <1>2 DEF Begins
  <2> QED
    BY <2>2, <2>3
<1>7. data[Len(out) + 1] = high /\ data[Len(out) + 1 + 1] = low
  BY <1>5, <1>6
<1> QED
  BY <1>1, <1>7 DEF Unsigned16

(* append_u32 appends four.                                                *)
LEMMA Appends32 ==
  ASSUME NEW out \in Seq(Octets), NEW value \in Nat
  PROVE  /\ AppendUnsigned32(out, value) \in Seq(Octets)
         /\ Len(AppendUnsigned32(out, value)) = Len(out) + 4
<1> DEFINE high == value \div 65536
           half == AppendUnsigned16(out, high)
<1>1. high \in Int
  OBVIOUS
<1>2. value \in Int
  OBVIOUS
<1>3. AppendUnsigned32(out, value) = AppendUnsigned16(half, value)
  BY DEF AppendUnsigned32
<1> HIDE DEF high
<1>4. half \in Seq(Octets) /\ Len(half) = Len(out) + 2
  BY <1>1, Appends16
<1> HIDE DEF half
<1>5. half \in Seq(Octets)
  BY <1>4
<1>6. /\ AppendUnsigned16(half, value) \in Seq(Octets)
      /\ Len(AppendUnsigned16(half, value)) = Len(half) + 2
  BY <1>2, <1>5, Appends16
<1> QED
  BY <1>3, <1>4, <1>6

(* Which are two halves, each of them read back.                           *)
LEMMA Reads32 ==
  ASSUME NEW out \in Seq(Octets), NEW value \in Nat, NEW data,
         Begins(data, AppendUnsigned32(out, value))
  PROVE  /\ Begins(data, out)
         /\ Unsigned16(data, Len(out) + 1) = (value \div 65536) % 65536
         /\ Unsigned16(data, Len(out) + 1 + 2) = value % 65536
<1> DEFINE high == value \div 65536
           half == AppendUnsigned16(out, high)
<1>1. high \in Int /\ value \in Int
  OBVIOUS
<1>2. AppendUnsigned32(out, value) = AppendUnsigned16(half, value)
  BY DEF AppendUnsigned32
<1> HIDE DEF high
<1>3. half \in Seq(Octets) /\ Len(half) = Len(out) + 2
  BY <1>1, Appends16
<1> HIDE DEF half
<1>4. Begins(data, AppendUnsigned16(half, value))
  BY <1>2
<1>5. Begins(data, half)
  BY <1>1, <1>3, <1>4, Keeps16
<1>6. Begins(data, out)
  BY <1>1, <1>5, Keeps16 DEF half
<1>7. Unsigned16(data, Len(out) + 1) = high % 65536
  BY <1>1, <1>5, Reads16 DEF half
<1>8. Unsigned16(data, Len(half) + 1) = value % 65536
  BY <1>1, <1>3, <1>4, Reads16
<1>9. Len(half) + 1 = Len(out) + 1 + 2
  BY <1>3
<1> QED
  BY <1>6, <1>7, <1>8, <1>9 DEF high

(* A number below 2^32 is its two halves, as telemetry.hpp splits it.       *)
LEMMA Whole32 ==
  ASSUME NEW value \in Nat, value \div 65536 < 65536
  PROVE  65536 * ((value \div 65536) % 65536) + (value % 65536) = value
<1>1. value \div 65536 \in Nat /\ 65536 * (value \div 65536) + (value % 65536) = value
  OBVIOUS
<1>2. (value \div 65536) % 65536 = value \div 65536
  BY <1>1
<1> QED
  BY <1>1, <1>2

(* So a number of 32 bits is read back whole.                              *)
LEMMA Is32 ==
  ASSUME NEW out \in Seq(Octets), NEW value \in Nat, value \div 65536 < 65536, NEW data,
         Begins(data, AppendUnsigned32(out, value))
  PROVE  Unsigned32(data, Len(out) + 1) = value
<1> DEFINE first == Len(out) + 1
           low   == value % 65536
           high  == (value \div 65536) % 65536
<1>1. Unsigned16(data, first) = high /\ Unsigned16(data, first + 2) = low
  BY Reads32
<1>2. 65536 * high + low = value
  BY Whole32
<1> HIDE DEF first, low, high
<1>3. Unsigned32(data, first) = value
  BY <1>1, <1>2 DEF Unsigned32
<1> QED
  BY <1>3 DEF first

(* And so is one of 64 bits, which append_u64 makes of two of them.        *)
LEMMA Appends64 ==
  ASSUME NEW out \in Seq(Octets), NEW value \in Nat
  PROVE  /\ AppendUnsigned64(out, value) \in Seq(Octets)
         /\ Len(AppendUnsigned64(out, value)) = Len(out) + 8
<1> DEFINE high == (value \div 65536) \div 65536
           half == AppendUnsigned32(out, high)
<1>1. high \in Nat
  OBVIOUS
<1>2. AppendUnsigned64(out, value) = AppendUnsigned32(half, value)
  BY DEF AppendUnsigned64
<1> HIDE DEF high
<1>3. half \in Seq(Octets) /\ Len(half) = Len(out) + 4
  BY <1>1, Appends32
<1> HIDE DEF half
<1>4. /\ AppendUnsigned32(half, value) \in Seq(Octets)
      /\ Len(AppendUnsigned32(half, value)) = Len(half) + 4
  BY <1>3, Appends32
<1> QED
  BY <1>2, <1>3, <1>4

(* A number is its low half and the two halves of what is above it.         *)
LEMMA Whole64 ==
  ASSUME NEW value \in Nat
  PROVE  65536 * (65536 * ((value \div 65536) \div 65536) + ((value \div 65536) % 65536))
           + (value % 65536) = value
<1> DEFINE middle == value \div 65536
<1>1. middle \in Nat /\ 65536 * middle + (value % 65536) = value
  OBVIOUS
<1> HIDE DEF middle
<1>2. 65536 * (middle \div 65536) + (middle % 65536) = middle
  BY <1>1
<1> QED
  BY <1>1, <1>2 DEF middle

(* So a number of 64 bits is appended behind what was there, and read back  *)
(* whole.                                                                   *)
LEMMA Is64 ==
  ASSUME NEW out \in Seq(Octets), NEW value \in Nat,
         ((value \div 65536) \div 65536) \div 65536 < 65536, NEW data,
         Begins(data, AppendUnsigned64(out, value))
  PROVE  Begins(data, out) /\ Unsigned64(data, Len(out) + 1) = value
<1> DEFINE first  == Len(out) + 1
           low    == value % 65536
           middle == (value \div 65536) % 65536
           high   == (value \div 65536) \div 65536
           half   == AppendUnsigned32(out, high)
<1>1. high \in Nat /\ high \div 65536 < 65536
  OBVIOUS
<1>2. AppendUnsigned64(out, value) = AppendUnsigned32(half, value)
  BY DEF AppendUnsigned64
<1>3. 65536 * (65536 * high + middle) + low = value
  BY Whole64
<1> HIDE DEF high
<1>4. half \in Seq(Octets) /\ Len(half) = Len(out) + 4
  <2> HIDE DEF half, first, low, middle
  <2>1. high \in Nat
    BY <1>1
  <2>2. AppendUnsigned32(out, high) \in Seq(Octets)
    BY <2>1, Appends32
  <2>3. Len(AppendUnsigned32(out, high)) = Len(out) + 4
    BY <2>1, Appends32
  <2> QED
    BY <2>2, <2>3 DEF half
<1> HIDE DEF half
<1>5. /\ Begins(data, half)
      /\ Unsigned16(data, Len(half) + 1) = middle
      /\ Unsigned16(data, Len(half) + 1 + 2) = low
  BY <1>2, <1>4, Reads32
<1>6. Begins(data, out)
  BY <1>1, <1>5, Reads32 DEF half
<1>7. Unsigned32(data, first) = high
  BY <1>1, <1>5, Is32 DEF half
<1>8. Len(half) + 1 = first + 4 /\ Len(half) + 1 + 2 = first + 6
  BY <1>4
<1>9. Unsigned16(data, first + 4) = middle /\ Unsigned16(data, first + 6) = low
  BY <1>5, <1>8
<1> HIDE DEF first, middle, low
<1>10. Unsigned64(data, first) = 65536 * (65536 * high + middle) + low
  BY <1>7, <1>9 DEF Unsigned64
<1> QED
  BY <1>3, <1>6, <1>10 DEF first

(* The widths of the 16-bit fields as inequalities: an interval with ends    *)
(* this far apart is nothing to unfold.                                      *)
LEMMA WidthOf16 ==
  /\ Unsigned16Max \in Int /\ 65535 <= Unsigned16Max /\ Unsigned16Max < 65536
  /\ \A value \in Signed : value \in Int /\ -32769 < value /\ value < 32768
<1>1. Unsigned16Max \in Int /\ 65535 <= Unsigned16Max /\ Unsigned16Max < 65536
  BY DEF Unsigned16Max
<1> DEFINE least == -32768
           most  == 32767
<1>2. least \in Int /\ most \in Int
  OBVIOUS
<1>3. -32769 < least /\ most < 32768
  BY SMTT(30)
<1>4. Signed = least .. most
  BY DEF Signed
<1> HIDE DEF least, most
<1> QED
  BY <1>1, <1>2, <1>3, <1>4

(* A number of 16 bits, without a sign and with one.                       *)
LEMMA Is16 ==
  ASSUME NEW out \in Seq(Octets), NEW value \in 0 .. Unsigned16Max
  PROVE  /\ AppendUnsigned16(out, value) \in Seq(Octets)
         /\ Len(AppendUnsigned16(out, value)) = Len(out) + 2
         /\ \A data : Begins(data, AppendUnsigned16(out, value)) =>
              Begins(data, out) /\ Unsigned16(data, Len(out) + 1) = value
<1>1. value \in Int /\ value % 65536 = value
  BY WidthOf16
<1>2. ASSUME NEW data, Begins(data, AppendUnsigned16(out, value))
      PROVE  Begins(data, out) /\ Unsigned16(data, Len(out) + 1) = value
  BY <1>1, <1>2, Keeps16, Reads16
<1>3. /\ AppendUnsigned16(out, value) \in Seq(Octets)
      /\ Len(AppendUnsigned16(out, value)) = Len(out) + 2
  <2>1. value \in Int
    BY <1>1
  <2> QED
    BY <2>1, Appends16
<1> QED
  BY <1>2, <1>3

(* The cast of a signed number to 16 unsigned bits loses nothing: the       *)
(* decoder's struct format unfolds it.                                      *)
LEMMA SignFolds ==
  ASSUME NEW value \in Signed
  PROVE  /\ value % 65536 \in 0 .. Unsigned16Max
         /\ value = IF value % 65536 < 32768 THEN value % 65536 ELSE (value % 65536) - 65536
<1>1. value \in Int /\ -32769 < value /\ value < 32768
  BY WidthOf16
<1>2. value % 65536 \in 0 .. Unsigned16Max
  BY <1>1, WidthOf16
<1>3. CASE value >= 0
  <2>1. value % 65536 = value
    BY <1>1, <1>3
  <2> QED
    BY <1>1, <1>2, <1>3, <2>1
<1>4. CASE value < 0
  <2>1. value % 65536 = value + 65536
    BY <1>1, <1>4
  <2> QED
    BY <1>1, <1>2, <1>4, <2>1
<1> QED
  BY <1>1, <1>3, <1>4

(* So a signed number of 16 bits is appended and read back.                 *)
LEMMA IsSigned ==
  ASSUME NEW out \in Seq(Octets), NEW value \in Signed
  PROVE  /\ AppendSigned16(out, value) \in Seq(Octets)
         /\ Len(AppendSigned16(out, value)) = Len(out) + 2
         /\ \A data : Begins(data, AppendSigned16(out, value)) =>
              Begins(data, out) /\ Signed16(data, Len(out) + 1) = value
<1> DEFINE folded == value % 65536
<1>1. /\ folded \in 0 .. Unsigned16Max
      /\ value = IF folded < 32768 THEN folded ELSE folded - 65536
  BY SignFolds
<1>2. AppendSigned16(out, value) = AppendUnsigned16(out, folded)
  BY DEF AppendSigned16
<1> HIDE DEF folded
<1>3. ASSUME NEW data, Begins(data, AppendUnsigned16(out, folded))
      PROVE  Begins(data, out) /\ Signed16(data, Len(out) + 1) = value
  <2>1. Begins(data, out) /\ Unsigned16(data, Len(out) + 1) = folded
    BY <1>1, <1>3, Is16
  <2> QED
    BY <1>1, <2>1 DEF Signed16
<1>4. /\ AppendUnsigned16(out, folded) \in Seq(Octets)
      /\ Len(AppendUnsigned16(out, folded)) = Len(out) + 2
  BY <1>1, Is16
<1> QED
  BY <1>2, <1>3, <1>4

(* What a record is encoded into, up to the checksum, stage by stage.      *)
LEMMA HeaderIs ==
  LET header == Magic \o <<Version, 0>>
  IN  /\ header \in Seq(Octets) /\ Len(header) = 6
      /\ \A i \in 1 .. 4 : header[i] = Magic[i]
      /\ header[5] = Version /\ header[6] = 0
<1> DEFINE tail == <<Version, 0>>
<1>1. Magic \in Seq(Octets) /\ Len(Magic) = 4
  BY DEF Magic, Octets, Byte
<1>2. tail \in Seq(Octets) /\ Len(tail) = 2 /\ tail[1] = Version /\ tail[2] = 0
  BY DEF Version, Octets, Byte
<1> HIDE DEF tail
<1>3. /\ Magic \o tail \in Seq(Octets) /\ Len(Magic \o tail) = Len(Magic) + Len(tail)
      /\ \A i \in 1 .. Len(Magic) : (Magic \o tail)[i] = Magic[i]
      /\ \A i \in 1 .. Len(tail) : (Magic \o tail)[Len(Magic) + i] = tail[i]
  <2>1. Magic \in Seq(Octets) /\ tail \in Seq(Octets)
    BY <1>1, <1>2
  <2> QED
    BY <2>1, Joined
<1> HIDE DEF Magic
<1>4. (Magic \o tail)[5] = tail[1] /\ (Magic \o tail)[6] = tail[2]
  <2>1. 1 \in 1 .. Len(tail) /\ 2 \in 1 .. Len(tail) /\ Len(Magic) + 1 = 5 /\ Len(Magic) + 2 = 6
    BY <1>1, <1>2
  <2> QED
    BY <1>3, <2>1
<1>5. Len(Magic \o tail) = 6 /\ 1 .. 4 = 1 .. Len(Magic)
  BY <1>1, <1>2, <1>3
<1> QED
  BY <1>2, <1>3, <1>4, <1>5 DEF tail

(* A byte is appended behind what was there, and read back.                 *)
LEMMA ByteIsAppended ==
  ASSUME NEW out \in Seq(Octets), NEW byte \in Octets
  PROVE  /\ Append(out, byte) \in Seq(Octets)
         /\ Len(Append(out, byte)) = Len(out) + 1
         /\ \A data : Begins(data, Append(out, byte)) =>
              Begins(data, out) /\ data[Len(out) + 1] = byte
<1>1. /\ Append(out, byte) \in Seq(Octets) /\ Len(Append(out, byte)) = Len(out) + 1
      /\ \A i \in 1 .. Len(out) : Append(out, byte)[i] = out[i]
      /\ Append(out, byte)[Len(out) + 1] = byte
  OBVIOUS
<1>2. Len(out) \in Nat
  OBVIOUS
<1> DEFINE longer == Append(out, byte)
<1>3. /\ Len(longer) = Len(out) + 1 /\ longer[Len(out) + 1] = byte
      /\ \A i \in 1 .. Len(out) : longer[i] = out[i]
  BY <1>1
<1>4. ASSUME NEW data, Begins(data, longer)
      PROVE  Begins(data, out) /\ data[Len(out) + 1] = byte
  <2> HIDE DEF longer
  <2>1. Len(longer) <= Len(data) /\ \A i \in 1 .. Len(longer) : data[i] = longer[i]
    BY <1>4 DEF Begins
  <2>2. Len(out) + 1 \in 1 .. Len(longer) /\ \A i \in 1 .. Len(out) : i \in 1 .. Len(longer)
    BY <1>2, <1>3
  <2>3. Len(out) <= Len(data)
    <3>1. Len(data) >= Len(longer)
      BY <2>1
    <3> QED
      BY <1>2, <1>3, <2>1
  <2> QED
    BY <1>3, <2>1, <2>2, <2>3 DEF Begins
<1> QED
  BY <1>1, <1>4

(* Everything a record is made of.                                         *)
LEMMA FieldsFit ==
  ASSUME NEW t \in Records
  PROVE  /\ t.sequence \in Nat /\ t.sequence \div 65536 < 65536
         /\ t.timestamp \in Nat /\ ((t.timestamp \div 65536) \div 65536) \div 65536 < 65536
         /\ t.mode \in DOMAIN ModeCodes /\ ModeCodes[t.mode] \in Octets
         /\ t.battery \in 0 .. Unsigned16Max /\ t.current \in 0 .. Unsigned16Max
         /\ t.temperature \in Signed /\ t.roll \in Signed /\ t.pitch \in Signed /\ t.yaw \in Signed
<1>1. t.sequence \in Nat /\ t.sequence <= SequenceModulus - 1 /\ SequenceModulus \in Nat \ {0}
  BY CycleAssumption DEF Records
<1>2. t.sequence \div 65536 < 65536
  BY <1>1, WidthAssumption
<1>3. t.timestamp \in Clock
  BY DEF Records
<1>4. t.timestamp \in Nat /\ ((t.timestamp \div 65536) \div 65536) \div 65536 < 65536
  BY <1>3, WidthAssumption
<1>5. t.mode \in {"BOOT", "NOMINAL", "SAFE"}
  BY DEF Records
<1>6. t.mode \in DOMAIN ModeCodes /\ ModeCodes[t.mode] \in 0 .. 2
  BY <1>5 DEF ModeCodes
<1>7. ModeCodes[t.mode] \in Octets
  BY <1>6 DEF Octets, Byte
<1>8. /\ t.battery \in 0 .. Unsigned16Max /\ t.current \in 0 .. Unsigned16Max
      /\ t.temperature \in Signed /\ t.roll \in Signed /\ t.pitch \in Signed /\ t.yaw \in Signed
  BY DEF Records
<1> QED
  BY <1>1, <1>2, <1>4, <1>6, <1>7, <1>8

(* Any datagram that begins with the body of a record begins with the      *)
(* header and has the fields of the record in their places.                *)
LEMMA BodyIsRead ==
  ASSUME NEW t \in Records
  PROVE  /\ EncodeBody(t) \in Seq(Octets) /\ Len(EncodeBody(t)) = PacketSize - 4
         /\ \A data : Begins(data, EncodeBody(t)) =>
              /\ Begins(data, Magic \o <<Version, 0>>)
              /\ Unsigned32(data, 7) = t.sequence /\ Unsigned64(data, 11) = t.timestamp
              /\ data[19] = ModeCodes[t.mode]
              /\ Unsigned16(data, 20) = t.battery /\ Unsigned16(data, 22) = t.current
              /\ Signed16(data, 24) = t.temperature /\ Signed16(data, 26) = t.roll
              /\ Signed16(data, 28) = t.pitch /\ Signed16(data, 30) = t.yaw
<1> DEFINE s0 == Magic \o <<Version, 0>>
           s1 == AppendUnsigned32(s0, t.sequence)
           s2 == AppendUnsigned64(s1, t.timestamp)
           s3 == Append(s2, ModeCodes[t.mode])
           s4 == AppendUnsigned16(s3, t.battery)
           s5 == AppendUnsigned16(s4, t.current)
           s6 == AppendSigned16(s5, t.temperature)
           s7 == AppendSigned16(s6, t.roll)
           s8 == AppendSigned16(s7, t.pitch)
           s9 == AppendSigned16(s8, t.yaw)
<1>0. EncodeBody(t) = s9
  BY DEF EncodeBody
<1> HIDE DEF s9
<1>1. s0 \in Seq(Octets) /\ Len(s0) = 6
  BY HeaderIs
<1> HIDE DEF s0
<1>2. s0 \in Seq(Octets) /\ t.sequence \in Nat /\ t.timestamp \in Nat
  BY <1>1, FieldsFit
<1>3. /\ s1 \in Seq(Octets) /\ Len(s1) = Len(s0) + 4
      /\ \A data : Begins(data, s1) => Begins(data, s0) /\ Unsigned32(data, Len(s0) + 1) = t.sequence
  <2>1. t.sequence \div 65536 < 65536
    BY FieldsFit
  <2>2. s1 \in Seq(Octets) /\ Len(s1) = Len(s0) + 4
    BY <1>2, Appends32
  <2>3. ASSUME NEW data, Begins(data, s1)
        PROVE  Begins(data, s0) /\ Unsigned32(data, Len(s0) + 1) = t.sequence
    <3>1. Begins(data, s0)
      BY <1>2, <2>3, Reads32
    <3>2. Unsigned32(data, Len(s0) + 1) = t.sequence
      BY <1>2, <2>1, <2>3, Is32
    <3> QED
      BY <3>1, <3>2
  <2> QED
    BY <2>2, <2>3
<1> HIDE DEF s1
<1>4. s1 \in Seq(Octets)
  BY <1>3
<1>5. /\ s2 \in Seq(Octets) /\ Len(s2) = Len(s1) + 8
      /\ \A data : Begins(data, s2) => Begins(data, s1) /\ Unsigned64(data, Len(s1) + 1) = t.timestamp
  <2>1. ((t.timestamp \div 65536) \div 65536) \div 65536 < 65536
    BY FieldsFit
  <2>2. s2 \in Seq(Octets) /\ Len(s2) = Len(s1) + 8
    BY <1>2, <1>4, Appends64
  <2>3. ASSUME NEW data, Begins(data, s2)
        PROVE  Begins(data, s1) /\ Unsigned64(data, Len(s1) + 1) = t.timestamp
    BY <1>2, <1>4, <2>1, <2>3, Is64
  <2> QED
    BY <2>2, <2>3
<1> HIDE DEF s2
<1>6. /\ s3 \in Seq(Octets) /\ Len(s3) = Len(s2) + 1
      /\ \A data : Begins(data, s3) => Begins(data, s2) /\ data[Len(s2) + 1] = ModeCodes[t.mode]
  BY <1>5, FieldsFit, ByteIsAppended
<1> HIDE DEF s3
<1>7. /\ s4 \in Seq(Octets) /\ Len(s4) = Len(s3) + 2
      /\ \A data : Begins(data, s4) => Begins(data, s3) /\ Unsigned16(data, Len(s3) + 1) = t.battery
  BY <1>6, FieldsFit, Is16
<1> HIDE DEF s4
<1>8. /\ s5 \in Seq(Octets) /\ Len(s5) = Len(s4) + 2
      /\ \A data : Begins(data, s5) => Begins(data, s4) /\ Unsigned16(data, Len(s4) + 1) = t.current
  BY <1>7, FieldsFit, Is16
<1> HIDE DEF s5
<1>9. /\ s6 \in Seq(Octets) /\ Len(s6) = Len(s5) + 2
      /\ \A data : Begins(data, s6) => Begins(data, s5) /\ Signed16(data, Len(s5) + 1) = t.temperature
  BY <1>8, FieldsFit, IsSigned
<1> HIDE DEF s6
<1>10. /\ s7 \in Seq(Octets) /\ Len(s7) = Len(s6) + 2
       /\ \A data : Begins(data, s7) => Begins(data, s6) /\ Signed16(data, Len(s6) + 1) = t.roll
  BY <1>9, FieldsFit, IsSigned
<1> HIDE DEF s7
<1>11. /\ s8 \in Seq(Octets) /\ Len(s8) = Len(s7) + 2
       /\ \A data : Begins(data, s8) => Begins(data, s7) /\ Signed16(data, Len(s7) + 1) = t.pitch
  BY <1>10, FieldsFit, IsSigned
<1> HIDE DEF s8
<1>12. /\ s9 \in Seq(Octets) /\ Len(s9) = Len(s8) + 2
       /\ \A data : Begins(data, s9) => Begins(data, s8) /\ Signed16(data, Len(s8) + 1) = t.yaw
  BY <1>11, FieldsFit, IsSigned DEF s9
<1>13. /\ Len(s0) + 1 = 7 /\ Len(s1) + 1 = 11 /\ Len(s2) + 1 = 19 /\ Len(s3) + 1 = 20
       /\ Len(s4) + 1 = 22 /\ Len(s5) + 1 = 24 /\ Len(s6) + 1 = 26 /\ Len(s7) + 1 = 28
       /\ Len(s8) + 1 = 30 /\ Len(s9) = PacketSize - 4
  BY <1>1, <1>3, <1>5, <1>6, <1>7, <1>8, <1>9, <1>10, <1>11, <1>12 DEF PacketSize
<1>14. ASSUME NEW data, Begins(data, s9)
       PROVE  /\ Begins(data, s0)
              /\ Unsigned32(data, 7) = t.sequence /\ Unsigned64(data, 11) = t.timestamp
              /\ data[19] = ModeCodes[t.mode]
              /\ Unsigned16(data, 20) = t.battery /\ Unsigned16(data, 22) = t.current
              /\ Signed16(data, 24) = t.temperature /\ Signed16(data, 26) = t.roll
              /\ Signed16(data, 28) = t.pitch /\ Signed16(data, 30) = t.yaw
  <2>1. Begins(data, s8) /\ Signed16(data, 30) = t.yaw
    BY <1>12, <1>13, <1>14
  <2>2. Begins(data, s7) /\ Signed16(data, 28) = t.pitch
    BY <1>11, <1>13, <2>1
  <2>3. Begins(data, s6) /\ Signed16(data, 26) = t.roll
    BY <1>10, <1>13, <2>2
  <2>4. Begins(data, s5) /\ Signed16(data, 24) = t.temperature
    BY <1>9, <1>13, <2>3
  <2>5. Begins(data, s4) /\ Unsigned16(data, 22) = t.current
    BY <1>8, <1>13, <2>4
  <2>6. Begins(data, s3) /\ Unsigned16(data, 20) = t.battery
    BY <1>7, <1>13, <2>5
  <2>7. Begins(data, s2) /\ data[19] = ModeCodes[t.mode]
    BY <1>6, <1>13, <2>6
  <2>8. Begins(data, s1) /\ Unsigned64(data, 11) = t.timestamp
    BY <1>5, <1>13, <2>7
  <2>9. Begins(data, s0) /\ Unsigned32(data, 7) = t.sequence
    BY <1>3, <1>13, <2>8
  <2> QED
    BY <2>1, <2>2, <2>3, <2>4, <2>5, <2>6, <2>7, <2>8, <2>9
<1> QED
  BY <1>0, <1>12, <1>13, <1>14 DEF s0

(* Every record the simulator can encode passes every check of the ground  *)
(* station's decoder, which then reads what was encoded: the two layouts,  *)
(* written apart in C++ and Python, agree in every field, sign and byte.   *)
THEOREM EncodedIsDecoded ==
  ASSUME NEW t \in Records
  PROVE  Rejection(Encode(t)) = "none" /\ Decoded(Encode(t)) = t
<1> DEFINE body  == EncodeBody(t)
           check == [i \in 1 .. 4 |-> ByteOf({k \in 0 .. 7 : k + 8 * (4 - i) \in Crc32(body)})]
           data  == body \o check
           start == Magic \o <<Version, 0>>
<1>1. Encode(t) = data /\ AppendCrc(body) = data
  BY DEF Encode, AppendCrc
<1>2. body \in Seq(Octets) /\ Len(body) = 31
  BY BodyIsRead DEF PacketSize
<1>3. check \in Seq(Octets) /\ Len(check) = 4
  <2>1. \A i \in 1 .. 4 : check[i] \in Octets
    BY DEF Octets
  <2> HIDE DEF Octets
  <2> QED
    BY <2>1
<1>4. \A d : Begins(d, body) =>
        /\ Begins(d, start)
        /\ Unsigned32(d, 7) = t.sequence /\ Unsigned64(d, 11) = t.timestamp
        /\ d[19] = ModeCodes[t.mode]
        /\ Unsigned16(d, 20) = t.battery /\ Unsigned16(d, 22) = t.current
        /\ Signed16(d, 24) = t.temperature /\ Signed16(d, 26) = t.roll
        /\ Signed16(d, 28) = t.pitch /\ Signed16(d, 30) = t.yaw
  BY BodyIsRead
<1> HIDE DEF body, check
<1>5. /\ data \in Seq(Octets) /\ Len(data) = Len(body) + Len(check)
      /\ \A i \in 1 .. Len(body) : data[i] = body[i]
  <2>1. body \in Seq(Octets) /\ check \in Seq(Octets)
    BY <1>2, <1>3
  <2> QED
    BY <2>1
<1> HIDE DEF data
<1>6. Len(data) = PacketSize
  BY <1>2, <1>3, <1>5 DEF PacketSize
<1>7. Begins(data, body)
  <2>1. Len(body) <= Len(data)
    BY <1>2, <1>3, <1>5
  <2> QED
    BY <1>5, <2>1 DEF Begins
<1>8. SubSeq(data, 1, PacketSize - 4) = body
  <2> DEFINE part == SubSeq(data, 1, PacketSize - 4)
  <2>1. PacketSize - 4 = Len(body) /\ Len(body) \in Nat /\ Len(body) <= Len(data)
    BY <1>2, <1>7 DEF PacketSize, Begins
  <2>2. /\ part \in Seq(Octets) /\ Len(part) = Len(body)
        /\ \A i \in 1 .. Len(body) : part[i] = data[i]
    <3>1. data \in Seq(Octets)
      BY <1>5
    <3> DEFINE n == Len(body)
    <3>2. n \in Nat /\ n <= Len(data) /\ part = SubSeq(data, 1, n)
      BY <2>1
    <3> HIDE DEF n, part
    <3>3. /\ SubSeq(data, 1, n) \in Seq(Octets) /\ Len(SubSeq(data, 1, n)) = n
          /\ \A i \in 1 .. n : SubSeq(data, 1, n)[i] = data[i]
      BY <3>1, <3>2
    <3> QED
      BY <3>2, <3>3 DEF n
  <2> HIDE DEF part
  <2>3. part = body
    BY <1>2, <1>5, <2>2, SeqEqual, ZenonT(30)
  <2> QED
    BY <2>3 DEF part
<1>9. CrcMatches(data)
  BY <1>1, <1>8 DEF CrcMatches
<1>10. /\ Len(start) = 6 /\ \A i \in 1 .. 4 : start[i] = Magic[i]
       /\ start[5] = Version /\ start[6] = 0
  BY HeaderIs
<1> HIDE DEF start
<1>11. \A i \in 1 .. 6 : data[i] = start[i]
  BY <1>4, <1>7, <1>10 DEF Begins
<1>12. data[5] = Version /\ data[6] = 0 /\ \A i \in 1 .. 4 : data[i] = Magic[i]
  BY <1>10, <1>11
<1>13. SubSeq(data, 1, 4) = Magic
  <2>1. data \in Seq(Octets) /\ 4 <= Len(data)
    <3>1. 4 <= Len(data)
      BY <1>6 DEF PacketSize
    <3> QED
      BY <1>5, <3>1
  <2> DEFINE part == SubSeq(data, 1, 4)
  <2>2. part \in Seq(Octets) /\ Len(part) = 4 /\ \A i \in 1 .. 4 : part[i] = data[i]
    BY <2>1
  <2>3. Magic \in Seq(Octets) /\ Len(Magic) = 4
    BY DEF Magic, Octets, Byte
  <2> HIDE DEF part
  <2>4. \A i \in 1 .. Len(part) : part[i] = Magic[i]
    BY <1>12, <2>2
  <2>5. part = Magic
    BY <2>2, <2>3, <2>4, SeqEqual
  <2> QED
    BY <2>5 DEF part
<1>14. t.mode \in DOMAIN ModeCodes /\ data[19] = ModeCodes[t.mode]
  BY <1>4, <1>7, FieldsFit
<1>15. data[19] \in Range(ModeCodes)
  BY <1>14 DEF Range
<1>16. Rejection(data) = "none"
  BY <1>6, <1>9, <1>12, <1>13, <1>15 DEF Rejection
<1>17. (CHOOSE mode \in DOMAIN ModeCodes : ModeCodes[mode] = data[19]) = t.mode
  <2>1. \A m \in DOMAIN ModeCodes : ModeCodes[m] = ModeCodes[t.mode] => m = t.mode
    BY <1>14 DEF ModeCodes
  <2> QED
    BY <1>14, <2>1
<1>18. Decoded(data) = t
  <2>1. t = [sequence |-> t.sequence, timestamp |-> t.timestamp, mode |-> t.mode,
             battery |-> t.battery, current |-> t.current, temperature |-> t.temperature,
             roll |-> t.roll, pitch |-> t.pitch, yaw |-> t.yaw]
    BY DEF Records
  <2> QED
    BY <1>4, <1>7, <1>17, <2>1 DEF Decoded
<1> QED
  BY <1>1, <1>16, <1>18

-----------------------------------------------------------------------------
(* What the checksum notices.                                              *)

(* A byte has the bits it was made of.                                      *)
LEMMA BitsAreKept ==
  ASSUME NEW bits \in SUBSET (0 .. 7)
  PROVE  BitsOf(ByteOf(bits)) = bits
<1> DEFINE b(k, w) == IF k \in bits THEN w ELSE 0
           byte == b(0, 1) + b(1, 2) + b(2, 4) + b(3, 8) + b(4, 16) + b(5, 32) + b(6, 64) + b(7, 128)
           Odd(w) == (byte \div w) % 2 = 1
           Weight(k) == 2 ^ k
<1>1. /\ Weight(0) = 1 /\ Weight(1) = 2 /\ Weight(2) = 4 /\ Weight(3) = 8
      /\ Weight(4) = 16 /\ Weight(5) = 32 /\ Weight(6) = 64 /\ Weight(7) = 128
  OBVIOUS
<1>2. ByteOf(bits) = byte
  BY <1>1 DEF ByteOf
<1>3. /\ Odd(1) <=> 0 \in bits
      /\ Odd(2) <=> 1 \in bits
      /\ Odd(4) <=> 2 \in bits
      /\ Odd(8) <=> 3 \in bits
      /\ Odd(16) <=> 4 \in bits
      /\ Odd(32) <=> 5 \in bits
      /\ Odd(64) <=> 6 \in bits
      /\ Odd(128) <=> 7 \in bits
  OBVIOUS
<1>4. BitsOf(byte) = {k \in 0 .. 7 : Odd(Weight(k))}
  BY DEF BitsOf
<1> HIDE DEF byte, Odd, Weight
<1>5. ASSUME NEW k \in 0 .. 7
      PROVE  Odd(Weight(k)) <=> k \in bits
  <2>1. \/ k = 0 \/ k = 1 \/ k = 2 \/ k = 3 \/ k = 4 \/ k = 5 \/ k = 6 \/ k = 7
    OBVIOUS
  <2> QED
    BY <1>1, <1>3, <2>1
<1> QED
  BY <1>2, <1>4, <1>5

Word == SUBSET (0 .. 31)
Down(crc) == {k - 1 : k \in crc}

(* A step of the division forgets nothing.                                 *)
LEMMA DivideIsInjective ==
  ASSUME NEW a \in Word, NEW b \in Word
  PROVE  /\ Divide(a) \in Word
         /\ Divide(a) = Divide(b) => a = b
<1>1. Polynomial \in Word /\ 31 \in Polynomial
  BY DEF Polynomial, Word
<1> DEFINE s(c) == {k - 1 : k \in c \ {0}}
<1>2. s(a) \in Word /\ s(b) \in Word /\ 31 \notin s(a) /\ 31 \notin s(b)
  BY DEF Word
<1>3. ASSUME NEW c \in Word
      PROVE  c \ {0} = {k + 1 : k \in s(c)}
  <2>1. \A k \in c : k \in Int /\ (k - 1) + 1 = k
    BY DEF Word
  <2>2. \A j \in s(c) : \E k \in c \ {0} : j + 1 = k
    BY <2>1
  <2>3. \A k \in c \ {0} : k - 1 \in s(c) /\ (k - 1) + 1 = k
    BY <2>1
  <2> HIDE DEF s
  <2> QED
    BY <2>2, <2>3
<1>4. \A c : Divide(c) = IF 0 \in c THEN Xor(s(c), Polynomial) ELSE s(c)
  BY DEF Divide
<1> HIDE DEF s
<1>5. Divide(a) \in Word
  BY <1>1, <1>2, <1>4 DEF Xor, Word
<1>6. ASSUME Divide(a) = Divide(b) PROVE a = b
  <2>1. 0 \in a <=> 0 \in b
    BY <1>1, <1>2, <1>4, <1>6 DEF Xor
  <2>2. s(a) = s(b)
    BY <1>4, <1>6, <2>1 DEF Xor
  <2>3. a \ {0} = b \ {0}
    BY <1>3, <2>2
  <2> QED
    BY <2>1, <2>3
<1> QED
  BY <1>5, <1>6

(* And only the lowest bit decides what it adds.                           *)
LEMMA DivideOfSum ==
  ASSUME NEW a \in Word, NEW b \in Word, 0 \notin b
  PROVE  Divide(Xor(a, b)) = Xor(Divide(a), Down(b))
<1> DEFINE s(c) == {k - 1 : k \in c \ {0}}
<1>1. \A c : Divide(c) = IF 0 \in c THEN Xor(s(c), Polynomial) ELSE s(c)
  BY DEF Divide
<1>2. s(Xor(a, b)) = Xor(s(a), Down(b))
  BY DEF Xor, Down, Word
<1>3. 0 \in Xor(a, b) <=> 0 \in a
  BY DEF Xor
<1> HIDE DEF s
<1>4. CASE 0 \in a
  <2>1. Divide(Xor(a, b)) = Xor(Xor(s(a), Down(b)), Polynomial)
    BY <1>1, <1>2, <1>3, <1>4
  <2>2. Divide(a) = Xor(s(a), Polynomial)
    BY <1>1, <1>4
  <2>3. \A x, y, z : Xor(Xor(x, y), z) = Xor(Xor(x, z), y)
    BY DEF Xor
  <2> QED
    BY <2>1, <2>2, <2>3
<1>5. CASE 0 \notin a
  BY <1>1, <1>2, <1>3, <1>5
<1> QED
  BY <1>4, <1>5

(* Eight of its steps, one for each bit of the byte.                        *)
EightSteps(crc) == Divide(Divide(Divide(Divide(Divide(Divide(Divide(Divide(crc))))))))

(* Nor do eight steps forget anything.                                     *)
LEMMA EightStepsAreInjective ==
  ASSUME NEW a \in Word, NEW b \in Word
  PROVE  /\ EightSteps(a) \in Word
         /\ EightSteps(a) = EightSteps(b) => a = b
<1>1. /\ \A c \in Word : Divide(c) \in Word
      /\ \A c, d \in Word : Divide(c) = Divide(d) => c = d
  BY DivideIsInjective
<1> HIDE DEF Word
<1>2. \A c \in Word : EightSteps(c) \in Word
  BY <1>1 DEF EightSteps
<1> DEFINE Two(c)  == Divide(Divide(c))
           Four(c) == Two(Two(c))
<1>3. \A c, d \in Word : Two(c) \in Word /\ (Two(c) = Two(d) => c = d)
  BY <1>1
<1> HIDE DEF Two
<1>4. \A c, d \in Word : Four(c) \in Word /\ (Four(c) = Four(d) => c = d)
  BY <1>3
<1> HIDE DEF Four
<1>5. Four(Four(a)) = Four(Four(b)) => a = b
  BY <1>4
<1>6. \A c : EightSteps(c) = Four(Four(c))
  BY DEF EightSteps, Four, Two
<1> QED
  BY <1>2, <1>5, <1>6

(* The low byte alone decides what the eight steps add to the rest: the     *)
(* table the model looks up is the loop of crc32 in telemetry.cpp.          *)
LEMMA TableIsTheLoop ==
  ASSUME NEW crc \in Word, NEW byte
  PROVE  DivideByte(crc, byte) = EightSteps(Xor(crc, BitsOf(byte)))
<1> DEFINE bits == BitsOf(byte)
           low  == Xor(crc \cap (0 .. 7), bits)
           high == crc \ (0 .. 7)
           Moved(j) == {k - j : k \in high}
           After(c, j) == Xor(c, Moved(j))
<1>1. bits \subseteq 0 .. 7 /\ low \in Word
  BY DEF BitsOf, Xor, Word
<1>2. Xor(crc, bits) = After(low, 0)
  <2>1. Moved(0) = high
    <3>1. \A k \in high : k - 0 = k
      BY DEF Word
    <3> QED
      BY <3>1
  <2> QED
    BY <1>1, <2>1 DEF Xor
<1>3. \A j \in 0 .. 7 : Moved(j) \in Word /\ 0 \notin Moved(j) /\ Down(Moved(j)) = Moved(j + 1)
  <2> SUFFICES ASSUME NEW j \in 0 .. 7
               PROVE  Moved(j) \in Word /\ 0 \notin Moved(j) /\ Down(Moved(j)) = Moved(j + 1)
    OBVIOUS
  <2>1. \A k \in high : k - j \in 1 .. 31 /\ (k - j) - 1 = k - (j + 1)
    BY DEF Word
  <2>2. Moved(j) \in Word /\ 0 \notin Moved(j)
    BY <2>1 DEF Word
  <2> HIDE DEF high
  <2>3. \A i \in Moved(j) : \E k \in high : i - 1 = k - (j + 1)
    BY <2>1
  <2>4. \A k \in high : k - j \in Moved(j)
    OBVIOUS
  <2>5. Down(Moved(j)) = Moved(j + 1)
    BY <2>1, <2>3, <2>4 DEF Down
  <2> QED
    BY <2>2, <2>5
<1>4. DivideByte(crc, byte) = After(EightSteps(low), 8)
  <2>1. low \in SUBSET (0 .. 7)
    BY <1>1 DEF Xor
  <2>2. Divided[low] = EightSteps(low)
    BY <2>1 DEF Divided, EightSteps
  <2>3. DivideByte(crc, byte) = Xor(Moved(8), Divided[low])
    BY DEF DivideByte
  <2>4. \A x, y : Xor(x, y) = Xor(y, x)
    BY DEF Xor
  <2> HIDE DEF low, Moved
  <2> QED
    BY <2>2, <2>3, <2>4
<1> HIDE DEF low, Moved
<1>5. ASSUME NEW c \in Word, NEW j \in 0 .. 7
      PROVE  Divide(c) \in Word /\ Divide(After(c, j)) = After(Divide(c), j + 1)
  BY <1>3, DivideIsInjective, DivideOfSum
<1> HIDE DEF After
<1>6. EightSteps(After(low, 0)) = After(EightSteps(low), 8)
  <2> DEFINE c1 == Divide(low)
             c2 == Divide(c1)
             c3 == Divide(c2)
             c4 == Divide(c3)
             c5 == Divide(c4)
             c6 == Divide(c5)
             c7 == Divide(c6)
  <2>1. c1 \in Word /\ Divide(After(low, 0)) = After(c1, 1)
    BY <1>1, <1>5
  <2>8. EightSteps(low) = Divide(c7)
    BY DEF EightSteps
  <2> HIDE DEF c1
  <2>2. c2 \in Word /\ Divide(After(c1, 1)) = After(c2, 2)
    BY <1>5, <2>1
  <2> HIDE DEF c2
  <2>3. c3 \in Word /\ Divide(After(c2, 2)) = After(c3, 3)
    BY <1>5, <2>2
  <2> HIDE DEF c3
  <2>4. c4 \in Word /\ Divide(After(c3, 3)) = After(c4, 4)
    BY <1>5, <2>3
  <2> HIDE DEF c4
  <2>5. c5 \in Word /\ Divide(After(c4, 4)) = After(c5, 5)
    BY <1>5, <2>4
  <2> HIDE DEF c5
  <2>6. c6 \in Word /\ Divide(After(c5, 5)) = After(c6, 6)
    BY <1>5, <2>5
  <2> HIDE DEF c6
  <2>7. c7 \in Word /\ Divide(After(c6, 6)) = After(c7, 7)
    BY <1>5, <2>6
  <2> HIDE DEF c7
  <2>9. Divide(After(c7, 7)) = After(Divide(c7), 8)
    BY <1>5, <2>7
  <2> QED
    BY <2>1, <2>2, <2>3, <2>4, <2>5, <2>6, <2>7, <2>8, <2>9 DEF EightSteps
<1> QED
  BY <1>2, <1>4, <1>6

(* So one more byte keeps two registers apart.                              *)
LEMMA ByteKeepsApart ==
  ASSUME NEW a \in Word, NEW b \in Word, NEW byte
  PROVE  /\ DivideByte(a, byte) \in Word
         /\ DivideByte(a, byte) = DivideByte(b, byte) => a = b
<1>1. \A c \in Word : Xor(c, BitsOf(byte)) \in Word
  <2>1. BitsOf(byte) \in Word
    BY DEF Word, BitsOf
  <2> QED
    BY <2>1 DEF Xor, Word
<1>2. Xor(a, BitsOf(byte)) = Xor(b, BitsOf(byte)) => a = b
  <2>1. \A x, y, z : Xor(x, z) = Xor(y, z) => x = y
    BY DEF Xor
  <2> QED
    BY <2>1
<1>3. \A c, d \in Word : /\ EightSteps(c) \in Word
                         /\ EightSteps(c) = EightSteps(d) => c = d
  BY EightStepsAreInjective
<1>4. \A c \in Word : DivideByte(c, byte) = EightSteps(Xor(c, BitsOf(byte)))
  BY TableIsTheLoop
<1> QED
  BY <1>1, <1>2, <1>3, <1>4

(* And two bytes that are not the same set one register apart.              *)
LEMMA BytesPart ==
  ASSUME NEW a \in Word, NEW byte, NEW other, DivideByte(a, byte) = DivideByte(a, other)
  PROVE  BitsOf(byte) = BitsOf(other)
<1>1. \A x : Xor(a, BitsOf(x)) \in Word
  <2>1. \A x : BitsOf(x) \in Word
    BY DEF Word, BitsOf
  <2> QED
    BY <2>1 DEF Xor, Word
<1>2. \A x : DivideByte(a, x) = EightSteps(Xor(a, BitsOf(x)))
  BY TableIsTheLoop
<1>3. Xor(a, BitsOf(byte)) = Xor(a, BitsOf(other))
  BY <1>1, <1>2, EightStepsAreInjective
<1>4. \A x, y, z : Xor(z, x) = Xor(z, y) => x = y
  BY DEF Xor
<1> QED
  BY <1>3, <1>4

(* The register after each byte.                                            *)
Register(data) ==
  LET crc[i \in 0 .. Len(data)] ==
        IF i = 0 THEN 0 .. 31 ELSE DivideByte(crc[i - 1], data[i])
  IN  crc

(* The checksum is what the register holds after the last byte.            *)
LEMMA RegisterIsDefined ==
  ASSUME NEW data, Len(data) \in Nat
  PROVE  /\ Crc32(data) = (0 .. 31) \ Register(data)[Len(data)]
         /\ Register(data)[0] = 0 .. 31
         /\ \A i \in 0 .. Len(data) : Register(data)[i] \in Word
         /\ \A i \in 1 .. Len(data) : Register(data)[i] = DivideByte(Register(data)[i - 1], data[i])
<1> DEFINE Is(f, n) == /\ f \in [0 .. n -> Word] /\ f[0] = 0 .. 31
                       /\ \A i \in 1 .. n : f[i] = DivideByte(f[i - 1], data[i])
           H == {n \in Nat : \E f : Is(f, n)}
<1>0. \A c \in Word : \A byte : DivideByte(c, byte) \in Word
  BY ByteKeepsApart
<1>1. 0 \in H
  <2> DEFINE f == [i \in 0 .. 0 |-> 0 .. 31]
  <2>1. Is(f, 0)
    BY DEF Word
  <2> QED
    BY <2>1
<1>2. ASSUME NEW n \in Nat, n \in H PROVE n + 1 \in H
  <2>1. PICK f : Is(f, n)
    BY <1>2
  <2> DEFINE g == [i \in 0 .. n + 1 |-> IF i <= n THEN f[i] ELSE DivideByte(f[n], data[n + 1])]
  <2>2. f[n] \in Word /\ DivideByte(f[n], data[n + 1]) \in Word
    BY <1>0, <2>1
  <2> HIDE DEF Word
  <2>3. Is(g, n + 1)
    <3>1. g \in [0 .. n + 1 -> Word]
      BY <2>1, <2>2
    <3>2. g[0] = 0 .. 31
      BY <2>1
    <3>3. ASSUME NEW i \in 1 .. n + 1 PROVE g[i] = DivideByte(g[i - 1], data[i])
      BY <2>1
    <3> QED
      BY <3>1, <3>2, <3>3
  <2> HIDE DEF g, Is
  <2> QED
    BY <2>3
<1>3. Nat \subseteq H
  BY <1>1, <1>2, SetInduction
<1>4. PICK f : Is(f, Len(data))
  BY <1>3
<1> DEFINE D == 0 .. Len(data)
           Solves(g) == g = [i \in D |-> IF i = 0 THEN 0 .. 31 ELSE DivideByte(g[i - 1], data[i])]
<1>5. Solves(f)
  <2>1. DOMAIN f = D /\ f = [i \in D |-> f[i]]
    BY <1>4
  <2>2. \A i \in D : f[i] = IF i = 0 THEN 0 .. 31 ELSE DivideByte(f[i - 1], data[i])
    BY <1>4
  <2> QED
    BY <2>1, <2>2
<1>6. Register(data) = CHOOSE g : Solves(g)
  BY DEF Register
<1> DEFINE r == Register(data)
<1>7. Solves(r)
  <2> HIDE DEF Solves
  <2> QED
    BY <1>5, <1>6
<1>8. Crc32(data) = (0 .. 31) \ r[Len(data)]
  BY DEF Crc32, Register
<1> HIDE DEF r, Word
<1>9. r[0] = 0 .. 31 /\ \A i \in 1 .. Len(data) : r[i] = DivideByte(r[i - 1], data[i])
  <2>1. 0 \in D /\ \A i \in 1 .. Len(data) : i \in D /\ i # 0
    OBVIOUS
  <2> QED
    BY <1>7, <2>1
<1>10. \A i \in D : r[i] \in Word
  <2> DEFINE G == {i \in Nat : i \in D => r[i] \in Word}
  <2>1. 0 \in G
    BY <1>9 DEF Word
  <2>2. ASSUME NEW n \in Nat, n \in G PROVE n + 1 \in G
    <3> SUFFICES ASSUME n + 1 \in D PROVE r[n + 1] \in Word
      OBVIOUS
    <3>1. n \in D /\ n + 1 \in 1 .. Len(data) /\ (n + 1) - 1 = n
      OBVIOUS
    <3>2. r[n] \in Word /\ r[n + 1] = DivideByte(r[n], data[n + 1])
      BY <1>9, <2>2, <3>1
    <3> QED
      BY <1>0, <3>2
  <2>3. Nat \subseteq G
    BY <2>1, <2>2, SetInduction
  <2> QED
    BY <2>3
<1> QED
  BY <1>8, <1>9, <1>10 DEF r

(* One byte that is not the same parts the registers, and the rest, being   *)
(* the same, does not bring them together again.                            *)
LEMMA RegistersPart ==
  ASSUME NEW data, NEW other, Len(data) \in Nat, Len(other) = Len(data),
         NEW i \in 1 .. Len(data), \A j \in 1 .. Len(data) : j # i => data[j] = other[j],
         BitsOf(data[i]) # BitsOf(other[i])
  PROVE  Crc32(data) # Crc32(other)
<1> DEFINE n == Len(data)
           r == Register(data)
           q == Register(other)
<1>1. /\ Crc32(data) = (0 .. 31) \ r[n] /\ Crc32(other) = (0 .. 31) \ q[n]
      /\ r[0] = q[0] /\ \A j \in 0 .. n : r[j] \in Word /\ q[j] \in Word
      /\ \A j \in 1 .. n : r[j] = DivideByte(r[j - 1], data[j]) /\ q[j] = DivideByte(q[j - 1], other[j])
  BY RegisterIsDefined
<1>2. \A c, d \in Word : \A x : DivideByte(c, x) = DivideByte(d, x) => c = d
  BY ByteKeepsApart
<1> HIDE DEF r, q, Word
<1> DEFINE H == {m \in Nat : m \in 0 .. n => (r[m] = q[m] <=> m < i)}
<1>3. 0 \in H
  BY <1>1
<1>4. ASSUME NEW m \in Nat, m \in H PROVE m + 1 \in H
  <2> SUFFICES ASSUME m + 1 \in 0 .. n PROVE r[m + 1] = q[m + 1] <=> m + 1 < i
    OBVIOUS
  <2>1. m \in 0 .. n /\ m + 1 \in 1 .. n /\ (m + 1) - 1 = m /\ (r[m] = q[m] <=> m < i)
    BY <1>4
  <2>2. r[m + 1] = DivideByte(r[m], data[m + 1]) /\ q[m + 1] = DivideByte(q[m], other[m + 1])
    BY <1>1, <2>1
  <2>3. r[m] \in Word /\ q[m] \in Word
    BY <1>1, <2>1
  <2>4. CASE m + 1 < i
    BY <2>1, <2>2, <2>4
  <2>5. CASE m + 1 = i
    <3>1. r[m] = q[m]
      BY <2>1, <2>5
    <3>2. r[m + 1] # q[m + 1]
      BY <2>2, <2>3, <2>5, <3>1, BytesPart
    <3> QED
      BY <2>5, <3>2
  <2>6. CASE m + 1 > i
    <3>1. r[m] # q[m] /\ data[m + 1] = other[m + 1]
      BY <2>1, <2>6
    <3>2. r[m + 1] # q[m + 1]
      <4>1. r[m + 1] = DivideByte(r[m], data[m + 1]) /\ q[m + 1] = DivideByte(q[m], data[m + 1])
        BY <2>2, <3>1
      <4>2. DivideByte(r[m], data[m + 1]) = DivideByte(q[m], data[m + 1]) => r[m] = q[m]
        BY <1>2, <2>3
      <4> QED
        BY <3>1, <4>1, <4>2
    <3> QED
      BY <2>6, <3>2
  <2> QED
    BY <2>4, <2>5, <2>6
<1>5. Nat \subseteq H
  BY <1>3, <1>4, SetInduction
<1>6. r[n] # q[n] /\ r[n] \in Word /\ q[n] \in Word
  BY <1>1, <1>5
<1> QED
  BY <1>1, <1>6 DEF Word

(* What is appended tells two checksums apart.                              *)
CheckBytes(crc) == [i \in 1 .. 4 |-> ByteOf({k \in 0 .. 7 : k + 8 * (4 - i) \in crc})]

(* Two checksums with the same four bytes are the same.                    *)
LEMMA ChecksDiffer ==
  ASSUME NEW a \in Word, NEW b \in Word, CheckBytes(a) = CheckBytes(b)
  PROVE  a = b
<1> DEFINE part(c, i) == {k \in 0 .. 7 : k + 8 * (4 - i) \in c}
<1>1. \A i \in 1 .. 4 : part(a, i) = part(b, i)
  <2> SUFFICES ASSUME NEW i \in 1 .. 4 PROVE part(a, i) = part(b, i)
    OBVIOUS
  <2>1. ByteOf(part(a, i)) = ByteOf(part(b, i))
    <3>1. CheckBytes(a)[i] = ByteOf(part(a, i)) /\ CheckBytes(b)[i] = ByteOf(part(b, i))
      BY DEF CheckBytes
    <3> QED
      BY <3>1
  <2>2. part(a, i) \in SUBSET (0 .. 7) /\ part(b, i) \in SUBSET (0 .. 7)
    OBVIOUS
  <2> HIDE DEF part
  <2> QED
    BY <2>1, <2>2, BitsAreKept
<1>2. ASSUME NEW m \in 0 .. 31 PROVE m \in a <=> m \in b
  <2> DEFINE i == 4 - m \div 8
             k == m % 8
  <2>1. i \in 1 .. 4 /\ k \in 0 .. 7 /\ k + 8 * (4 - i) = m
    OBVIOUS
  <2> HIDE DEF i, k
  <2>2. k \in part(a, i) <=> k \in part(b, i)
    <3> HIDE DEF part
    <3> QED
      BY <1>1, <2>1
  <2> QED
    BY <2>1, <2>2
<1> QED
  BY <1>2 DEF Word

(* The two parts of a datagram.                                             *)
LEMMA BodyOf ==
  ASSUME NEW U, NEW d \in Seq(U), Len(d) = PacketSize
  PROVE  LET body == SubSeq(d, 1, PacketSize - 4)
         IN  /\ body \in Seq(U) /\ Len(body) = PacketSize - 4
             /\ \A j \in 1 .. PacketSize - 4 : body[j] = d[j]
<1> DEFINE n == PacketSize - 4
<1>1. n \in Nat /\ n <= Len(d)
  BY DEF PacketSize
<1> HIDE DEF n
<1>2. /\ SubSeq(d, 1, n) \in Seq(U) /\ Len(SubSeq(d, 1, n)) = n
      /\ \A j \in 1 .. n : SubSeq(d, 1, n)[j] = d[j]
  BY <1>1
<1> QED
  BY <1>2 DEF n

(* And they are the last four bytes of the datagram.                       *)
LEMMA CheckOf ==
  ASSUME NEW U, NEW body \in Seq(U), NEW crc
  PROVE  \A j \in 1 .. 4 : (body \o CheckBytes(crc))[Len(body) + j] = CheckBytes(crc)[j]
<1> DEFINE c == CheckBytes(crc)
           B == U \cup {c[j] : j \in 1 .. 4}
<1>1. c = [j \in 1 .. 4 |-> c[j]]
  BY DEF CheckBytes
<1> HIDE DEF c
<1>2. \A j \in 1 .. 4 : c[j] \in B
  OBVIOUS
<1>3. U \subseteq B
  OBVIOUS
<1> HIDE DEF B
<1>4. c \in Seq(B) /\ Len(c) = 4
  BY <1>1, <1>2
<1>5. body \in Seq(B)
  BY <1>3
<1>6. \A s, t \in Seq(B) : \A j \in 1 .. Len(t) : (s \o t)[Len(s) + j] = t[j]
  OBVIOUS
<1>7. \A j \in 1 .. Len(c) : (body \o c)[Len(body) + j] = c[j]
  BY <1>4, <1>5, <1>6
<1> QED
  BY <1>4, <1>7 DEF c

(* A datagram with some bits of one byte inverted.                         *)
Struck(data, i, mask) == [data EXCEPT ![i] = ByteOf(Xor(BitsOf(@), mask))]

(* One byte of a datagram changed, in the checksum or before it, is always  *)
(* noticed: decode_packet finds another checksum than the one appended.     *)
THEOREM OneByteIsDetected ==
  ASSUME NEW S, NEW data \in Seq(S), Len(data) = PacketSize, CrcMatches(data),
         NEW i \in 1 .. PacketSize, NEW mask \in (SUBSET (0 .. 7)) \ {{}}
  PROVE  ~CrcMatches(Struck(data, i, mask))
<1> DEFINE other == Struck(data, i, mask)
           new   == ByteOf(Xor(BitsOf(data[i]), mask))
           more  == S \cup {new}
           n     == PacketSize - 4
           body  == SubSeq(data, 1, PacketSize - 4)
           hit   == SubSeq(other, 1, PacketSize - 4)
<1>1. BitsOf(new) # BitsOf(data[i])
  <2> DEFINE old == BitsOf(data[i])
  <2>1. old \in SUBSET (0 .. 7)
    BY DEF BitsOf
  <2> HIDE DEF old
  <2>2. Xor(old, mask) \in SUBSET (0 .. 7) /\ Xor(old, mask) # old
    BY <2>1 DEF Xor
  <2>3. BitsOf(new) = Xor(old, mask)
    BY <2>2, BitsAreKept DEF old
  <2> QED
    BY <2>2, <2>3 DEF old
<1>2. other = [data EXCEPT ![i] = new]
  BY DEF Struck
<1> HIDE DEF new, other
<1>3. /\ data \in Seq(more) /\ other \in Seq(more) /\ Len(other) = PacketSize
      /\ other[i] = new /\ \A j \in 1 .. PacketSize : j # i => other[j] = data[j]
  <2>1. i \in 1 .. Len(data) /\ data \in Seq(more) /\ new \in more
    OBVIOUS
  <2> HIDE DEF more
  <2> QED
    BY <1>2, <2>1
<1> HIDE DEF more
<1>4. /\ body \in Seq(more) /\ Len(body) = n /\ \A j \in 1 .. n : body[j] = data[j]
      /\ hit \in Seq(more) /\ Len(hit) = n /\ \A j \in 1 .. n : hit[j] = other[j]
  BY <1>3, BodyOf
<1>5. n \in Nat /\ n + 4 = PacketSize
  BY DEF PacketSize
<1> SUFFICES ASSUME CrcMatches(other) PROVE FALSE
  BY DEF other
<1>6. body \o CheckBytes(Crc32(body)) = data /\ hit \o CheckBytes(Crc32(hit)) = other
  BY DEF CrcMatches, AppendCrc, CheckBytes
<1> HIDE DEF body, hit, n
<1>7. CASE i \in 1 .. n
  <2>1. Crc32(body) # Crc32(hit)
    <3>1. \A j \in 1 .. n : j # i => body[j] = hit[j]
      BY <1>3, <1>4, <1>5
    <3>2. body[i] = data[i] /\ hit[i] = new
      BY <1>3, <1>4, <1>7
    <3>3. BitsOf(body[i]) # BitsOf(hit[i]) /\ Len(body) \in Nat /\ Len(hit) = Len(body)
      BY <1>1, <1>4, <1>5, <3>2
    <3>4. i \in 1 .. Len(body) /\ \A j \in 1 .. Len(body) : j # i => body[j] = hit[j]
      BY <1>4, <1>7, <3>1
    <3> QED
      BY <3>3, <3>4, RegistersPart
  <2>2. Crc32(body) \in Word /\ Crc32(hit) \in Word
    BY DEF Crc32, Word
  <2>3. ASSUME NEW j \in 1 .. 4
        PROVE  CheckBytes(Crc32(body))[j] = CheckBytes(Crc32(hit))[j]
    <3>1. data[n + j] = CheckBytes(Crc32(body))[j] /\ other[n + j] = CheckBytes(Crc32(hit))[j]
      <4>1. /\ (body \o CheckBytes(Crc32(body)))[Len(body) + j] = CheckBytes(Crc32(body))[j]
            /\ (hit \o CheckBytes(Crc32(hit)))[Len(hit) + j] = CheckBytes(Crc32(hit))[j]
        BY <1>4, CheckOf
      <4> QED
        BY <1>4, <1>6, <4>1, Zenon
    <3>2. data[n + j] = other[n + j]
      BY <1>3, <1>5, <1>7
    <3> QED
      BY <3>1, <3>2
  <2>4. CheckBytes(Crc32(body)) = CheckBytes(Crc32(hit))
    BY <2>3 DEF CheckBytes
  <2> QED
    BY <2>1, <2>2, <2>4, ChecksDiffer
<1>8. CASE i \notin 1 .. n
  <2>1. \A j \in 1 .. n : body[j] = hit[j]
    BY <1>3, <1>4, <1>5, <1>8
  <2>2. body = hit
    BY <1>4, <2>1
  <2>3. data[i] = new
    BY <1>3, <1>6, <2>2
  <2> QED
    BY <1>1, <2>3
<1> QED
  BY <1>7, <1>8

-----------------------------------------------------------------------------
(* What the ground station reports.                                        *)

(* What the simulator sends is as many cycles after what it sent before as *)
(* the numbers say: the number zero is never dropped, so the counter       *)
(* cannot go round between two packets.                                    *)
Jump(i) == sent[i].cycle # sent[i - 1].cycle + 1

Spaced ==
  /\ sent = <<>> => cycles = 0 /\ sequence = 0
  /\ sent # <<>> =>
       /\ cycles - sent[Len(sent)].cycle \in 1 .. SequenceModulus - sent[Len(sent)].telemetry.sequence
       /\ sequence =
            IF cycles - sent[Len(sent)].cycle = SequenceModulus - sent[Len(sent)].telemetry.sequence
            THEN 0
            ELSE sent[Len(sent)].telemetry.sequence + (cycles - sent[Len(sent)].cycle)
  /\ phase = "ready" => telemetry.sequence = sequence
  /\ \A i \in 2 .. Len(sent) :
       sent[i].telemetry.sequence # (sent[i - 1].telemetry.sequence + 1) % SequenceModulus
         <=> Jump(i)

(* Every step keeps the packets spaced: the counter wraps only through      *)
(* zero, and the packet numbered zero is never dropped.                     *)
LEMMA SpacedIsKept == TypeOK /\ Spaced /\ [Next]_simulatorVars => Spaced'
<1> SUFFICES ASSUME TypeOK, Spaced, [Next]_simulatorVars PROVE Spaced'
  OBVIOUS
<1> DEFINE M == SequenceModulus
           n == Len(sent)
           last == sent[n]
           before == last.telemetry.sequence
           dist == cycles - last.cycle
<1>1. /\ M \in Nat \ {0} /\ sequence \in 0 .. M - 1 /\ cycles \in Nat
      /\ sent \in Seq([cycle : Nat, telemetry : Records]) /\ n \in Nat
  BY CycleAssumption DEF TypeOK
<1>2. ASSUME sent # <<>>
      PROVE  /\ n \in 1 .. n /\ last.cycle \in Nat /\ last.telemetry \in Records
             /\ before \in 0 .. M - 1
             /\ dist \in 1 .. M - before
             /\ sequence = IF dist = M - before THEN 0 ELSE before + dist
  <2>1. n \in 1 .. n
    BY <1>1, <1>2
  <2>2. last \in [cycle : Nat, telemetry : Records]
    <3> HIDE DEF M, n
    <3>1. n = Len(sent) /\ n \in 1 .. n
      BY <2>1 DEF n
    <3> DEFINE S == [cycle : Nat, telemetry : Records]
    <3>2. sent \in Seq(S)
      BY <1>1
    <3> HIDE DEF S
    <3>3. sent[n] \in S
      BY <3>1, <3>2
    <3> QED
      BY <3>3 DEF S
  <2>3. before \in 0 .. M - 1
    BY <2>2 DEF Records
  <2> QED
    BY <1>2, <2>1, <2>2, <2>3 DEF Spaced
<1>3. (sequence + 1) % M = IF sequence = M - 1 THEN 0 ELSE sequence + 1
  BY <1>1, NextNumber
<1>4. ASSUME UNCHANGED <<sequence, cycles, sent>>,
             phase' = "ready" => telemetry'.sequence = sequence
      PROVE  Spaced'
  BY <1>4 DEF Spaced, Jump
<1>5. CASE Drop
  <2>1. /\ sequence > 0 /\ sequence' = (sequence + 1) % M /\ cycles' = cycles + 1
        /\ sent' = sent /\ phase' = "asleep"
    BY <1>5 DEF Drop, Dropped, EndCycle
  <2>2. sent # <<>>
    BY <1>1, <2>1 DEF Spaced
  <2>3. /\ cycles' - last.cycle = dist + 1 /\ dist + 1 \in 1 .. M - before
        /\ sequence' = IF dist + 1 = M - before THEN 0 ELSE before + (dist + 1)
    <3>1. /\ before \in 0 .. M - 1 /\ dist \in 1 .. M - before /\ last.cycle \in Nat
          /\ sequence = IF dist = M - before THEN 0 ELSE before + dist
      BY <1>2, <2>2
    <3>2. cycles' - last.cycle = dist + 1
      <4> DEFINE c == last.cycle
      <4>1. c \in Nat /\ cycles \in Nat /\ cycles' = cycles + 1
        BY <1>1, <2>1, <3>1
      <4> HIDE DEF c
      <4>2. cycles' - c = (cycles - c) + 1
        BY <4>1
      <4> QED
        BY <4>2 DEF c
    <3> HIDE DEF M, before, dist
    <3>3. dist # M - before
      BY <2>1, <3>1
    <3>4. sequence = before + dist
      BY <3>1, <3>3
    <3>5. /\ dist + 1 \in 1 .. M - before
          /\ sequence' = IF dist + 1 = M - before THEN 0 ELSE before + (dist + 1)
      BY <1>1, <1>3, <2>1, <3>1, <3>3, <3>4
    <3> QED
      BY <3>2, <3>5
  <2>4. \A i \in 2 .. n :
          sent[i].telemetry.sequence # (sent[i - 1].telemetry.sequence + 1) % M <=> Jump(i)
    BY DEF Spaced
  <2> QED
    BY <2>1, <2>2, <2>3, <2>4 DEF Spaced, Jump
<1>6. CASE Transmit
  <2> DEFINE item == [cycle |-> cycles, telemetry |-> telemetry]
             new == Append(sent, item)
  <2>1. /\ sequence' = (sequence + 1) % M /\ cycles' = cycles + 1
        /\ sent' = new /\ phase' = "asleep" /\ telemetry.sequence = sequence
    BY <1>6 DEF Transmit, EndCycle, Spaced
  <2>2. /\ Len(new) = n + 1 /\ new # <<>> /\ new[n + 1] = item
        /\ \A i \in 1 .. n : new[i] = sent[i]
    BY <1>1
  <2>3. item.cycle = cycles /\ item.telemetry.sequence = sequence
    BY <2>1
  <2> HIDE DEF item, new
  <2>4. /\ cycles' - cycles = 1 /\ 1 \in 1 .. M - sequence
        /\ sequence' = IF 1 = M - sequence THEN 0 ELSE sequence + 1
    BY <1>1, <1>3, <2>1
  <2>5. ASSUME n # 0
        PROVE  sequence # (before + 1) % M <=> cycles # last.cycle + 1
    <3>1. sent # <<>>
      BY <1>1, <2>5
    <3>2. (before + 1) % M = IF before = M - 1 THEN 0 ELSE before + 1
      BY <1>1, <1>2, <3>1, NextNumber
    <3> HIDE DEF before
    <3>3. dist = 1 <=> cycles = last.cycle + 1
      BY <1>1, <1>2, <3>1, SMTT(30)
    <3> HIDE DEF dist
    <3>4. sequence # (before + 1) % M <=> dist # 1
      BY <1>1, <1>2, <3>1, <3>2
    <3> QED
      BY <3>3, <3>4
  <2>6. ASSUME NEW i \in 2 .. n + 1
        PROVE  new[i].telemetry.sequence # (new[i - 1].telemetry.sequence + 1) % M
                 <=> new[i].cycle # new[i - 1].cycle + 1
    <3>1. CASE i \in 2 .. n
      <4>1. new[i] = sent[i] /\ new[i - 1] = sent[i - 1]
        BY <1>1, <2>2, <3>1
      <4> QED
        BY <3>1, <4>1 DEF Spaced, Jump
    <3>2. CASE i = n + 1
      <4>1. n # 0 /\ new[i] = item /\ new[i - 1] = last
        BY <1>1, <2>2, <2>6, <3>2
      <4> QED
        BY <2>3, <2>5, <4>1
    <3> QED
      BY <1>1, <3>1, <3>2
  <2> QED
    BY <2>1, <2>2, <2>3, <2>4, <2>6 DEF Spaced, Jump
<1>7. ASSUME NEW time \in Clock, Make(time) PROVE Spaced'
  <2>1. telemetry'.sequence = sequence
    BY <1>7 DEF Make, Telemetry
  <2> QED
    BY <1>4, <1>7, <2>1 DEF Make
<1>8. CASE \/ Start \/ Stop \/ SendFails \/ Wake \/ Signal \/ UNCHANGED simulatorVars
  <2>1. UNCHANGED <<sequence, cycles, sent, telemetry>> /\ (phase' = "ready" => phase = "ready")
    BY <1>8 DEF Start, Stop, SendFails, Wake, Signal, simulatorVars
  <2> QED
    BY <1>4, <2>1 DEF Spaced
<1> QED
  BY <1>5, <1>6, <1>7, <1>8 DEF Next, Program

(* Between two packets the counter of the simulator never goes all the way  *)
(* round, whatever the schedule of drops.                                   *)
THEOREM PacketsAreSpaced == Spec => []Spaced
<1>1. Init => Spaced
  <2> SUFFICES ASSUME Init PROVE Spaced
    OBVIOUS
  <2>1. sent = <<>> /\ Len(sent) = 0 /\ cycles = 0 /\ sequence = 0 /\ phase = "start"
    BY DEF Init
  <2> QED
    BY <2>1 DEF Spaced
<1> QED
  BY <1>1, SpacedIsKept, SimulatorTypes, PTL DEF Spec

(* What the alarm engine may say of anything but the sequence.             *)
Quiet ==
  [identity : {"temperature", "battery", "safe-mode"}, type : {"raised", "updated", "cleared"},
   severity : Rules!Severities]
Gap == Rules!Transition("sequence-gap", "raised", "warning")
Said == Quiet \cup {Gap}

GapAlarms(story) == {k \in DOMAIN story : story[k].identity = "sequence-gap"}

(* Of a packet's transitions the gap is the first, and nothing else is one. *)
LEMMA GapIsTold ==
  ASSUME NEW s, s.temperature \in Rules!Severities, NEW packet
  PROVE  /\ Rules!NextState(s, packet).temperature \in Rules!Severities
         /\ \E rest \in Seq(Quiet) :
              Rules!Transitions(s, packet) =
                (IF Rules!IsGap(s.last, packet.sequence) THEN <<Gap>> ELSE <<>>) \o rest
<1> DEFINE next == Rules!NextState(s, packet)
           gap == IF Rules!IsGap(s.last, packet.sequence) THEN <<Gap>> ELSE <<>>
           temperature == Rules!TemperatureTransitions(s.temperature, next.temperature)
           battery == Rules!SwitchTransitions("battery", s.battery, next.battery, "critical")
           safe == Rules!SwitchTransitions("safe-mode", s.safe, next.safe, "warning")
           rest == (temperature \o battery) \o safe
<1>1. next.temperature \in Rules!Severities
  BY DEF Rules!NextState, Rules!NextTemperature, Rules!Severities
<1>2. Rules!Transitions(s, packet) = ((gap \o temperature) \o battery) \o safe
  BY DEF Rules!Transitions, Gap
<1>3. ASSUME NEW d \in {"temperature", "battery", "safe-mode"},
             NEW type \in {"raised", "updated", "cleared"}, NEW severity \in Rules!Severities
      PROVE  <<Rules!Transition(d, type, severity)>> \in Seq(Quiet)
  <2>1. Rules!Transition(d, type, severity) \in Quiet
    BY DEF Rules!Transition, Quiet
  <2> QED
    BY <2>1
<1>4. <<>> \in Seq(Quiet)
  OBVIOUS
<1>5. temperature \in Seq(Quiet)
  <2>1. \/ temperature = <<>>
        \/ temperature = <<Rules!Transition("temperature", "raised", next.temperature)>>
        \/ temperature = <<Rules!Transition("temperature", "cleared", s.temperature)>>
        \/ temperature = <<Rules!Transition("temperature", "updated", next.temperature)>>
    BY DEF Rules!TemperatureTransitions
  <2> HIDE DEF temperature, Quiet
  <2> QED
    BY <1>1, <1>3, <1>4, <2>1
<1>6. ASSUME NEW d \in {"battery", "safe-mode"}, NEW severity \in Rules!Severities, NEW old, NEW new
      PROVE  Rules!SwitchTransitions(d, old, new, severity) \in Seq(Quiet)
  <2>1. (IF new THEN "raised" ELSE "cleared") \in {"raised", "updated", "cleared"}
    OBVIOUS
  <2> QED
    BY <1>3, <1>4, <2>1 DEF Rules!SwitchTransitions
<1>7. battery \in Seq(Quiet) /\ safe \in Seq(Quiet)
  <2>1. "warning" \in Rules!Severities /\ "critical" \in Rules!Severities
    BY DEF Rules!Severities
  <2> QED
    BY <1>6, <2>1
<1>8. gap \in Seq(Said)
  <2>1. Gap \in Said
    BY DEF Said
  <2> HIDE DEF Said
  <2>2. <<Gap>> \in Seq(Said) /\ <<>> \in Seq(Said)
    BY <2>1
  <2> QED
    BY <2>2
<1> HIDE DEF gap, temperature, battery, safe, next
<1>9. temperature \in Seq(Said) /\ battery \in Seq(Said) /\ safe \in Seq(Said)
  <2>1. Quiet \subseteq Said
    BY DEF Said
  <2> QED
    BY <1>5, <1>7, <2>1
<1>10. rest \in Seq(Quiet)
  BY <1>5, <1>7
<1>11. ((gap \o temperature) \o battery) \o safe = gap \o rest
  <2>1. (gap \o temperature) \o battery = gap \o (temperature \o battery)
    BY <1>8, <1>9, ConcatAssociative, SMTT(30)
  <2>2. temperature \o battery \in Seq(Said)
    BY <1>9, ConcatProperties
  <2>3. (gap \o (temperature \o battery)) \o safe = gap \o rest
    <3> DEFINE two == temperature \o battery
    <3>1. two \in Seq(Said) /\ rest = two \o safe
      BY <2>2
    <3> HIDE DEF two, rest
    <3>2. (gap \o two) \o safe = gap \o (two \o safe)
      BY <1>8, <1>9, <3>1, ConcatAssociative, SMTT(30)
    <3> QED
      BY <3>1, <3>2 DEF two
  <2> QED
    BY <2>1, <2>3
<1>12. Rules!Transitions(s, packet) = gap \o rest
  BY <1>2, <1>11
<1> HIDE DEF rest
<1> QED
  BY <1>1, <1>10, <1>12 DEF gap, next

(* A story grows by what is no gap.                                        *)
LEMMA QuietAddsNoGap ==
  ASSUME NEW story \in Seq(Said), NEW rest \in Seq(Quiet)
  PROVE  story \o rest \in Seq(Said) /\ GapAlarms(story \o rest) = GapAlarms(story)
<1> DEFINE longer == story \o rest
           n == Len(story)
<1>1. /\ \A i \in DOMAIN rest : rest[i].identity # "sequence-gap"
      /\ rest \in Seq(Said)
  <2>1. Quiet \subseteq Said /\ \A q \in Quiet : q.identity # "sequence-gap"
    BY DEF Said, Quiet
  <2> HIDE DEF Quiet, Said
  <2> QED
    BY <2>1
<1>2. /\ n \in Nat /\ DOMAIN story = 1 .. n
      /\ Len(rest) \in Nat /\ DOMAIN rest = 1 .. Len(rest)
  OBVIOUS
<1>3. /\ longer \in Seq(Said) /\ DOMAIN longer = 1 .. n + Len(rest)
      /\ \A i \in 1 .. n + Len(rest) : longer[i] = IF i <= n THEN story[i] ELSE rest[i - n]
  <2>1. /\ longer \in Seq(Said) /\ Len(longer) = Len(story) + Len(rest)
        /\ \A i \in 1 .. Len(story) + Len(rest) :
             longer[i] = IF i <= Len(story) THEN story[i] ELSE rest[i - Len(story)]
    BY <1>1, ConcatProperties
  <2> HIDE DEF longer
  <2>2. DOMAIN longer = 1 .. n + Len(rest)
    BY <2>1
  <2> QED
    BY <2>1, <2>2
<1> HIDE DEF n, longer
<1>4. ASSUME NEW i \in 1 .. n + Len(rest)
      PROVE  i \in GapAlarms(longer) <=> i \in GapAlarms(story)
  <2>1. CASE i <= n
    <3>1. i \in 1 .. n /\ longer[i] = story[i]
      BY <1>2, <1>3, <2>1
    <3> QED
      BY <1>2, <1>3, <3>1 DEF GapAlarms
  <2>2. CASE ~(i <= n)
    <3>1. i - n \in 1 .. Len(rest) /\ i \notin 1 .. n /\ longer[i] = rest[i - n]
      BY <1>2, <1>3, <2>2
    <3> QED
      BY <1>1, <1>2, <1>3, <3>1 DEF GapAlarms
  <2> QED
    BY <2>1, <2>2
<1>5. GapAlarms(longer) \subseteq 1 .. n + Len(rest) /\ GapAlarms(story) \subseteq 1 .. n + Len(rest)
  <2>1. 1 .. n \subseteq 1 .. n + Len(rest)
    BY <1>2
  <2> QED
    BY <1>2, <1>3, <2>1 DEF GapAlarms
<1>6. GapAlarms(longer) = GapAlarms(story)
  BY <1>4, <1>5
<1> QED
  BY <1>3, <1>6 DEF longer

(* So a packet adds at most one gap to a story.                            *)
LEMMA GapAlarmsGrow ==
  ASSUME NEW story \in Seq(Said), NEW s, s.temperature \in Rules!Severities, NEW packet
  PROVE  /\ story \o Rules!Transitions(s, packet) \in Seq(Said)
         /\ GapAlarms(story) \subseteq 1 .. Len(story) /\ Len(story) \in Nat
         /\ GapAlarms(story \o Rules!Transitions(s, packet)) =
              IF Rules!IsGap(s.last, packet.sequence) THEN GapAlarms(story) \cup {Len(story) + 1}
              ELSE GapAlarms(story)
<1> DEFINE G == Rules!IsGap(s.last, packet.sequence)
           n == Len(story)
<1>1. PICK rest \in Seq(Quiet) :
        Rules!Transitions(s, packet) = (IF G THEN <<Gap>> ELSE <<>>) \o rest
  BY GapIsTold
<1>2. GapAlarms(story) \subseteq 1 .. n /\ n \in Nat
  BY DEF GapAlarms
<1> HIDE DEF G
<1>3. Gap \in Said /\ Gap.identity = "sequence-gap"
  BY DEF Gap, Said, Rules!Transition
<1>4. rest \in Seq(Said)
  <2>1. Quiet \subseteq Said
    BY DEF Said
  <2> QED
    BY <2>1
<1>5. CASE G
  <2> DEFINE noted == Append(story, Gap)
  <2>1. /\ noted \in Seq(Said) /\ DOMAIN noted = 1 .. n + 1 /\ noted[n + 1] = Gap
        /\ \A i \in 1 .. n : noted[i] = story[i]
        /\ DOMAIN story = 1 .. n
    BY <1>3
  <2>2. story \o (<<Gap>> \o rest) = noted \o rest
    <3>1. <<Gap>> \in Seq(Said)
      BY <1>3
    <3>2. story \o (<<Gap>> \o rest) = (story \o <<Gap>>) \o rest
      BY <1>4, <3>1, ConcatAssociative
    <3>3. story \o <<Gap>> = noted
      BY <1>3
    <3> QED
      BY <3>2, <3>3
  <2> HIDE DEF noted, n
  <2>3. ASSUME NEW i PROVE i \in GapAlarms(noted) <=> i \in GapAlarms(story) \/ i = n + 1
    <3>1. i \in 1 .. n + 1 <=> i \in 1 .. n \/ i = n + 1
      BY <1>2
    <3>2. n + 1 \notin 1 .. n
      BY <1>2
    <3> QED
      BY <1>3, <2>1, <3>1, <3>2 DEF GapAlarms
  <2>4. GapAlarms(noted) = GapAlarms(story) \cup {n + 1}
    BY <2>3
  <2>5. noted \o rest \in Seq(Said) /\ GapAlarms(noted \o rest) = GapAlarms(noted)
    BY <2>1, QuietAddsNoGap
  <2>6. Rules!Transitions(s, packet) = <<Gap>> \o rest
    BY <1>1, <1>5
  <2> QED
    BY <1>2, <1>5, <2>2, <2>4, <2>5, <2>6 DEF n, G
<1>6. CASE ~G
  <2>1. Rules!Transitions(s, packet) = rest
    <3>1. <<>> \o rest = rest
      BY <1>4, ConcatEmptySeq
    <3> QED
      BY <1>1, <1>6, <3>1
  <2> QED
    BY <1>2, <1>6, <2>1, QuietAddsNoGap DEF n, G
<1> QED
  BY <1>5, <1>6

(* What the simulator can put on the air.                                  *)
Signals == {Encode(t) : t \in Records}

Jumps == {i \in 2 .. Len(heard) : Jump(i)}

(* A faultless flight: what was sent was heard, in order, or is on the air;*)
(* the engine remembers the last packet heard, and has told the jumps.     *)
Followed ==
  /\ air \in Seq(Signals) /\ heard \in Seq(Records) /\ alarms \in Seq(Said)
  /\ engine.temperature \in Rules!Severities
  /\ Len(sent) = Len(heard) + Len(air)
  /\ \A i \in 1 .. Len(heard) : heard[i] = sent[i].telemetry
  /\ \A j \in 1 .. Len(air) : air[j] = Encode(sent[Len(heard) + j].telemetry)
  /\ heard = <<>> => engine.last = Rules!NoSequence
  /\ heard # <<>> => engine.last = heard[Len(heard)].sequence
  /\ DetectGaps => Cardinality(GapAlarms(alarms)) = Cardinality(Jumps)

Kinds == {"lost", "repeated", "overtaken", "corrupted", "foreign"}

FaultlessInv == faults \in Seq(Kinds) /\ (faults = <<>> => Followed)

(* The simulator sends one more.                                           *)
LEMMA SendIsFollowed ==
  ASSUME TypeOK, Followed, Send PROVE Followed'
<1> DEFINE item == [cycle |-> cycles, telemetry |-> telemetry]
           d == Encode(telemetry)
           n == Len(heard)
           m == Len(air)
<1>1. /\ sent' = Append(sent, item) /\ air' = Append(air, d)
      /\ UNCHANGED <<heard, alarms, engine>> /\ telemetry \in Records
  BY DEF Send, Transmit, groundVars, TypeOK
<1>2. /\ sent \in Seq([cycle : Nat, telemetry : Records]) /\ cycles \in Nat
      /\ d \in Signals /\ air \in Seq(Signals) /\ heard \in Seq(Records)
      /\ Len(sent) = n + m
  BY <1>1 DEF TypeOK, Signals, Followed
<1>3. item.telemetry = telemetry /\ item \in [cycle : Nat, telemetry : Records]
  BY <1>1, <1>2
<1> HIDE DEF item, d
<1>4. n \in Nat /\ m \in Nat
  BY <1>2
<1>5. /\ Len(air') = m + 1 /\ air'[m + 1] = d /\ air' \in Seq(Signals)
      /\ \A j \in 1 .. m : air'[j] = air[j]
  BY <1>1, <1>2
<1>6. /\ Len(sent') = n + m + 1 /\ sent'[n + m + 1] = item
      /\ \A i \in 1 .. n + m : sent'[i] = sent[i]
  <2> DEFINE k == Len(sent)
             longer == Append(sent, item)
  <2>1. Len(longer) = k + 1 /\ longer[k + 1] = item /\ \A i \in 1 .. k : longer[i] = sent[i]
    <3> DEFINE S == [cycle : Nat, telemetry : Records]
    <3>1. sent \in Seq(S) /\ item \in S
      BY <1>2, <1>3
    <3> HIDE DEF S
    <3> QED
      BY <3>1
  <2> HIDE DEF longer
  <2>2. k = n + m /\ sent' = longer
    BY <1>1, <1>2 DEF longer
  <2> QED
    BY <2>1, <2>2
<1> HIDE DEF n, m
<1>7. \A i \in 1 .. n : heard'[i] = sent'[i].telemetry
  <2>1. \A i \in 1 .. n : i \in 1 .. n + m /\ heard[i] = sent[i].telemetry
    BY <1>4 DEF Followed, n
  <2> QED
    BY <1>1, <1>6, <2>1
<1>8. ASSUME NEW j \in 1 .. m + 1 PROVE air'[j] = Encode(sent'[n + j].telemetry)
  <2>1. CASE j = m + 1
    <3>1. n + j = n + m + 1
      BY <1>4, <2>1
    <3> QED
      BY <1>3, <1>5, <1>6, <2>1, <3>1 DEF d
  <2>2. CASE j # m + 1
    <3>1. j \in 1 .. m /\ n + j \in 1 .. n + m
      BY <1>4, <2>2
    <3>2. air[j] = Encode(sent[n + j].telemetry)
      BY <3>1 DEF Followed, n, m
    <3> QED
      BY <1>5, <1>6, <3>1, <3>2
  <2> QED
    BY <2>1, <2>2
<1>9. Len(heard') = n /\ Len(air') = m + 1 /\ Len(sent') = Len(heard') + Len(air')
  BY <1>1, <1>4, <1>5, <1>6 DEF n
<1>10. Jumps' = Jumps
  <2>1. \A i \in 2 .. n : i \in 1 .. n + m /\ i - 1 \in 1 .. n + m
    BY <1>4
  <2>2. \A i \in 2 .. n : Jump(i)' <=> Jump(i)
    BY <1>6, <2>1 DEF Jump
  <2>3. Jumps' = {i \in 2 .. n : Jump(i)'} /\ Jumps = {i \in 2 .. n : Jump(i)}
    BY <1>9 DEF Jumps, n
  <2> QED
    BY <2>2, <2>3
<1> QED
  <2>1. air' \in Seq(Signals) /\ Len(sent') = Len(heard') + Len(air')
    BY <1>5, <1>9
  <2>2. \A i \in 1 .. Len(heard') : heard'[i] = sent'[i].telemetry
    BY <1>7, <1>9
  <2>3. \A j \in 1 .. Len(air') : air'[j] = Encode(sent'[Len(heard') + j].telemetry)
    BY <1>8, <1>9
  <2> QED
    BY <1>1, <1>10, <2>1, <2>2, <2>3 DEF Followed

(* The ground station hears one more.                                      *)
LEMMA HearIsFollowed ==
  ASSUME TypeOK, Spaced, Followed, Hear PROVE Followed'
<1> DEFINE n == Len(heard)
           m == Len(air)
           t == sent[n + 1].telemetry
           G == Rules!IsGap(engine.last, Seen(t).sequence)
           J == n # 0 /\ Jump(n + 1)
<1>1. /\ sent \in Seq([cycle : Nat, telemetry : Records])
      /\ air \in Seq(Signals) /\ heard \in Seq(Records) /\ alarms \in Seq(Said)
      /\ engine.temperature \in Rules!Severities /\ Len(sent) = n + m
      /\ n \in Nat /\ m \in Nat /\ air # <<>> /\ air' = Tail(air) /\ sent' = sent
  BY SMTT(30) DEF TypeOK, Followed, Hear, simulatorVars
<1>2. m > 0 /\ n + 1 \in 1 .. Len(sent) /\ 1 \in 1 .. m
  BY <1>1
<1>3. t \in Records
  <2> DEFINE S == [cycle : Nat, telemetry : Records]
  <2>1. sent[n + 1] \in S
    <3>1. sent \in Seq(S)
      BY <1>1
    <3> HIDE DEF S, n
    <3> QED
      BY <1>2, <3>1
  <2> QED
    BY <2>1
<1>4. Head(air) = Encode(t)
  <2>1. Head(air) = air[1]
    BY <1>1
  <2>2. air[1] = Encode(sent[n + 1].telemetry)
    BY <1>2 DEF Followed
  <2> QED
    BY <2>1, <2>2
<1> HIDE DEF t
<1>5. Rejection(Head(air)) = "none" /\ Decoded(Head(air)) = t
  BY <1>3, <1>4, EncodedIsDecoded
<1>6. /\ heard' = Append(heard, t)
      /\ engine' = Rules!NextState(engine, Seen(t))
      /\ alarms' = alarms \o Rules!Transitions(engine, Seen(t))
  BY <1>5 DEF Hear
<1>7. /\ heard' \in Seq(Records) /\ Len(heard') = n + 1 /\ heard'[n + 1] = t /\ heard' # <<>>
      /\ \A i \in 1 .. n : heard'[i] = heard[i]
  BY <1>1, <1>3, <1>6, SMTT(30)
<1>8. /\ air' \in Seq(Signals) /\ Len(air') = m - 1
      /\ \A j \in 1 .. m - 1 : air'[j] = air[j + 1]
  BY <1>1
<1>9. engine'.temperature \in Rules!Severities /\ engine'.last = t.sequence
  <2>1. engine'.temperature \in Rules!Severities
    BY <1>1, <1>6, GapIsTold
  <2>2. engine'.last = t.sequence
    BY <1>6 DEF Rules!NextState, Seen
  <2> QED
    BY <2>1, <2>2
<1> HIDE DEF n, m
<1>10. Len(sent') = Len(heard') + Len(air')
  <2>1. Len(sent') = n + m /\ n \in Nat /\ m \in Nat
    BY <1>1
  <2>2. Len(heard') = n + 1 /\ Len(air') = m - 1
    BY <1>7, <1>8
  <2> QED
    BY <2>1, <2>2
<1>11. ASSUME NEW i \in 1 .. n + 1 PROVE heard'[i] = sent'[i].telemetry
  <2>1. CASE i = n + 1
    BY <1>1, <1>7, <2>1 DEF t
  <2>2. CASE i # n + 1
    <3>1. i \in 1 .. n
      BY <1>1, <2>2
    <3>2. heard[i] = sent[i].telemetry
      BY <3>1 DEF Followed, n
    <3> QED
      BY <1>1, <1>7, <3>1, <3>2
  <2> QED
    BY <2>1, <2>2
<1>12. ASSUME NEW j \in 1 .. m - 1 PROVE air'[j] = Encode(sent'[n + 1 + j].telemetry)
  <2>1. j + 1 \in 1 .. m /\ n + (j + 1) = n + 1 + j
    BY <1>1
  <2>2. air[j + 1] = Encode(sent[n + (j + 1)].telemetry)
    BY <2>1 DEF Followed, n, m
  <2> QED
    BY <1>1, <1>8, <2>1, <2>2
<1>13. ASSUME DetectGaps PROVE G <=> J
  <2>1. Seen(t).sequence = t.sequence
    BY DEF Seen
  <2>2. CASE n = 0
    <3>1. heard = <<>>
      BY <1>1, <2>2 DEF n
    <3>2. engine.last = Rules!NoSequence
      BY <3>1 DEF Followed
    <3> QED
      BY <2>2, <3>2 DEF Rules!IsGap
  <2>3. CASE n # 0
    <3>1. n \in 1 .. n /\ n + 1 \in 2 .. Len(sent) /\ (n + 1) - 1 = n /\ heard # <<>>
      BY <1>1, <1>2, <2>3 DEF n
    <3>2. engine.last = heard[n].sequence /\ heard[n] = sent[n].telemetry
      BY <3>1 DEF Followed, n
    <3>3. heard[n] \in Records
      BY <1>1, <3>1 DEF n
    <3>4. engine.last \in Nat /\ engine.last # Rules!NoSequence
      <4>1. engine.last \in 0 .. SequenceModulus - 1
        BY <3>2, <3>3 DEF Records
      <4> QED
        BY <4>1, CycleAssumption DEF Rules!NoSequence
    <3>5. t.sequence # (engine.last + 1) % SequenceModulus <=> Jump(n + 1)
      BY <3>1, <3>2 DEF Spaced, t
    <3> QED
      BY <1>13, <2>1, <2>3, <3>4, <3>5 DEF Rules!IsGap
  <2> QED
    BY <2>2, <2>3
<1>14. /\ Jumps \subseteq 2 .. n
       /\ Jumps' = IF J THEN Jumps \cup {n + 1} ELSE Jumps
  <2>1. \A i : Jump(i)' <=> Jump(i)
    BY <1>1 DEF Jump
  <2>2. Jumps = {i \in 2 .. n : Jump(i)} /\ Jumps' = {i \in 2 .. n + 1 : Jump(i)}
    BY <1>7, <2>1 DEF Jumps, n
  <2>3. \A i : i \in 2 .. n + 1 <=> i \in 2 .. n \/ (i = n + 1 /\ n # 0)
    BY <1>1
  <2> QED
    BY <2>2, <2>3
<1> DEFINE A == GapAlarms(alarms)
           k == Len(alarms)
<1>15. /\ alarms' \in Seq(Said) /\ A \subseteq 1 .. k /\ k \in Nat
       /\ GapAlarms(alarms') = IF G THEN A \cup {k + 1} ELSE A
  BY <1>1, <1>6, GapAlarmsGrow
<1> HIDE DEF G, J, k
<1>16. /\ IsFiniteSet(A) /\ k + 1 \notin A
       /\ IsFiniteSet(Jumps) /\ n + 1 \notin Jumps
  <2>1. IsFiniteSet(1 .. k) /\ IsFiniteSet(2 .. n)
    <3>1. 1 \in Int /\ 2 \in Int /\ k \in Int /\ n \in Int
      BY <1>1, <1>15
    <3> QED
      BY <3>1, FS_Interval
  <2>2. k + 1 \notin 1 .. k /\ n + 1 \notin 2 .. n
    BY <1>1, <1>15
  <2> QED
    BY <1>14, <1>15, <2>1, <2>2, FS_Subset
<1> HIDE DEF A
<1>17. /\ Cardinality(A \cup {k + 1}) = Cardinality(A) + 1
       /\ Cardinality(Jumps \cup {n + 1}) = Cardinality(Jumps) + 1
  BY <1>16, FS_AddElement
<1>18. DetectGaps => Cardinality(GapAlarms(alarms')) = Cardinality(Jumps')
  <2>1. DetectGaps => Cardinality(A) = Cardinality(Jumps)
    BY DEF Followed, A
  <2> QED
    BY <1>13, <1>14, <1>15, <1>17, <2>1
<1> QED
  <2>1. \A i \in 1 .. Len(heard') : heard'[i] = sent'[i].telemetry
    BY <1>7, <1>11
  <2>2. \A j \in 1 .. Len(air') : air'[j] = Encode(sent'[Len(heard') + j].telemetry)
    BY <1>7, <1>8, <1>12
  <2>3. heard'[Len(heard')] = t
    BY <1>7
  <2>4. GapAlarms(alarms)' = GapAlarms(alarms')
    BY DEF GapAlarms
  <2> QED
    BY <1>7, <1>8, <1>9, <1>10, <1>15, <1>18, <2>1, <2>2, <2>3, <2>4 DEF Followed

(* When the link is faultless the ground station hears exactly what the    *)
(* spacecraft sent, and the gaps it reports are the packets dropped on     *)
(* board: for every counter width, schedule, clock, policy and scenario.   *)
THEOREM GapsAreDropped == FlightSpec => []GapsAreTheDrops
<1>1. FlightInit => FaultlessInv
  <2> SUFFICES ASSUME FlightInit PROVE FaultlessInv
    OBVIOUS
  <2>1. /\ sent = <<>> /\ air = <<>> /\ faults = <<>> /\ engine = Rules!Fresh
        /\ heard = <<>> /\ alarms = <<>>
    BY DEF FlightInit, Init
  <2>2. engine.temperature \in Rules!Severities /\ engine.last = Rules!NoSequence
    BY <2>1 DEF Rules!Fresh, Rules!Severities
  <2>3. GapAlarms(alarms) = {} /\ Jumps = {}
    BY <2>1 DEF GapAlarms, Jumps
  <2>4. faults \in Seq(Kinds) /\ air \in Seq(Signals) /\ heard \in Seq(Records) /\ alarms \in Seq(Said)
    BY <2>1
  <2>5. Len(sent) = Len(heard) + Len(air) /\ 1 .. Len(heard) = {} /\ 1 .. Len(air) = {}
    BY <2>1
  <2> QED
    BY <2>1, <2>2, <2>3, <2>4, <2>5 DEF FaultlessInv, Followed
<1>2. TypeOK /\ Spaced /\ FaultlessInv /\ [FlightNext]_vars => FaultlessInv'
  <2> SUFFICES ASSUME TypeOK, Spaced, FaultlessInv, [FlightNext]_vars PROVE FaultlessInv'
    OBVIOUS
  <2>1. CASE Send
    BY <2>1, SendIsFollowed DEF FaultlessInv, Send
  <2>2. CASE Hear
    BY <2>2, HearIsFollowed DEF FaultlessInv, Hear
  <2>3. CASE Link
    <3>1. ASSUME NEW kind \in Kinds, Fault(kind) PROVE FaultlessInv'
      <4> HIDE DEF Kinds
      <4>1. faults' = Append(faults, kind) /\ faults \in Seq(Kinds)
        BY <3>1 DEF Fault, FaultlessInv
      <4>2. faults' \in Seq(Kinds) /\ faults' # <<>>
        BY <4>1
      <4> QED
        BY <4>2 DEF FaultlessInv
    <3>2. /\ "lost" \in Kinds /\ "repeated" \in Kinds /\ "overtaken" \in Kinds
          /\ "corrupted" \in Kinds /\ "foreign" \in Kinds
      BY DEF Kinds
    <3>3. \/ Fault("lost") \/ Fault("repeated") \/ Fault("overtaken") \/ Fault("corrupted")
          \/ Fault("foreign")
      BY <2>3 DEF Link, Lose, Repeat, Overtake, Corrupt, Intrude
    <3> QED
      BY <3>1, <3>2, <3>3
  <2>4. ASSUME UNCHANGED <<sent, air, faults, groundVars>> PROVE FaultlessInv'
    BY <2>4 DEF FaultlessInv, Followed, groundVars, Jumps, Jump, GapAlarms
  <2>5. CASE Aboard \/ Interrupt \/ UNCHANGED vars
    BY <2>4, <2>5 DEF Aboard, Interrupt, Start, Stop, Drop, SendFails, Wake, Make, Signal, vars,
                      simulatorVars
  <2> QED
    BY <2>1, <2>2, <2>3, <2>5 DEF FlightNext
<1>3. TypeOK /\ Spaced /\ FaultlessInv => GapsAreTheDrops
  <2> SUFFICES ASSUME TypeOK, FaultlessInv, faults = <<>> PROVE GapsAreTheDrops
    BY DEF GapsAreTheDrops
  <2>1. DOMAIN heard = 1 .. Len(heard)
    BY DEF FaultlessInv, Followed
  <2>2. Jumps = {i \in 2 .. Len(heard) : sent[i].cycle # sent[i - 1].cycle + 1}
    BY DEF Jumps, Jump
  <2> QED
    BY <2>1, <2>2 DEF FaultlessInv, Followed, GapsAreTheDrops, GapAlarms
<1>4. FlightSpec => [](TypeOK /\ Spaced)
  BY FlightFliesTheSimulator, SimulatorTypes, PacketsAreSpaced, PTL
<1> QED
  BY <1>1, <1>2, <1>3, <1>4, PTL DEF FlightSpec

(* What is on the air without corruption, and how it got into the story.   *)
Transmitted == {Encode(sent[j].telemetry) : j \in DOMAIN sent}

Intact == "corrupted" \notin Range(faults)

IntactInv ==
  /\ faults \in Seq(Kinds)
  /\ Intact => /\ air \in Seq(Transmitted \cup Foreign)
               /\ heard \in Seq(Records) /\ HeardWasSent

(* A datagram that was sent is heard as what was sent.                     *)
LEMMA TransmittedIsHeard ==
  ASSUME TypeOK, NEW d \in Transmitted
  PROVE  /\ Rejection(d) = "none" /\ Decoded(d) \in Records
         /\ \E j \in DOMAIN sent : Decoded(d) = sent[j].telemetry
<1>1. PICK j \in DOMAIN sent : d = Encode(sent[j].telemetry)
  BY DEF Transmitted
<1>2. sent[j].telemetry \in Records
  <2> DEFINE S == [cycle : Nat, telemetry : Records]
  <2>1. sent \in Seq(S)
    BY DEF TypeOK
  <2> HIDE DEF S
  <2>2. sent[j] \in S
    BY <2>1
  <2> QED
    BY <2>2 DEF S
<1>3. Rejection(d) = "none" /\ Decoded(d) = sent[j].telemetry
  BY <1>1, <1>2, EncodedIsDecoded
<1> QED
  BY <1>2, <1>3

(* Losing, repeating and overtaking leave what is on the air what it was.   *)
LEMMA ReorderedAir ==
  ASSUME NEW S, NEW q \in Seq(S), q # <<>>
  PROVE  /\ Head(q) \in S /\ Tail(q) \in Seq(S) /\ <<Head(q)>> \o q \in Seq(S)
         /\ Len(q) > 1 => <<q[2], q[1]>> \o SubSeq(q, 3, Len(q)) \in Seq(S)
<1>1. Head(q) \in S /\ Tail(q) \in Seq(S) /\ <<Head(q)>> \in Seq(S)
  OBVIOUS
<1>2. <<Head(q)>> \o q \in Seq(S)
  BY <1>1, ConcatProperties
<1>3. ASSUME Len(q) > 1
      PROVE  <<q[2], q[1]>> \o SubSeq(q, 3, Len(q)) \in Seq(S)
  <2>1. q[1] \in S /\ q[2] \in S
    BY <1>3
  <2>2. <<q[2], q[1]>> \in Seq(S)
    BY <2>1
  <2>3. SubSeq(q, 3, Len(q)) \in Seq(S)
    <3>1. Len(q) \in Nat /\ \A i \in 3 .. Len(q) : q[i] \in S
      OBVIOUS
    <3> QED
      BY <3>1
  <2> QED
    BY <2>2, <2>3, ConcatProperties
<1> QED
  BY <1>1, <1>2, <1>3

(* The simulator sends one more: what it sent before was still sent.        *)
LEMMA MoreIsTransmitted ==
  ASSUME TypeOK, Send, NEW N, air \in Seq(Transmitted \cup N), HeardWasSent
  PROVE  air' \in Seq(Transmitted' \cup N) /\ HeardWasSent'
<1> DEFINE item == [cycle |-> cycles, telemetry |-> telemetry]
           I == [cycle : Nat, telemetry : Records]
           S == Transmitted \cup N
           more == Transmitted' \cup N
<1>1. /\ sent' = Append(sent, item) /\ air' = Append(air, Encode(telemetry))
      /\ heard' = heard
  BY DEF Send, Transmit, groundVars
<1>2. sent \in Seq(I) /\ item.telemetry = telemetry
  BY DEF TypeOK
<1> HIDE DEF item, I
<1>3. /\ \A j \in DOMAIN sent : j \in DOMAIN sent' /\ sent'[j] = sent[j]
      /\ Len(sent) + 1 \in DOMAIN sent' /\ sent'[Len(sent) + 1] = item
  BY <1>1, <1>2
<1>4. Transmitted \subseteq Transmitted' /\ Encode(telemetry) \in Transmitted'
  BY <1>2, <1>3 DEF Transmitted
<1>5. HeardWasSent'
  BY <1>1, <1>3 DEF HeardWasSent
<1> HIDE DEF Transmitted
<1>6. S \subseteq more /\ Encode(telemetry) \in more /\ air \in Seq(S)
  BY <1>4
<1> HIDE DEF S, more
<1>7. air \in Seq(more)
  BY <1>6
<1>8. Append(air, Encode(telemetry)) \in Seq(more)
  BY <1>6, <1>7
<1> QED
  BY <1>1, <1>5, <1>8 DEF more

(* The ground station hears one more: what was sent, or what it rejects.    *)
LEMMA SentIsHeard ==
  ASSUME TypeOK, Hear, NEW N, \A d \in N : Rejection(d) # "none",
         air \in Seq(Transmitted \cup N), heard \in Seq(Records), HeardWasSent
  PROVE  air' \in Seq(Transmitted' \cup N) /\ heard' \in Seq(Records) /\ HeardWasSent'
<1> DEFINE S == Transmitted \cup N
<1>1. sent' = sent /\ air # <<>> /\ air' = Tail(air)
  BY DEF Hear, simulatorVars
<1>2. Transmitted' \cup N = S
  BY <1>1 DEF Transmitted
<1> SUFFICES air' \in Seq(S) /\ heard' \in Seq(Records) /\ HeardWasSent'
  BY <1>2
<1>3. air \in Seq(S)
  OBVIOUS
<1> HIDE DEF S
<1>4. Head(air) \in S /\ Tail(air) \in Seq(S)
  BY <1>1, <1>3, ReorderedAir
<1>5. CASE Rejection(Head(air)) # "none"
  <2>1. heard' = heard
    BY <1>5 DEF Hear, groundVars
  <2> QED
    BY <1>1, <1>4, <2>1 DEF HeardWasSent
<1>6. CASE Rejection(Head(air)) = "none"
  <2>1. Head(air) \in Transmitted
    BY <1>4, <1>6 DEF S
  <2>2. PICK j \in DOMAIN sent : Decoded(Head(air)) = sent[j].telemetry
    BY <2>1, TransmittedIsHeard
  <2>3. Decoded(Head(air)) \in Records
    BY <2>1, TransmittedIsHeard
  <2>4. heard' = Append(heard, Decoded(Head(air)))
    BY <1>6 DEF Hear
  <2> DEFINE t == Decoded(Head(air))
  <2> HIDE DEF t
  <2>5. /\ Append(heard, t) \in Seq(Records)
        /\ DOMAIN heard = 1 .. Len(heard) /\ DOMAIN Append(heard, t) = 1 .. Len(heard) + 1
        /\ Append(heard, t)[Len(heard) + 1] = t
        /\ \A i \in DOMAIN heard : Append(heard, t)[i] = heard[i]
    BY <2>3 DEF t
  <2>6. \A i \in 1 .. Len(heard) + 1 : i \in 1 .. Len(heard) \/ i = Len(heard) + 1
    OBVIOUS
  <2>7. \A i \in DOMAIN Append(heard, t) : \E k \in DOMAIN sent : Append(heard, t)[i] = sent[k].telemetry
    BY <2>2, <2>5, <2>6 DEF HeardWasSent, t
  <2> QED
    BY <1>1, <1>4, <2>4, <2>5, <2>7 DEF HeardWasSent, t
<1> QED
  BY <1>5, <1>6

(* What the link does is written down in the order of its doing.            *)
LEMMA FaultIsNoted ==
  ASSUME faults \in Seq(Kinds), NEW kind \in Kinds, Fault(kind)
  PROVE  /\ faults' \in Seq(Kinds) /\ sent' = sent /\ heard' = heard
         /\ DOMAIN faults = 1 .. Len(faults) /\ DOMAIN faults' = 1 .. Len(faults) + 1
         /\ faults'[Len(faults) + 1] = kind /\ \A i \in DOMAIN faults : faults'[i] = faults[i]
         /\ Intact' => Intact /\ kind # "corrupted"
<1> HIDE DEF Kinds
<1>1. faults' = Append(faults, kind) /\ sent' = sent /\ heard' = heard
  BY DEF Fault, simulatorVars, groundVars
<1>2. /\ faults' \in Seq(Kinds)
      /\ DOMAIN faults = 1 .. Len(faults) /\ DOMAIN faults' = 1 .. Len(faults) + 1
      /\ faults'[Len(faults) + 1] = kind /\ \A i \in DOMAIN faults : faults'[i] = faults[i]
  BY <1>1
<1>3. Len(faults) + 1 \in DOMAIN faults' /\ \A i \in DOMAIN faults : i \in DOMAIN faults'
  BY <1>2
<1>4. kind \in Range(faults') /\ Range(faults) \subseteq Range(faults')
  BY <1>2, <1>3 DEF Range
<1> QED
  BY <1>1, <1>2, <1>4 DEF Intact

(* What the link may do but corrupt.                                        *)
LEMMA GentleLink ==
  ASSUME NEW S, air \in Seq(S), Foreign \subseteq S,
         Lose \/ Repeat \/ Overtake \/ \E d \in Foreign : Intrude(d)
  PROVE  air' \in Seq(S)
<1>1. CASE Lose \/ Repeat \/ Overtake
  <2>1. air # <<>>
    BY <1>1 DEF Lose, Repeat, Overtake
  <2> QED
    BY <1>1, <2>1, ReorderedAir DEF Lose, Repeat, Overtake
<1>2. ASSUME NEW d \in Foreign, Intrude(d) PROVE air' \in Seq(S)
  <2>1. d \in S /\ air' = <<d>> \o air
    BY <1>2 DEF Intrude
  <2>2. <<d>> \in Seq(S)
    BY <2>1
  <2> QED
    BY <2>1, <2>2, ConcatProperties
<1> QED
  BY <1>1, <1>2

(* Each thing the link does is a fault of its kind.                        *)
LEMMA LinkDoes ==
  ASSUME Link
  PROVE  \E kind \in Kinds :
           /\ Fault(kind)
           /\ \/ kind # "corrupted" /\ (Lose \/ Repeat \/ Overtake \/ \E d \in Foreign : Intrude(d))
              \/ kind = "corrupted" /\ \E i \in Positions, mask \in Masks : Corrupt(i, mask)
<1>1. /\ "lost" \in Kinds /\ "repeated" \in Kinds /\ "overtaken" \in Kinds
      /\ "corrupted" \in Kinds /\ "foreign" \in Kinds
  BY DEF Kinds
<1>2. CASE Lose
  BY <1>1, <1>2 DEF Lose
<1>3. CASE Repeat
  BY <1>1, <1>3 DEF Repeat
<1>4. CASE Overtake
  BY <1>1, <1>4 DEF Overtake
<1>5. ASSUME NEW d \in Foreign, Intrude(d)
      PROVE  Fault("foreign")
  BY <1>5 DEF Intrude
<1>6. ASSUME NEW i \in Positions, NEW mask \in Masks, Corrupt(i, mask)
      PROVE  Fault("corrupted")
  BY <1>6 DEF Corrupt
<1> QED
  BY <1>1, <1>2, <1>3, <1>4, <1>5, <1>6 DEF Link

(* What the steps aboard and the signals leave alone.                       *)
LEMMA ElsewhereNothing ==
  ASSUME Aboard \/ Interrupt \/ UNCHANGED vars
  PROVE  UNCHANGED <<sent, air, faults, heard>>
BY DEF Aboard, Interrupt, Start, Stop, Drop, SendFails, Wake, Make, Signal, vars, simulatorVars,
       groundVars

(* Until something is corrupted, all on the air was sent or is foreign.     *)
LEMMA IntactHolds ==
  ASSUME \A d \in Foreign : Rejection(d) # "none"
  PROVE  FlightSpec => []IntactInv
<1>1. FlightInit => IntactInv
  <2> SUFFICES ASSUME FlightInit PROVE IntactInv
    OBVIOUS
  <2>1. air = <<>> /\ faults = <<>> /\ heard = <<>>
    BY DEF FlightInit
  <2>2. /\ faults \in Seq(Kinds) /\ air \in Seq(Transmitted \cup Foreign)
        /\ heard \in Seq(Records) /\ DOMAIN heard = {}
    BY <2>1
  <2> QED
    BY <2>2 DEF IntactInv, HeardWasSent
<1>2. TypeOK /\ IntactInv /\ [FlightNext]_vars => IntactInv'
  <2> SUFFICES ASSUME TypeOK, IntactInv, [FlightNext]_vars PROVE IntactInv'
    OBVIOUS
  <2>1. CASE Send
    <3>1. faults' = faults /\ heard' = heard
      BY <2>1 DEF Send, groundVars
    <3> QED
      BY <2>1, <3>1, MoreIsTransmitted DEF IntactInv, Intact
  <2>2. CASE Hear
    <3>1. faults' = faults
      BY <2>2 DEF Hear
    <3> QED
      BY <2>2, <3>1, SentIsHeard DEF IntactInv, Intact
  <2>3. CASE Link
    <3>1. PICK kind \in Kinds :
            /\ Fault(kind)
            /\ kind # "corrupted" => Lose \/ Repeat \/ Overtake \/ \E d \in Foreign : Intrude(d)
      BY <2>3, LinkDoes
    <3>2. /\ faults' \in Seq(Kinds) /\ sent' = sent /\ heard' = heard
          /\ Intact' => Intact /\ kind # "corrupted"
      BY <3>1, FaultIsNoted DEF IntactInv
    <3> SUFFICES ASSUME Intact, kind # "corrupted" PROVE air' \in Seq(Transmitted \cup Foreign)
      BY <3>2 DEF IntactInv, Intact, HeardWasSent, Transmitted
    <3> QED
      BY <3>1, GentleLink DEF IntactInv
  <2>4. CASE Aboard \/ Interrupt \/ UNCHANGED vars
    BY <2>4, ElsewhereNothing DEF IntactInv, Intact, HeardWasSent, Transmitted
  <2> QED
    BY <2>1, <2>2, <2>3, <2>4 DEF FlightNext
<1>3. FlightSpec => []TypeOK
  BY FlightFliesTheSimulator, SimulatorTypes, PTL
<1> QED
  BY <1>1, <1>2, <1>3, PTL DEF FlightSpec

(* As long as nothing is corrupted, the ground station believes only what  *)
(* was sent, whatever is lost, repeated, overtaken or thrown in by others, *)
(* provided that their datagrams are malformed: so it is on the checksum   *)
(* alone, and only against corruption, that the belief depends.            *)
THEOREM UncorruptedIsBelieved ==
  ASSUME \A d \in Foreign : Rejection(d) # "none"
  PROVE  FlightSpec => []("corrupted" \notin Range(faults) => HeardWasSent)
<1>1. IntactInv => ("corrupted" \notin Range(faults) => HeardWasSent)
  BY DEF IntactInv, Intact
<1> QED
  BY <1>1, IntactHolds, PTL

-----------------------------------------------------------------------------
(* What one corruption can do: nothing.                                    *)

(* At most one byte was corrupted in the whole flight.                     *)
OneCorruption ==
  \A i, j \in DOMAIN faults : faults[i] = "corrupted" /\ faults[j] = "corrupted" => i = j

(* A datagram that is rejected, and stays so when one byte of it changes.   *)
Harmless(d) ==
  /\ d \in Seq(Octets) /\ Rejection(d) # "none"
  /\ \A i \in Positions \cap DOMAIN d, mask \in Masks : Rejection(Struck(d, i, mask)) # "none"

(* What the ground station would reject, whoever made it of it.             *)
Noise == {d \in Seq(Octets) : Rejection(d) # "none"}

StruckInv ==
  OneCorruption =>
    air \in Seq(Transmitted \cup Noise) /\ heard \in Seq(Records) /\ HeardWasSent

(* What is encoded is a datagram with its checksum.                        *)
LEMMA EncodedIsWhole ==
  ASSUME NEW t \in Records
  PROVE  Encode(t) \in Seq(Octets) /\ Len(Encode(t)) = PacketSize /\ CrcMatches(Encode(t))
<1> DEFINE body  == EncodeBody(t)
           check == [i \in 1 .. 4 |-> ByteOf({k \in 0 .. 7 : k + 8 * (4 - i) \in Crc32(body)})]
<1>1. Encode(t) = body \o check
  BY DEF Encode, AppendCrc
<1>2. body \in Seq(Octets)
  BY BodyIsRead
<1>3. check \in Seq(Octets)
  <2>1. \A i \in 1 .. 4 : check[i] \in Octets
    BY DEF Octets
  <2> HIDE DEF Octets
  <2> QED
    BY <2>1
<1> HIDE DEF body, check
<1>4. Encode(t) \in Seq(Octets)
  BY <1>1, <1>2, <1>3, ConcatProperties
<1>5. Rejection(Encode(t)) = "none"
  BY EncodedIsDecoded
<1> QED
  BY <1>4, <1>5 DEF Rejection

(* A datagram stays one when a byte of it changes.                          *)
LEMMA StruckIsADatagram ==
  ASSUME NEW d \in Seq(Octets), NEW i \in DOMAIN d, NEW mask \in Masks
  PROVE  Struck(d, i, mask) \in Seq(Octets) /\ Len(Struck(d, i, mask)) = Len(d)
<1> DEFINE new == ByteOf(Xor(BitsOf(d[i]), mask))
<1>1. new \in Octets
  <2>1. Xor(BitsOf(d[i]), mask) \in SUBSET (0 .. 7)
    BY LinkAssumption DEF Xor, BitsOf
  <2> QED
    BY <2>1 DEF Octets
<1>2. Struck(d, i, mask) = [d EXCEPT ![i] = new]
  BY DEF Struck
<1> HIDE DEF new
<1> QED
  BY <1>1, <1>2

(* And what had its checksum, or another length, is rejected.               *)
LEMMA StruckIsRejected ==
  ASSUME NEW d \in Seq(Octets), NEW i \in Positions \cap DOMAIN d, NEW mask \in Masks,
         Len(d) # PacketSize \/ CrcMatches(d)
  PROVE  Struck(d, i, mask) \in Noise
<1>1. mask \in (SUBSET (0 .. 7)) \ {{}} /\ i \in 1 .. PacketSize
  BY LinkAssumption
<1>2. Struck(d, i, mask) \in Seq(Octets) /\ Len(Struck(d, i, mask)) = Len(d)
  BY StruckIsADatagram
<1>3. Len(d) = PacketSize => ~CrcMatches(Struck(d, i, mask))
  BY <1>1, OneByteIsDetected
<1>4. Rejection(Struck(d, i, mask)) # "none"
  BY <1>2, <1>3 DEF Rejection
<1> QED
  BY <1>2, <1>4 DEF Noise

(* The datagrams of other programs that have another length, or a checksum  *)
(* of their own, are harmless when they are rejected.                       *)
LEMMA MalformedIsHarmless ==
  ASSUME NEW d \in Seq(Octets), Rejection(d) # "none", Len(d) # PacketSize \/ CrcMatches(d)
  PROVE  Harmless(d)
BY StruckIsRejected DEF Harmless, Noise

(* A fault that leaves at most one corruption is the first one, or none.    *)
LEMMA CorruptedOnce ==
  ASSUME faults \in Seq(Kinds), NEW kind \in Kinds, Fault(kind), OneCorruption'
  PROVE  OneCorruption /\ (kind = "corrupted" => Intact)
<1>1. /\ DOMAIN faults = 1 .. Len(faults) /\ DOMAIN faults' = 1 .. Len(faults) + 1
      /\ faults'[Len(faults) + 1] = kind /\ \A i \in DOMAIN faults : faults'[i] = faults[i]
  BY FaultIsNoted
<1>2. /\ Len(faults) \in Nat /\ Len(faults) + 1 \in DOMAIN faults'
      /\ \A i \in DOMAIN faults : i \in DOMAIN faults' /\ i # Len(faults) + 1
  BY <1>1
<1>3. OneCorruption
  BY <1>1, <1>2 DEF OneCorruption
<1>4. ASSUME kind = "corrupted" PROVE Intact
  <2>1. \A i \in DOMAIN faults : faults[i] # "corrupted"
    BY <1>1, <1>2, <1>4 DEF OneCorruption
  <2> QED
    BY <2>1 DEF Intact, Range
<1> QED
  BY <1>3, <1>4

(* The one corruption makes noise of what it strikes.                       *)
LEMMA CorruptionMakesNoise ==
  ASSUME TypeOK, IntactInv, Intact, \A d \in Foreign : Harmless(d),
         NEW i \in Positions, NEW mask \in Masks, Corrupt(i, mask)
  PROVE  /\ air # <<>> /\ Struck(Head(air), i, mask) \in Noise
         /\ air' = [air EXCEPT ![1] = Struck(Head(air), i, mask)]
<1> DEFINE first == Head(air)
           struck == Struck(first, i, mask)
<1>1. air \in Seq(Transmitted \cup Foreign)
  BY DEF IntactInv
<1>2. air # <<>> /\ i \in DOMAIN first /\ air' = [air EXCEPT ![1] = struck]
  <2>1. /\ air # <<>> /\ i \in DOMAIN Head(air)
        /\ air' = [air EXCEPT ![1] = [air[1] EXCEPT ![i] = ByteOf(Xor(BitsOf(air[1][i]), mask))]]
    BY DEF Corrupt
  <2>2. Head(air) = air[1]
    BY <1>1, <2>1
  <2> QED
    BY <2>1, <2>2 DEF Struck
<1>3. first \in Transmitted \cup Foreign
  BY <1>1, <1>2, ReorderedAir
<1>4. CASE first \in Transmitted
  <2>1. PICK j \in DOMAIN sent : first = Encode(sent[j].telemetry)
    BY <1>4 DEF Transmitted
  <2>2. sent[j].telemetry \in Records
    <3> DEFINE T == [cycle : Nat, telemetry : Records]
    <3>1. sent \in Seq(T)
      BY DEF TypeOK
    <3> HIDE DEF T
    <3>2. sent[j] \in T
      BY <3>1
    <3> QED
      BY <3>2 DEF T
  <2>3. first \in Seq(Octets) /\ CrcMatches(first)
    BY <2>1, <2>2, EncodedIsWhole
  <2> QED
    BY <1>2, <2>3, StruckIsRejected
<1>5. CASE first \in Foreign
  <2>1. Harmless(first)
    BY <1>5
  <2>2. Rejection(struck) # "none"
    BY <1>2, <2>1 DEF Harmless
  <2>3. struck \in Seq(Octets)
    BY <1>2, <2>1, StruckIsADatagram DEF Harmless
  <2> QED
    BY <1>2, <2>2, <2>3 DEF Noise
<1> QED
  BY <1>2, <1>3, <1>4, <1>5

(* And so only noise comes of it.                                           *)
LEMMA StruckHolds ==
  ASSUME \A d \in Foreign : Harmless(d)
  PROVE  FlightSpec => []StruckInv
<1>1. FlightInit => StruckInv
  <2> SUFFICES ASSUME FlightInit PROVE StruckInv
    OBVIOUS
  <2>1. air = <<>> /\ heard = <<>>
    BY DEF FlightInit
  <2>2. air \in Seq(Transmitted \cup Noise) /\ heard \in Seq(Records) /\ DOMAIN heard = {}
    BY <2>1
  <2> QED
    BY <2>2 DEF StruckInv, HeardWasSent
<1>2. TypeOK /\ IntactInv /\ StruckInv /\ [FlightNext]_vars => StruckInv'
  <2> SUFFICES ASSUME TypeOK, IntactInv, StruckInv, [FlightNext]_vars, OneCorruption'
               PROVE  /\ air' \in Seq(Transmitted' \cup Noise)
                      /\ heard' \in Seq(Records) /\ HeardWasSent'
    BY DEF StruckInv, Noise
  <2>0. \A d \in Noise : Rejection(d) # "none"
    BY DEF Noise
  <2>1. CASE Send
    <3>1. faults' = faults /\ heard' = heard
      BY <2>1 DEF Send, groundVars
    <3>2. air \in Seq(Transmitted \cup Noise) /\ heard \in Seq(Records) /\ HeardWasSent
      BY <3>1 DEF StruckInv, OneCorruption
    <3> QED
      BY <2>1, <3>1, <3>2, MoreIsTransmitted
  <2>2. CASE Hear
    <3>1. faults' = faults
      BY <2>2 DEF Hear
    <3>2. air \in Seq(Transmitted \cup Noise) /\ heard \in Seq(Records) /\ HeardWasSent
      BY <3>1 DEF StruckInv, OneCorruption
    <3> QED
      BY <2>0, <2>2, <3>2, SentIsHeard
  <2>3. CASE Link
    <3>1. PICK kind \in Kinds :
            /\ Fault(kind)
            /\ \/ kind # "corrupted" /\ (Lose \/ Repeat \/ Overtake \/ \E d \in Foreign : Intrude(d))
               \/ kind = "corrupted" /\ \E i \in Positions, mask \in Masks : Corrupt(i, mask)
      BY <2>3, LinkDoes
    <3>2. OneCorruption /\ (kind = "corrupted" => Intact)
      BY <3>1, CorruptedOnce DEF IntactInv
    <3>3. air \in Seq(Transmitted \cup Noise) /\ heard \in Seq(Records) /\ HeardWasSent
      BY <3>2 DEF StruckInv
    <3>4. heard' \in Seq(Records) /\ HeardWasSent' /\ Transmitted' = Transmitted
      <4>1. sent' = sent /\ heard' = heard
        BY <3>1, FaultIsNoted DEF IntactInv
      <4> QED
        BY <3>3, <4>1 DEF HeardWasSent, Transmitted
    <3>5. CASE kind # "corrupted"
      <4>1. Foreign \subseteq Transmitted \cup Noise
        BY DEF Noise, Harmless
      <4>2. air' \in Seq(Transmitted \cup Noise)
        BY <3>1, <3>3, <3>5, <4>1, GentleLink
      <4> QED
        BY <3>4, <4>2
    <3>6. CASE kind = "corrupted"
      <4>1. PICK i \in Positions, mask \in Masks : Corrupt(i, mask)
        BY <3>1, <3>6
      <4> DEFINE S == Transmitted \cup Noise
                 struck == Struck(Head(air), i, mask)
      <4>2. air # <<>> /\ struck \in Noise /\ air' = [air EXCEPT ![1] = struck]
        BY <3>2, <3>6, <4>1, CorruptionMakesNoise
      <4>3. struck \in S /\ air \in Seq(S)
        BY <3>3, <4>2
      <4> HIDE DEF S, struck
      <4>4. air' \in Seq(S)
        BY <4>2, <4>3
      <4> QED
        BY <3>4, <4>4 DEF S
    <3> QED
      BY <3>5, <3>6
  <2>4. CASE Aboard \/ Interrupt \/ UNCHANGED vars
    BY <2>4, ElsewhereNothing DEF StruckInv, OneCorruption, HeardWasSent, Transmitted
  <2> QED
    BY <2>1, <2>2, <2>3, <2>4 DEF FlightNext
<1>3. FlightSpec => []TypeOK
  BY FlightFliesTheSimulator, SimulatorTypes, PTL
<1>4. FlightSpec => []IntactInv
  BY IntactHolds DEF Harmless
<1> QED
  BY <1>1, <1>2, <1>3, <1>4, PTL DEF FlightSpec

(* One byte corrupted in a flight, wherever it is, with losses, repetitions,*)
(* overtaking and intruders around it, and still the ground station         *)
(* believes nothing that was not sent: the checksum notices every change of *)
(* one byte, in itself as in what it covers.                                *)
THEOREM OneCorruptionIsNoticed ==
  ASSUME \A d \in Foreign : Harmless(d)
  PROVE  FlightSpec => [](OneCorruption => HeardWasSent)
<1>1. StruckInv => (OneCorruption => HeardWasSent)
  BY DEF StruckInv
<1> QED
  BY <1>1, StruckHolds, PTL

-----------------------------------------------------------------------------
(* What the scenarios do to the alarms.                                    *)

(* The quotients by one divisor are in the order of what is divided.        *)
LEMMA QuotientGrows ==
  ASSUME NEW a \in Int, NEW b \in Int, a <= b, NEW d \in Nat \ {0}
  PROVE  a \div d <= b \div d
<1> DEFINE p == a \div d
           q == b \div d
           r == a % d
           s == b % d
<1>1. /\ p \in Int /\ r \in 0 .. d - 1 /\ a = d * p + r
      /\ q \in Int /\ s \in 0 .. d - 1 /\ b = d * q + s
  OBVIOUS
<1> HIDE DEF p, q, r, s
<1>2. p <= q
  <2> SUFFICES ASSUME q <= p - 1 PROVE FALSE
    BY <1>1
  <2>1. d * q <= d * p - d
    BY <1>1
  <2> QED
    BY <1>1, <2>1
<1> QED
  BY <1>2 DEF p, q

(* std::round keeps the order, through zero too.                            *)
LEMMA RoundedGrows ==
  ASSUME NEW a \in Int, NEW b \in Int, a <= b
  PROVE  Rounded(a) \in Int /\ Rounded(b) \in Int /\ Rounded(a) <= Rounded(b)
<1> DEFINE d == 2 * Grain
           up(v) == (2 * v + Grain) \div d
           down(v) == (Grain - 2 * v) \div d
<1>1. d \in Nat \ {0} /\ Grain \in Nat \ {0}
  BY ScenarioAssumption
<1>2. \A v : Rounded(v) = IF v >= 0 THEN up(v) ELSE -down(v)
  BY DEF Rounded
<1> HIDE DEF d
<1>3. \A v \in Int : up(v) \in Int /\ down(v) \in Int
  BY <1>1
<1>4. \A x \in Nat : x \div d >= 0
  BY <1>1
<1>5. /\ \A v \in Int : v >= 0 => up(v) >= 0
      /\ \A v \in Int : v < 0 => down(v) >= 0
  BY <1>1, <1>4
<1>6. CASE a >= 0
  <2>1. 2 * a + Grain \in Int /\ 2 * b + Grain \in Int /\ 2 * a + Grain <= 2 * b + Grain
    BY <1>1
  <2>2. up(a) <= up(b)
    BY <1>1, <2>1, QuotientGrows
  <2> HIDE DEF up, down
  <2> QED
    BY <1>2, <1>3, <1>6, <2>2
<1>7. CASE b < 0
  <2>1. Grain - 2 * a \in Int /\ Grain - 2 * b \in Int /\ Grain - 2 * b <= Grain - 2 * a
    BY <1>1
  <2>2. down(b) <= down(a)
    BY <1>1, <2>1, QuotientGrows
  <2> HIDE DEF up, down
  <2> QED
    BY <1>2, <1>3, <1>7, <2>2
<1>8. CASE a < 0 /\ b >= 0
  <2> HIDE DEF up, down
  <2> QED
    BY <1>2, <1>3, <1>5, <1>8
<1> QED
  BY <1>6, <1>7, <1>8

Numbers == 0 .. SequenceModulus - 1

(* From one number to the next a thermal flight gets no cooler.            *)
LEMMA HotterByOne ==
  ASSUME NEW n \in Numbers, n + 1 \in Numbers
  PROVE  /\ Temperature("thermal", n) \in Int /\ Temperature("thermal", n + 1) \in Int
         /\ Temperature("thermal", n) <= Temperature("thermal", n + 1)
<1> DEFINE c == Curves(n).temperature
           e == Curves(n + 1).temperature
<1>1. n \in Nat /\ n + 1 \in 1 .. SequenceModulus - 1 /\ (n + 1) - 1 = n
  BY CycleAssumption DEF Numbers
<1>2. c \in Int /\ e \in Int /\ c - e <= ThermalRise
  BY <1>1, ScenarioAssumption DEF Numbers
<1>3. NominalTemperature \in Int /\ ThermalRise \in Nat
  BY ScenarioAssumption
<1>4. /\ Temperature("thermal", n) = NominalTemperature + c + ThermalRise * n
      /\ Temperature("thermal", n + 1) = NominalTemperature + e + ThermalRise * (n + 1)
  BY DEF Temperature
<1> HIDE DEF c, e
<1>5. ThermalRise * (n + 1) = ThermalRise * n + ThermalRise /\ ThermalRise * n \in Int
  BY <1>1, <1>3
<1> QED
  BY <1>2, <1>3, <1>4, <1>5

(* A thermal flight only gets hotter.                                       *)
LEMMA OnlyHotter ==
  ASSUME NEW m \in Numbers, NEW n \in Numbers, m <= n
  PROVE  /\ Temperature("thermal", m) \in Int /\ Temperature("thermal", n) \in Int
         /\ Temperature("thermal", m) <= Temperature("thermal", n)
<1> DEFINE T(k) == Temperature("thermal", k)
           H == {k \in Nat : m + k \in Numbers => T(m + k) \in Int /\ T(m) <= T(m + k)}
<1>0. m \in Nat /\ n \in Nat /\ SequenceModulus \in Nat
  BY CycleAssumption DEF Numbers
<1>1. 0 \in H
  <2>1. T(m) \in Int
    <3>1. Curves(m).temperature \in Int /\ NominalTemperature \in Int /\ ThermalRise \in Nat
      BY ScenarioAssumption DEF Numbers
    <3> QED
      BY <1>0, <3>1 DEF Temperature
  <2> HIDE DEF T
  <2>2. m + 0 = m
    BY <1>0
  <2> QED
    BY <2>1, <2>2
<1>2. ASSUME NEW k \in Nat, k \in H PROVE k + 1 \in H
  <2> SUFFICES ASSUME m + (k + 1) \in Numbers
               PROVE  T(m + (k + 1)) \in Int /\ T(m) <= T(m + (k + 1))
    OBVIOUS
  <2>1. m + k \in Numbers /\ (m + k) + 1 = m + (k + 1)
    BY <1>0 DEF Numbers
  <2>2. T(m) <= T(m + k) /\ T(m + k) \in Int
    BY <1>2, <2>1
  <2>3. T(m + (k + 1)) \in Int /\ T(m + k) <= T(m + (k + 1))
    BY <2>1, HotterByOne
  <2>4. T(m) \in Int
    BY <1>0, <1>1 DEF Numbers
  <2> HIDE DEF T
  <2> QED
    BY <2>2, <2>3, <2>4
<1>3. Nat \subseteq H
  BY <1>1, <1>2, SetInduction
<1>4. n - m \in Nat /\ m + (n - m) = n /\ m + 0 = m
  BY <1>0
<1> HIDE DEF T
<1>5. n - m \in H /\ 0 \in H
  BY <1>3, <1>4
<1>6. T(m + (n - m)) \in Int /\ T(m) <= T(m + (n - m)) /\ T(m + 0) \in Int
  BY <1>4, <1>5
<1> QED
  BY <1>4, <1>6 DEF T

(* Every flight drains its battery.                                         *)
LEMMA OnlyWeaker ==
  ASSUME NEW s, NEW m \in Numbers, NEW n \in Numbers, m <= n
  PROVE  /\ Battery(s, m) \in Int /\ Battery(s, n) \in Int
         /\ Battery(s, n) <= Battery(s, m)
<1>1. m \in Nat /\ n \in Nat
  BY CycleAssumption DEF Numbers
<1>2. NominalBattery \in Int /\ NominalDrain \in Nat /\ PowerDrain \in Nat
  BY ScenarioAssumption
<1>3. \A d \in Nat : d * m \in Nat /\ d * n \in Nat /\ d * m <= d * n
  <2> SUFFICES ASSUME NEW d \in Nat PROVE d * m \in Nat /\ d * n \in Nat /\ d * m <= d * n
    OBVIOUS
  <2>1. d * (n - m) >= 0 /\ d * (n - m) = d * n - d * m
    BY <1>1
  <2> QED
    BY <1>1, <2>1
<1>4. /\ NominalDrain * m \in Nat /\ NominalDrain * n \in Nat /\ NominalDrain * m <= NominalDrain * n
      /\ PowerDrain * m \in Nat /\ PowerDrain * n \in Nat /\ PowerDrain * m <= PowerDrain * n
  BY <1>2, <1>3
<1> QED
  BY <1>2, <1>4 DEF Battery

(* A later packet of a scenario is not better than an earlier one.          *)
NotBetter(p, q) ==
  /\ q.battery <= p.battery
  /\ p.mode = "SAFE" => q.mode = "SAFE"
  /\ arguments.scenario = "thermal" => p.temperature <= q.temperature

(* So it is with any two records of a flight, in the order of numbers.     *)
LEMMA ScenariosWorsen ==
  ASSUME NEW m \in Numbers, NEW n \in Numbers, m <= n, NEW early, NEW late,
         arguments.scenario \in Scenarios
  PROVE  NotBetter(Telemetry(m, early, arguments.scenario), Telemetry(n, late, arguments.scenario))
<1> DEFINE s == arguments.scenario
           p == Telemetry(m, early, s)
           q == Telemetry(n, late, s)
           Charge(k) == IF Battery(s, k) > 0 THEN Battery(s, k) ELSE 0
<1>1. /\ p.battery = Rounded(Charge(m)) /\ q.battery = Rounded(Charge(n))
      /\ p.temperature = Rounded(Temperature(s, m)) /\ q.temperature = Rounded(Temperature(s, n))
      /\ p.mode = Mode(s, m) /\ q.mode = Mode(s, n)
  BY DEF Telemetry
<1> HIDE DEF p, q
<1>2. Battery(s, m) \in Int /\ Battery(s, n) \in Int /\ Battery(s, n) <= Battery(s, m)
  BY OnlyWeaker
<1>3. q.battery <= p.battery
  <2>1. Charge(n) \in Int /\ Charge(m) \in Int /\ Charge(n) <= Charge(m)
    BY <1>2
  <2> HIDE DEF Charge
  <2> QED
    BY <1>1, <2>1, RoundedGrows
<1>4. ASSUME s = "thermal" PROVE p.temperature <= q.temperature
  <2>1. /\ Temperature(s, m) \in Int /\ Temperature(s, n) \in Int
        /\ Temperature(s, m) <= Temperature(s, n)
    BY <1>4, OnlyHotter
  <2> QED
    BY <1>1, <2>1, RoundedGrows
<1>5. ASSUME Mode(s, m) = "SAFE" PROVE Mode(s, n) = "SAFE"
  <2>1. Temperature(s, m) >= SafeTemperature \/ Battery(s, m) <= SafeBattery
    BY <1>5 DEF Mode
  <2>2. SafeTemperature \in Int /\ SafeBattery \in Int
    BY ScenarioAssumption
  <2>3. CASE Battery(s, m) <= SafeBattery
    <3>1. Battery(s, n) <= SafeBattery
      BY <1>2, <2>2, <2>3
    <3> QED
      BY <3>1 DEF Mode
  <2>4. CASE Temperature(s, m) >= SafeTemperature
    <3>1. s = "thermal"
      <4> SUFFICES ASSUME s # "thermal" PROVE FALSE
        OBVIOUS
      <4>1. Temperature(s, m) = NominalTemperature + Curves(m).temperature + 0
        BY DEF Temperature
      <4>2. /\ NominalTemperature \in Int /\ Curves(m).temperature \in Int
            /\ NominalTemperature + Curves(m).temperature < SafeTemperature
        BY ScenarioAssumption DEF Numbers
      <4> QED
        BY <2>2, <2>4, <4>1, <4>2
    <3>2. /\ Temperature(s, m) \in Int /\ Temperature(s, n) \in Int
          /\ Temperature(s, m) <= Temperature(s, n)
      BY <3>1, OnlyHotter
    <3>3. Temperature(s, n) >= SafeTemperature
      BY <2>2, <2>4, <3>2
    <3> QED
      BY <3>3 DEF Mode
  <2> QED
    BY <2>1, <2>3, <2>4
<1>6. p.mode = "SAFE" => q.mode = "SAFE"
  BY <1>1, <1>5
<1>7. NotBetter(p, q)
  BY <1>3, <1>4, <1>6 DEF NotBetter
<1> QED
  BY <1>7 DEF p, q

(* An alarm that says that something got worse, or that may say otherwise.  *)
Worsening ==
  {a \in Said :
     \/ a.identity = "sequence-gap"
     \/ a.type = "raised"
     \/ a.type = "updated" /\ a.severity = "critical"
     \/ a.identity = "temperature" /\ arguments.scenario # "thermal"}

(* What the engine remembers is what the last packet said.                  *)
Fits(s, p) ==
  /\ s.temperature = "critical" => p.temperature >= CriticalC - HysteresisC
  /\ s.temperature = "warning" => p.temperature >= WarningC - HysteresisC
  /\ s.battery => p.battery <= CriticalV + HysteresisV
  /\ s.safe => AlarmOnSafe /\ p.mode = "SAFE"

EngineTyped(s) ==
  s.temperature \in Rules!Severities /\ s.battery \in BOOLEAN /\ s.safe \in BOOLEAN

Measured(p) == p.temperature \in Int /\ p.battery \in Int

(* Whatever it remembered, a packet leaves an engine that fits it.          *)
LEMMA StateFits ==
  ASSUME NEW s, EngineTyped(s), NEW p, Measured(p)
  PROVE  EngineTyped(Rules!NextState(s, p)) /\ Fits(Rules!NextState(s, p), p)
<1> DEFINE n == Rules!NextState(s, p)
<1>1. /\ WarningC \in Int /\ CriticalC \in Int /\ HysteresisC \in Nat
      /\ CriticalC - HysteresisC >= WarningC
      /\ CriticalV \in Nat /\ HysteresisV \in Nat /\ AlarmOnSafe \in BOOLEAN
  BY GroundAssumption DEF Rules!ValidPolicy
<1>2. /\ n.temperature = Rules!NextTemperature(s.temperature, p.temperature)
      /\ n.battery = Rules!NextBattery(s.battery, p.battery)
      /\ n.safe = (AlarmOnSafe /\ p.mode = "SAFE")
  BY DEF Rules!NextState
<1> HIDE DEF n
<1>3. p.temperature \in Int /\ p.battery \in Int
  BY DEF Measured
<1>4. /\ n.temperature \in Rules!Severities
      /\ n.temperature = "critical" => p.temperature >= CriticalC - HysteresisC
      /\ n.temperature = "warning" => p.temperature >= WarningC - HysteresisC
  BY <1>1, <1>2, <1>3 DEF Rules!NextTemperature, Rules!Severities
<1>5. n.battery \in BOOLEAN /\ (n.battery => p.battery <= CriticalV + HysteresisV)
  <2>1. p.battery <= CriticalV => p.battery <= CriticalV + HysteresisV
    BY <1>1, <1>3
  <2> QED
    BY <1>2, <2>1 DEF Rules!NextBattery
<1>6. n.safe \in BOOLEAN /\ (n.safe => AlarmOnSafe /\ p.mode = "SAFE")
  BY <1>1, <1>2
<1> QED
  BY <1>4, <1>5, <1>6 DEF EngineTyped, Fits, n

(* A packet that is not better than the last one only worsens the alarms.   *)
LEMMA NotBetterIsTold ==
  ASSUME NEW s, EngineTyped(s), NEW p, Measured(p), Fits(s, p) \/ s = Rules!Fresh,
         NEW q, Measured(q), NotBetter(p, q) \/ s = Rules!Fresh
  PROVE  Rules!Transitions(s, q) \in Seq(Worsening)
<1> DEFINE n == Rules!NextState(s, q)
           gap == IF Rules!IsGap(s.last, q.sequence) THEN <<Gap>> ELSE <<>>
           temperature == Rules!TemperatureTransitions(s.temperature, n.temperature)
           battery == Rules!SwitchTransitions("battery", s.battery, n.battery, "critical")
           safe == Rules!SwitchTransitions("safe-mode", s.safe, n.safe, "warning")
<1>1. Rules!Transitions(s, q) = ((gap \o temperature) \o battery) \o safe
  BY DEF Rules!Transitions, Gap
<1>2. /\ n.temperature = Rules!NextTemperature(s.temperature, q.temperature)
      /\ n.battery = Rules!NextBattery(s.battery, q.battery)
      /\ n.safe = (AlarmOnSafe /\ q.mode = "SAFE")
  BY DEF Rules!NextState
<1>3. /\ WarningC \in Int /\ CriticalC \in Int /\ HysteresisC \in Nat
      /\ CriticalC - HysteresisC >= WarningC
      /\ CriticalV \in Nat /\ HysteresisV \in Nat /\ AlarmOnSafe \in BOOLEAN
  BY GroundAssumption DEF Rules!ValidPolicy
<1>4. /\ p.temperature \in Int /\ p.battery \in Int /\ q.temperature \in Int /\ q.battery \in Int
      /\ s.temperature \in Rules!Severities /\ s.battery \in BOOLEAN /\ s.safe \in BOOLEAN
  BY DEF Measured, EngineTyped
<1>5. CASE s = Rules!Fresh \/ (Fits(s, p) /\ NotBetter(p, q))
  <2> HIDE DEF n
  <2>1. /\ s.battery => n.battery
        /\ s.safe => n.safe
        /\ arguments.scenario = "thermal" =>
             /\ s.temperature = "critical" => n.temperature = "critical"
             /\ s.temperature = "warning" => n.temperature \in {"warning", "critical"}
    <3>1. CASE s = Rules!Fresh
      BY <3>1 DEF Rules!Fresh
    <3>2. CASE Fits(s, p) /\ NotBetter(p, q)
      <4>1. s.battery => q.battery <= CriticalV + HysteresisV
        BY <1>3, <1>4, <3>2 DEF Fits, NotBetter
      <4>2. s.battery => n.battery
        BY <1>2, <4>1 DEF Rules!NextBattery
      <4>3. s.safe => n.safe
        BY <1>2, <3>2 DEF Fits, NotBetter
      <4>4. ASSUME arguments.scenario = "thermal"
            PROVE  /\ s.temperature = "critical" => n.temperature = "critical"
                   /\ s.temperature = "warning" => n.temperature \in {"warning", "critical"}
        <5>1. /\ s.temperature = "critical" => q.temperature >= CriticalC - HysteresisC
              /\ s.temperature = "warning" => q.temperature >= WarningC - HysteresisC
          BY <1>3, <1>4, <3>2, <4>4 DEF Fits, NotBetter
        <5> QED
          BY <1>2, <5>1 DEF Rules!NextTemperature
      <4> QED
        BY <4>2, <4>3, <4>4
    <3> QED
      BY <1>5, <3>1, <3>2
  <2>2. n.temperature \in Rules!Severities /\ n.battery \in BOOLEAN /\ n.safe \in BOOLEAN
    BY <1>2, <1>3, <1>4 DEF Rules!NextTemperature, Rules!Severities, Rules!NextBattery
  <2>3. ASSUME NEW identity \in {"temperature", "battery", "safe-mode"},
               NEW type \in {"raised", "updated", "cleared"}, NEW severity \in Rules!Severities,
               \/ type = "raised"
               \/ type = "updated" /\ severity = "critical"
               \/ identity = "temperature" /\ arguments.scenario # "thermal"
        PROVE  <<Rules!Transition(identity, type, severity)>> \in Seq(Worsening)
    <3>1. Rules!Transition(identity, type, severity) \in Worsening
      BY <2>3 DEF Rules!Transition, Quiet, Said, Worsening
    <3> QED
      BY <3>1
  <2>12. ASSUME NEW identity \in {"temperature", "battery", "safe-mode"},
                NEW severity \in Rules!Severities
         PROVE  <<Rules!Transition(identity, "raised", severity)>> \in Seq(Worsening)
    <3>1. Rules!Transition(identity, "raised", severity) \in Worsening
      BY DEF Rules!Transition, Quiet, Said, Worsening
    <3> QED
      BY <3>1
  <2>4. <<>> \in Seq(Worsening)
    OBVIOUS
  <2>5. gap \in Seq(Worsening)
    <3>1. Gap \in Worsening
      BY DEF Gap, Said, Worsening, Rules!Transition
    <3> QED
      BY <2>4, <3>1
  <2>6. temperature \in Seq(Worsening)
    <3> DEFINE old == s.temperature
               new == n.temperature
    <3>1. old \in {"none", "warning", "critical"} /\ new \in {"none", "warning", "critical"}
      BY <1>4, <2>2 DEF Rules!Severities
    <3>2. \/ old = new /\ temperature = <<>>
          \/ /\ old = "none" /\ new # "none"
             /\ temperature = <<Rules!Transition("temperature", "raised", new)>>
          \/ /\ old # "none" /\ new = "none"
             /\ temperature = <<Rules!Transition("temperature", "cleared", old)>>
          \/ /\ old # "none" /\ new # "none" /\ old # new
             /\ temperature = <<Rules!Transition("temperature", "updated", new)>>
      BY DEF Rules!TemperatureTransitions
    <3> HIDE DEF temperature
    <3>3. CASE arguments.scenario # "thermal"
      <4>1. \A type \in {"raised", "updated", "cleared"}, severity \in Rules!Severities :
              <<Rules!Transition("temperature", type, severity)>> \in Seq(Worsening)
        BY <2>3, <3>3
      <4> HIDE DEF Worsening
      <4> QED
        BY <1>4, <2>2, <2>4, <3>2, <4>1
    <3>4. CASE arguments.scenario = "thermal"
      <4>1. \/ old = new \/ old = "none" \/ new = "critical"
        BY <2>1, <3>1, <3>4
      <4>2. <<Rules!Transition("temperature", "raised", new)>> \in Seq(Worsening)
        BY <2>2, <2>12
      <4>3. new = "critical" => <<Rules!Transition("temperature", "updated", new)>> \in Seq(Worsening)
        BY <2>2, <2>3
      <4>4. old = "critical" => new = "critical"
        BY <2>1, <3>4
      <4> HIDE DEF Worsening
      <4> QED
        BY <2>4, <3>1, <3>2, <4>1, <4>2, <4>3, <4>4
    <3> QED
      BY <3>3, <3>4
  <2>7. ASSUME NEW identity \in {"battery", "safe-mode"}, NEW severity \in Rules!Severities,
               NEW old \in BOOLEAN, NEW new \in BOOLEAN, old => new
        PROVE  Rules!SwitchTransitions(identity, old, new, severity) \in Seq(Worsening)
    <3>1. \/ Rules!SwitchTransitions(identity, old, new, severity) = <<>>
          \/ Rules!SwitchTransitions(identity, old, new, severity) =
               <<Rules!Transition(identity, "raised", severity)>>
      BY <2>7 DEF Rules!SwitchTransitions
    <3>2. <<Rules!Transition(identity, "raised", severity)>> \in Seq(Worsening)
      BY <2>12
    <3> HIDE DEF Worsening
    <3> QED
      BY <2>4, <3>1, <3>2
  <2>8. battery \in Seq(Worsening) /\ safe \in Seq(Worsening)
    <3>1. "warning" \in Rules!Severities /\ "critical" \in Rules!Severities
      BY DEF Rules!Severities
    <3> QED
      BY <1>4, <2>1, <2>2, <2>7, <3>1
  <2> HIDE DEF gap, temperature, battery, safe, Worsening
  <2>9. gap \o temperature \in Seq(Worsening)
    BY <2>5, <2>6, ConcatProperties
  <2>10. (gap \o temperature) \o battery \in Seq(Worsening)
    BY <2>8, <2>9, ConcatProperties
  <2>11. ((gap \o temperature) \o battery) \o safe \in Seq(Worsening)
    BY <2>8, <2>10, ConcatProperties
  <2> QED
    BY <1>1, <2>11
<1> QED
  BY <1>5

-----------------------------------------------------------------------------
(* A record of this flight, made when the counter read its number.         *)
Genuine(t) == \E time \in Clock : t = Telemetry(t.sequence, time, arguments.scenario)

(* In the first round of the counter the numbers are the cycles.           *)
MadeInv ==
  /\ cycles < SequenceModulus => sequence = cycles
  /\ phase = "ready" => telemetry.sequence = sequence /\ Genuine(telemetry)
  /\ \A j \in DOMAIN sent :
       /\ Genuine(sent[j].telemetry)
       /\ cycles <= SequenceModulus => sent[j].telemetry.sequence < cycles

(* A transmitted record is of this flight.                                  *)
LEMMA SentAreMade ==
  ASSUME TypeOK, MadeInv, Transmit
  PROVE  MadeInv'
<1> DEFINE item == [cycle |-> cycles, telemetry |-> telemetry]
           S == [cycle : Nat, telemetry : Records]
<1>1. /\ sent' = Append(sent, item) /\ sent \in Seq(S) /\ item.telemetry = telemetry
      /\ cycles' = cycles + 1 /\ sequence' = (sequence + 1) % SequenceModulus
      /\ phase' = "asleep" /\ arguments' = arguments
      /\ Genuine(telemetry) /\ telemetry.sequence = sequence
  BY DEF Transmit, EndCycle, TypeOK, MadeInv
<1>2. cycles \in Nat /\ sequence \in 0 .. SequenceModulus - 1 /\ SequenceModulus \in Nat \ {0}
  BY CycleAssumption DEF TypeOK
<1> HIDE DEF S, item
<1>3. /\ DOMAIN sent' = 1 .. Len(sent) + 1 /\ DOMAIN sent = 1 .. Len(sent) /\ Len(sent) \in Nat
      /\ sent'[Len(sent) + 1] = item /\ \A j \in DOMAIN sent : sent'[j] = sent[j]
  BY <1>1
<1>4. ASSUME cycles + 1 < SequenceModulus PROVE sequence' = cycles + 1
  <2>1. sequence = cycles
    BY <1>2, <1>4 DEF MadeInv
  <2>2. (sequence + 1) % SequenceModulus =
          IF sequence = SequenceModulus - 1 THEN 0 ELSE sequence + 1
    BY <1>2, NextNumber
  <2> QED
    BY <1>1, <1>2, <1>4, <2>1, <2>2
<1>5. ASSUME NEW j \in DOMAIN sent
      PROVE  /\ Genuine(sent[j].telemetry)
             /\ cycles + 1 <= SequenceModulus => sent[j].telemetry.sequence < cycles + 1
  <2>1. sent[j].telemetry.sequence \in Int
    <3>1. sent[j] \in S
      BY <1>1
    <3> QED
      BY <3>1, CycleAssumption DEF S, Records
  <2>2. /\ Genuine(sent[j].telemetry)
        /\ cycles <= SequenceModulus => sent[j].telemetry.sequence < cycles
    BY DEF MadeInv
  <2> HIDE DEF Genuine
  <2> QED
    BY <1>2, <2>1, <2>2
<1>6. cycles + 1 <= SequenceModulus => telemetry.sequence < cycles + 1
  <2> SUFFICES ASSUME cycles + 1 <= SequenceModulus PROVE telemetry.sequence < cycles + 1
    OBVIOUS
  <2>1. sequence = cycles
    BY <1>2 DEF MadeInv
  <2> QED
    BY <1>1, <1>2, <2>1
<1>7. ASSUME NEW j \in DOMAIN sent'
      PROVE  /\ Genuine(sent'[j].telemetry)
             /\ cycles + 1 <= SequenceModulus => sent'[j].telemetry.sequence < cycles + 1
  <2>1. CASE j \in DOMAIN sent
    <3>1. sent'[j] = sent[j]
      BY <1>3, <2>1
    <3> HIDE DEF Genuine
    <3> QED
      BY <1>5, <2>1, <3>1
  <2>2. CASE j \notin DOMAIN sent
    <3>1. j = Len(sent) + 1
      BY <1>3, <2>2
    <3> HIDE DEF Genuine
    <3> QED
      BY <1>1, <1>3, <1>6, <3>1
  <2> QED
    BY <2>1, <2>2
<1> QED
  BY <1>1, <1>4, <1>7 DEF MadeInv, Genuine

(* And so are all that is sent, and all that is about to be.               *)
LEMMA RecordsAreMade == FlightSpec => []MadeInv
<1>1. Init => MadeInv
  BY CycleAssumption DEF Init, MadeInv
<1>2. TypeOK /\ MadeInv /\ [Next]_simulatorVars => MadeInv'
  <2> SUFFICES ASSUME TypeOK, MadeInv, [Next]_simulatorVars PROVE MadeInv'
    OBVIOUS
  <2>1. CASE Transmit
    BY <2>1, SentAreMade
  <2>2. CASE Drop
    <3>1. /\ sent' = sent /\ cycles' = cycles + 1 /\ sequence' = (sequence + 1) % SequenceModulus
          /\ phase' = "asleep" /\ arguments' = arguments
      BY <2>2 DEF Drop, EndCycle
    <3>2. cycles \in Nat /\ sequence \in 0 .. SequenceModulus - 1 /\ SequenceModulus \in Nat \ {0}
      BY CycleAssumption DEF TypeOK
    <3>3. ASSUME cycles + 1 < SequenceModulus PROVE sequence' = cycles + 1
      <4>1. sequence = cycles
        BY <3>2, <3>3 DEF MadeInv
      <4>2. (sequence + 1) % SequenceModulus =
              IF sequence = SequenceModulus - 1 THEN 0 ELSE sequence + 1
        BY <3>2, NextNumber
      <4> QED
        BY <3>1, <3>2, <3>3, <4>1, <4>2
    <3>4. ASSUME NEW j \in DOMAIN sent, cycles + 1 <= SequenceModulus
          PROVE  sent[j].telemetry.sequence < cycles + 1
      <4>1. sent[j].telemetry.sequence \in Int
        <5> DEFINE S == [cycle : Nat, telemetry : Records]
        <5>1. sent \in Seq(S)
          BY DEF TypeOK
        <5> HIDE DEF S
        <5>2. sent[j] \in S
          BY <5>1
        <5> QED
          BY <5>2, CycleAssumption DEF S, Records
      <4>2. sent[j].telemetry.sequence < cycles
        BY <3>2, <3>4 DEF MadeInv
      <4> QED
        BY <3>2, <4>1, <4>2
    <3> QED
      BY <3>1, <3>3, <3>4 DEF MadeInv, Genuine
  <2>3. ASSUME NEW time \in Clock, Make(time) PROVE MadeInv'
    <3>1. /\ telemetry' = Telemetry(sequence, time, arguments.scenario) /\ arguments' = arguments
          /\ sequence' = sequence /\ cycles' = cycles /\ sent' = sent
      BY <2>3 DEF Make
    <3>2. telemetry'.sequence = sequence
      BY <3>1 DEF Telemetry
    <3>3. Genuine(telemetry)'
      BY <3>1, <3>2 DEF Genuine
    <3> QED
      BY <3>1, <3>2, <3>3 DEF MadeInv, Genuine
  <2>4. CASE Start \/ Stop \/ SendFails \/ Wake \/ Signal \/ UNCHANGED simulatorVars
    <3>1. /\ UNCHANGED <<arguments, sequence, telemetry, cycles, sent>>
          /\ phase' = "ready" => phase = "ready"
      BY <2>4 DEF Start, Stop, SendFails, Wake, Signal, simulatorVars
    <3> QED
      BY <3>1 DEF MadeInv, Genuine
  <2> QED
    BY <2>1, <2>2, <2>3, <2>4 DEF Next, Program
<1> QED
  BY <1>1, <1>2, FlightFliesTheSimulator, SimulatorTypes, PTL DEF Spec

(* What the ground station does not reject, and its number.                *)
Heeded(d) == Rejection(d) = "none"
Number(d) == Decoded(d).sequence

(* What is heeded comes in the order of the numbers, from a number on.     *)
InOrder(q, n) ==
  /\ \A i \in DOMAIN q : Heeded(q[i]) => n <= Number(q[i])
  /\ \A i, j \in DOMAIN q : i <= j /\ Heeded(q[i]) /\ Heeded(q[j]) => Number(q[i]) <= Number(q[j])

(* Of what is in order, the rest is, from the number of the first on.       *)
LEMMA RestIsInOrder ==
  ASSUME NEW S, NEW q \in Seq(S), q # <<>>, NEW n, InOrder(q, n)
  PROVE  /\ InOrder(Tail(q), n)
         /\ Heeded(Head(q)) => n <= Number(Head(q)) /\ InOrder(Tail(q), Number(Head(q)))
<1>1. /\ Head(q) = q[1] /\ 1 \in DOMAIN q
      /\ \A i \in DOMAIN Tail(q) : i + 1 \in DOMAIN q /\ Tail(q)[i] = q[i + 1] /\ 1 <= i + 1
      /\ \A i, j \in DOMAIN Tail(q) : i <= j => i + 1 <= j + 1
  OBVIOUS
<1> HIDE DEF Heeded, Number
<1> QED
  BY <1>1 DEF InOrder

(* One more in front, that is rejected or no later than the others.         *)
LEMMA FrontIsInOrder ==
  ASSUME NEW S, NEW q \in Seq(S), NEW n, InOrder(q, n), NEW d \in S,
         Heeded(d) => n <= Number(d) /\ Number(d) <= Number(d) /\ InOrder(q, Number(d))
  PROVE  InOrder(<<d>> \o q, n)
<1> DEFINE r == <<d>> \o q
<1>1. /\ r[1] = d /\ DOMAIN r = 1 .. Len(q) + 1 /\ Len(q) \in Nat /\ DOMAIN q = 1 .. Len(q)
      /\ \A i \in DOMAIN r : i # 1 => i - 1 \in DOMAIN q /\ r[i] = q[i - 1]
  OBVIOUS
<1>2. \A i, j \in DOMAIN r : i <= j /\ i # 1 => j # 1 /\ i - 1 <= j - 1
  BY <1>1
<1> HIDE DEF Heeded, Number, r
<1>3. ASSUME NEW i \in DOMAIN r, Heeded(r[i]) PROVE n <= Number(r[i])
  BY <1>1, <1>3 DEF InOrder
<1>4. ASSUME NEW i \in DOMAIN r, NEW j \in DOMAIN r, i <= j, Heeded(r[i]), Heeded(r[j])
      PROVE  Number(r[i]) <= Number(r[j])
  <2>1. CASE i = 1 /\ j = 1
    BY <1>1, <1>4, <2>1
  <2>2. CASE i = 1 /\ j # 1
    BY <1>1, <1>4, <2>2 DEF InOrder
  <2>3. CASE i # 1
    BY <1>1, <1>2, <1>4, <2>3 DEF InOrder
  <2> QED
    BY <2>1, <2>2, <2>3
<1>5. InOrder(r, n)
  BY <1>3, <1>4 DEF InOrder
<1> QED
  BY <1>5 DEF r

(* One more at the end, that is later than all before it.                   *)
LEMMA LastIsInOrder ==
  ASSUME NEW S, NEW q \in Seq(S), NEW n, InOrder(q, n), NEW d \in S, n <= Number(d),
         Number(d) <= Number(d), \A i \in DOMAIN q : Heeded(q[i]) => Number(q[i]) <= Number(d)
  PROVE  InOrder(Append(q, d), n)
<1> DEFINE r == Append(q, d)
           m == Len(q) + 1
<1>1. /\ r[m] = d /\ DOMAIN r = 1 .. m /\ m \in Nat
      /\ \A i \in DOMAIN r : i # m => i \in DOMAIN q /\ r[i] = q[i]
  OBVIOUS
<1>2. \A i, j \in DOMAIN r : i <= j /\ j # m => i # m
  BY <1>1
<1> HIDE DEF Heeded, Number, r, m
<1>3. ASSUME NEW i \in DOMAIN r, Heeded(r[i]) PROVE n <= Number(r[i])
  BY <1>1, <1>3 DEF InOrder
<1>4. ASSUME NEW i \in DOMAIN r, NEW j \in DOMAIN r, i <= j, Heeded(r[i]), Heeded(r[j])
      PROVE  Number(r[i]) <= Number(r[j])
  BY <1>1, <1>2, <1>4 DEF InOrder
<1>5. InOrder(r, n)
  BY <1>3, <1>4 DEF InOrder
<1> QED
  BY <1>5 DEF r

-----------------------------------------------------------------------------
(* The flights the alarms are about: in the first round of the counter, no *)
(* packet overtaken, at most one byte corrupted.                           *)
Calm == "overtaken" \notin Range(faults) /\ cycles <= SequenceModulus /\ OneCorruption

(* The ground station heard a record of this flight, before those on the   *)
(* air, and remembers what it said.                                        *)
Orderly ==
  /\ InOrder(air, engine.last) /\ engine.last \in Int /\ engine.last < cycles
  /\ EngineTyped(engine) /\ alarms \in Seq(Worsening)
  /\ \/ engine = Rules!Fresh
     \/ \E p \in Records : Genuine(p) /\ p.sequence = engine.last /\ Fits(engine, Seen(p))

OrderlyInv == Calm => Orderly

(* What is heeded in a calm flight is a record of it, made by now.          *)
LEMMA HeededIsMade ==
  ASSUME TypeOK, MadeInv, Calm, NEW d \in Transmitted \cup Noise, Heeded(d)
  PROVE  /\ Decoded(d) \in Records /\ Genuine(Decoded(d))
         /\ Number(d) \in Int /\ Number(d) <= Number(d) /\ Number(d) < cycles
<1>1. d \in Transmitted
  BY DEF Noise, Heeded
<1>2. Decoded(d) \in Records
  BY <1>1, TransmittedIsHeard
<1>3. PICK j \in DOMAIN sent : Decoded(d) = sent[j].telemetry
  BY <1>1, TransmittedIsHeard
<1>4. Genuine(Decoded(d)) /\ Number(d) < cycles
  BY <1>3 DEF MadeInv, Calm, Number
<1>5. Number(d) \in Int
  BY <1>2, CycleAssumption DEF Records, Number
<1> QED
  BY <1>2, <1>4, <1>5

(* A fault that leaves a flight calm found it so, and overtook nothing.     *)
LEMMA CalmBefore ==
  ASSUME faults \in Seq(Kinds), NEW kind \in Kinds, Fault(kind), Calm'
  PROVE  /\ Calm /\ kind # "overtaken" /\ (kind = "corrupted" => Intact)
         /\ UNCHANGED <<simulatorVars, groundVars>>
<1>1. UNCHANGED <<simulatorVars, groundVars>>
  BY DEF Fault
<1>2. OneCorruption /\ (kind = "corrupted" => Intact)
  BY CorruptedOnce DEF Calm
<1>3. "overtaken" \notin Range(faults) /\ kind # "overtaken"
  <2>1. /\ DOMAIN faults = 1 .. Len(faults) /\ DOMAIN faults' = 1 .. Len(faults) + 1
        /\ faults'[Len(faults) + 1] = kind /\ \A i \in DOMAIN faults : faults'[i] = faults[i]
    BY FaultIsNoted
  <2>2. Len(faults) + 1 \in DOMAIN faults' /\ \A i \in DOMAIN faults : i \in DOMAIN faults'
    BY <2>1
  <2> QED
    BY <2>1, <2>2 DEF Calm, Range
<1> QED
  BY <1>1, <1>2, <1>3 DEF Calm, simulatorVars

(* What leaves the simulator and the ground station alone, and the order    *)
(* of what is on the air.                                                   *)
LEMMA OrderIsEnough ==
  ASSUME Orderly, UNCHANGED groundVars, arguments' = arguments, cycles' = cycles \/ cycles' = cycles + 1,
         cycles \in Nat, InOrder(air', engine.last)
  PROVE  Orderly'
<1>1. engine' = engine /\ alarms' = alarms
  BY DEF groundVars
<1>2. InOrder(air', engine'.last)
  BY <1>1
<1>3. engine'.last \in Int /\ engine'.last < cycles'
  BY <1>1 DEF Orderly
<1>4. EngineTyped(engine)' /\ alarms' \in Seq(Worsening')
  BY <1>1 DEF Orderly, EngineTyped, Worsening
<1>5. \/ engine' = Rules!Fresh
      \/ \E p \in Records : Genuine(p)' /\ p.sequence = engine'.last /\ Fits(engine', Seen(p))
  BY <1>1 DEF Orderly, Genuine
<1> QED
  BY <1>2, <1>3, <1>4, <1>5 DEF Orderly, InOrder, EngineTyped, Fits

(* Sent is what comes after all on the air.                                 *)
LEMMA SentIsLast ==
  ASSUME TypeOK, MadeInv, StruckInv, OrderlyInv, Send, Calm'
  PROVE  Orderly'
<1> DEFINE S == Transmitted \cup Noise
           d == Encode(telemetry)
           T == S \cup {d}
<1>1. /\ air' = Append(air, d) /\ cycles' = cycles + 1 /\ arguments' = arguments
      /\ UNCHANGED <<faults, groundVars>> /\ phase = "ready" /\ cycles \in Nat
  BY DEF Send, Transmit, EndCycle, TypeOK
<1>2. Calm /\ cycles < SequenceModulus
  BY <1>1, CycleAssumption DEF Calm, OneCorruption
<1>3. Orderly /\ air \in Seq(S)
  BY <1>2 DEF OrderlyInv, StruckInv, Calm
<1>4. telemetry \in Records /\ telemetry.sequence = cycles
  BY <1>1, <1>2 DEF TypeOK, MadeInv
<1>5. Number(d) = cycles
  BY <1>4, EncodedIsDecoded DEF Number
<1>6. ASSUME NEW i \in DOMAIN air, Heeded(air[i]) PROVE Number(air[i]) <= Number(d)
  <2> HIDE DEF S, d
  <2>1. air[i] \in S
    BY <1>3
  <2>2. Number(air[i]) \in Int /\ Number(air[i]) < cycles
    BY <1>2, <1>6, <2>1, HeededIsMade DEF S
  <2> QED
    BY <1>1, <1>5, <2>2
<1>7. engine.last <= Number(d) /\ Number(d) <= Number(d) /\ InOrder(air, engine.last)
  BY <1>1, <1>3, <1>5 DEF Orderly
<1> HIDE DEF S, d
<1>8. air \in Seq(T) /\ d \in T
  BY <1>3
<1> HIDE DEF T
<1>9. InOrder(Append(air, d), engine.last)
  BY <1>6, <1>7, <1>8, LastIsInOrder
<1> QED
  BY <1>1, <1>3, <1>9, OrderIsEnough

(* Nothing the link does but overtaking brings it out of order.             *)
LEMMA LinkIsInOrder ==
  ASSUME TypeOK, MadeInv, IntactInv, StruckInv, OrderlyInv, \A d \in Foreign : Harmless(d),
         Link, Calm'
  PROVE  Orderly'
<1> DEFINE S == Transmitted \cup Noise
<1>0. /\ "lost" \in Kinds /\ "repeated" \in Kinds /\ "overtaken" \in Kinds
      /\ "corrupted" \in Kinds /\ "foreign" \in Kinds /\ faults \in Seq(Kinds)
  BY DEF Kinds, IntactInv
<1>1. ASSUME NEW kind \in Kinds, Fault(kind)
      PROVE  /\ kind # "overtaken" /\ Calm /\ Orderly /\ air \in Seq(S)
             /\ kind = "corrupted" => Intact
             /\ InOrder(air', engine.last) => Orderly'
  <2>1. /\ Calm /\ kind # "overtaken" /\ (kind = "corrupted" => Intact)
        /\ UNCHANGED <<simulatorVars, groundVars>>
    BY <1>0, <1>1, CalmBefore
  <2>2. Orderly /\ air \in Seq(S)
    BY <2>1 DEF OrderlyInv, StruckInv, Calm
  <2>3. arguments' = arguments /\ cycles' = cycles /\ UNCHANGED groundVars /\ cycles \in Nat
    BY <2>1 DEF simulatorVars, TypeOK
  <2>4. InOrder(air', engine.last) => Orderly'
    BY <2>2, <2>3, OrderIsEnough
  <2> QED
    BY <2>1, <2>2, <2>4
<1>2. CASE Lose
  <2>1. Fault("lost") /\ air # <<>> /\ air' = Tail(air)
    BY <1>2 DEF Lose
  <2>2. Orderly /\ air \in Seq(S)
    BY <1>0, <1>1, <2>1
  <2> HIDE DEF S
  <2>3. InOrder(Tail(air), engine.last)
    BY <2>1, <2>2, RestIsInOrder DEF Orderly
  <2> QED
    BY <1>0, <1>1, <2>1, <2>3
<1>3. CASE Repeat
  <2>1. Fault("repeated") /\ air # <<>> /\ air' = <<Head(air)>> \o air
    BY <1>3 DEF Repeat
  <2>2. Orderly /\ air \in Seq(S) /\ Calm
    BY <1>0, <1>1, <2>1
  <2>3. ASSUME NEW d \in S, Heeded(d) PROVE Number(d) <= Number(d)
    BY <2>2, <2>3, HeededIsMade
  <2> HIDE DEF S
  <2>4. Head(air) \in S /\ Head(air) = air[1] /\ 1 \in DOMAIN air /\ DOMAIN air = 1 .. Len(air)
    BY <2>1, <2>2
  <2>5. InOrder(air, engine.last)
    BY <2>2 DEF Orderly
  <2>6. ASSUME Heeded(Head(air)) PROVE engine.last <= Number(Head(air)) /\ InOrder(air, Number(Head(air)))
    <3>1. \A i \in DOMAIN air : 1 <= i
      BY <2>4
    <3> HIDE DEF Heeded, Number
    <3> QED
      BY <2>4, <2>5, <2>6, <3>1 DEF InOrder
  <2>7. InOrder(<<Head(air)>> \o air, engine.last)
    BY <2>2, <2>3, <2>4, <2>5, <2>6, FrontIsInOrder
  <2> QED
    BY <1>0, <1>1, <2>1, <2>7
<1>4. CASE Overtake
  <2>1. Fault("overtaken")
    BY <1>4 DEF Overtake
  <2> QED
    BY <1>0, <1>1, <2>1
<1>5. ASSUME NEW i \in Positions, NEW mask \in Masks, Corrupt(i, mask) PROVE Orderly'
  <2> DEFINE struck == Struck(Head(air), i, mask)
  <2>1. Fault("corrupted")
    BY <1>5 DEF Corrupt
  <2>2. Orderly /\ air \in Seq(S) /\ Intact
    BY <1>0, <1>1, <2>1
  <2>3. air # <<>> /\ struck \in Noise /\ air' = [air EXCEPT ![1] = struck]
    BY <1>5, <2>2, CorruptionMakesNoise
  <2>4. ~Heeded(struck)
    BY <2>3 DEF Noise, Heeded
  <2> HIDE DEF S, struck
  <2>5. DOMAIN air' = DOMAIN air /\ air'[1] = struck /\ \A j \in DOMAIN air : j # 1 => air'[j] = air[j]
    BY <2>2, <2>3
  <2>6. InOrder(air', engine.last)
    <3>1. InOrder(air, engine.last)
      BY <2>2 DEF Orderly
    <3> HIDE DEF Heeded, Number
    <3> QED
      BY <2>4, <2>5, <3>1 DEF InOrder
  <2> QED
    BY <1>0, <1>1, <2>1, <2>6
<1>6. ASSUME NEW d \in Foreign, Intrude(d) PROVE Orderly'
  <2>1. Fault("foreign") /\ air' = <<d>> \o air
    BY <1>6 DEF Intrude
  <2>2. Orderly /\ air \in Seq(S)
    BY <1>0, <1>1, <2>1
  <2>3. d \in S /\ ~Heeded(d)
    BY DEF Harmless, Noise, Heeded
  <2> HIDE DEF S
  <2>4. InOrder(<<d>> \o air, engine.last)
    BY <2>2, <2>3, FrontIsInOrder DEF Orderly
  <2> QED
    BY <1>0, <1>1, <2>1, <2>4
<1> QED
  BY <1>2, <1>3, <1>4, <1>5, <1>6 DEF Link

(* A record as the engine sees it has numbers for measurements.             *)
LEMMA SeenIsMeasured ==
  ASSUME NEW t \in Records
  PROVE  Measured(Seen(t)) /\ Seen(t).sequence = t.sequence /\ t.sequence \in Numbers
<1>1. t.temperature \in Signed /\ t.battery \in 0 .. Unsigned16Max
  BY DEF Records
<1>2. t.sequence \in 0 .. SequenceModulus - 1
  BY DEF Records
<1>3. (\A v \in Signed : v \in Int) /\ Unsigned16Max \in Int
  BY WidthOf16
<1>4. t.temperature \in Int
  BY <1>1, <1>3
<1>5. t.battery \in Int
  BY <1>1, <1>3
<1> QED
  BY <1>2, <1>4, <1>5 DEF Measured, Seen, Numbers

(* The ground station hears one more: an alarm of it says that it is worse. *)
LEMMA HeardIsWorse ==
  ASSUME TypeOK, MadeInv, StruckInv, OrderlyInv, Hear, Calm'
  PROVE  Orderly'
<1> DEFINE S == Transmitted \cup Noise
           d == Head(air)
<1>0. PICK q : q = Decoded(d)
  OBVIOUS
<1>1. air # <<>> /\ air' = Tail(air) /\ UNCHANGED <<simulatorVars, faults>>
  BY DEF Hear
<1>2. arguments' = arguments /\ cycles' = cycles /\ cycles \in Nat /\ arguments.scenario \in Scenarios
  BY <1>1, CycleAssumption DEF simulatorVars, TypeOK
<1>3. Calm
  BY <1>1, <1>2 DEF Calm, OneCorruption
<1>4. Orderly /\ air \in Seq(S)
  BY <1>3 DEF OrderlyInv, StruckInv, Calm
<1>5. d \in S
  <2> HIDE DEF S
  <2> QED
    BY <1>1, <1>4
<1>6. /\ InOrder(Tail(air), engine.last)
      /\ Heeded(d) => engine.last <= Number(d) /\ InOrder(Tail(air), Number(d))
  <2> HIDE DEF S
  <2> QED
    BY <1>1, <1>4, RestIsInOrder DEF Orderly
<1>7. CASE ~Heeded(d)
  <2>1. UNCHANGED groundVars
    BY <1>7 DEF Hear, Heeded
  <2> QED
    BY <1>1, <1>2, <1>4, <1>6, <2>1, OrderIsEnough
<1>8. CASE Heeded(d)
  <2>1. /\ engine' = Rules!NextState(engine, Seen(q))
        /\ alarms' = alarms \o Rules!Transitions(engine, Seen(q))
    BY <1>0, <1>8 DEF Hear, Heeded
  <2>2. q \in Records /\ Genuine(q) /\ Number(d) \in Int /\ Number(d) < cycles
    BY <1>0, <1>3, <1>5, <1>8, HeededIsMade
  <2>3. Number(d) = q.sequence
    BY <1>0 DEF Number
  <2> HIDE DEF S, d
  <2>4. Measured(Seen(q)) /\ Seen(q).sequence = q.sequence /\ q.sequence \in Numbers
    BY <2>2, SeenIsMeasured
  <2>5. EngineTyped(engine) /\ alarms \in Seq(Worsening)
    BY <1>4 DEF Orderly
  <2>6. EngineTyped(engine') /\ Fits(engine', Seen(q)) /\ engine'.last = q.sequence
    <3>1. Rules!NextState(engine, Seen(q)).last = Seen(q).sequence
      BY DEF Rules!NextState
    <3> QED
      BY <2>1, <2>4, <2>5, <3>1, StateFits
  <2>7. Rules!Transitions(engine, Seen(q)) \in Seq(Worsening)
    <3>1. CASE engine = Rules!Fresh
      BY <2>4, <2>5, <3>1, NotBetterIsTold
    <3>2. CASE engine # Rules!Fresh
      <4>1. PICK p \in Records : Genuine(p) /\ p.sequence = engine.last /\ Fits(engine, Seen(p))
        BY <1>4, <3>2 DEF Orderly
      <4>2. Measured(Seen(p)) /\ p.sequence \in Numbers
        BY SeenIsMeasured
      <4>3. p.sequence <= q.sequence
        BY <1>6, <1>8, <2>3, <4>1
      <4>4. PICK early \in Clock : p = Telemetry(p.sequence, early, arguments.scenario)
        BY <4>1 DEF Genuine
      <4>5. PICK late \in Clock : q = Telemetry(q.sequence, late, arguments.scenario)
        BY <2>2 DEF Genuine
      <4>6. NotBetter(p, q)
        BY <1>2, <2>4, <4>2, <4>3, <4>4, <4>5, ScenariosWorsen
      <4>7. NotBetter(Seen(p), Seen(q))
        BY <4>6 DEF NotBetter, Seen
      <4> QED
        BY <2>4, <2>5, <4>1, <4>2, <4>7, NotBetterIsTold
    <3> QED
      BY <3>1, <3>2
  <2>8. alarms' \in Seq(Worsening')
    <3>1. Worsening' = Worsening
      BY <1>2 DEF Worsening
    <3> HIDE DEF Worsening
    <3>2. alarms \o Rules!Transitions(engine, Seen(q)) \in Seq(Worsening)
      BY <2>5, <2>7, ConcatProperties
    <3> QED
      BY <2>1, <3>1, <3>2
  <2>9. InOrder(air', engine'.last) /\ engine'.last \in Int /\ engine'.last < cycles'
    BY <1>1, <1>2, <1>6, <1>8, <2>2, <2>3, <2>6
  <2>10. Genuine(q)'
    <3>1. PICK time \in Clock : q = Telemetry(q.sequence, time, arguments.scenario)
      BY <2>2 DEF Genuine
    <3> QED
      BY <1>2, <3>1 DEF Genuine
  <2> QED
    BY <2>2, <2>6, <2>8, <2>9, <2>10 DEF Orderly
<1> QED
  BY <1>7, <1>8

(* The scenarios of the simulator only get worse, and so do the alarms of  *)
(* the ground station, whatever is lost, repeated or thrown in by others,  *)
(* with one byte corrupted: on_packet clears or lowers no alarm of a       *)
(* failing quantity unless a packet was overtaken or the counter wrapped.  *)
THEOREM AlarmsGetWorse ==
  ASSUME \A d \in Foreign : Harmless(d)
  PROVE  FlightSpec => [](OneCorruption => AlarmsOnlyWorsen)
<1>1. FlightInit => OrderlyInv
  <2> SUFFICES ASSUME FlightInit PROVE Orderly
    BY DEF OrderlyInv
  <2>1. air = <<>> /\ engine = Rules!Fresh /\ alarms = <<>> /\ cycles = 0
    BY DEF FlightInit, Init
  <2>2. engine.last = -1 /\ EngineTyped(engine)
    BY <2>1 DEF Rules!Fresh, Rules!NoSequence, EngineTyped, Rules!Severities
  <2>3. InOrder(air, engine.last)
    BY <2>1 DEF InOrder
  <2>4. alarms \in Seq(Worsening)
    <3> HIDE DEF Worsening
    <3> QED
      BY <2>1
  <2> QED
    BY <2>1, <2>2, <2>3, <2>4 DEF Orderly
<1>2. TypeOK /\ MadeInv /\ IntactInv /\ StruckInv /\ OrderlyInv /\ [FlightNext]_vars => OrderlyInv'
  <2> SUFFICES ASSUME TypeOK, MadeInv, IntactInv, StruckInv, OrderlyInv, [FlightNext]_vars, Calm'
               PROVE  Orderly'
    BY DEF OrderlyInv
  <2>1. CASE Send
    BY <2>1, SentIsLast
  <2>2. CASE Hear
    BY <2>2, HeardIsWorse
  <2>3. CASE Link
    BY <2>3, LinkIsInOrder
  <2>4. CASE Aboard \/ Interrupt \/ UNCHANGED vars
    <3>1. UNCHANGED <<air, faults, groundVars, arguments>> /\ (cycles' = cycles \/ cycles' = cycles + 1)
      BY <2>4 DEF Aboard, Interrupt, Start, Stop, Drop, EndCycle, SendFails, Wake, Make, Signal, vars,
                  simulatorVars
    <3>2. cycles \in Nat /\ SequenceModulus \in Nat
      BY CycleAssumption DEF TypeOK
    <3>3. Calm
      BY <3>1, <3>2 DEF Calm, OneCorruption
    <3>4. Orderly /\ InOrder(air', engine.last)
      BY <3>1, <3>3 DEF OrderlyInv, Orderly
    <3> QED
      BY <3>1, <3>2, <3>4, OrderIsEnough
  <2> QED
    BY <2>1, <2>2, <2>3, <2>4 DEF FlightNext
<1>3. OrderlyInv => (OneCorruption => AlarmsOnlyWorsen)
  <2> SUFFICES ASSUME OrderlyInv, Calm PROVE AlarmsOnlyWorsen
    BY DEF Calm, AlarmsOnlyWorsen
  <2>1. alarms \in Seq(Worsening)
    BY DEF OrderlyInv, Orderly
  <2>2. \A i \in DOMAIN alarms : alarms[i] \in Worsening
    <3> HIDE DEF Worsening
    <3> QED
      BY <2>1
  <2> QED
    BY <2>2 DEF AlarmsOnlyWorsen, Worsening
<1>4. FlightSpec => [](TypeOK /\ MadeInv)
  BY FlightFliesTheSimulator, SimulatorTypes, RecordsAreMade, PTL
<1>5. FlightSpec => []IntactInv
  BY IntactHolds DEF Harmless
<1>6. FlightSpec => []StruckInv
  BY StruckHolds
<1> QED
  BY <1>1, <1>2, <1>3, <1>4, <1>5, <1>6, PTL DEF FlightSpec
=============================================================================
