-------------------------- MODULE AlarmEngineProofs -------------------------
(***************************************************************************)
(* What the alarm engine does with a stream of packets of any length,      *)
(* under every policy the code accepts.                                    *)
(***************************************************************************)
EXTENDS AlarmEngine, FiniteSetTheorems, SequenceTheorems, TLAPS

(* The engine state and the history keep their types.                      *)
THEOREM TypeCorrect == Spec => []TypeOK
<1>1. Init => TypeOK
  BY DEF Init, TypeOK, Fresh, NoSequence, Severities
<1>2. TypeOK /\ [Next]_vars => TypeOK'
  <2> SUFFICES ASSUME TypeOK, [Next]_vars PROVE TypeOK'
    OBVIOUS
  <2>1. CASE Reset
    BY <2>1 DEF Reset, TypeOK, Fresh, NoSequence, Severities
  <2>2. ASSUME NEW packet \in Packets, Evaluate(packet) PROVE TypeOK'
    <3>1. /\ packet.sequence \in Nat
          /\ packet.temperature \in Int
          /\ packet.battery \in Nat
      BY PacketsAssumption, ModulusAssumption
    <3>2. state'.last \in Nat \cup {NoSequence}
      BY <2>2, <3>1 DEF Evaluate, NextState
    <3>3. state'.temperature \in Severities
      BY <2>2 DEF Evaluate, NextState, NextTemperature, Severities
    <3>4. state'.battery \in BOOLEAN /\ state'.safe \in BOOLEAN
      BY <2>2, PolicyAssumption DEF ValidPolicy, Evaluate, NextState, NextBattery, TypeOK
    <3>5. state' = [last |-> state'.last, temperature |-> state'.temperature,
                    battery |-> state'.battery, safe |-> state'.safe]
      BY <2>2 DEF Evaluate, NextState
    <3>6. packets' \in Seq(Packets) /\ packets' # <<>>
      BY <2>2 DEF Evaluate, TypeOK
    <3> QED
      BY <3>2, <3>3, <3>4, <3>5, <3>6 DEF TypeOK
  <2>3. CASE UNCHANGED vars
    BY <2>3 DEF vars, TypeOK
  <2> QED
    BY <2>1, <2>2, <2>3 DEF Next
<1> QED
  BY <1>1, <1>2, PTL DEF Spec

(* What one more packet does to "some packet entered, and all since kept": *)
(* it enters itself, or it keeps and the claim held before it.             *)
LEMMA HeldSinceGrows ==
  ASSUME NEW n \in Nat,
         NEW E \in SUBSET (1 .. n + 1), NEW K \in SUBSET (1 .. n + 1),
         E \subseteq K
  PROVE  (\E i \in E : \A j \in 1 .. n + 1 : j > i => j \in K)
           <=> \/ n + 1 \in E
               \/ /\ n + 1 \in K
                  /\ \E i \in E \cap (1 .. n) :
                       \A j \in 1 .. n : j > i => j \in K \cap (1 .. n)
<1>1. ASSUME NEW i \in E, \A j \in 1 .. n + 1 : j > i => j \in K, n + 1 \notin E
      PROVE  /\ n + 1 \in K
             /\ i \in E \cap (1 .. n)
             /\ \A j \in 1 .. n : j > i => j \in K \cap (1 .. n)
  <2>1. i \in 1 .. n
    BY <1>1
  <2> QED
    BY <1>1, <2>1
<1>2. n + 1 \in E => \A j \in 1 .. n + 1 : j > n + 1 => j \in K
  OBVIOUS
<1>3. ASSUME n + 1 \in K, NEW i \in E \cap (1 .. n),
             \A j \in 1 .. n : j > i => j \in K \cap (1 .. n)
      PROVE  \A j \in 1 .. n + 1 : j > i => j \in K
  <2> SUFFICES ASSUME NEW j \in 1 .. n + 1, j > i PROVE j \in K
    OBVIOUS
  <2>1. j = n + 1 \/ j \in 1 .. n
    OBVIOUS
  <2> QED
    BY <1>3, <2>1
<1> QED
  BY <1>1, <1>2, <1>3

(* The sets of hot and weak readings, after a packet was appended.         *)
LEMMA HotGrows ==
  ASSUME TypeOK, NEW packet \in Packets, packets' = Append(packets, packet),
         NEW threshold \in Int
  PROVE  /\ Len(packets) \in Nat
         /\ DOMAIN packets = 1 .. Len(packets)
         /\ DOMAIN packets' = 1 .. Len(packets) + 1
         /\ Hot(threshold)' \in SUBSET (1 .. Len(packets) + 1)
         /\ Hot(threshold)' \cap (1 .. Len(packets)) = Hot(threshold)
         /\ Len(packets) + 1 \in Hot(threshold)' <=> packet.temperature >= threshold
  BY DEF TypeOK, Hot

(* The same for the packets whose voltage is at or below the threshold.    *)
LEMMA WeakGrows ==
  ASSUME TypeOK, NEW packet \in Packets, packets' = Append(packets, packet),
         NEW threshold \in Int
  PROVE  /\ Len(packets) \in Nat
         /\ DOMAIN packets = 1 .. Len(packets)
         /\ DOMAIN packets' = 1 .. Len(packets) + 1
         /\ Weak(threshold)' \in SUBSET (1 .. Len(packets) + 1)
         /\ Weak(threshold)' \cap (1 .. Len(packets)) = Weak(threshold)
         /\ Len(packets) + 1 \in Weak(threshold)' <=> packet.battery <= threshold
  BY DEF TypeOK, Weak

(* How the two claims of hysteresis move with one packet.                  *)
LEMMA HotHeldGrows ==
  ASSUME TypeOK, NEW packet \in Packets, packets' = Append(packets, packet),
         NEW enter \in Int, NEW keep \in Int, keep <= enter
  PROVE  HeldSince(Hot(enter), Hot(keep))' <=>
           \/ packet.temperature >= enter
           \/ packet.temperature >= keep /\ HeldSince(Hot(enter), Hot(keep))
<1> DEFINE n == Len(packets)
<1>1. Hot(enter)' \subseteq Hot(keep)'
  <2>1. \A i \in DOMAIN packets' : packets'[i].temperature \in Int
    BY PacketsAssumption DEF TypeOK
  <2> QED
    BY <2>1 DEF Hot
<1>2. HeldSince(Hot(enter), Hot(keep))' <=>
        \E i \in Hot(enter)' : \A j \in 1 .. n + 1 : j > i => j \in Hot(keep)'
  BY HotGrows DEF HeldSince
<1>3. HeldSince(Hot(enter), Hot(keep)) <=>
        \E i \in Hot(enter)' \cap (1 .. n) :
          \A j \in 1 .. n : j > i => j \in Hot(keep)' \cap (1 .. n)
  BY HotGrows DEF HeldSince
<1>4. n \in Nat /\ Hot(enter)' \in SUBSET (1 .. n + 1) /\ Hot(keep)' \in SUBSET (1 .. n + 1)
  BY HotGrows
<1>5. (\E i \in Hot(enter)' : \A j \in 1 .. n + 1 : j > i => j \in Hot(keep)')
        <=> \/ n + 1 \in Hot(enter)'
            \/ /\ n + 1 \in Hot(keep)'
               /\ \E i \in Hot(enter)' \cap (1 .. n) :
                    \A j \in 1 .. n : j > i => j \in Hot(keep)' \cap (1 .. n)
  BY <1>1, <1>4, HeldSinceGrows
<1>6. /\ n + 1 \in Hot(enter)' <=> packet.temperature >= enter
      /\ n + 1 \in Hot(keep)' <=> packet.temperature >= keep
  BY HotGrows
<1> QED
  BY <1>2, <1>3, <1>5, <1>6

(* The battery alarm is held as the temperature alarms are: by a packet    *)
(* that enters it, or by one that keeps it on.                             *)
LEMMA WeakHeldGrows ==
  ASSUME TypeOK, NEW packet \in Packets, packets' = Append(packets, packet),
         NEW enter \in Int, NEW keep \in Int, enter <= keep
  PROVE  HeldSince(Weak(enter), Weak(keep))' <=>
           \/ packet.battery <= enter
           \/ packet.battery <= keep /\ HeldSince(Weak(enter), Weak(keep))
<1> DEFINE n == Len(packets)
<1>1. Weak(enter)' \subseteq Weak(keep)'
  <2>1. \A i \in DOMAIN packets' : packets'[i].battery \in Int
    BY PacketsAssumption DEF TypeOK
  <2> QED
    BY <2>1 DEF Weak
<1>2. HeldSince(Weak(enter), Weak(keep))' <=>
        \E i \in Weak(enter)' : \A j \in 1 .. n + 1 : j > i => j \in Weak(keep)'
  BY WeakGrows DEF HeldSince
<1>3. HeldSince(Weak(enter), Weak(keep)) <=>
        \E i \in Weak(enter)' \cap (1 .. n) :
          \A j \in 1 .. n : j > i => j \in Weak(keep)' \cap (1 .. n)
  BY WeakGrows DEF HeldSince
<1>4. n \in Nat /\ Weak(enter)' \in SUBSET (1 .. n + 1) /\ Weak(keep)' \in SUBSET (1 .. n + 1)
  BY WeakGrows
<1>5. (\E i \in Weak(enter)' : \A j \in 1 .. n + 1 : j > i => j \in Weak(keep)')
        <=> \/ n + 1 \in Weak(enter)'
            \/ /\ n + 1 \in Weak(keep)'
               /\ \E i \in Weak(enter)' \cap (1 .. n) :
                    \A j \in 1 .. n : j > i => j \in Weak(keep)' \cap (1 .. n)
  BY <1>1, <1>4, HeldSinceGrows
<1>6. /\ n + 1 \in Weak(enter)' <=> packet.battery <= enter
      /\ n + 1 \in Weak(keep)' <=> packet.battery <= keep
  BY WeakGrows
<1> QED
  BY <1>2, <1>3, <1>5, <1>6

(* Nothing has entered an empty history.                                   *)
LEMMA NothingHeld ==
  ASSUME packets = <<>>, NEW enter, NEW keep
  PROVE  /\ ~HeldSince(Hot(enter), Hot(keep))
         /\ ~HeldSince(Weak(enter), Weak(keep))
  BY DEF HeldSince, Hot, Weak

-----------------------------------------------------------------------------
(* The temperature alarm is hysteresis, for every policy and every stream. *)
THEOREM TemperatureCorrect == Spec => []TemperatureIsHysteresis
<1>1. Init => TemperatureIsHysteresis
  BY NothingHeld DEF Init, Fresh, TemperatureIsHysteresis
<1>2. TypeOK /\ TemperatureIsHysteresis /\ [Next]_vars => TemperatureIsHysteresis'
  <2> SUFFICES ASSUME TypeOK, TemperatureIsHysteresis, [Next]_vars
               PROVE  TemperatureIsHysteresis'
    OBVIOUS
  <2>1. CASE Reset
    <3>1. packets' = <<>> /\ state'.temperature = "none"
      BY <2>1 DEF Reset, Fresh
    <3> QED
      BY <3>1 DEF TemperatureIsHysteresis, HeldSince, Hot
  <2>2. ASSUME NEW packet \in Packets, Evaluate(packet)
        PROVE  TemperatureIsHysteresis'
    <3> DEFINE t == packet.temperature
    <3>1. packets' = Append(packets, packet)
      BY <2>2 DEF Evaluate
    <3>2. state'.temperature = NextTemperature(state.temperature, t)
      BY <2>2 DEF Evaluate, NextState
    <3>3. t \in Int
      BY PacketsAssumption
    <3>4. HeldSince(Hot(WarningC), Hot(WarningC - HysteresisC))' <=>
            \/ t >= WarningC
            \/ /\ t >= WarningC - HysteresisC
               /\ HeldSince(Hot(WarningC), Hot(WarningC - HysteresisC))
      BY <3>1, HotHeldGrows, PolicyAssumption DEF ValidPolicy
    <3>5. HeldSince(Hot(CriticalC), Hot(CriticalC - HysteresisC))' <=>
            \/ t >= CriticalC
            \/ /\ t >= CriticalC - HysteresisC
               /\ HeldSince(Hot(CriticalC), Hot(CriticalC - HysteresisC))
      BY <3>1, HotHeldGrows, PolicyAssumption DEF ValidPolicy
    <3>6. state'.temperature # "none" <=>
            \/ t >= WarningC
            \/ t >= WarningC - HysteresisC /\ state.temperature # "none"
      BY <3>2, <3>3, PolicyAssumption DEF ValidPolicy, NextTemperature
    <3>7. state'.temperature = "critical" <=>
            \/ t >= CriticalC
            \/ t >= CriticalC - HysteresisC /\ state.temperature = "critical"
      BY <3>2, <3>3, PolicyAssumption DEF ValidPolicy, NextTemperature
    <3> QED
      BY <3>4, <3>5, <3>6, <3>7 DEF TemperatureIsHysteresis
  <2>3. CASE UNCHANGED vars
    BY <2>3 DEF vars, TemperatureIsHysteresis, HeldSince, Hot
  <2> QED
    BY <2>1, <2>2, <2>3 DEF Next
<1> QED
  BY <1>1, <1>2, TypeCorrect, PTL DEF Spec

(* And so is the battery alarm.                                            *)
THEOREM BatteryCorrect == Spec => []BatteryIsHysteresis
<1>1. Init => BatteryIsHysteresis
  BY NothingHeld DEF Init, Fresh, BatteryIsHysteresis
<1>2. TypeOK /\ BatteryIsHysteresis /\ [Next]_vars => BatteryIsHysteresis'
  <2> SUFFICES ASSUME TypeOK, BatteryIsHysteresis, [Next]_vars
               PROVE  BatteryIsHysteresis'
    OBVIOUS
  <2>1. CASE Reset
    <3>1. packets' = <<>> /\ state'.battery = FALSE
      BY <2>1 DEF Reset, Fresh
    <3> QED
      BY <3>1 DEF BatteryIsHysteresis, HeldSince, Weak
  <2>2. ASSUME NEW packet \in Packets, Evaluate(packet)
        PROVE  BatteryIsHysteresis'
    <3> DEFINE v == packet.battery
    <3>1. packets' = Append(packets, packet)
      BY <2>2 DEF Evaluate
    <3>2. state'.battery = NextBattery(state.battery, v)
      BY <2>2 DEF Evaluate, NextState
    <3>3. HeldSince(Weak(CriticalV), Weak(CriticalV + HysteresisV))' <=>
            \/ v <= CriticalV
            \/ /\ v <= CriticalV + HysteresisV
               /\ HeldSince(Weak(CriticalV), Weak(CriticalV + HysteresisV))
      BY <3>1, WeakHeldGrows, PolicyAssumption DEF ValidPolicy
    <3>4. state'.battery <=>
            \/ v <= CriticalV
            \/ v <= CriticalV + HysteresisV /\ state.battery
      BY <3>2 DEF NextBattery
    <3> QED
      BY <3>3, <3>4 DEF BatteryIsHysteresis
  <2>3. CASE UNCHANGED vars
    BY <2>3 DEF vars, BatteryIsHysteresis, HeldSince, Weak
  <2> QED
    BY <2>1, <2>2, <2>3 DEF Next
<1> QED
  BY <1>1, <1>2, TypeCorrect, PTL DEF Spec

(* Together: what is active is what the readings say.                      *)
THEOREM HysteresisCorrect == Spec => []AlarmsAreHysteresis
<1>1. TemperatureIsHysteresis /\ BatteryIsHysteresis => AlarmsAreHysteresis
  BY DEF AlarmsAreHysteresis
<1> QED
  BY <1>1, TemperatureCorrect, BatteryCorrect, PTL

-----------------------------------------------------------------------------
(* What the engine emits: a stateful alarm has a severity that is not      *)
(* "none", and so has a gap.                                               *)
Emissions == [identity : {"sequence-gap", "temperature", "battery", "safe-mode"},
              type : {"raised", "updated", "cleared"},
              severity : {"warning", "critical"}]

(* One more transition adds its own position to its own alarm.             *)
LEMMA OwnGrows ==
  ASSUME NEW log \in Seq(Emissions), NEW t \in Emissions, NEW d
  PROVE  /\ Len(log) \in Nat
         /\ Append(log, t) \in Seq(Emissions)
         /\ Append(log, t)[Len(log) + 1] = t
         /\ \A i \in 1 .. Len(log) : Append(log, t)[i] = log[i]
         /\ Own(log, d) \subseteq 1 .. Len(log)
         /\ t.identity = d => Own(Append(log, t), d) = Own(log, d) \cup {Len(log) + 1}
         /\ t.identity # d => Own(Append(log, t), d) = Own(log, d)
<1> DEFINE longer == Append(log, t)
<1>1. /\ Len(log) \in Nat
      /\ longer \in Seq(Emissions)
      /\ DOMAIN log = 1 .. Len(log)
      /\ DOMAIN longer = 1 .. Len(log) + 1
      /\ longer[Len(log) + 1] = t
      /\ \A i \in 1 .. Len(log) : longer[i] = log[i]
  OBVIOUS
<1>2. 1 .. Len(log) + 1 = (1 .. Len(log)) \cup {Len(log) + 1}
  BY <1>1
<1> HIDE DEF longer
<1>3. Own(longer, d) = {i \in 1 .. Len(log) : log[i].identity = d}
                         \cup {i \in {Len(log) + 1} : t.identity = d}
  BY <1>1, <1>2 DEF Own
<1>4. Own(log, d) = {i \in 1 .. Len(log) : log[i].identity = d}
  BY <1>1 DEF Own
<1> QED
  BY <1>1, <1>3, <1>4 DEF longer

(* The transition of another alarm does not disturb a lifecycle.           *)
LEMMA OthersPass ==
  ASSUME NEW log \in Seq(Emissions), NEW t \in Emissions, NEW d, NEW current,
         t.identity # d, IsLifecycle(log, d, current)
  PROVE  IsLifecycle(Append(log, t), d, current)
<1> DEFINE longer == Append(log, t)
<1>1. /\ Own(log, d) \subseteq 1 .. Len(log)
      /\ Own(longer, d) = Own(log, d)
      /\ \A i \in 1 .. Len(log) : longer[i] = log[i]
  BY OwnGrows
<1>2. \A i \in Own(log, d) : longer[i] = log[i]
  BY <1>1
<1> HIDE DEF longer
<1>3. IsLifecycle(longer, d, current)
  BY <1>1, <1>2 DEF IsLifecycle
<1> QED
  BY <1>3 DEF longer

(* A transition of its own carries a lifecycle on when it raises what was  *)
(* not active, changes the severity that was, or clears it.                *)
LEMMA LifecycleGrows ==
  ASSUME NEW log \in Seq(Emissions), NEW t \in Emissions, NEW d, NEW current, NEW next,
         IsLifecycle(log, d, current), t.identity = d,
         t.type = "raised" <=> current = "none",
         t.type = "updated" => t.severity # current,
         t.type = "cleared" => t.severity = current,
         next = IF t.type = "cleared" THEN "none" ELSE t.severity
  PROVE  IsLifecycle(Append(log, t), d, next)
<1> DEFINE longer == Append(log, t)
           own == Own(log, d)
           n == Len(log) + 1
<1>1. /\ n \in Nat
      /\ \A i \in own : i \in Int /\ i < n
      /\ Own(longer, d) = own \cup {n}
      /\ longer[n] = t
      /\ \A i \in own : longer[i] = log[i]
  <2>1. /\ Len(log) \in Nat
        /\ own \subseteq 1 .. Len(log)
        /\ Own(longer, d) = own \cup {Len(log) + 1}
        /\ longer[Len(log) + 1] = t
        /\ \A i \in 1 .. Len(log) : longer[i] = log[i]
    <3>1. /\ Len(log) \in Nat
          /\ Append(log, t)[Len(log) + 1] = t
          /\ \A i \in 1 .. Len(log) : Append(log, t)[i] = log[i]
      OBVIOUS
    <3>2. Own(log, d) \subseteq 1 .. Len(log)
      BY OwnGrows
    <3>3. t.identity = d => Own(Append(log, t), d) = Own(log, d) \cup {Len(log) + 1}
      BY OwnGrows
    <3> QED
      BY <3>1, <3>2, <3>3
  <2> QED
    BY <2>1
<1>2. t.severity # "none"
  BY DEF Emissions
<1> HIDE DEF longer, n
<1>3. /\ own = {} => current = "none"
      /\ \A i \in own :
           /\ log[i].severity # "none"
           /\ (\A k \in own : i <= k) => log[i].type = "raised"
           /\ (\A k \in own : k <= i) =>
                current = IF log[i].type = "cleared" THEN "none" ELSE log[i].severity
      /\ \A i, j \in own :
           (i < j /\ \A k \in own : k <= i \/ j <= k) =>
             /\ log[j].type = "raised" <=> log[i].type = "cleared"
             /\ log[j].type = "updated" => log[j].severity # log[i].severity
             /\ log[j].type = "cleared" => log[j].severity = log[i].severity
  BY DEF IsLifecycle
<1> HIDE DEF own
<1>4. ASSUME NEW i \in own \cup {n}
      PROVE  /\ longer[i].severity # "none"
             /\ (\A k \in own \cup {n} : i <= k) => longer[i].type = "raised"
             /\ (\A k \in own \cup {n} : k <= i) =>
                  next = IF longer[i].type = "cleared" THEN "none" ELSE longer[i].severity
  <2>1. CASE i = n
    <3>1. own # {} => ~(\A k \in own \cup {n} : n <= k)
      BY <1>1
    <3> QED
      BY <1>1, <1>2, <1>3, <2>1, <3>1
  <2>2. CASE i \in own
    <3>1. ~(\A k \in own \cup {n} : k <= i)
      BY <1>1, <2>2
    <3>2. (\A k \in own \cup {n} : i <= k) => (\A k \in own : i <= k)
      OBVIOUS
    <3> QED
      BY <1>1, <1>3, <2>2, <3>1, <3>2
  <2> QED
    BY <2>1, <2>2
<1>5. ASSUME NEW i \in own \cup {n}, NEW j \in own \cup {n},
             i < j, \A k \in own \cup {n} : k <= i \/ j <= k
      PROVE  /\ longer[j].type = "raised" <=> longer[i].type = "cleared"
             /\ longer[j].type = "updated" => longer[j].severity # longer[i].severity
             /\ longer[j].type = "cleared" => longer[j].severity = longer[i].severity
  <2>1. i \in own
    BY <1>1, <1>5
  <2>2. CASE j \in own
    BY <1>1, <1>3, <1>5, <2>1, <2>2
  <2>3. CASE j = n
    <3>1. \A k \in own : k <= i
      BY <1>1, <1>5, <2>3
    <3>2. /\ current = IF log[i].type = "cleared" THEN "none" ELSE log[i].severity
          /\ log[i].severity # "none"
      BY <1>3, <2>1, <3>1
    <3>3. /\ longer[j] = t
          /\ longer[i] = log[i]
      BY <1>1, <2>1, <2>3
    <3> QED
      BY <3>2, <3>3
  <2> QED
    BY <2>2, <2>3
<1>6. IsLifecycle(longer, d, next)
  BY <1>1, <1>4, <1>5 DEF IsLifecycle
<1> QED
  BY <1>6 DEF longer

(* What a rule adds to the log: nothing, or one transition of its alarm.   *)
Part(addition, d) ==
  addition = <<>> \/ \E t \in Emissions : t.identity = d /\ addition = <<t>>

(* The longer log says nothing new of any alarm but d.                     *)
LeavesOthers(log, longer, d) ==
  \A other : other # d =>
    /\ Own(longer, other) = Own(log, other)
    /\ \A current : IsLifecycle(log, other, current) => IsLifecycle(longer, other, current)

(* Every rule adds one such part, and leaves the other alarms alone.       *)
LEMMA PartsPass ==
  ASSUME NEW log \in Seq(Emissions), NEW addition, NEW d, Part(addition, d)
  PROVE  /\ addition \in Seq(Emissions)
         /\ log \o addition \in Seq(Emissions)
         /\ LeavesOthers(log, log \o addition, d)
<1>1. CASE addition = <<>>
  <2>1. log \o addition = log
    BY <1>1, ConcatEmptySeq
  <2> QED
    BY <1>1, <2>1 DEF LeavesOthers
<1>2. CASE \E t \in Emissions : t.identity = d /\ addition = <<t>>
  <2>1. PICK t \in Emissions : t.identity = d /\ addition = <<t>>
    BY <1>2
  <2>2. log \o addition = Append(log, t)
    BY <2>1, AppendIsConcat
  <2>3. Append(log, t) \in Seq(Emissions) /\ addition \in Seq(Emissions)
    BY <2>1
  <2>4. ASSUME NEW other, other # d
        PROVE  Own(Append(log, t), other) = Own(log, other)
    BY <2>1, <2>4, OwnGrows
  <2>5. ASSUME NEW other, NEW current, other # d, IsLifecycle(log, other, current)
        PROVE  IsLifecycle(Append(log, t), other, current)
    BY <2>1, <2>5, OthersPass
  <2> QED
    BY <2>2, <2>3, <2>4, <2>5 DEF LeavesOthers
<1> QED
  BY <1>1, <1>2 DEF Part

(* What the gap rule adds.                                                 *)
GapPart(last, sequence) ==
  IF IsGap(last, sequence) THEN <<Transition("sequence-gap", "raised", "warning")>> ELSE <<>>

(* It is a part.                                                           *)
LEMMA GapIsPart == \A last, sequence : Part(GapPart(last, sequence), "sequence-gap")
  BY DEF GapPart, Part, Transition, Emissions

(* The temperature rule carries the temperature alarm's lifecycle on.      *)
LEMMA TemperatureIsPart ==
  ASSUME NEW old \in Severities, NEW new \in Severities
  PROVE  /\ Part(TemperatureTransitions(old, new), "temperature")
         /\ \A log \in Seq(Emissions) :
              IsLifecycle(log, "temperature", old)
                => IsLifecycle(log \o TemperatureTransitions(old, new), "temperature", new)
<1> DEFINE t == CASE old = "none" -> Transition("temperature", "raised", new)
                  [] new = "none" -> Transition("temperature", "cleared", old)
                  [] OTHER        -> Transition("temperature", "updated", new)
<1>1. CASE old = new
  <2>1. TemperatureTransitions(old, new) = <<>>
    BY <1>1 DEF TemperatureTransitions
  <2>2. \A log \in Seq(Emissions) : log \o <<>> = log
    BY ConcatEmptySeq
  <2> QED
    BY <1>1, <2>1, <2>2 DEF Part
<1>2. CASE old # new
  <2>1. TemperatureTransitions(old, new) = <<t>>
    BY <1>2 DEF TemperatureTransitions
  <2>2. t \in Emissions /\ t.identity = "temperature"
    BY <1>2 DEF Transition, Emissions, Severities
  <2>3. /\ t.type = "raised" <=> old = "none"
        /\ t.type = "updated" => t.severity # old
        /\ t.type = "cleared" => t.severity = old
        /\ new = IF t.type = "cleared" THEN "none" ELSE t.severity
    BY <1>2 DEF Transition, Severities
  <2> HIDE DEF t
  <2>4. ASSUME NEW log \in Seq(Emissions), IsLifecycle(log, "temperature", old)
        PROVE  IsLifecycle(log \o <<t>>, "temperature", new)
    <3>1. IsLifecycle(Append(log, t), "temperature", new)
      BY <2>2, <2>3, <2>4, LifecycleGrows
    <3>2. Append(log, t) = log \o <<t>>
      BY <2>2, AppendIsConcat
    <3> QED
      BY <3>1, <3>2
  <2> QED
    BY <2>1, <2>2, <2>4 DEF Part
<1> QED
  BY <1>1, <1>2

(* So do the rules of the two alarms that are either active or not.        *)
LEMMA SwitchIsPart ==
  ASSUME NEW d \in {"battery", "safe-mode"}, NEW severity \in {"warning", "critical"},
         NEW old \in BOOLEAN, NEW new \in BOOLEAN
  PROVE  /\ Part(SwitchTransitions(d, old, new, severity), d)
         /\ \A log \in Seq(Emissions) :
              IsLifecycle(log, d, IF old THEN severity ELSE "none")
                => IsLifecycle(log \o SwitchTransitions(d, old, new, severity), d,
                               IF new THEN severity ELSE "none")
<1> DEFINE t == Transition(d, IF new THEN "raised" ELSE "cleared", severity)
           before == IF old THEN severity ELSE "none"
           after == IF new THEN severity ELSE "none"
<1>1. CASE old = new
  <2>1. SwitchTransitions(d, old, new, severity) = <<>>
    BY <1>1 DEF SwitchTransitions
  <2>2. \A log \in Seq(Emissions) : log \o <<>> = log
    BY ConcatEmptySeq
  <2> QED
    BY <1>1, <2>1, <2>2 DEF Part
<1>2. CASE old # new
  <2>1. SwitchTransitions(d, old, new, severity) = <<t>>
    BY <1>2 DEF SwitchTransitions
  <2>2. t \in Emissions /\ t.identity = d
    BY DEF Transition, Emissions
  <2>3. /\ t.type = "raised" <=> before = "none"
        /\ t.type = "updated" => t.severity # before
        /\ t.type = "cleared" => t.severity = before
        /\ after = IF t.type = "cleared" THEN "none" ELSE t.severity
    BY <1>2 DEF Transition
  <2> HIDE DEF t, before, after
  <2>4. ASSUME NEW log \in Seq(Emissions), IsLifecycle(log, d, before)
        PROVE  IsLifecycle(log \o <<t>>, d, after)
    <3>1. IsLifecycle(Append(log, t), d, after)
      BY <2>2, <2>3, <2>4, LifecycleGrows, Zenon
    <3>2. Append(log, t) = log \o <<t>>
      BY <2>2, AppendIsConcat
    <3> QED
      BY <3>1, <3>2
  <2> QED
    BY <2>1, <2>2, <2>4 DEF Part, before, after
<1> QED
  BY <1>1, <1>2

(* The log after a packet, one part after the other.                       *)
LEMMA EvaluateAddsParts ==
  ASSUME TypeOK, emitted \in Seq(Emissions), NEW packet \in Packets, Evaluate(packet)
  PROVE  LET gap == GapPart(state.last, packet.sequence)
             temperature == TemperatureTransitions(state.temperature, state'.temperature)
             battery == SwitchTransitions("battery", state.battery, state'.battery, "critical")
             safe == SwitchTransitions("safe-mode", state.safe, state'.safe, "warning")
         IN  emitted' = (((emitted \o gap) \o temperature) \o battery) \o safe
<1> DEFINE gap == GapPart(state.last, packet.sequence)
           temperature == TemperatureTransitions(state.temperature, state'.temperature)
           battery == SwitchTransitions("battery", state.battery, state'.battery, "critical")
           safe == SwitchTransitions("safe-mode", state.safe, state'.safe, "warning")
<1>1. emitted' = emitted \o (((gap \o temperature) \o battery) \o safe)
  <2>1. state' = NextState(state, packet)
    BY DEF Evaluate
  <2> QED
    BY <2>1 DEF Evaluate, Transitions, GapPart
<1>2. state'.temperature \in Severities /\ state'.battery \in BOOLEAN /\ state'.safe \in BOOLEAN
  BY PolicyAssumption DEF TypeOK, ValidPolicy, Evaluate, NextState, NextTemperature, NextBattery, Severities
<1>3. /\ gap \in Seq(Emissions) /\ temperature \in Seq(Emissions)
      /\ battery \in Seq(Emissions) /\ safe \in Seq(Emissions)
  <2>1. /\ Part(gap, "sequence-gap") /\ Part(temperature, "temperature")
        /\ Part(battery, "battery") /\ Part(safe, "safe-mode")
    BY <1>2, GapIsPart, TemperatureIsPart, SwitchIsPart DEF TypeOK
  <2> QED
    BY <2>1, PartsPass
<1> HIDE DEF gap, temperature, battery, safe
<1>4. /\ gap \o temperature \in Seq(Emissions)
      /\ (gap \o temperature) \o battery \in Seq(Emissions)
      /\ emitted \o gap \in Seq(Emissions)
      /\ (emitted \o gap) \o temperature \in Seq(Emissions)
  BY <1>3, ConcatProperties
<1> DEFINE Associates(s, t, u) == s \o (t \o u) = (s \o t) \o u
<1>5. \A s, t, u \in Seq(Emissions) : Associates(s, t, u)
  BY ConcatAssociative
<1>6. /\ Associates(emitted, gap, temperature)
      /\ Associates(emitted, gap \o temperature, battery)
      /\ Associates(emitted, (gap \o temperature) \o battery, safe)
  <2> HIDE DEF Associates
  <2> QED
    BY <1>3, <1>4, <1>5
<1> QED
  BY <1>1, <1>6, Zenon DEF gap, temperature, battery, safe

-----------------------------------------------------------------------------
(* What is kept between packets: the engine remembers the sequence number  *)
(* of the last one, the log holds emissions, and both say the same.        *)
LogInv ==
  /\ emitted \in Seq(Emissions)
  /\ state.last = IF packets = <<>> THEN NoSequence ELSE packets[Len(packets)].sequence
  /\ LifecyclesAreWellFormed
  /\ GapsAreExact

(* An engine as good as new has told nothing.                              *)
LEMMA NothingTold ==
  ASSUME state = Fresh, packets = <<>>, emitted = <<>>
  PROVE  LogInv
<1>1. \A d : Own(emitted, d) = {}
  BY DEF Own
<1>2. Breaks = {}
  BY DEF Breaks
<1> QED
  <2>1. emitted \in Seq(Emissions)
    OBVIOUS
  <2>2. \A d : IsLifecycle(emitted, d, "none")
    BY <1>1 DEF IsLifecycle
  <2>3. LifecyclesAreWellFormed
    BY <2>2 DEF LifecyclesAreWellFormed, Fresh
  <2>4. GapsAreExact
    BY <1>1, <1>2 DEF GapsAreExact
  <2> QED
    BY <2>1, <2>3, <2>4 DEF LogInv, Fresh

(* The break a packet may make is its own position.                        *)
LEMMA BreaksGrow ==
  ASSUME TypeOK, NEW packet \in Packets, packets' = Append(packets, packet),
         state.last = IF packets = <<>> THEN NoSequence ELSE packets[Len(packets)].sequence
  PROVE  /\ Breaks \in SUBSET (2 .. Len(packets))
         /\ IsGap(state.last, packet.sequence) => Breaks' = Breaks \cup {Len(packets) + 1}
         /\ ~IsGap(state.last, packet.sequence) => Breaks' = Breaks
<1> DEFINE n == Len(packets)
           Follows(q, i) == q[i].sequence = (q[i - 1].sequence + 1) % SequenceModulus
<1>1. /\ n \in Nat
      /\ Len(packets') = n + 1
      /\ packets'[n + 1] = packet
      /\ \A i \in 1 .. n : packets'[i] = packets[i]
      /\ packets = <<>> <=> n = 0
  BY DEF TypeOK
<1>2. \A i \in 1 .. n : packets[i].sequence \in Nat
  BY PacketsAssumption, ModulusAssumption, SMTT(30) DEF TypeOK
<1>3. /\ Breaks = {i \in 2 .. n : DetectGaps /\ ~Follows(packets, i)}
      /\ Breaks' = {i \in 2 .. n + 1 : DetectGaps /\ ~Follows(packets', i)}
  BY <1>1 DEF Breaks
<1>4. \A i \in 2 .. n : Follows(packets', i) <=> Follows(packets, i)
  <2> SUFFICES ASSUME NEW i \in 2 .. n PROVE Follows(packets', i) <=> Follows(packets, i)
    OBVIOUS
  <2>1. i \in 1 .. n /\ i - 1 \in 1 .. n
    BY <1>1
  <2> QED
    BY <1>1, <2>1
<1>5. CASE n = 0
  <2>1. 2 .. n = {} /\ 2 .. n + 1 = {}
    BY <1>5
  <2>2. ~IsGap(state.last, packet.sequence)
    BY <1>1, <1>5 DEF IsGap
  <2> QED
    BY <1>3, <2>1, <2>2
<1>6. CASE n # 0
  <2>1. 2 .. n + 1 = (2 .. n) \cup {n + 1}
    BY <1>1, <1>6
  <2>2. n + 1 - 1 = n /\ n \in 1 .. n
    BY <1>1, <1>6
  <2>3. Follows(packets', n + 1) <=> packet.sequence = (packets[n].sequence + 1) % SequenceModulus
    BY <1>1, <2>2
  <2>4. IsGap(state.last, packet.sequence) <=> DetectGaps /\ ~Follows(packets', n + 1)
    <3>1. state.last = packets[n].sequence /\ state.last # NoSequence
      BY <1>1, <1>2, <1>6, <2>2 DEF NoSequence
    <3> QED
      BY <2>3, <3>1 DEF IsGap
  <2> HIDE DEF Follows, n
  <2>5. Breaks' = Breaks \cup {i \in {n + 1} : DetectGaps /\ ~Follows(packets', i)}
    BY <1>3, <1>4, <2>1
  <2>6. Breaks \subseteq 2 .. n
    BY <1>3
  <2> QED
    BY <2>4, <2>5, <2>6 DEF n
<1> QED
  BY <1>5, <1>6

(* One gap is told for one break.                                          *)
LEMMA GapsGrow ==
  ASSUME TypeOK, LogInv, NEW packet \in Packets, packets' = Append(packets, packet)
  PROVE  Cardinality(Own(emitted \o GapPart(state.last, packet.sequence), "sequence-gap"))
           = Cardinality(Breaks')
<1> DEFINE t == Transition("sequence-gap", "raised", "warning")
           gaps == Own(emitted, "sequence-gap")
<1>1. /\ emitted \in Seq(Emissions)
      /\ Cardinality(gaps) = Cardinality(Breaks)
      /\ Breaks \in SUBSET (2 .. Len(packets))
      /\ IsGap(state.last, packet.sequence) => Breaks' = Breaks \cup {Len(packets) + 1}
      /\ ~IsGap(state.last, packet.sequence) => Breaks' = Breaks
  BY BreaksGrow DEF LogInv, GapsAreExact
<1>2. CASE IsGap(state.last, packet.sequence)
  <2>1. t \in Emissions /\ t.identity = "sequence-gap"
    BY DEF Transition, Emissions
  <2>2. emitted \o GapPart(state.last, packet.sequence) = Append(emitted, t)
    BY <1>1, <1>2, <2>1, AppendIsConcat DEF GapPart
  <2> HIDE DEF t
  <2>3. /\ gaps \in SUBSET (1 .. Len(emitted))
        /\ Own(Append(emitted, t), "sequence-gap") = gaps \cup {Len(emitted) + 1}
    BY <1>1, <2>1, OwnGrows, ZenonT(60)
  <2>4. Len(emitted) \in Nat /\ Len(packets) \in Nat
    BY <1>1 DEF TypeOK
  <2> HIDE DEF gaps
  <2>5. /\ IsFiniteSet(gaps) /\ Len(emitted) + 1 \notin gaps
        /\ IsFiniteSet(Breaks) /\ Len(packets) + 1 \notin Breaks
    <3>1. IsFiniteSet(1 .. Len(emitted)) /\ IsFiniteSet(2 .. Len(packets))
      BY <2>4, FS_Interval
    <3>2. IsFiniteSet(gaps) /\ IsFiniteSet(Breaks)
      BY <1>1, <2>3, <3>1, FS_Subset
    <3>3. Len(emitted) + 1 \notin 1 .. Len(emitted) /\ Len(packets) + 1 \notin 2 .. Len(packets)
      BY <2>4
    <3> QED
      BY <1>1, <2>3, <3>2, <3>3
  <2>6. /\ Cardinality(gaps \cup {Len(emitted) + 1}) = Cardinality(gaps) + 1
        /\ Cardinality(Breaks \cup {Len(packets) + 1}) = Cardinality(Breaks) + 1
    BY <2>5, FS_AddElement
  <2> QED
    BY <1>1, <1>2, <2>2, <2>3, <2>6
<1>3. CASE ~IsGap(state.last, packet.sequence)
  <2>1. emitted \o GapPart(state.last, packet.sequence) = emitted
    BY <1>1, <1>3, ConcatEmptySeq DEF GapPart
  <2> QED
    BY <1>1, <1>3, <2>1
<1> QED
  BY <1>2, <1>3

(* One packet carries every story on.                                      *)
LEMMA EvaluateKeepsLog ==
  ASSUME TypeOK, TypeOK', LogInv, NEW packet \in Packets, Evaluate(packet)
  PROVE  LogInv'
<1> DEFINE gap == GapPart(state.last, packet.sequence)
           temperature == TemperatureTransitions(state.temperature, state'.temperature)
           battery == SwitchTransitions("battery", state.battery, state'.battery, "critical")
           safe == SwitchTransitions("safe-mode", state.safe, state'.safe, "warning")
           log1 == emitted \o gap
           log2 == log1 \o temperature
           log3 == log2 \o battery
           log4 == log3 \o safe
<1>1. emitted \in Seq(Emissions) /\ emitted' = log4
  BY EvaluateAddsParts DEF LogInv
<1>2. /\ Part(gap, "sequence-gap") /\ Part(temperature, "temperature")
      /\ Part(battery, "battery") /\ Part(safe, "safe-mode")
  BY GapIsPart, TemperatureIsPart, SwitchIsPart DEF TypeOK
<1>3. /\ IsLifecycle(emitted, "temperature", state.temperature)
      /\ IsLifecycle(emitted, "battery", IF state.battery THEN "critical" ELSE "none")
      /\ IsLifecycle(emitted, "safe-mode", IF state.safe THEN "warning" ELSE "none")
  BY DEF LogInv, LifecyclesAreWellFormed
<1>4. \A log \in Seq(Emissions) :
        /\ IsLifecycle(log, "temperature", state.temperature)
             => IsLifecycle(log \o temperature, "temperature", state'.temperature)
        /\ IsLifecycle(log, "battery", IF state.battery THEN "critical" ELSE "none")
             => IsLifecycle(log \o battery, "battery", IF state'.battery THEN "critical" ELSE "none")
        /\ IsLifecycle(log, "safe-mode", IF state.safe THEN "warning" ELSE "none")
             => IsLifecycle(log \o safe, "safe-mode", IF state'.safe THEN "warning" ELSE "none")
  BY TemperatureIsPart, SwitchIsPart DEF TypeOK
<1>5. Cardinality(Own(log1, "sequence-gap")) = Cardinality(Breaks')
  BY GapsGrow DEF Evaluate
<1> HIDE DEF gap, temperature, battery, safe
<1>6. log1 \in Seq(Emissions) /\ LeavesOthers(emitted, log1, "sequence-gap")
  BY <1>1, <1>2, PartsPass
<1>7. log2 \in Seq(Emissions) /\ LeavesOthers(log1, log2, "temperature")
  BY <1>2, <1>6, PartsPass
<1>8. log3 \in Seq(Emissions) /\ LeavesOthers(log2, log3, "battery")
  BY <1>2, <1>7, PartsPass
<1>9. log4 \in Seq(Emissions) /\ LeavesOthers(log3, log4, "safe-mode")
  BY <1>2, <1>8, PartsPass
<1>10. /\ IsLifecycle(log4, "temperature", state'.temperature)
       /\ IsLifecycle(log4, "battery", IF state'.battery THEN "critical" ELSE "none")
       /\ IsLifecycle(log4, "safe-mode", IF state'.safe THEN "warning" ELSE "none")
  <2> HIDE DEF log1, log2, log3, log4
  <2>1. IsLifecycle(log4, "temperature", state'.temperature)
    <3>1. IsLifecycle(log1, "temperature", state.temperature)
      BY <1>3, <1>6 DEF LeavesOthers
    <3>2. IsLifecycle(log2, "temperature", state'.temperature)
      BY <1>4, <1>6, <3>1 DEF LeavesOthers, log2
    <3> QED
      BY <1>8, <1>9, <3>2 DEF LeavesOthers
  <2>2. IsLifecycle(log4, "battery", IF state'.battery THEN "critical" ELSE "none")
    <3>1. IsLifecycle(log2, "battery", IF state.battery THEN "critical" ELSE "none")
      BY <1>3, <1>6, <1>7 DEF LeavesOthers
    <3>2. IsLifecycle(log3, "battery", IF state'.battery THEN "critical" ELSE "none")
      BY <1>4, <1>7, <3>1 DEF LeavesOthers, log3
    <3> QED
      BY <1>9, <3>2 DEF LeavesOthers
  <2>3. IsLifecycle(log4, "safe-mode", IF state'.safe THEN "warning" ELSE "none")
    <3>1. IsLifecycle(log3, "safe-mode", IF state.safe THEN "warning" ELSE "none")
      BY <1>3, <1>6, <1>7, <1>8 DEF LeavesOthers
    <3> QED
      BY <1>4, <1>8, <3>1 DEF LeavesOthers, log4
  <2> QED
    BY <2>1, <2>2, <2>3
<1>11. Cardinality(Own(log4, "sequence-gap")) = Cardinality(Breaks')
  BY <1>5, <1>7, <1>8, <1>9 DEF LeavesOthers
<1>12. state'.last = IF packets' = <<>> THEN NoSequence ELSE packets'[Len(packets')].sequence
  <2>1. /\ packets' # <<>>
        /\ packets'[Len(packets')] = packet
        /\ state'.last = packet.sequence
    BY DEF Evaluate, NextState, TypeOK
  <2> QED
    BY <2>1
<1> HIDE DEF log4
<1> QED
  BY <1>1, <1>9, <1>10, <1>11, <1>12 DEF LogInv, LifecyclesAreWellFormed, GapsAreExact

(* The log keeps telling what happened.                                    *)
THEOREM LogCorrect == Spec => []LogInv
<1>1. Init => LogInv
  BY NothingTold DEF Init
<1>2. TypeOK /\ TypeOK' /\ LogInv /\ [Next]_vars => LogInv'
  <2> SUFFICES ASSUME TypeOK, TypeOK', LogInv, [Next]_vars PROVE LogInv'
    OBVIOUS
  <2>1. CASE Reset
    <3>1. (state = Fresh /\ packets = <<>> /\ emitted = <<>>)'
      BY <2>1 DEF Reset, Fresh
    <3>2. (state = Fresh /\ packets = <<>> /\ emitted = <<>> => LogInv)'
      BY NothingTold, PTL
    <3> QED
      BY <3>1, <3>2
  <2>2. ASSUME NEW packet \in Packets, Evaluate(packet) PROVE LogInv'
    BY <2>2, EvaluateKeepsLog
  <2>3. CASE UNCHANGED vars
    BY <2>3 DEF vars, LogInv, LifecyclesAreWellFormed, GapsAreExact, Breaks
  <2> QED
    BY <2>1, <2>2, <2>3 DEF Next
<1> QED
  BY <1>1, <1>2, TypeCorrect, PTL DEF Spec

(* Under every policy and any stream, the transitions told of a stateful   *)
(* alarm are lifecycles that end in what is active.                        *)
THEOREM LifecyclesCorrect == Spec => []LifecyclesAreWellFormed
<1>1. LogInv => LifecyclesAreWellFormed
  BY DEF LogInv
<1> QED
  BY <1>1, LogCorrect, PTL

(* And one gap is told for each packet out of sequence.                    *)
THEOREM GapsCorrect == Spec => []GapsAreExact
<1>1. LogInv => GapsAreExact
  BY DEF LogInv
<1> QED
  BY <1>1, LogCorrect, PTL
=============================================================================
