-------------------------- MODULE ImpairmentProofs --------------------------
(***************************************************************************)
(* What the impairment engine decides, for samples of any width, any       *)
(* configurations that LinkConfig accepts, any stream and any number of    *)
(* packets of any size.                                                    *)
(***************************************************************************)
EXTENDS ImpairmentEngine, TLAPS

-----------------------------------------------------------------------------
(* Arithmetic.                                                             *)

(* Rounding down: a natural number is below a quotient when one more of it *)
(* still fits.                                                             *)
LEMMA BelowQuotient ==
  ASSUME NEW a \in Nat, NEW d \in Nat \ {0}, NEW s \in Nat
  PROVE  s < a \div d <=> (s + 1) * d <= a
<1> DEFINE q == a \div d
<1>1. q \in Int /\ d * q <= a /\ a < d * (q + 1)
  OBVIOUS
<1> HIDE DEF q
<1>2. s < q => (s + 1) * d <= a
  <2> SUFFICES ASSUME s < q PROVE (s + 1) * d <= a
    OBVIOUS
  <2>1. s + 1 <= q
    BY <1>1
  <2>2. d * (s + 1) <= d * q
    BY <1>1, <2>1
  <2> QED
    BY <1>1, <2>2
<1>3. ~(s < q) => ~((s + 1) * d <= a)
  <2> SUFFICES ASSUME ~(s < q) PROVE a < (s + 1) * d
    OBVIOUS
  <2>1. q + 1 <= s + 1
    BY <1>1
  <2>2. d * (q + 1) <= d * (s + 1)
    BY <1>1, <2>1
  <2> QED
    BY <1>1, <2>2
<1> QED
  BY <1>2, <1>3 DEF q

(* A product of natural numbers is one.                                    *)
LEMMA ProductNat ==
  ASSUME NEW m \in Nat, NEW n \in Nat
  PROVE  m * n \in Nat
  OBVIOUS

(* Multiplying by a natural number keeps an order.                         *)
LEMMA ProductMonotone ==
  ASSUME NEW a \in Nat, NEW x \in Int, NEW y \in Int, x <= y
  PROVE  a * x <= a * y
  OBVIOUS

(* scale_u64 stays below its bound.                                        *)
LEMMA ScaleInRange ==
  ASSUME NEW sample \in Sample, NEW bound \in Nat \ {0}
  PROVE  Scale(sample, bound) \in 0 .. bound - 1
<1>1. sample \in Nat /\ sample < Unit /\ Unit \in Nat \ {0}
  BY UnitAssumption DEF Sample
<1> DEFINE q == (sample * bound) \div Unit
<1>2. sample * bound \in Nat /\ sample * bound < Unit * bound
  BY <1>1
<1>3. q \in Int /\ Unit * q <= sample * bound /\ sample * bound < Unit * (q + 1)
  BY <1>1, <1>2
<1> HIDE DEF q
<1>4. q >= 0
  <2> SUFFICES ASSUME q + 1 <= 0 PROVE FALSE
    BY <1>3
  <2>1. Unit * (q + 1) <= Unit * 0
    BY <1>1, <1>3, ProductMonotone
  <2> QED
    BY <1>1, <1>2, <1>3, <2>1
<1>5. q < bound
  <2> SUFFICES ASSUME bound <= q PROVE FALSE
    BY <1>3
  <2>1. Unit * bound <= Unit * q
    BY <1>1, <1>3, ProductMonotone
  <2> QED
    BY <1>1, <1>2, <1>3, <2>1
<1> QED
  BY <1>3, <1>4, <1>5 DEF Scale, q

(* A sample that hits at a rate hits at every higher rate.                 *)
LEMMA HitIsMonotone ==
  ASSUME NEW sample \in Sample, NEW r \in RateType, NEW q \in RateType,
         RateLeq(r, q), ProbabilityHit(sample, r)
  PROVE  ProbabilityHit(sample, q)
<1> DEFINE n == r.num  d == r.den  m == q.num  e == q.den
<1>1. /\ n \in Nat /\ d \in Nat \ {0} /\ n <= d
      /\ m \in Nat /\ e \in Nat \ {0} /\ m <= e
      /\ n * e <= m * d
      /\ sample \in Nat /\ sample < Unit /\ Unit \in Nat \ {0}
  BY UnitAssumption DEF RateType, RateLeq, Sample
<1>2. n >= d \/ (n > 0 /\ sample < (n * Unit) \div d)
  BY DEF ProbabilityHit
<1>3. m >= e \/ (m > 0 /\ sample < (m * Unit) \div e) => ProbabilityHit(sample, q)
  BY DEF ProbabilityHit
<1> HIDE DEF n, d, m, e
<1>4. CASE n >= d
  <2>1. n = d
    BY <1>1, <1>4
  <2>2. d * e <= d * m
    BY <1>1, <2>1
  <2>3. e <= m
    BY <1>1, <2>2
  <2> QED
    BY <1>1, <1>3, <2>3
<1>5. CASE n > 0 /\ sample < (n * Unit) \div d
  <2> DEFINE s == sample + 1
  <2>1. s \in Nat /\ n * Unit \in Nat /\ m * Unit \in Nat
    BY <1>1, ProductNat
  <2>2. s * d <= n * Unit
    BY <1>1, <1>5, <2>1, BelowQuotient
  <2> HIDE DEF s
  <2>3. (s * d) * e <= (n * Unit) * e
    BY <1>1, <2>1, <2>2
  <2>4. (n * e) * Unit <= (m * d) * Unit
    BY <1>1
  <2>5. (n * Unit) * e = (n * e) * Unit /\ (m * d) * Unit = d * (m * Unit)
        /\ (s * d) * e = d * (s * e)
    BY <1>1, <2>1
  <2>6. d * (s * e) <= d * (m * Unit)
    BY <1>1, <2>1, <2>3, <2>4, <2>5
  <2>7. s * e <= m * Unit
    BY <1>1, <2>1, <2>6
  <2>8. m > 0
    <3>1. n * e > 0
      BY <1>1, <1>5
    <3> SUFFICES ASSUME m = 0 PROVE FALSE
      BY <1>1
    <3>2. m * d = 0
      BY <1>1
    <3> QED
      BY <1>1, <3>1, <3>2
  <2>9. sample < (m * Unit) \div e
    BY <1>1, <2>1, <2>7, BelowQuotient DEF s
  <2> QED
    BY <1>3, <2>8, <2>9
<1> QED
  BY <1>2, <1>4, <1>5

-----------------------------------------------------------------------------
(* What every decision satisfies.                                          *)

(* A rate of zero never selects its impairment, a rate of one always.      *)
Respects(rate, hit) == (rate.num = 0 => ~hit) /\ (rate.num = rate.den => hit)

(* Whether a sample hits respects the rate.                                *)
LEMMA HitRespectsRate ==
  ASSUME NEW sample \in Sample, NEW rate \in RateType
  PROVE  Respects(rate, ProbabilityHit(sample, rate))
  BY DEF Respects, ProbabilityHit, RateType

(* A delay is within the jitter of the latency, cut at zero.               *)
LEMMA DelayInRange ==
  ASSUME NEW c \in Configuration, NEW sample \in Sample
  PROVE  Delay(c, sample) \in (c.latency - c.jitter) .. (c.latency + c.jitter)
           \/ (Delay(c, sample) = 0 /\ c.latency < c.jitter)
<1>1. c.latency \in Nat /\ c.jitter \in Nat
  BY DEF Configuration
<1>2. c.jitter # 0 => Scale(sample, 2 * c.jitter + 1) \in 0 .. 2 * c.jitter
  <2> SUFFICES ASSUME c.jitter # 0
               PROVE  Scale(sample, 2 * c.jitter + 1) \in 0 .. 2 * c.jitter
    OBVIOUS
  <2> DEFINE span == 2 * c.jitter + 1
  <2>1. span \in Nat \ {0} /\ span - 1 = 2 * c.jitter
    BY <1>1
  <2> HIDE DEF span
  <2>2. Scale(sample, span) \in 0 .. span - 1
    BY <2>1, ScaleInRange
  <2> QED
    BY <2>1, <2>2 DEF span
<1> QED
  BY <1>1, <1>2 DEF Delay

(* A hold is within the reorder window.                                    *)
LEMMA HoldInRange ==
  ASSUME NEW c \in Configuration, NEW sample \in Sample
  PROVE  Hold(c, sample) \in 0 .. c.window
<1>1. c.window \in Nat /\ c.window + 1 \in Nat \ {0} /\ c.window + 1 - 1 = c.window
  BY DEF Configuration
<1>2. Scale(sample, c.window + 1) \in 0 .. c.window + 1 - 1
  BY <1>1, ScaleInRange
<1> QED
  BY <1>1, <1>2 DEF Hold

(* What a configuration and a payload allow a decision to be.              *)
Bounded(c, bits, o) ==
  /\ Respects(c.loss, o.copies = 0)
  /\ o.copies > 0 =>
       /\ o.delay \in (c.latency - c.jitter) .. (c.latency + c.jitter)
            \/ (o.delay = 0 /\ c.latency < c.jitter)
       /\ o.hold \in 0 .. c.window
       /\ Respects(c.duplicate, o.copies = 2)
       /\ o.corruptedBit = NoBit \/ o.corruptedBit \in 0 .. bits - 1
       /\ bits > 0 => Respects(c.corrupt, o.corruptedBit # NoBit)

(* It keeps every decision within its configuration.                       *)
LEMMA DecisionBounded ==
  ASSUME NEW c \in Configuration, NEW samples \in [1 .. DrawsPerPacket -> Sample],
         NEW bits \in Nat
  PROVE  Bounded(c, bits, Decide(c, samples, bits))
<1> DEFINE o == Decide(c, samples, bits)
<1>1. \A i \in 1 .. DrawsPerPacket : samples[i] \in Sample
  OBVIOUS
<1>2. /\ samples[1] \in Sample /\ samples[2] \in Sample /\ samples[3] \in Sample
      /\ samples[4] \in Sample /\ samples[5] \in Sample /\ samples[6] \in Sample
  BY <1>1 DEF DrawsPerPacket
<1>3. c.loss \in RateType /\ c.duplicate \in RateType /\ c.corrupt \in RateType
  BY DEF Configuration
<1> DEFINE lost == ProbabilityHit(samples[1], c.loss)
           twice == ProbabilityHit(samples[2], c.duplicate)
           hit == ProbabilityHit(samples[3], c.corrupt)
           bit == Scale(samples[6], bits)
<1>4. Respects(c.loss, lost) /\ Respects(c.duplicate, twice) /\ Respects(c.corrupt, hit)
  BY <1>2, <1>3, HitRespectsRate
<1>5. bits > 0 => bit \in 0 .. bits - 1 /\ bit # NoBit
  <2> SUFFICES ASSUME bits > 0 PROVE bit \in 0 .. bits - 1 /\ bit # NoBit
    OBVIOUS
  <2>1. bits \in Nat \ {0}
    OBVIOUS
  <2>2. bit \in 0 .. bits - 1
    BY <1>2, <2>1, ScaleInRange
  <2> QED
    BY <2>1, <2>2 DEF NoBit
<1>6. /\ Delay(c, samples[4]) \in (c.latency - c.jitter) .. (c.latency + c.jitter)
            \/ (Delay(c, samples[4]) = 0 /\ c.latency < c.jitter)
      /\ Hold(c, samples[5]) \in 0 .. c.window
  BY <1>2, DelayInRange, HoldInRange
<1>7. CASE lost
  <2>1. o.copies = 0
    BY <1>7 DEF Decide
  <2> QED
    BY <1>4, <1>7, <2>1 DEF Bounded, Respects
<1>8. CASE ~lost
  <2>1. /\ o.copies = IF twice THEN 2 ELSE 1
        /\ o.corruptedBit = IF hit /\ bits > 0 THEN bit ELSE NoBit
        /\ o.delay = Delay(c, samples[4]) /\ o.hold = Hold(c, samples[5])
    BY <1>8 DEF Decide
  <2> HIDE DEF o, lost, twice, hit, bit
  <2>2. Respects(c.loss, o.copies = 0)
    BY <1>4, <1>8, <2>1 DEF Respects
  <2>3. Respects(c.duplicate, o.copies = 2)
    BY <1>4, <2>1 DEF Respects
  <2>4. o.corruptedBit = NoBit \/ o.corruptedBit \in 0 .. bits - 1
    BY <1>5, <2>1
  <2>5. bits > 0 => Respects(c.corrupt, o.corruptedBit # NoBit)
    BY <1>4, <1>5, <2>1 DEF Respects
  <2> QED
    BY <1>6, <2>1, <2>2, <2>3, <2>4, <2>5 DEF Bounded, o
<1> QED
  BY <1>7, <1>8

Decision == [copies : 0 .. 2, corruptedBit : Int, delay : Int, hold : Int]

(* What the engine decides is a decision.                                  *)
LEMMA DecisionType ==
  ASSUME NEW c \in Configuration, NEW samples \in [1 .. DrawsPerPacket -> Sample],
         NEW bits \in Nat
  PROVE  Decide(c, samples, bits) \in Decision
<1>1. /\ c.latency \in Nat /\ c.jitter \in Nat /\ c.window \in Nat
      /\ 2 * c.jitter + 1 \in Nat /\ c.window + 1 \in Nat
  BY DEF Configuration
<1>2. samples[4] \in Sample /\ samples[5] \in Sample /\ samples[6] \in Sample
  BY DEF DrawsPerPacket
<1>3. \A sample \in Sample, bound \in Nat : Scale(sample, bound) \in Int
  BY UnitAssumption DEF Scale, Sample
<1>4. Delay(c, samples[4]) \in Int
  <2>1. Scale(samples[4], 2 * c.jitter + 1) \in Int
    BY <1>1, <1>2, <1>3
  <2> QED
    BY <1>1, <2>1 DEF Delay
<1>5. Hold(c, samples[5]) \in Int
  <2>1. Scale(samples[5], c.window + 1) \in Int
    BY <1>1, <1>2, <1>3
  <2> QED
    BY <2>1 DEF Hold
<1>6. Scale(samples[6], bits) \in Int /\ NoBit \in Int
  BY <1>2, <1>3 DEF NoBit
<1> QED
  BY <1>4, <1>5, <1>6 DEF Decide, Decision

(* Decisions from the same samples about the same payload.                 *)
LEMMA DecisionsAgree ==
  ASSUME NEW c, NEW d, NEW samples, NEW bits
  PROVE  LET a == Decide(c, samples, bits)
             b == Decide(d, samples, bits)
         IN  /\ c.loss = d.loss => (a.copies = 0 <=> b.copies = 0)
             /\ (a.copies > 0 /\ b.copies > 0) =>
                  /\ c.duplicate = d.duplicate => a.copies = b.copies
                  /\ c.corrupt = d.corrupt => a.corruptedBit = b.corruptedBit
                  /\ c.latency = d.latency /\ c.jitter = d.jitter => a.delay = b.delay
                  /\ c.window = d.window => a.hold = b.hold
<1> DEFINE a == Decide(c, samples, bits)
           b == Decide(d, samples, bits)
           hit(r, i) == ProbabilityHit(samples[i], r)
<1>1. /\ a.copies = IF hit(c.loss, 1) THEN 0 ELSE IF hit(c.duplicate, 2) THEN 2 ELSE 1
      /\ ~hit(c.loss, 1) =>
           /\ a.corruptedBit = IF hit(c.corrupt, 3) /\ bits > 0
                               THEN Scale(samples[6], bits) ELSE NoBit
           /\ a.delay = Delay(c, samples[4]) /\ a.hold = Hold(c, samples[5])
  BY DEF Decide
<1>2. /\ b.copies = IF hit(d.loss, 1) THEN 0 ELSE IF hit(d.duplicate, 2) THEN 2 ELSE 1
      /\ ~hit(d.loss, 1) =>
           /\ b.corruptedBit = IF hit(d.corrupt, 3) /\ bits > 0
                               THEN Scale(samples[6], bits) ELSE NoBit
           /\ b.delay = Delay(d, samples[4]) /\ b.hold = Hold(d, samples[5])
  BY DEF Decide
<1>3. c.latency = d.latency /\ c.jitter = d.jitter => Delay(c, samples[4]) = Delay(d, samples[4])
  BY DEF Delay
<1>4. c.window = d.window => Hold(c, samples[5]) = Hold(d, samples[5])
  BY DEF Hold
<1> HIDE DEF a, b, hit
<1> QED
  BY <1>1, <1>2, <1>3, <1>4 DEF a, b

-----------------------------------------------------------------------------
(* Two engines.                                                            *)

(* The samples of the packet with that index, wherever the engine is.      *)
SamplesOf(p) == [i \in 1 .. DrawsPerPacket |-> stream[DrawsPerPacket * p + i]]

(* Each engine has drawn the samples of the packets it has had, neither    *)
(* more nor fewer, so the decision of a packet depends on the packet's     *)
(* index and size, the engine's configuration and the stream alone.        *)
EngineInv ==
  /\ stream \in Streams
  /\ input \in [0 .. MaxPackets - 1 -> PayloadBits]
  /\ config \in [Engines -> Configuration]
  /\ packetIndex \in [Engines -> 0 .. MaxPackets]
  /\ drawn \in [Engines -> Nat]
  /\ DOMAIN outcomes = Engines
  /\ \A e \in Engines :
       /\ drawn[e] = DrawsPerPacket * packetIndex[e]
       /\ Len(outcomes[e]) = packetIndex[e]
       /\ outcomes[e] \in Seq(Decision)
       /\ \A i \in 1 .. packetIndex[e] :
            outcomes[e][i] = Decide(config[e], SamplesOf(i - 1), input[i - 1])

(* What the engines start with.                                            *)
LEMMA EngineStarts == Init => EngineInv
<1> SUFFICES ASSUME Init PROVE EngineInv
  OBVIOUS
<1>1. config \in [Engines -> Configuration]
  <2>1. PICK pair \in ConfigPairs : config = [e \in Engines |-> IF e = "a" THEN pair[1] ELSE pair[2]]
    BY DEF Init
  <2>2. pair[1] \in Configuration /\ pair[2] \in Configuration
    BY ConfigsAssumption
  <2> QED
    BY <2>1, <2>2
<1>2. packetIndex \in [Engines -> 0 .. MaxPackets] /\ drawn \in [Engines -> Nat]
  BY InputAssumption DEF Init
<1>3. \A e \in Engines : /\ drawn[e] = DrawsPerPacket * packetIndex[e]
                         /\ outcomes[e] = <<>> /\ packetIndex[e] = 0
  BY DEF Init, DrawsPerPacket
<1> QED
  BY <1>1, <1>2, <1>3 DEF Init, EngineInv

(* The samples of a packet are samples.                                    *)
LEMMA SamplesOfType ==
  ASSUME EngineInv, NEW p \in 0 .. MaxPackets - 1
  PROVE  SamplesOf(p) \in [1 .. DrawsPerPacket -> Sample]
<1>1. stream \in [1 .. DrawsPerPacket * MaxPackets -> Sample]
  BY StreamsAssumption DEF EngineInv
<1>2. \A i \in 1 .. DrawsPerPacket : DrawsPerPacket * p + i \in 1 .. DrawsPerPacket * MaxPackets
  BY InputAssumption DEF DrawsPerPacket
<1> QED
  BY <1>1, <1>2 DEF SamplesOf

(* A packet is decided, and all its samples are drawn.                     *)
LEMMA EngineSteps ==
  ASSUME EngineInv, NEW e \in Engines, Process(e)
  PROVE  EngineInv'
<1> DEFINE p == packetIndex[e]
           samples == [i \in 1 .. DrawsPerPacket |-> stream[drawn[e] + i]]
           o == Decide(config[e], samples, input[p])
<1>1. /\ p \in 0 .. MaxPackets - 1 /\ p + 1 \in 0 .. MaxPackets /\ p \in Nat
      /\ drawn[e] = DrawsPerPacket * p /\ drawn[e] \in Nat
      /\ outcomes[e] \in Seq(Decision) /\ Len(outcomes[e]) = p
  BY InputAssumption DEF Process, EngineInv
<1>2. /\ UNCHANGED <<stream, input, config>>
      /\ packetIndex' = [packetIndex EXCEPT ![e] = p + 1]
      /\ drawn' = [drawn EXCEPT ![e] = drawn[e] + DrawsPerPacket]
      /\ outcomes' = [outcomes EXCEPT ![e] = Append(outcomes[e], o)]
  BY DEF Process, Draws
<1>3. samples = SamplesOf(p)
  BY <1>1 DEF SamplesOf
<1>4. o \in Decision /\ o = Decide(config[e], SamplesOf(p), input[p])
  <2>1. SamplesOf(p) \in [1 .. DrawsPerPacket -> Sample]
    BY <1>1, SamplesOfType
  <2>2. config[e] \in Configuration /\ input[p] \in Nat
    BY <1>1, InputAssumption DEF EngineInv
  <2> QED
    BY <1>3, <2>1, <2>2, DecisionType
<1> HIDE DEF samples, o
<1>5. /\ packetIndex' \in [Engines -> 0 .. MaxPackets] /\ drawn' \in [Engines -> Nat]
      /\ DOMAIN outcomes' = Engines
  BY <1>1, <1>2 DEF EngineInv, DrawsPerPacket
<1>6. /\ packetIndex'[e] = p + 1 /\ outcomes'[e] = Append(outcomes[e], o)
      /\ drawn'[e] = DrawsPerPacket * (p + 1)
  <2>1. drawn[e] + DrawsPerPacket = DrawsPerPacket * (p + 1)
    BY <1>1 DEF DrawsPerPacket
  <2>2. e \in DOMAIN packetIndex /\ e \in DOMAIN drawn /\ e \in DOMAIN outcomes
    BY DEF EngineInv
  <2> QED
    BY <1>2, <2>1, <2>2
<1>7. /\ outcomes'[e] \in Seq(Decision) /\ Len(outcomes'[e]) = p + 1
      /\ \A i \in 1 .. p : outcomes'[e][i] = outcomes[e][i]
      /\ outcomes'[e][p + 1] = o
  BY <1>1, <1>4, <1>6
<1>8. \A i \in 1 .. p + 1 : outcomes'[e][i] = Decide(config[e], SamplesOf(i - 1), input[i - 1])
  <2> TAKE i \in 1 .. p + 1
  <2>1. CASE i = p + 1
    <3>1. i - 1 = p
      BY <1>1, <2>1
    <3> QED
      BY <1>4, <1>7, <2>1, <3>1
  <2>2. CASE i # p + 1
    <3>1. i \in 1 .. p
      BY <1>1, <2>2
    <3> QED
      BY <1>7, <3>1 DEF EngineInv
  <2> QED
    BY <2>1, <2>2
<1>9. \A f \in Engines : f # e =>
        /\ packetIndex'[f] = packetIndex[f] /\ drawn'[f] = drawn[f]
        /\ outcomes'[f] = outcomes[f]
  BY <1>2 DEF EngineInv
<1>10. \A q : SamplesOf(q)' = SamplesOf(q)
  BY <1>2 DEF SamplesOf
<1>11. \A f \in Engines :
        /\ drawn'[f] = DrawsPerPacket * packetIndex'[f]
        /\ Len(outcomes'[f]) = packetIndex'[f]
        /\ outcomes'[f] \in Seq(Decision)
        /\ \A i \in 1 .. packetIndex'[f] :
             outcomes'[f][i] = Decide(config[f], SamplesOf(i - 1), input[i - 1])
  <2> TAKE f \in Engines
  <2>1. CASE f = e
    BY <1>6, <1>7, <1>8, <2>1
  <2>2. CASE f # e
    BY <1>9, <2>2 DEF EngineInv
  <2> QED
    BY <2>1, <2>2
<1> QED
  BY <1>2, <1>5, <1>10, <1>11 DEF EngineInv

(* What an engine decides depends on nothing but the packet, its index,    *)
(* the configuration and the stream.                                       *)
THEOREM EnginesCorrect == Spec => []EngineInv
<1>1. EngineInv /\ [Next]_vars => EngineInv'
  <2> SUFFICES ASSUME EngineInv, [Next]_vars PROVE EngineInv'
    OBVIOUS
  <2>1. CASE Process("a") \/ Process("b")
    BY <2>1, EngineSteps DEF Engines
  <2>2. CASE UNCHANGED vars
    BY <2>2 DEF vars, EngineInv, SamplesOf
  <2> QED
    BY <2>1, <2>2 DEF Next
<1> QED
  BY <1>1, EngineStarts, PTL DEF Spec

(* Every decision of either engine stays within its configuration, and     *)
(* rates of zero and one are exact.                                        *)
THEOREM DecisionsAreBounded == Spec => []DecisionsInBounds
<1>1. EngineInv => DecisionsInBounds
  <2> SUFFICES ASSUME EngineInv PROVE DecisionsInBounds
    OBVIOUS
  <2>1. \A e \in Engines : \A i \in DOMAIN outcomes[e] :
          Bounded(config[e], input[i - 1], outcomes[e][i])
    <3> TAKE e \in Engines
    <3> TAKE i \in DOMAIN outcomes[e]
    <3>1. DOMAIN outcomes[e] = 1 .. packetIndex[e] /\ packetIndex[e] \in 0 .. MaxPackets
      BY DEF EngineInv
    <3>2. /\ i \in 1 .. packetIndex[e] /\ packetIndex[e] \in 0 .. MaxPackets
          /\ outcomes[e][i] = Decide(config[e], SamplesOf(i - 1), input[i - 1])
      BY <3>1 DEF EngineInv
    <3>3. i - 1 \in 0 .. MaxPackets - 1
      BY <3>2, InputAssumption
    <3>4. /\ SamplesOf(i - 1) \in [1 .. DrawsPerPacket -> Sample]
          /\ input[i - 1] \in Nat /\ config[e] \in Configuration
      BY <3>3, SamplesOfType, InputAssumption DEF EngineInv
    <3> QED
      BY <3>2, <3>4, DecisionBounded
  <2> QED
    BY <2>1 DEF DecisionsInBounds, Bounded, Respects
<1> QED
  BY <1>1, EnginesCorrect, PTL

(* What both engines have decided, they decided from the same samples.     *)
LEMMA ComparedDecisions ==
  ASSUME EngineInv, NEW i \in Compared
  PROVE  /\ i - 1 \in 0 .. MaxPackets - 1
         /\ outcomes["a"][i] = Decide(config["a"], SamplesOf(i - 1), input[i - 1])
         /\ outcomes["b"][i] = Decide(config["b"], SamplesOf(i - 1), input[i - 1])
         /\ config["a"] \in Configuration /\ config["b"] \in Configuration
<1>1. "a" \in Engines /\ "b" \in Engines
  BY DEF Engines
<1>2. \A e \in Engines : DOMAIN outcomes[e] = 1 .. packetIndex[e] /\ packetIndex[e] \in 0 .. MaxPackets
  BY DEF EngineInv
<1>3. i \in 1 .. packetIndex["a"] /\ i \in 1 .. packetIndex["b"] /\ packetIndex["a"] \in 0 .. MaxPackets
  BY <1>1, <1>2 DEF Compared
<1>4. i - 1 \in 0 .. MaxPackets - 1
  BY <1>3, InputAssumption
<1> QED
  BY <1>1, <1>3, <1>4 DEF EngineInv

(* A setting that changes shifts no decision about the others.             *)
THEOREM UnrelatedDecisionsAgree == Spec => []UnrelatedChangesDoNotShift
<1>1. EngineInv => UnrelatedChangesDoNotShift
  <2> SUFFICES ASSUME EngineInv PROVE UnrelatedChangesDoNotShift
    OBVIOUS
  <2>1. \A i \in Compared :
          /\ outcomes["a"][i] = Decide(config["a"], SamplesOf(i - 1), input[i - 1])
          /\ outcomes["b"][i] = Decide(config["b"], SamplesOf(i - 1), input[i - 1])
    BY ComparedDecisions
  <2> QED
    BY <2>1, DecisionsAgree DEF UnrelatedChangesDoNotShift
<1> QED
  BY <1>1, EnginesCorrect, PTL

(* A higher loss rate loses every packet that a lower one does.            *)
THEOREM LossesGrow == Spec => []LossIsMonotone
<1>1. EngineInv => LossIsMonotone
  <2> SUFFICES ASSUME EngineInv, RateLeq(config["a"].loss, config["b"].loss),
                      NEW i \in Compared, outcomes["a"][i].copies = 0
               PROVE  outcomes["b"][i].copies = 0
    BY DEF LossIsMonotone
  <2> DEFINE samples == SamplesOf(i - 1)
  <2>1. samples[1] \in Sample
    <3>1. samples \in [1 .. DrawsPerPacket -> Sample]
      BY ComparedDecisions, SamplesOfType
    <3> HIDE DEF samples
    <3> QED
      BY <3>1 DEF DrawsPerPacket
  <2>2. /\ outcomes["a"][i] = Decide(config["a"], samples, input[i - 1])
        /\ outcomes["b"][i] = Decide(config["b"], samples, input[i - 1])
        /\ config["a"].loss \in RateType /\ config["b"].loss \in RateType
    BY ComparedDecisions DEF Configuration
  <2> HIDE DEF samples
  <2>3. ProbabilityHit(samples[1], config["a"].loss)
    BY <2>2 DEF Decide
  <2>4. ProbabilityHit(samples[1], config["b"].loss)
    BY <2>1, <2>2, <2>3, HitIsMonotone
  <2> QED
    BY <2>2, <2>4 DEF Decide
<1> QED
  BY <1>1, EnginesCorrect, PTL
=============================================================================
