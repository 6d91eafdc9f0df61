----------------------------- MODULE Impairments ----------------------------
(***************************************************************************)
(* How the impairment engine turns six random samples and a configuration  *)
(* into the decision for one packet.  A sample has Unit values instead of  *)
(* 2^64; a rate is the fraction a float is (as_integer_ratio).             *)
(***************************************************************************)
EXTENDS Integers

CONSTANT Unit   (* how many values a sample may have                       *)

ASSUME UnitAssumption == Unit \in Nat \ {0}

Sample == 0 .. Unit - 1

Rate(num, den) == [num |-> num, den |-> den]
Never  == Rate(0, 1)
Always == Rate(1, 1)

RateLeq(r, q) == r.num * q.den <= q.num * r.den

(* What LinkConfig accepts: rates from zero to one, no negative number.    *)
RateType == {r \in [num : Nat, den : Nat \ {0}] : r.num <= r.den}
Configuration ==
  [loss : RateType, duplicate : RateType, corrupt : RateType,
   latency : Nat, jitter : Nat, window : Nat]

Config(loss, duplicate, corrupt, latency, jitter, window) ==
  [loss |-> loss, duplicate |-> duplicate, corrupt |-> corrupt,
   latency |-> latency, jitter |-> jitter, window |-> window]

(* Mutant: the threshold is kept in as many bits as a sample.              *)
ProbabilityHitOverflowing(sample, rate) ==
  sample < ((rate.num * Unit) \div rate.den) % Unit

ProbabilityHit(sample, rate) ==
  \/ rate.num >= rate.den
  \/ rate.num > 0 /\ sample < (rate.num * Unit) \div rate.den

(* Multiply-high: the sample scaled into 0 .. bound - 1.                   *)
Scale(sample, bound) == (sample * bound) \div Unit

(* Mutant: the jitter interval is not centred on the latency.              *)
DelayUncentred(config, sample) == config.latency + Scale(sample, 2 * config.jitter + 1)

Delay(config, sample) ==
  LET offset == IF config.jitter = 0 THEN 0
                ELSE Scale(sample, 2 * config.jitter + 1) - config.jitter
      delay  == config.latency + offset
  IN  IF delay > 0 THEN delay ELSE 0

Hold(config, sample) ==
  IF config.window = 0 THEN 0 ELSE Scale(sample, config.window + 1)

NoBit == -1

(* The decision for a payload of that many bits.  Loss hides every other   *)
(* decision; an empty payload cannot be corrupted.                         *)
Decide(config, samples, bits) ==
  IF ProbabilityHit(samples[1], config.loss)
  THEN [copies |-> 0, corruptedBit |-> NoBit, delay |-> 0, hold |-> 0]
  ELSE [copies       |-> IF ProbabilityHit(samples[2], config.duplicate) THEN 2 ELSE 1,
        corruptedBit |-> IF ProbabilityHit(samples[3], config.corrupt) /\ bits > 0
                         THEN Scale(samples[6], bits) ELSE NoBit,
        delay        |-> Delay(config, samples[4]),
        hold         |-> Hold(config, samples[5])]

(* The decisions, as the link runtime tells them apart, that some samples  *)
(* lead to when every datagram has a payload.                              *)
OutcomesOf(config) ==
  { LET d == Decide(config, samples, 8)
    IN  [copies |-> d.copies, corrupted |-> d.corruptedBit # NoBit,
         delay |-> d.delay, hold |-> d.hold] : samples \in [1..6 -> Sample] }
=============================================================================
