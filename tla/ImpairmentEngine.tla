-------------------------- MODULE ImpairmentEngine --------------------------
(***************************************************************************)
(* Two impairment engines with the same seed and the same input datagrams  *)
(* and two configurations.  The seed gives one stream of samples, which    *)
(* is arbitrary here; each engine draws from it at its own position.  This *)
(* is the experiment ADR 0001 is about: change one rate, keep the rest of  *)
(* the run comparable.                                                     *)
(***************************************************************************)
EXTENDS Impairments, Sequences

CONSTANTS
  ConfigPairs,  (* the pairs of configurations to compare                  *)
  Streams,      (* the streams of samples the seeds stand for              *)
  PayloadBits,  (* the sizes an input datagram may have                    *)
  MaxPackets    (* bound: packets fed to each engine                       *)

Engines == {"a", "b"}
DrawsPerPacket == 6

ASSUME StreamsAssumption ==
  Streams \subseteq [1 .. DrawsPerPacket * MaxPackets -> Sample]
ASSUME ConfigsAssumption == ConfigPairs \subseteq Configuration \X Configuration
ASSUME InputAssumption == PayloadBits \subseteq Nat /\ MaxPackets \in Nat

VARIABLES
  stream,       (* the samples the seed stands for                         *)
  input,        (* the size of each datagram                               *)
  config,       (* the configuration of each engine                        *)
  drawn,        (* how many samples each engine has drawn                  *)
  packetIndex,
  outcomes      (* the decisions of each engine, in order                  *)

vars == <<stream, input, config, drawn, packetIndex, outcomes>>

(* Mutant: the corruption bit is drawn only when a packet is corrupted.    *)
DrawsWhenNeeded(e, samples) ==
  IF ProbabilityHit(samples[3], config[e].corrupt) THEN 6 ELSE 5

Draws(e, samples) == DrawsPerPacket

(* ImpairmentEngine.process                                                *)
Process(e) ==
  LET samples == [i \in 1 .. DrawsPerPacket |-> stream[drawn[e] + i]]
      p == packetIndex[e]
  IN  /\ p < MaxPackets
      /\ drawn' = [drawn EXCEPT ![e] = @ + Draws(e, samples)]
      /\ packetIndex' = [packetIndex EXCEPT ![e] = @ + 1]
      /\ outcomes' = [outcomes EXCEPT ![e] = Append(@, Decide(config[e], samples, input[p]))]
      /\ UNCHANGED <<stream, input, config>>

Init ==
  /\ stream \in Streams
  /\ input \in [0 .. MaxPackets - 1 -> PayloadBits]
  /\ \E pair \in ConfigPairs : config = [e \in Engines |-> IF e = "a" THEN pair[1] ELSE pair[2]]
  /\ drawn = [e \in Engines |-> 0]
  /\ packetIndex = [e \in Engines |-> 0]
  /\ outcomes = [e \in Engines |-> <<>>]

(* The engines do not interact: b follows a packet by packet.              *)
Next ==
  \/ packetIndex["a"] = packetIndex["b"] /\ Process("a")
  \/ packetIndex["a"] > packetIndex["b"] /\ Process("b")

Spec == Init /\ [][Next]_vars

-----------------------------------------------------------------------------
(* Every delay is within the jitter of the latency, every hold within the  *)
(* window, every corrupted bit inside the payload; and a rate of zero      *)
(* never selects its impairment, a rate of one always (ADR 0001,           *)
(* probability mapping), however the samples fall.                         *)
DecisionsInBounds ==
  \A e \in Engines : \A i \in DOMAIN outcomes[e] :
    LET o == outcomes[e][i]
        c == config[e]
        Respects(rate, hit) == (rate.num = 0 => ~hit) /\ (rate.num = rate.den => hit)
    IN  /\ Respects(c.loss, o.copies = 0)
        /\ o.copies > 0 =>
             /\ o.delay \in (c.latency - c.jitter) .. (c.latency + c.jitter)
                  \/ (o.delay = 0 /\ c.latency < c.jitter)
             /\ o.hold \in 0 .. c.window
             /\ Respects(c.duplicate, o.copies = 2)
             /\ o.corruptedBit = NoBit \/ o.corruptedBit \in 0 .. input[i - 1] - 1
             /\ input[i - 1] > 0 => Respects(c.corrupt, o.corruptedBit # NoBit)

Compared == DOMAIN outcomes["a"] \cap DOMAIN outcomes["b"]

(* Changing one setting leaves the decisions about the others as they      *)
(* were, in this packet and in every later one: "unrelated configuration   *)
(* changes do not shift the pseudo-random stream".                         *)
UnrelatedChangesDoNotShift ==
  \A i \in Compared :
    LET a == outcomes["a"][i]
        b == outcomes["b"][i]
        Same(setting) == config["a"][setting] = config["b"][setting]
    IN  /\ Same("loss") => (a.copies = 0 <=> b.copies = 0)
        /\ (a.copies > 0 /\ b.copies > 0) =>
             /\ Same("duplicate") => a.copies = b.copies
             /\ Same("corrupt") => a.corruptedBit = b.corruptedBit
             /\ Same("latency") /\ Same("jitter") => a.delay = b.delay
             /\ Same("window") => a.hold = b.hold

(* Raising the loss rate only adds losses: no packet that was lost at the  *)
(* lower rate survives at the higher one.                                  *)
LossIsMonotone ==
  RateLeq(config["a"].loss, config["b"].loss) =>
    \A i \in Compared : outcomes["a"][i].copies = 0 => outcomes["b"][i].copies = 0
=============================================================================
