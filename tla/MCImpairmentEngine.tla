------------------------- MODULE MCImpairmentEngine -------------------------
(* Pairs of configurations that differ in one setting each.                 *)
EXTENDS ImpairmentEngine

Half == Rate(1, 2)
Third == Rate(1, 3)
Base == Config(Third, Half, Half, 1, 1, 1)

OneChange ==
  { <<Base, [Base EXCEPT !.loss = Never]>>,
    <<Base, [Base EXCEPT !.loss = Half]>>,
    <<Base, [Base EXCEPT !.duplicate = Always]>>,
    <<Base, [Base EXCEPT !.corrupt = Never]>>,
    <<[Base EXCEPT !.latency = 0], [Base EXCEPT !.latency = 0, !.jitter = 0]>>,
    <<Base, [Base EXCEPT !.loss = Always]>>,
    <<Base, [Base EXCEPT !.window = 0]>> }

(* Any samples on both sides of every threshold for the first packet, and   *)
(* one row for the second whose neighbours all decide differently: a shift  *)
(* of the stream by one sample is visible.                                  *)
OneFreePacket ==
  LET SecondPacket == <<3, 0, 3, 0, 3, 1>>
  IN  { [i \in 1 .. 2 * DrawsPerPacket |->
           IF i <= DrawsPerPacket THEN first[i] ELSE SecondPacket[i - DrawsPerPacket]]
        : first \in [1 .. DrawsPerPacket -> {0, 1, 3}] }
=============================================================================
