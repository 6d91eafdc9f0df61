---------------------------- MODULE MCLinkRuntime ---------------------------
(* Small instances of the link emulator.                                    *)
EXTENDS LinkRuntime

TwoBits == INSTANCE Impairments WITH Unit <- 4

Decision(copies, corrupted, delay, hold) ==
  [copies |-> copies, corrupted |-> corrupted, delay |-> delay, hold |-> hold]

(* The decisions are picked by hand; the assumptions below say which        *)
(* configuration of the engine they come from.                              *)

(* Every impairment on its own, and the pairs that interact.                *)
MixedOutcomes ==
  {Lost, Decision(1, FALSE, 0, 0), Decision(2, TRUE, 1, 0), Decision(1, FALSE, 0, 1),
   Decision(2, FALSE, 0, 1)}

(* Holds and delays that let packets overtake each other twice.             *)
HeldOutcomes ==
  {Lost, Decision(1, FALSE, 0, 0), Decision(1, FALSE, 0, 2), Decision(2, FALSE, 1, 0)}

(* Jitter with a reorder window of zero.                                    *)
JitterOutcomes == {Decision(1, FALSE, 0, 0), Decision(1, FALSE, 1, 0)}

Half == TwoBits!Rate(1, 2)
Of(loss, duplicate, corrupt, latency, jitter, window) ==
  TwoBits!OutcomesOf(TwoBits!Config(loss, duplicate, corrupt, latency, jitter, window))

ASSUME MixedAreDecisions == MixedOutcomes \subseteq Of(Half, Half, Half, 0, 1, 1)
ASSUME HeldAreDecisions == HeldOutcomes \subseteq Of(Half, Half, TwoBits!Never, 1, 1, 2)
ASSUME JitterAreDecisions ==
  JitterOutcomes = Of(TwoBits!Never, TwoBits!Never, TwoBits!Never, 0, 1, 0)
=============================================================================
