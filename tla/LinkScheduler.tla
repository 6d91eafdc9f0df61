--------------------------- MODULE LinkScheduler ----------------------------
(***************************************************************************)
(* The pure scheduling rules of the link emulator: which deliveries one    *)
(* impairment decision creates, when a pending delivery may leave, and in  *)
(* which order the ready ones leave.                                       *)
(*                                                                         *)
(* A decision is the record                                                *)
(*   copies     0 (lost), 1, or 2 (duplicated)                             *)
(*   corrupted  whether one bit of the payload was flipped                 *)
(*   delay      how long every copy waits                                  *)
(*   hold       how many later packets must have been received first       *)
(***************************************************************************)
EXTENDS Integers, FiniteSets

(* The decisions for a lost packet carry no deliveries and so no detail.   *)
Lost == [copies |-> 0, corrupted |-> FALSE, delay |-> 0, hold |-> 0]

(* Mutant: one copy too many.                                              *)
DeliveriesOneMore(outcome, packet, receivedAt) ==
  { [due    |-> receivedAt + outcome.delay,
     packet |-> packet,
     copy   |-> c,
     after  |-> packet + outcome.hold] : c \in 0 .. outcome.copies }

Deliveries(outcome, packet, receivedAt) ==
  { [due    |-> receivedAt + outcome.delay,
     packet |-> packet,
     copy   |-> c,
     after  |-> packet + outcome.hold] : c \in 0 .. outcome.copies - 1 }

(* Mutant: the end of the input releases nothing.                          *)
EligibleByCountOnly(d, highest, releaseHolds) == d.after <= highest

(* The packet hold is over: enough packets were received, or input ended.  *)
Eligible(d, highest, releaseHolds) == releaseHolds \/ d.after <= highest

(* Mutants: the hold is ignored; the hold lasts one packet too long.       *)
ReadyIgnoringHolds(pending, t, highest, releaseHolds) ==
  {d \in pending : d.due <= t}

ReadyOneLate(pending, t, highest, releaseHolds) ==
  {d \in pending : d.due <= t /\ (releaseHolds \/ d.after < highest)}

ReadyAt(pending, t, highest, releaseHolds) ==
  {d \in pending : d.due <= t /\ Eligible(d, highest, releaseHolds)}

(* Mutant: the copy is compared before the packet.                         *)
BeforeByCopy(d, e) ==
  \/ d.due < e.due
  \/ d.due = e.due /\ d.copy < e.copy
  \/ d.due = e.due /\ d.copy = e.copy /\ d.packet < e.packet

(* The order of the heap: due time, then packet, then copy.  Packet and    *)
(* copy name a delivery, so the last field of the key is never compared.   *)
Before(d, e) ==
  \/ d.due < e.due
  \/ d.due = e.due /\ d.packet < e.packet
  \/ d.due = e.due /\ d.packet = e.packet /\ d.copy < e.copy

First(ready) == CHOOSE d \in ready : \A e \in ready : ~Before(e, d)

(* Mutant: deliveries still held are counted.                              *)
NextDeadlineOfAll(pending, highest, releaseHolds) ==
  {d.due : d \in {e \in pending : \A f \in pending : e.due <= f.due}}

(* next_deadline_ns: a set of at most one time, empty when nothing that    *)
(* is pending may leave.                                                   *)
NextDeadline(pending, highest, releaseHolds) ==
  LET times == {d.due : d \in {e \in pending : Eligible(e, highest, releaseHolds)}}
  IN  {t \in times : \A u \in times : t <= u}
=============================================================================
