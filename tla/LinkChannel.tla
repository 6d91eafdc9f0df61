----------------------------- MODULE LinkChannel ----------------------------
(***************************************************************************)
(* What the link emulator promises its users, whatever its loop looks      *)
(* like: a channel that may lose, duplicate, delay and reorder, but        *)
(*   - delivers only copies of accepted packets, each at most once;        *)
(*   - delivers none before its delay has passed;                          *)
(*   - delivers a held one only after the packets it is held for, unless   *)
(*     the input has ended;                                                *)
(*   - ends of itself only before it accepted anything, or after the input *)
(*     has ended and every copy was delivered; an interruption may discard *)
(*     what is waiting.                                                    *)
(***************************************************************************)
EXTENDS LinkScheduler, Sequences

CONSTANT Outcomes    (* the decisions the configuration can produce        *)

VARIABLES
  time,
  up,          (* the channel is open                                      *)
  accepted,    (* how many packets it has accepted                         *)
  waiting,     (* the accepted copies that were not delivered yet          *)
  delivered,   (* what the other side received, in order                   *)
  inputEnded,
  interrupted

channel == <<up, accepted, waiting, delivered, inputEnded, interrupted>>
vars == <<time, channel>>

Init ==
  /\ time = 0 /\ up = FALSE /\ accepted = 0 /\ waiting = {}
  /\ delivered = <<>> /\ inputEnded = FALSE /\ interrupted = FALSE

Start ==
  /\ ~up /\ up' = TRUE
  /\ accepted' = 0 /\ waiting' = {} /\ delivered' = <<>>
  /\ inputEnded' = FALSE /\ interrupted' = FALSE
  /\ UNCHANGED time

Accept(o) ==
  /\ up /\ ~inputEnded /\ ~interrupted
  /\ waiting' = waiting \cup Deliveries(o, accepted, time)
  /\ accepted' = accepted + 1
  /\ inputEnded' \in BOOLEAN
  /\ UNCHANGED <<time, up, delivered, interrupted>>

Deliver(d) ==
  /\ up /\ ~interrupted
  /\ d \in waiting
  /\ d.due <= time
  /\ Eligible(d, accepted - 1, inputEnded)
  /\ waiting' = waiting \ {d}
  /\ delivered' = Append(delivered, d)
  /\ interrupted' \in BOOLEAN
  /\ UNCHANGED <<time, up, accepted, inputEnded>>

Interrupt ==
  /\ up /\ ~interrupted
  /\ interrupted' = TRUE
  /\ UNCHANGED <<time, up, accepted, waiting, delivered, inputEnded>>

End ==
  /\ up
  /\ interrupted \/ (waiting = {} /\ (inputEnded \/ accepted = 0))
  /\ up' = FALSE /\ interrupted' = FALSE
  /\ waiting' = {}
  /\ UNCHANGED <<time, accepted, delivered, inputEnded>>

Pass == time' = time + 1 /\ UNCHANGED channel

Next ==
  \/ Start \/ Interrupt \/ End \/ Pass
  \/ \E o \in Outcomes : Accept(o)
  \/ \E d \in waiting : Deliver(d)

Spec == Init /\ [][Next]_vars
=============================================================================
