------------------------ MODULE LinkRefinementProofs ------------------------
(***************************************************************************)
(* The link emulator implements the abstract channel, for every impairment *)
(* configuration, any number of packets and any faults: each step of the   *)
(* thread, of the caller and of the network is one step of LinkChannel     *)
(* under the mapping of LinkRuntime!Channel, or none at all.               *)
(***************************************************************************)
EXTENDS LinkRuntimeProofs

(* What the mapping rests on.  The sockets are open throughout run(); only *)
(* a run that ended has a reason to have ended; the heap and the popped    *)
(* batch are disjoint; the batch holds what was due and released; holds    *)
(* are released exactly while the run drains; and a run that ended of      *)
(* itself left nothing behind.                                             *)
ChannelInv ==
  /\ phase \in {"opened", "loop", "send", "receive", "finally"} => isOpen
  /\ phase = "closed" => ~isOpen
  /\ phase \in {"opened", "loop", "send", "receive"} => ending = "none"
  /\ phase \in {"finally", "unwind"} => ending # "none"
  /\ phase \in {"opened", "loop", "receive"} => ready = {}
  /\ phase = "opened" => pending = {} /\ highest = -1 /\ ~releaseHolds
  /\ phase \in {"loop", "send", "receive"} => releaseHolds = draining
  /\ phase = "receive" => ~draining
  /\ pending \cap ready = {}
  /\ \A d \in ready : d.due <= nowNs /\ Eligible(d, highest, releaseHolds)
  /\ isOpen /\ ending = "drained" => pending = {} /\ ready = {} /\ releaseHolds
  /\ phase = "unwind" /\ isOpen => ending \in {"stopped", "failed"}

(* When holds are released, a heap that is not empty has a deadline.       *)
LEMMA DrainedIsEmpty ==
  ASSUME TypeOK, releaseHolds, NextDeadline(pending, highest, releaseHolds) = {}
  PROVE  pending = {}
<1> SUFFICES ASSUME pending # {} PROVE FALSE
  OBVIOUS
<1> DEFINE Times == {d.due : d \in {e \in pending : Eligible(e, highest, releaseHolds)}}
<1>1. Times \in SUBSET Nat /\ Times # {}
  BY DEF TypeOK, Delivery, Eligible
<1>2. PICK t \in Times : \A u \in Times : t <= u
  BY <1>1, LeastNat
<1> QED
  BY <1>2 DEF NextDeadline

(* The invariant of the mapping holds in every reachable state.            *)
THEOREM ChannelInvCorrect == Spec => []ChannelInv
<1>1. Init => ChannelInv
  BY DEF Init, ChannelInv
<1>2. TypeOK /\ ChannelInv /\ [Next]_vars => ChannelInv'
  <2> SUFFICES ASSUME TypeOK, ChannelInv, [Next]_vars PROVE ChannelInv'
    OBVIOUS
  <2> USE DEF ChannelInv
  <2>1. CASE CallerCloses
    BY <2>1 DEF CallerCloses, scheduler, loop
  <2>2. CASE StopSeen
    BY <2>2 DEF StopSeen, scheduler, loop
  <2>3. CASE PopReady
    <3>1. \A d \in ready' : d.due <= nowNs' /\ Eligible(d, highest', releaseHolds')
      BY <2>3 DEF PopReady, ReadyAt
    <3>2. pending' \cap ready' = {}
      BY <2>3 DEF PopReady
    <3> QED
      BY <2>3, <3>1, <3>2 DEF PopReady, loop
  <2>4. CASE SendNext
    <3>1. ready' \subseteq ready /\ UNCHANGED <<pending, highest, releaseHolds, nowNs>>
      BY <2>4 DEF SendNext, scheduler
    <3>2. \/ UNCHANGED <<phase, ending>>
          \/ phase' = "finally" /\ ending' = "failed"
      BY <2>4 DEF SendNext
    <3> QED
      BY <2>4, <3>1, <3>2 DEF SendNext, loop
  <2>5. CASE SendFails
    BY <2>5 DEF SendFails, scheduler, loop
  <2>6. CASE DrainDone
    <3>1. pending = {}
      BY <2>6, DrainedIsEmpty DEF DrainDone
    <3> QED
      BY <2>6, <3>1 DEF DrainDone, scheduler, loop
  <2>7. CASE DrainSleeps
    BY <2>7 DEF DrainSleeps, scheduler, loop
  <2>8. CASE BlockInReceive
    BY <2>8 DEF BlockInReceive, scheduler, loop
  <2>9. CASE ReceiveTimesOut
    BY <2>9 DEF ReceiveTimesOut, scheduler, loop
  <2>10. ASSUME NEW o \in Outcomes, Receive(o) PROVE ChannelInv'
    <3>1. ready = {} /\ ready' = {} /\ isOpen /\ isOpen' /\ ~draining /\ ~releaseHolds
      BY <2>10 DEF Receive
    <3>2. \/ /\ phase' = "loop" /\ ending' = "none"
             /\ releaseHolds' = (releaseHolds \/ draining')
             /\ draining' \in BOOLEAN
          \/ phase' = "finally" /\ ending' = "failed"
      BY <2>10 DEF Receive, LimitReached
    <3> QED
      BY <3>1, <3>2
  <2>11. CASE Finish
    BY <2>11 DEF Finish, scheduler, loop
  <2>12. CASE Open
    BY <2>12 DEF Open, FreshSession, loop
  <2>13. CASE StartRun
    BY <2>13 DEF StartRun, TypeOK, scheduler
  <2>14. CASE Arrive
    BY <2>14 DEF Arrive, scheduler, loop
  <2>15. CASE RequestStop
    BY <2>15 DEF RequestStop, scheduler
  <2>16. CASE Tick
    BY <2>16 DEF Tick, scheduler, loop
  <2>17. CASE UNCHANGED vars
    BY <2>17 DEF vars, scheduler, loop
  <2>18. CASE InterruptAtHeader
    BY <2>18 DEF InterruptAtHeader, TypeOK, scheduler
  <2>19. CASE InterruptAtSummary
    BY <2>19 DEF InterruptAtSummary, scheduler, loop
  <2> QED
    BY <2>1, <2>2, <2>3, <2>4, <2>5, <2>6, <2>7, <2>8, <2>9, <2>10, <2>11, <2>12,
       <2>13, <2>14, <2>15, <2>16, <2>17, <2>18, <2>19 DEF Next, Thread, Environment
<1> QED
  BY <1>1, <1>2, TypeCorrect, PTL DEF Spec

-----------------------------------------------------------------------------
(* The variables of the channel, as the mapping gives them.                *)
Waiting == IF isOpen THEN pending \cup ready ELSE {}
Interrupted == isOpen /\ ending \in {"stopped", "failed"}

(* Mapped steps: nothing the channel has changes.                          *)
Stutters ==
  UNCHANGED <<now, isOpen, highest, Waiting, sent, releaseHolds, Interrupted>>

(* Such a step of the emulator is a stutter of the channel.                *)
LEMMA StutterStep ==
  ASSUME Stutters
  PROVE  [Channel!Next]_(Channel!vars)
  BY DEF Stutters, Waiting, Interrupted, Channel!vars, Channel!channel

(* The run is stopped or fails, and nothing else changes.                  *)
LEMMA InterruptStep ==
  ASSUME isOpen, isOpen', ending \notin {"stopped", "failed"}, ending' \in {"stopped", "failed"},
         UNCHANGED <<now, highest, sent, releaseHolds>>,
         pending' \cup ready' = pending \cup ready
  PROVE  Channel!Interrupt
  BY DEF Channel!Interrupt

(* The sockets are closed after an interruption, or with nothing left.     *)
LEMMA EndStep ==
  ASSUME isOpen, ~isOpen', UNCHANGED <<now, highest, sent, releaseHolds>>,
         \/ ending \in {"stopped", "failed"}
         \/ pending = {} /\ ready = {} /\ (releaseHolds \/ highest + 1 = 0)
  PROVE  Channel!End
  BY DEF Channel!End

(* The link emulator is a LinkChannel: what it forwards are copies of what *)
(* it received, each at most once, none early, none before its hold is     *)
(* over; and a run that ends of itself has forwarded every copy.           *)
THEOREM ChannelImplemented == Spec => ImplementsChannel
<1>1. Init => Channel!Init
  BY DEF Init, Channel!Init
<1>2. TypeOK /\ LoopInv /\ ChannelInv /\ [Next]_vars => [Channel!Next]_(Channel!vars)
  <2> SUFFICES ASSUME TypeOK, LoopInv, ChannelInv, [Next]_vars
               PROVE  [Channel!Next]_(Channel!vars)
    OBVIOUS
  <2> USE DEF ChannelInv
  <2>1. CASE CallerCloses
    <3>1. CASE isOpen
      <4>1. \/ ending \in {"stopped", "failed"}
            \/ pending = {} /\ ready = {} /\ highest + 1 = 0
        BY <2>1, <3>1 DEF CallerCloses
      <4> QED
        BY <2>1, <3>1, <4>1, EndStep DEF CallerCloses, scheduler, Channel!Next
    <3>2. CASE ~isOpen
      <4>1. Stutters
        BY <2>1, <3>2 DEF CallerCloses, TypeOK, scheduler, Stutters, Waiting, Interrupted
      <4> QED
        BY <4>1, StutterStep
    <3> QED
      BY <3>1, <3>2
  <2>2. CASE StopSeen
    <3>1. Channel!Interrupt
      BY <2>2, InterruptStep DEF StopSeen, scheduler
    <3> QED
      BY <3>1 DEF Channel!Next
  <2>3. CASE PopReady
    <3>1. pending' \cup ready' = pending \cup ready
      BY <2>3 DEF PopReady, ReadyAt
    <3>2. Stutters
      BY <2>3, <3>1 DEF PopReady, Stutters, Waiting, Interrupted
    <3> QED
      BY <3>2, StutterStep
  <2>4. CASE SendNext
    <3> DEFINE d == First(ready)
    <3>1. d \in ready
      BY <2>4, FirstIsMember DEF SendNext, TypeOK
    <3>2. /\ isOpen /\ isOpen' /\ ending = "none" /\ pending' = pending
          /\ ready' = ready \ {d} /\ sent' = Append(sent, d)
          /\ UNCHANGED <<now, highest, releaseHolds>>
      BY <2>4 DEF SendNext, scheduler
    <3>3. (pending \cup ready) \ {d} = pending' \cup ready'
      BY <3>1, <3>2
    <3>4. d.due <= now /\ Channel!Eligible(d, (highest + 1) - 1, releaseHolds)
      <4>1. d.due <= nowNs /\ Eligible(d, highest, releaseHolds)
        BY <3>1
      <4>2. d.due \in Nat /\ (highest + 1) - 1 = highest
        BY <3>1 DEF TypeOK, Delivery
      <4> QED
        BY <4>1, <4>2 DEF LoopInv, TypeOK, Eligible, Channel!Eligible
    <3>5. Channel!Deliver(d)
      BY <3>1, <3>2, <3>3, <3>4 DEF Channel!Deliver
    <3> QED
      BY <3>1, <3>2, <3>5 DEF Channel!Next
  <2>5. CASE SendFails
    <3>1. Channel!Interrupt
      BY <2>5, InterruptStep DEF SendFails, scheduler
    <3> QED
      BY <3>1 DEF Channel!Next
  <2>6. CASE DrainDone
    <3>1. Stutters
      BY <2>6 DEF DrainDone, scheduler, Stutters, Waiting, Interrupted
    <3> QED
      BY <3>1, StutterStep
  <2>7. CASE DrainSleeps
    <3>1. Stutters
      BY <2>7 DEF DrainSleeps, scheduler, Stutters, Waiting, Interrupted
    <3> QED
      BY <3>1, StutterStep
  <2>8. CASE BlockInReceive
    <3>1. Stutters
      BY <2>8 DEF BlockInReceive, scheduler, Stutters, Waiting, Interrupted
    <3> QED
      BY <3>1, StutterStep
  <2>9. CASE ReceiveTimesOut
    <3>1. Stutters
      BY <2>9 DEF ReceiveTimesOut, scheduler, Stutters, Waiting, Interrupted
    <3> QED
      BY <3>1, StutterStep
  <2>10. ASSUME NEW o \in Outcomes, Receive(o)
         PROVE  [Channel!Next]_(Channel!vars)
    <3>1. /\ isOpen /\ isOpen' /\ ending = "none" /\ ready = {} /\ ready' = {}
          /\ ~releaseHolds /\ packetIndex = highest + 1
          /\ UNCHANGED <<now, sent>>
      BY <2>10 DEF Receive, LoopInv
    <3>2. CASE ending' = "failed"
      <4>1. UNCHANGED <<highest, pending, releaseHolds>>
        BY <2>10, <3>1, <3>2 DEF Receive
      <4> QED
        BY <3>1, <3>2, <4>1, InterruptStep DEF Channel!Next
    <3>3. CASE ending' # "failed"
      <4>1. /\ ending' = "none" /\ highest' = packetIndex
            /\ pending' = pending \cup Deliveries(o, packetIndex, now)
            /\ releaseHolds' \in BOOLEAN
        BY <2>10, <3>1, <3>3 DEF Receive, TypeOK, LimitReached
      <4>2. highest' + 1 = highest + 1 + 1
        BY <3>1, <4>1
      <4>3. Channel!Deliveries(o, highest + 1, now) = Deliveries(o, packetIndex, now)
        BY <3>1 DEF Deliveries, Channel!Deliveries
      <4>4. Channel!Accept(o)
        BY <3>1, <4>1, <4>2, <4>3 DEF Channel!Accept
      <4> QED
        BY <4>4 DEF Channel!Next
    <3> QED
      BY <3>2, <3>3
  <2>11. CASE Finish
    <3>1. Channel!End
      BY <2>11, EndStep DEF Finish, scheduler, TypeOK
    <3> QED
      BY <3>1 DEF Channel!Next
  <2>12. CASE Open
    <3>1. Channel!Start
      BY <2>12 DEF Open, FreshSession, Channel!Start
    <3> QED
      BY <3>1 DEF Channel!Next
  <2>13. CASE StartRun
    <3>1. CASE ending' = "failed"
      BY <2>13, <3>1, InterruptStep DEF StartRun, scheduler, Channel!Next
    <3>2. CASE ending' # "failed"
      <4>1. Stutters
        BY <2>13, <3>2 DEF StartRun, scheduler, Stutters, Waiting, Interrupted
      <4> QED
        BY <4>1, StutterStep
    <3> QED
      BY <3>1, <3>2
  <2>14. CASE Arrive
    <3>1. Stutters
      BY <2>14 DEF Arrive, scheduler, Stutters, Waiting, Interrupted
    <3> QED
      BY <3>1, StutterStep
  <2>15. CASE RequestStop
    <3>1. Stutters
      BY <2>15 DEF RequestStop, scheduler, Stutters, Waiting, Interrupted
    <3> QED
      BY <3>1, StutterStep
  <2>16. CASE Tick
    <3>1. Channel!Pass
      BY <2>16 DEF Tick, scheduler, Channel!Pass, Channel!channel
    <3> QED
      BY <3>1 DEF Channel!Next
  <2>17. CASE UNCHANGED vars
    <3>1. Stutters
      BY <2>17 DEF vars, scheduler, Stutters, Waiting, Interrupted
    <3> QED
      BY <3>1, StutterStep
  <2>18. CASE InterruptAtHeader
    <3>1. Channel!Interrupt
      BY <2>18, InterruptStep DEF InterruptAtHeader, scheduler
    <3> QED
      BY <3>1 DEF Channel!Next
  <2>19. CASE InterruptAtSummary
    <3>1. /\ isOpen /\ UNCHANGED <<now, highest, pending, ready, sent, releaseHolds>>
          /\ ending' \in {"stopped", "failed"} /\ isOpen' \in BOOLEAN
          /\ ending \in {"stopped", "drained", "failed"}
      BY <2>19 DEF InterruptAtSummary, scheduler, TypeOK
    <3>2. CASE ~isOpen'
      <4>1. Channel!End
        BY <3>1, <3>2, EndStep
      <4> QED
        BY <4>1 DEF Channel!Next
    <3>3. CASE isOpen' /\ ending = "drained"
      <4>1. Channel!Interrupt
        BY <3>1, <3>3, InterruptStep
      <4> QED
        BY <4>1 DEF Channel!Next
    <3>4. CASE isOpen' /\ ending # "drained"
      <4>1. Stutters
        BY <3>1, <3>4 DEF Stutters, Waiting, Interrupted
      <4> QED
        BY <4>1, StutterStep
    <3> QED
      BY <3>1, <3>2, <3>3, <3>4
  <2> QED
    BY <2>1, <2>2, <2>3, <2>4, <2>5, <2>6, <2>7, <2>8, <2>9, <2>10, <2>11, <2>12,
       <2>13, <2>14, <2>15, <2>16, <2>17, <2>18, <2>19 DEF Next, Thread, Environment
<1> QED
  BY <1>1, <1>2, TypeCorrect, LoopCorrect, ChannelInvCorrect, PTL
     DEF Spec, ImplementsChannel, Channel!Spec
=============================================================================
