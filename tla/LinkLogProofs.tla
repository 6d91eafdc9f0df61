--------------------------- MODULE LinkLogProofs ----------------------------
(***************************************************************************)
(* What the link emulator sends and what it writes about it, for every     *)
(* configuration, any number of packets and any faults: the order in which *)
(* deliveries leave, and the truth of the event log about them.            *)
(***************************************************************************)
EXTENDS LinkRuntimeProofs

(* The run was opened and nothing has ended it yet.                        *)
Going == phase \in {"opened", "loop", "send", "receive"}

Key(d) == <<d.packet, d.copy>>
Unheld(d) == d.after = d.packet

Waiting == pending \cup ready

-----------------------------------------------------------------------------
(* The deliveries of a run: where they are, how they are told apart, and   *)
(* what the heap's order says of those that still wait.                    *)

(* Nothing the run handles is newer than the newest packet it scheduled,   *)
(* and what was popped was due when the loop last read its clock.          *)
Bounded ==
  /\ \A d \in Waiting : d.packet <= highest
  /\ \A d \in ready : d.due <= nowNs
  /\ \A j \in DOMAIN sent : sent[j].packet <= highest /\ sent[j].due <= nowNs

(* A packet index and a copy index name one delivery, which is in one      *)
(* place.                                                                  *)
Distinct ==
  /\ pending \cap ready = {}
  /\ \A d, e \in Waiting : Key(d) = Key(e) => d = e
  /\ \A d \in Waiting : \A j \in DOMAIN sent : Key(sent[j]) # Key(d)
  /\ \A i, j \in DOMAIN sent : Key(sent[i]) = Key(sent[j]) => i = j

(* No delivery that is not held waits behind one that comes after it in    *)
(* the order of the heap.                                                  *)
Ordered ==
  /\ \A e \in Waiting : Unheld(e) => \A j \in DOMAIN sent : ~Before(e, sent[j])
  /\ \A e \in pending : Unheld(e) => \A d \in ready : ~Before(e, d)

QueueInv ==
  /\ sent \in Seq(Delivery)
  /\ UnheldLeaveInOrder
  /\ Going =>
       /\ phase # "send" => ready = {}
       /\ phase # "opened" /\ draining => releaseHolds
       /\ Bounded /\ Distinct /\ Ordered

(* A step that touches no delivery and no clock reading of the loop.       *)
LEMMA QueueKept ==
  ASSUME QueueInv, UNCHANGED <<pending, ready, sent, highest, nowNs>>,
         Going' => /\ Going
                   /\ phase' # "send" => ready = {}
                   /\ phase' # "opened" /\ draining' => releaseHolds'
  PROVE  QueueInv'
<1>1. sent' \in Seq(Delivery) /\ UnheldLeaveInOrder'
  BY DEF QueueInv, UnheldLeaveInOrder
<1>2. ASSUME Going' PROVE Bounded' /\ Distinct' /\ Ordered'
  <2>1. Bounded /\ Distinct /\ Ordered
    BY <1>2 DEF QueueInv
  <2>2. Bounded'
    BY <2>1 DEF Bounded, Waiting
  <2>3. Distinct'
    BY <2>1 DEF Distinct, Waiting
  <2>4. Ordered'
    BY <2>1 DEF Ordered, Waiting
  <2> QED
    BY <2>2, <2>3, <2>4
<1> QED
  BY <1>1, <1>2 DEF QueueInv

(* Sending takes the first of the ready deliveries.                        *)
LEMMA QueueSent ==
  ASSUME TypeOK, QueueInv, SendNext
  PROVE  QueueInv'
<1> DEFINE d == First(ready)
<1>1. d \in ready /\ \A e \in ready : ~Before(e, d)
  BY FirstIsMember DEF SendNext, TypeOK
<1>2. d \in Delivery
  BY <1>1 DEF TypeOK
<1>3. /\ Going /\ phase = "send"
      /\ sent' = Append(sent, d) /\ ready' = ready \ {d}
      /\ UNCHANGED <<pending, highest, nowNs, releaseHolds, draining>>
  BY DEF SendNext, Going, scheduler, loop
<1> HIDE DEF d
<1>4. Bounded /\ Distinct /\ Ordered /\ sent \in Seq(Delivery)
  BY <1>3 DEF QueueInv
<1>5. /\ sent' \in Seq(Delivery)
      /\ DOMAIN sent' = DOMAIN sent \cup {Len(sent) + 1}
      /\ \A j \in DOMAIN sent : sent'[j] = sent[j]
      /\ sent'[Len(sent) + 1] = d
  BY <1>2, <1>3, <1>4
<1>6. \A j \in DOMAIN sent : j \in Nat /\ j < Len(sent) + 1 /\ j # Len(sent) + 1
  BY <1>4
<1>7. Waiting' = (pending \cup ready) \ {d}
  BY <1>1, <1>3, <1>4 DEF Distinct, Waiting
<1>8. Bounded'
  BY <1>1, <1>3, <1>4, <1>5, <1>7 DEF Bounded, Waiting
<1>9. Distinct'
  <2>1. pending' \cap ready' = {}
    BY <1>3, <1>4 DEF Distinct
  <2>2. \A e, f \in Waiting' : Key(e) = Key(f) => e = f
    BY <1>4, <1>7 DEF Distinct, Waiting
  <2>3. \A e \in Waiting' : \A j \in DOMAIN sent' : Key(sent'[j]) # Key(e)
    BY <1>1, <1>4, <1>5, <1>7 DEF Distinct, Waiting
  <2>4. \A i, j \in DOMAIN sent' : Key(sent'[i]) = Key(sent'[j]) => i = j
    BY <1>1, <1>4, <1>5 DEF Distinct, Waiting
  <2> QED
    BY <2>1, <2>2, <2>3, <2>4 DEF Distinct
<1>10. Ordered'
  <2>1. \A e \in Waiting : Unheld(e) => ~Before(e, d)
    BY <1>1, <1>4 DEF Ordered, Waiting
  <2>2. \A e \in Waiting' : Unheld(e) => \A j \in DOMAIN sent' : ~Before(e, sent'[j])
    BY <2>1, <1>4, <1>5, <1>7 DEF Ordered, Waiting
  <2>3. \A e \in pending' : Unheld(e) => \A f \in ready' : ~Before(e, f)
    BY <1>3, <1>4 DEF Ordered
  <2> QED
    BY <2>2, <2>3 DEF Ordered
<1>11. UnheldLeaveInOrder'
  <2> SUFFICES ASSUME NEW i \in DOMAIN sent', NEW j \in DOMAIN sent', i < j,
                      Unheld(sent'[j])
               PROVE  ~Before(sent'[j], sent'[i])
    BY DEF UnheldLeaveInOrder, Unheld
  <2>1. i \in DOMAIN sent
    BY <1>5, <1>6
  <2>2. CASE j \in DOMAIN sent
    BY <2>1, <2>2, <1>5 DEF QueueInv, UnheldLeaveInOrder, Unheld
  <2>3. CASE j = Len(sent) + 1
    BY <2>1, <2>3, <1>1, <1>4, <1>5 DEF Ordered, Waiting
  <2> QED
    BY <2>2, <2>3, <1>5
<1>12. phase' \in {"send", "finally"}
  BY DEF SendNext
<1>13. draining => releaseHolds
  BY <1>3 DEF QueueInv
<1> QED
  BY <1>3, <1>5, <1>8, <1>9, <1>10, <1>11, <1>12, <1>13 DEF QueueInv, Going

(* Popping takes all that is due and released; a delivery that is not held *)
(* and stays behind is due later than any of them.                         *)
LEMMA QueuePopped ==
  ASSUME TypeOK, LoopInv, QueueInv, PopReady
  PROVE  QueueInv'
<1>1. /\ Going /\ phase = "loop" /\ phase' = "send" /\ nowNs' = now
      /\ ready' = ReadyAt(pending, now, highest, releaseHolds)
      /\ pending' = pending \ ready'
      /\ UNCHANGED <<sent, highest, releaseHolds, draining>>
  BY DEF PopReady, Going, loop
<1>2. Bounded /\ Distinct /\ Ordered /\ ready = {} /\ sent \in Seq(Delivery)
  BY <1>1 DEF QueueInv
<1>3. ready' \subseteq pending /\ Waiting' = pending /\ Waiting = pending
  BY <1>1, <1>2 DEF ReadyAt, Waiting
<1>4. Bounded'
  <2>1. nowNs <= now /\ nowNs \in Nat /\ now \in Nat
    BY DEF LoopInv, TypeOK
  <2>2. \A j \in DOMAIN sent : sent[j] \in Delivery
    BY <1>2
  <2>3. \A j \in DOMAIN sent : sent[j].due <= now
    BY <1>2, <2>1, <2>2 DEF Bounded, Delivery
  <2>4. \A d \in ready' : d.due <= nowNs'
    BY <1>1 DEF ReadyAt
  <2> QED
    BY <1>1, <1>2, <1>3, <2>3, <2>4 DEF Bounded
<1>5. Distinct'
  BY <1>1, <1>2, <1>3 DEF Distinct
<1>6. Ordered'
  <2>1. \A e \in pending' : \A d \in ready' : Unheld(e) => ~Before(e, d)
    <3> SUFFICES ASSUME NEW e \in pending', NEW d \in ready', Unheld(e)
                 PROVE  ~Before(e, d)
      OBVIOUS
    <3>1. e \in pending /\ e \notin ready' /\ e \in Delivery /\ d \in Delivery
      BY <1>1, <1>3 DEF TypeOK
    <3>2. Eligible(e, highest, releaseHolds)
      BY <3>1, <1>2, <1>3 DEF Eligible, Unheld, Bounded
    <3>3. e.due > now /\ d.due <= now
      BY <3>1, <3>2, <1>1 DEF ReadyAt, Delivery, TypeOK
    <3> QED
      BY <3>1, <3>3 DEF Before, Delivery, TypeOK
  <2> QED
    BY <2>1, <1>1, <1>2, <1>3 DEF Ordered
<1>7. UnheldLeaveInOrder'
  BY <1>1 DEF QueueInv, UnheldLeaveInOrder
<1>8. draining => releaseHolds
  BY <1>1 DEF QueueInv
<1> QED
  BY <1>1, <1>2, <1>4, <1>5, <1>6, <1>7, <1>8 DEF QueueInv

(* The deliveries of a packet are newer than all that waits or went out,   *)
(* and due no earlier than what went out.                                  *)
LEMMA QueueReceived ==
  ASSUME TypeOK, LoopInv, QueueInv, NEW o \in Outcomes, Receive(o)
  PROVE  QueueInv'
<1> DEFINE new == Deliveries(o, packetIndex, now)
<1>1. /\ Going /\ phase = "receive" /\ ready' = ready /\ sent' = sent /\ nowNs' = nowNs
      /\ packetIndex = highest + 1
      /\ \/ /\ highest' = packetIndex /\ pending' = pending \cup new
            /\ draining' = LimitReached(received')
            /\ releaseHolds' = (releaseHolds \/ draining')
            /\ phase' = "loop"
         \/ phase' = "finally"
  BY DEF Receive, Going, LoopInv
<1>2. Bounded /\ Distinct /\ Ordered /\ ready = {} /\ sent \in Seq(Delivery)
  BY <1>1 DEF QueueInv
<1>3. sent' \in Seq(Delivery) /\ UnheldLeaveInOrder'
  BY <1>1 DEF QueueInv, UnheldLeaveInOrder
<1>4. CASE phase' = "finally"
  BY <1>3, <1>4 DEF QueueInv, Going
<1>5. CASE phase' # "finally"
  <2>1. /\ highest' = packetIndex /\ pending' = pending \cup new
        /\ draining' => releaseHolds'
        /\ phase' = "loop"
    BY <1>1, <1>5
  <2>2. Waiting' = pending \cup new /\ Waiting = pending
    BY <1>1, <1>2, <2>1 DEF Waiting
  <2>3. /\ new \subseteq Delivery
        /\ \A d \in new : d.packet = packetIndex /\ d.due >= now
    <3>1. o.delay \in Nat /\ now \in Nat /\ packetIndex \in Nat
      BY OutcomesAssumption DEF TypeOK
    <3> QED
      BY <3>1, DeliveriesType DEF Deliveries
  <2>4. \A d, e \in new : Key(d) = Key(e) => d = e
    BY DEF Deliveries, Key
  <2> HIDE DEF new
  <2>5. pending \subseteq Delivery /\ highest \in Int /\ nowNs \in Nat /\ now \in Nat
    BY DEF TypeOK
  <2>6. \A j \in DOMAIN sent : sent[j] \in Delivery
    BY <1>2
  <2>7. /\ \A d \in pending : d.packet < packetIndex
        /\ \A j \in DOMAIN sent : sent[j].packet < packetIndex /\ sent[j].due <= now
    <3>1. nowNs <= now
      BY DEF LoopInv
    <3> QED
      BY <3>1, <1>1, <1>2, <2>2, <2>5, <2>6 DEF Bounded, Delivery
  <2>8. Bounded'
    <3>1. \A d \in Waiting' : d.packet <= highest'
      BY <1>1, <2>1, <2>2, <2>3, <2>5, <2>7 DEF Delivery
    <3>2. \A j \in DOMAIN sent : sent[j].packet <= packetIndex
      BY <1>1, <2>5, <2>6, <2>7 DEF Delivery
    <3> QED
      BY <3>1, <3>2, <1>1, <1>2, <2>1 DEF Bounded
  <2>9. Distinct'
    <3>1. \A d \in pending, e \in new : Key(d) # Key(e)
      BY <2>3, <2>5, <2>7 DEF Key, Delivery
    <3>2. \A d \in new : \A j \in DOMAIN sent : Key(sent[j]) # Key(d)
      BY <2>3, <2>6, <2>7 DEF Key, Delivery
    <3>3. \A d, e \in Waiting' : Key(d) = Key(e) => d = e
      BY <3>1, <2>2, <2>4, <1>2 DEF Distinct
    <3> QED
      BY <3>2, <3>3, <1>1, <1>2, <2>2 DEF Distinct
  <2>10. Ordered'
    <3>1. \A e \in new : \A j \in DOMAIN sent : ~Before(e, sent[j])
      BY <2>3, <2>5, <2>6, <2>7 DEF Before, Delivery
    <3> QED
      BY <3>1, <1>1, <1>2, <2>2 DEF Ordered
  <2> QED
    BY <1>1, <1>2, <1>3, <2>1, <2>8, <2>9, <2>10 DEF QueueInv
<1> QED
  BY <1>4, <1>5

(* The deliveries of the emulator are bounded, distinct and in order, in   *)
(* every state.                                                            *)
THEOREM QueueCorrect == Spec => []QueueInv
<1>1. Init => QueueInv
  <2> SUFFICES ASSUME Init PROVE QueueInv
    OBVIOUS
  <2>1. sent = <<>> /\ ~Going
    BY DEF Init, Going
  <2> QED
    BY <2>1 DEF QueueInv, UnheldLeaveInOrder
<1>2. TypeOK /\ LoopInv /\ QueueInv /\ [Next]_vars => QueueInv'
  <2> SUFFICES ASSUME TypeOK, LoopInv, QueueInv, [Next]_vars PROVE QueueInv'
    OBVIOUS
  <2>1. CASE CallerCloses
    BY <2>1, QueueKept DEF CallerCloses, Going, scheduler
  <2>2. CASE StopSeen
    BY <2>2, QueueKept DEF StopSeen, Going, scheduler
  <2>3. CASE PopReady
    BY <2>3, QueuePopped
  <2>4. CASE SendNext
    BY <2>4, QueueSent
  <2>5. CASE SendFails
    BY <2>5, QueueKept DEF SendFails, Going, scheduler
  <2>6. CASE DrainDone
    BY <2>6, QueueKept DEF DrainDone, Going, scheduler
  <2>7. CASE DrainSleeps
    BY <2>7, QueueKept DEF DrainSleeps, Going, scheduler, loop, QueueInv
  <2>8. CASE BlockInReceive
    BY <2>8, QueueKept DEF BlockInReceive, Going, scheduler, loop, QueueInv
  <2>9. CASE ReceiveTimesOut
    BY <2>9, QueueKept DEF ReceiveTimesOut, Going, scheduler, loop, QueueInv
  <2>10. ASSUME NEW o \in Outcomes, Receive(o) PROVE QueueInv'
    BY <2>10, QueueReceived
  <2>11. CASE Finish
    BY <2>11, QueueKept DEF Finish, Going, scheduler
  <2>12. CASE Open
    <3>1. /\ phase' = "opened" /\ pending' = {} /\ ready' = {} /\ sent' = <<>>
      BY <2>12 DEF Open, FreshSession
    <3>2. Bounded' /\ Distinct' /\ Ordered' /\ UnheldLeaveInOrder'
      BY <3>1 DEF Bounded, Distinct, Ordered, Waiting, UnheldLeaveInOrder
    <3> QED
      BY <3>1, <3>2 DEF QueueInv
  <2>13. CASE StartRun
    BY <2>13, QueueKept DEF StartRun, Going, scheduler, QueueInv
  <2>14. CASE Arrive
    BY <2>14, QueueKept DEF Arrive, Going, scheduler, loop, QueueInv
  <2>15. CASE RequestStop
    BY <2>15, QueueKept DEF RequestStop, Going, scheduler, QueueInv
  <2>16. CASE Tick
    BY <2>16, QueueKept DEF Tick, Going, scheduler, loop, QueueInv
  <2>17. CASE UNCHANGED vars
    BY <2>17, QueueKept DEF vars, Going, scheduler, loop, QueueInv
  <2>18. CASE InterruptAtHeader
    BY <2>18, QueueKept DEF InterruptAtHeader, Going, scheduler
  <2>19. CASE InterruptAtSummary
    BY <2>19, QueueKept DEF InterruptAtSummary, Going, scheduler
  <2> QED
    BY <2>1, <2>2, <2>3, <2>4, <2>5, <2>6, <2>7, <2>8, <2>9, <2>10, <2>11, <2>12,
       <2>13, <2>14, <2>15, <2>16, <2>17, <2>18, <2>19 DEF Next, Thread, Environment
<1> QED
  BY <1>1, <1>2, TypeCorrect, LoopCorrect, PTL DEF Spec

(* A delivery that is not held never leaves after one that the heap puts   *)
(* behind it, in whichever poll either was popped.                         *)
THEOREM UnheldInOrder == Spec => []UnheldLeaveInOrder
<1>1. QueueInv => UnheldLeaveInOrder
  BY DEF QueueInv
<1> QED
  BY <1>1, QueueCorrect, PTL

-----------------------------------------------------------------------------
(* The recorder's file.                                                    *)

StreamEvent ==
  [type : CountedTypes, packet : Nat, detail : Int, index : Nat, at : Int]
    \cup {MetadataEvent}
    \cup [type : {"run_summary"}, packet : {None}, stats : [CountedTypes -> Nat],
          index : Nat, at : Int]

FileInv ==
  /\ text \in Seq(StreamEvent)
  /\ begun \in 0 .. Len(text) /\ flushed \in 0 .. Len(text) /\ refused \in Nat

(* Where the file may end, now or when the disk takes more of what it      *)
(* still waits for.  The session's part is on disk up to one of them.      *)
Ends == flushed .. Len(text)

(* A part of a file: its length, and where its events are.                 *)
LEMMA PartOfFile ==
  ASSUME NEW s \in Seq(StreamEvent), NEW b \in 0 .. Len(s), NEW n \in 0 .. Len(s)
  PROVE  /\ SubSeq(s, b + 1, n) \in Seq(StreamEvent)
         /\ Len(SubSeq(s, b + 1, n)) = IF b <= n THEN n - b ELSE 0
         /\ \A i \in 1 .. n - b : SubSeq(s, b + 1, n)[i] = s[b + i]
         /\ n <= b => SubSeq(s, b + 1, n) = <<>>
<1> DEFINE r == SubSeq(s, b + 1, n)
<1>1. Len(s) \in Nat /\ b \in Nat /\ n \in Nat
  BY LenProperties
<1>2. \A i \in b + 1 .. n : s[i] \in StreamEvent
  BY <1>1, ElementOfSeq
<1>3. /\ r \in Seq(StreamEvent)
      /\ Len(r) = IF b + 1 <= n THEN n - (b + 1) + 1 ELSE 0
      /\ \A i \in 1 .. n - (b + 1) + 1 : r[i] = s[b + 1 + i - 1]
  BY <1>1, <1>2, SubSeqProperties
<1>4. n <= b => r = <<>>
  BY <1>1, SubSeqEmpty
<1> HIDE DEF r
<1>5. Len(r) = IF b <= n THEN n - b ELSE 0
  BY <1>1, <1>3
<1>6. \A i \in 1 .. n - b : r[i] = s[b + i]
  <2> TAKE i \in 1 .. n - b
  <2>1. i \in 1 .. n - (b + 1) + 1 /\ b + 1 + i - 1 = b + i
    BY <1>1
  <2> QED
    BY <1>3, <2>1
<1> QED
  BY <1>3, <1>4, <1>5, <1>6 DEF r

(* A file that grew has the same parts as before.                          *)
LEMMA PartOfGrownFile ==
  ASSUME NEW s \in Seq(StreamEvent), NEW r \in Seq(StreamEvent), Len(r) >= Len(s),
         \A i \in 1 .. Len(s) : r[i] = s[i],
         NEW b \in 0 .. Len(s), NEW n \in 0 .. Len(s)
  PROVE  SubSeq(r, b + 1, n) = SubSeq(s, b + 1, n)
<1>1. Len(s) \in Nat /\ Len(r) \in Nat
  BY LenProperties
<1>2. b \in 0 .. Len(r) /\ n \in 0 .. Len(r)
  BY <1>1
<1>3. /\ SubSeq(s, b + 1, n) \in Seq(StreamEvent)
      /\ Len(SubSeq(s, b + 1, n)) = IF b <= n THEN n - b ELSE 0
      /\ \A i \in 1 .. n - b : SubSeq(s, b + 1, n)[i] = s[b + i]
  BY PartOfFile
<1>4. /\ SubSeq(r, b + 1, n) \in Seq(StreamEvent)
      /\ Len(SubSeq(r, b + 1, n)) = IF b <= n THEN n - b ELSE 0
      /\ \A i \in 1 .. n - b : SubSeq(r, b + 1, n)[i] = r[b + i]
  BY <1>2, PartOfFile
<1>5. \A i \in 1 .. n - b : s[b + i] = r[b + i]
  BY <1>1
<1>6. \A i \in 1 .. Len(SubSeq(r, b + 1, n)) : SubSeq(r, b + 1, n)[i] = SubSeq(s, b + 1, n)[i]
  BY <1>1, <1>3, <1>4, <1>5
<1> QED
  BY <1>3, <1>4, <1>6, SeqEqual

(* What the session has in the file is a sequence of events.               *)
LEMMA WrittenType ==
  ASSUME FileInv, NEW n \in Ends
  PROVE  /\ Written(n) \in Seq(StreamEvent)
         /\ Len(Written(n)) = IF begun <= n THEN n - begun ELSE 0
         /\ n <= begun => Written(n) = <<>>
<1>1. n \in 0 .. Len(text)
  BY LenProperties DEF FileInv, Ends
<1> QED
  BY <1>1, PartOfFile DEF FileInv, Written

(* And what it has on disk ends at one of the ends.                        *)
LEMMA LogIsWritten ==
  ASSUME FileInv
  PROVE  flushed \in Ends /\ log = Written(flushed) /\ log \in Seq(StreamEvent)
<1>1. flushed \in Ends
  BY LenProperties DEF FileInv, Ends
<1> QED
  BY <1>1, WrittenType DEF log

(* A step that gives the file at most one event, e: the ends it has then   *)
(* are ends it had before, or the event behind all of the text.            *)
Lone(e) ==
  /\ text' \in {text, Append(text, e)} /\ begun' = begun
  /\ flushed' \in flushed .. Len(text') /\ refused' \in Nat

Follows(e) ==
  /\ FileInv'
  /\ \A n \in Ends' : \/ n \in Ends /\ Written(n)' = Written(n)
                      \/ /\ text' = Append(text, e) /\ n = Len(text) + 1
                         /\ Written(n)' = Append(Written(Len(text)), e)

(* A step that hands at most one event to the file keeps every prefix that
   could be on disk, and adds at most the one that ends with that event. *)
LEMMA LoneFollows ==
  ASSUME FileInv, NEW e \in StreamEvent, Lone(e)
  PROVE  Follows(e)
<1>1. /\ text \in Seq(StreamEvent) /\ Len(text) \in Nat
      /\ begun \in 0 .. Len(text) /\ flushed \in 0 .. Len(text)
  BY LenProperties DEF FileInv
<1>2. /\ Append(text, e) \in Seq(StreamEvent) /\ Len(Append(text, e)) = Len(text) + 1
      /\ \A i \in 1 .. Len(text) : Append(text, e)[i] = text[i]
      /\ Append(text, e)[Len(text) + 1] = e
  BY <1>1, AppendProperties
<1>3. /\ text' \in Seq(StreamEvent) /\ Len(text') \in Nat /\ Len(text') >= Len(text)
      /\ \A i \in 1 .. Len(text) : text'[i] = text[i]
      /\ text' = text \/ text' = Append(text, e)
  BY <1>1, <1>2 DEF Lone
<1>4. FileInv'
  BY <1>1, <1>3 DEF FileInv, Lone
<1>5. ASSUME NEW n \in Ends', n <= Len(text)
      PROVE  n \in Ends /\ Written(n)' = Written(n)
  <2>1. n \in Ends /\ n \in 0 .. Len(text)
    BY <1>1, <1>3, <1>5 DEF Ends, Lone
  <2>2. SubSeq(text', begun + 1, n) = SubSeq(text, begun + 1, n)
    BY <1>1, <1>3, <2>1, PartOfGrownFile
  <2> QED
    BY <2>1, <2>2 DEF Written, Lone
<1>6. ASSUME NEW n \in Ends', ~(n <= Len(text))
      PROVE  /\ text' = Append(text, e) /\ n = Len(text) + 1
             /\ Written(n)' = Append(Written(Len(text)), e)
  <2>1. text' = Append(text, e) /\ n = Len(text) + 1
    BY <1>1, <1>2, <1>3, <1>6 DEF Ends, Lone
  <2> DEFINE r == SubSeq(text', begun + 1, n)
             s == SubSeq(text, begun + 1, Len(text))
  <2>2. begun \in 0 .. Len(text') /\ n \in 0 .. Len(text') /\ Len(text) \in 0 .. Len(text)
    BY <1>1, <1>2, <2>1
  <2>3. /\ r \in Seq(StreamEvent) /\ Len(r) = n - begun
        /\ \A i \in 1 .. n - begun : r[i] = text'[begun + i]
    BY <1>1, <1>3, <2>1, <2>2, PartOfFile
  <2>4. /\ s \in Seq(StreamEvent) /\ Len(s) = Len(text) - begun
        /\ \A i \in 1 .. Len(text) - begun : s[i] = text[begun + i]
    BY <1>1, <2>2, PartOfFile
  <2> HIDE DEF r, s
  <2>5. /\ Append(s, e) \in Seq(StreamEvent) /\ Len(Append(s, e)) = Len(s) + 1
        /\ \A i \in 1 .. Len(s) : Append(s, e)[i] = s[i]
        /\ Append(s, e)[Len(s) + 1] = e
    BY <2>4, AppendProperties
  <2>6. \A i \in 1 .. Len(r) : r[i] = Append(s, e)[i]
    <3> TAKE i \in 1 .. Len(r)
    <3>1. r[i] = text'[begun + i]
      BY <1>1, <2>1, <2>3
    <3>2. CASE i <= Len(s)
      <4>1. i \in 1 .. Len(s) /\ begun + i \in 1 .. Len(text)
        BY <1>1, <2>3, <2>4, <3>2
      <4> QED
        BY <1>3, <2>4, <2>5, <3>1, <4>1
    <3>3. CASE ~(i <= Len(s))
      <4>1. i = Len(s) + 1 /\ begun + i = Len(text) + 1
        BY <1>1, <2>1, <2>3, <2>4, <3>3
      <4> QED
        BY <1>2, <2>1, <2>5, <3>1, <4>1
    <3> QED
      BY <3>2, <3>3
  <2>7. r = Append(s, e)
    <3>1. Len(r) = Len(Append(s, e))
      BY <1>1, <2>1, <2>3, <2>4, <2>5
    <3> QED
      BY <2>3, <2>5, <2>6, <3>1, SeqEqual
  <2> QED
    BY <2>1, <2>7 DEF Written, Lone, r, s
<1> QED
  BY <1>4, <1>5, <1>6 DEF Follows

(* The header and the summary are written on their own.                    *)
LEMMA WriteIsLone ==
  ASSUME FileInv, NEW e \in StreamEvent, NEW k \in 0 .. 1, Write(<<e>>, k)
  PROVE  /\ Lone(e) /\ text' = Append(text, e) /\ Len(text') = Len(text) + 1
         /\ k = 1 => flushed' = Len(text') /\ refused' = refused
         /\ refused # 0 => refused' = refused
         /\ k = 0 /\ refused = 0 => refused' = Len(text')
<1>1. Len(<<e>>) = 1 /\ SubSeq(<<e>>, 1, 1) = <<e>>
  <2>1. Len(<<e>>) = 1 /\ <<e>> \in Seq(StreamEvent)
    OBVIOUS
  <2> QED
    BY <2>1, SubSeqFull
<1>2. text' = text \o <<e>>
  <2>1. (IF k < 1 THEN k + 1 ELSE k) = 1
    OBVIOUS
  <2> QED
    BY <1>1, <2>1 DEF Write
<1>3. /\ text' = Append(text, e) /\ Len(text') = Len(text) + 1 /\ Len(text) \in Nat
      /\ flushed \in 0 .. Len(text) /\ refused \in Nat
  BY <1>2, AppendIsConcat, AppendProperties, LenProperties DEF FileInv
<1>4. /\ flushed' \in (IF k = 0 THEN flushed ELSE Len(text) + k) .. Len(text) + k
      /\ refused' = IF k < 1 /\ refused = 0 THEN Len(text) + k + 1 ELSE refused
      /\ begun' = begun
  BY <1>1 DEF Write
<1>5. flushed' \in flushed .. Len(text') /\ refused' \in Nat
  BY <1>3, <1>4
<1> QED
  BY <1>3, <1>4, <1>5 DEF Lone

(* So are they when the writing is interrupted.                            *)
LEMMA InterruptedIsLone ==
  ASSUME FileInv, NEW e \in StreamEvent, NEW k \in 0 .. 1, InterruptedWrite(e, k)
  PROVE  Lone(e) /\ refused' = refused
<1>1. /\ Append(text, e) \in Seq(StreamEvent) /\ Len(Append(text, e)) = Len(text) + 1
      /\ Len(text) \in Nat /\ flushed \in 0 .. Len(text) /\ refused \in Nat
  BY AppendProperties, LenProperties DEF FileInv
<1>2. CASE k = 0 /\ UNCHANGED <<text, flushed>>
  BY <1>1, <1>2 DEF InterruptedWrite, Lone
<1>3. CASE ~(k = 0 /\ UNCHANGED <<text, flushed>>)
  BY <1>1, <1>3 DEF InterruptedWrite, Lone
<1> QED
  BY <1>2, <1>3

-----------------------------------------------------------------------------
(* The event stream.                                                       *)

(* Events in order of index and time, the header in front and no summary.  *)
InOrder(events) ==
  \A i \in DOMAIN events :
    /\ events[i].index = i - 1
    /\ events[i].type = "run_metadata" <=> i = 1
    /\ events[i].type # "run_summary"
    /\ i > 1 => events[i].at >= events[i - 1].at

(* A stream whose run goes on: its counters count just the events it has.  *)
OpenStream ==
  /\ eventIndex = Len(log) /\ log # <<>>
  /\ InOrder(log)
  /\ \A i \in DOMAIN log : log[i].at <= lastElapsed
  /\ statistics = StatisticsFromEvents(log)

(* A summary at the end of a log is true of it.                            *)
Honest(events) ==
  events # <<>> /\ events[Len(events)].type = "run_summary" => ValidateRunSummary(events)

Sound(events) == LoadAccepts(events) /\ Honest(events)

(* The run can write: everything it wrote is on disk.  A run that ended    *)
(* has at most the event that failed to be flushed behind that.            *)
Clean == flushed = Len(text) /\ refused = 0

StreamInv ==
  /\ FileInv
  /\ phase = "opened" => begun = Len(text) /\ refused = 0
  /\ phase \in {"loop", "send", "receive"} => Clean
  /\ phase = "finally" => Clean \/ (refused = Len(text) /\ Len(text) = flushed + 1)
  /\ Running => begun <= flushed /\ OpenStream
  /\ \A n \in Ends : refused = 0 \/ n <= refused => Sound(Written(n))

(* Where a sequence has events of a type, and where its last n have them.  *)
Places(s, type) == {i \in DOMAIN s : s[i].type = type}
Recent(s, m, n, type) == {i \in 1 .. n : s[m + i].type = type}
Shift(m, B) == {m + i : i \in B}

(* Moving a set of positions along does not change how many there are.     *)
LEMMA ShiftedCardinality ==
  ASSUME NEW n \in Nat, NEW B \in SUBSET Nat, IsFiniteSet(B)
  PROVE  IsFiniteSet(Shift(n, B)) /\ Cardinality(Shift(n, B)) = Cardinality(B)
<1> DEFINE C == Shift(n, B)
           f == [i \in B |-> n + i]
<1>1. f \in Bijection(B, C)
  <2>1. f \in [B -> C]
    BY DEF Shift
  <2>2. \A i, j \in B : f[i] = f[j] => i = j
    OBVIOUS
  <2>3. \A c \in C : \E i \in B : f[i] = c
    BY DEF Shift
  <2> QED
    BY <2>1, <2>2, <2>3 DEF Bijection, Injection, Surjection, IsInjective
<1>2. ExistsBijection(B, C)
  BY <1>1 DEF ExistsBijection
<1> QED
  BY <1>2, FS_Bijection

(* The places of a type in a sequence are finitely many.                   *)
LEMMA PlacesFinite ==
  ASSUME NEW s \in Seq(StreamEvent), NEW type
  PROVE  IsFiniteSet(Places(s, type)) /\ Places(s, type) \in SUBSET (1 .. Len(s))
<1>1. Len(s) \in Nat /\ DOMAIN s = 1 .. Len(s)
  OBVIOUS
<1>2. IsFiniteSet(1 .. Len(s))
  BY <1>1, FS_Interval
<1> QED
  BY <1>1, <1>2, FS_Subset DEF Places

(* One sequence is the other with n events more.                           *)
Extends(r, s, n) ==
  /\ r \in Seq(StreamEvent) /\ s \in Seq(StreamEvent) /\ n \in Nat
  /\ Len(r) = Len(s) + n
  /\ \A i \in 1 .. Len(s) : r[i] = s[i]

(* The places of a type in a sequence that was extended.                   *)
LEMMA ExtendedPlaces ==
  ASSUME NEW s, NEW r, NEW n, Extends(r, s, n), NEW type
  PROVE  Places(r, type) = Places(s, type) \cup Shift(Len(s), Recent(r, Len(s), n, type))
<1> DEFINE C == Shift(Len(s), Recent(r, Len(s), n, type))
<1>1. /\ Len(s) \in Nat /\ n \in Nat
      /\ DOMAIN s = 1 .. Len(s) /\ DOMAIN r = 1 .. Len(s) + n
      /\ \A i \in 1 .. Len(s) : r[i] = s[i]
  BY DEF Extends
<1>2. Places(s, type) \subseteq Places(r, type) /\ C \subseteq Places(r, type)
  BY <1>1 DEF Places, Shift, Recent
<1>3. ASSUME NEW i \in Places(r, type), i \notin Places(s, type) PROVE i \in C
  <2>1. i \in 1 .. Len(s) + n /\ ~(i <= Len(s)) /\ r[i].type = type
    BY <1>1, <1>3 DEF Places
  <2>2. i - Len(s) \in 1 .. n /\ i = Len(s) + (i - Len(s))
    BY <1>1, <2>1
  <2>3. i - Len(s) \in Recent(r, Len(s), n, type)
    BY <2>1, <2>2 DEF Recent
  <2> QED
    BY <2>2, <2>3 DEF Shift
<1> QED
  BY <1>2, <1>3

(* A count over an extended sequence is the sum of two counts.             *)
LEMMA ExtendedCount ==
  ASSUME NEW s, NEW r, NEW n, Extends(r, s, n), NEW type
  PROVE  /\ IsFiniteSet(Recent(r, Len(s), n, type))
         /\ Cardinality(Places(r, type)) =
              Cardinality(Places(s, type)) + Cardinality(Recent(r, Len(s), n, type))
<1> DEFINE S == Places(s, type)
           B == Recent(r, Len(s), n, type)
           C == Shift(Len(s), B)
<1>1. Len(s) \in Nat /\ n \in Nat /\ s \in Seq(StreamEvent)
  BY DEF Extends
<1>2. IsFiniteSet(1 .. n)
  BY <1>1, FS_Interval
<1>3. IsFiniteSet(S) /\ S \in SUBSET (1 .. Len(s))
  BY <1>1, PlacesFinite
<1>4. IsFiniteSet(B) /\ B \in SUBSET (1 .. n)
  BY <1>2, FS_Subset DEF Recent
<1>5. IsFiniteSet(C) /\ Cardinality(C) = Cardinality(B)
  BY <1>1, <1>4, ShiftedCardinality
<1>6. S \cap C = {}
  BY <1>1, <1>3, <1>4 DEF Shift
<1>7. Places(r, type) = S \cup C
  BY ExtendedPlaces
<1> HIDE DEF S, B, C
<1>8. Cardinality(S \cup C) = Cardinality(S) + Cardinality(C) - Cardinality({})
  BY <1>3, <1>5, <1>6, FS_Union
<1>9. Cardinality(S \cup C) = Cardinality(S) + Cardinality(B)
  BY <1>3, <1>5, <1>8, FS_EmptySet, FS_CardinalityType
<1> QED
  BY <1>4, <1>7, <1>9 DEF S, B

(* The notes of a delivery that goes out.                                  *)
LEMMA ForwardNotesType ==
  ASSUME NEW d \in Delivery, highestForwarded \in Int
  PROVE  ForwardNotes(d) \in Seq(PacketNote)
<1>1. /\ Note("packet_reordered", d.packet, highestForwarded) \in PacketNote
      /\ Note("packet_forwarded", d.packet, d.copy) \in PacketNote
  BY DEF Note, PacketNote, Delivery, CountedTypes
<1> QED
  BY <1>1 DEF ForwardNotes, Optional

(* What j notes of a handler add to a log.                                 *)
Added(events, notes, t, j) ==
  \A i \in 1 .. j :
    events[Len(log) + i] = [type |-> notes[i].type, packet |-> notes[i].packet,
                            detail |-> notes[i].detail,
                            index |-> eventIndex + i - 1, at |-> t - start]

(* The notes of a type among the first k.                                  *)
Noted(notes, k, type) == {i \in 1 .. k : notes[i].type = type}

(* The log with the first j of them.                                       *)
Emitted(events, notes, t, j) ==
  /\ j \in 0 .. Len(notes)
  /\ Extends(events, log, j)
  /\ Added(events, notes, t, j)

(* The events of a handler.                                                *)
LEMMA NumberedType ==
  ASSUME TypeOK, NEW notes \in Seq(PacketNote), NEW t \in Nat
  PROVE  /\ Numbered(notes, t) \in Seq(StreamEvent)
         /\ Len(Numbered(notes, t)) = Len(notes)
         /\ \A i \in 1 .. Len(notes) : Numbered(notes, t)[i] =
              [type |-> notes[i].type, packet |-> notes[i].packet,
               detail |-> notes[i].detail,
               index |-> eventIndex + i - 1, at |-> t - start]
<1> DEFINE events == Numbered(notes, t)
<1>1. Len(notes) \in Nat /\ DOMAIN notes = 1 .. Len(notes)
  OBVIOUS
<1>2. /\ DOMAIN events = 1 .. Len(notes)
      /\ \A i \in 1 .. Len(notes) :
           events[i] = [type |-> notes[i].type, packet |-> notes[i].packet,
                        detail |-> notes[i].detail,
                        index |-> eventIndex + i - 1, at |-> t - start]
  BY <1>1 DEF Numbered
<1>3. \A i \in 1 .. Len(notes) : events[i] \in StreamEvent
  <2> SUFFICES ASSUME NEW i \in 1 .. Len(notes) PROVE events[i] \in StreamEvent
    OBVIOUS
  <2>1. notes[i] \in PacketNote
    BY <1>1
  <2>2. eventIndex + i - 1 \in Nat /\ t - start \in Int
    BY <1>1 DEF TypeOK
  <2> QED
    BY <1>2, <2>1, <2>2 DEF StreamEvent, PacketNote
<1>4. events \in Seq(StreamEvent) /\ Len(events) = Len(notes)
  <2>1. events \in [1 .. Len(notes) -> StreamEvent]
    BY <1>1, <1>3 DEF Numbered
  <2>2. events \in Seq(StreamEvent)
    <3>1. [1 .. Len(notes) -> StreamEvent] \subseteq UNION {[1 .. n -> StreamEvent] : n \in Nat}
      BY <1>1, Zenon
    <3> QED
      BY <2>1, <3>1, SeqDef, Zenon
  <2> QED
    BY <1>1, <1>2, <2>2
<1> QED
  BY <1>2, <1>4

(* A session's log when the file has some of a handler's events behind it. *)
LEMMA PartOfEmitted ==
  ASSUME TypeOK, FileInv, flushed = Len(text), begun <= flushed,
         NEW notes \in Seq(PacketNote), NEW t \in Nat,
         NEW r \in Seq(StreamEvent), NEW m \in 0 .. Len(notes), Len(r) = Len(text) + m,
         \A i \in 1 .. Len(text) : r[i] = text[i],
         \A i \in 1 .. m : r[Len(text) + i] = Numbered(notes, t)[i],
         NEW j \in 0 .. m
  PROVE  Emitted(SubSeq(r, begun + 1, Len(text) + j), notes, t, j)
<1> DEFINE s == SubSeq(r, begun + 1, Len(text) + j)
<1>1. /\ text \in Seq(StreamEvent) /\ Len(text) \in Nat /\ Len(notes) \in Nat
      /\ begun \in 0 .. Len(text) /\ begun \in Nat
  BY LenProperties DEF FileInv
<1>2. begun \in 0 .. Len(r) /\ Len(text) + j \in 0 .. Len(r)
  BY <1>1
<1>3. /\ s \in Seq(StreamEvent) /\ Len(s) = Len(text) + j - begun
      /\ \A i \in 1 .. Len(text) + j - begun : s[i] = r[begun + i]
  BY <1>1, <1>2, PartOfFile
<1>4. /\ log \in Seq(StreamEvent) /\ Len(log) = Len(text) - begun
      /\ \A i \in 1 .. Len(text) - begun : log[i] = text[begun + i]
  <2>1. Len(text) \in 0 .. Len(text)
    BY <1>1
  <2> QED
    BY <1>1, <2>1, PartOfFile DEF log, Written
<1> HIDE DEF s
<1>5. Extends(s, log, j)
  <2>1. Len(s) = Len(log) + j /\ j \in Nat
    BY <1>1, <1>3, <1>4
  <2>2. \A i \in 1 .. Len(log) : s[i] = log[i]
    <3> TAKE i \in 1 .. Len(log)
    <3>1. begun + i \in 1 .. Len(text) /\ i \in 1 .. Len(text) + j - begun
      BY <1>1, <1>4
    <3> QED
      BY <1>3, <1>4, <3>1
  <2> QED
    BY <1>3, <1>4, <2>1, <2>2 DEF Extends
<1>6. Added(s, notes, t, j)
  <2> SUFFICES ASSUME NEW i \in 1 .. j
               PROVE  s[Len(log) + i] =
                        [type |-> notes[i].type, packet |-> notes[i].packet,
                         detail |-> notes[i].detail,
                         index |-> eventIndex + i - 1, at |-> t - start]
    BY DEF Added
  <2>1. /\ Len(log) + i \in 1 .. Len(text) + j - begun
        /\ begun + (Len(log) + i) = Len(text) + i
        /\ i \in 1 .. m /\ i \in 1 .. Len(notes)
    BY <1>1, <1>4
  <2>2. s[Len(log) + i] = Numbered(notes, t)[i]
    BY <1>3, <2>1
  <2> QED
    BY <2>1, <2>2, NumberedType
<1>7. j \in 0 .. Len(notes)
  BY <1>1
<1> QED
  BY <1>5, <1>6, <1>7 DEF Emitted, s

(* Emitting appends what the sink takes, numbered from the next index.     *)
(* What it refuses is in the file and may reach the disk later.            *)
LEMMA EmitAppends ==
  ASSUME TypeOK, FileInv, Clean, begun <= flushed,
         NEW notes \in Seq(PacketNote), NEW t \in Nat,
         NEW k \in SinkOutcomes(Len(notes)), Emit(notes, t, k)
  PROVE  /\ k \in 0 .. Len(notes)
         /\ FileInv' /\ begun' <= flushed'
         /\ Emitted(log', notes, t, k)
         /\ IF k = Len(notes)
            THEN Clean'
            ELSE /\ "sink" \in Faults
                 /\ refused' = Len(text') /\ Len(text') = flushed' + 1
         /\ \A n \in Ends' : \E j \in {k, k + 1} :
              /\ Emitted(Written(n)', notes, t, j)
              /\ k = Len(notes) => j = k
<1> DEFINE events == Numbered(notes, t)
           m == IF k < Len(notes) THEN k + 1 ELSE k
           r == SubSeq(events, 1, m)
<1>1. /\ k \in 0 .. Len(notes) /\ Len(notes) \in Nat
      /\ k # Len(notes) => "sink" \in Faults
  BY LenProperties DEF SinkOutcomes
<1>2. events \in Seq(StreamEvent) /\ Len(events) = Len(notes)
  BY NumberedType
<1>3. /\ text \in Seq(StreamEvent) /\ Len(text) \in Nat
      /\ begun \in 0 .. Len(text) /\ flushed = Len(text) /\ refused = 0
  BY LenProperties DEF FileInv, Clean
<1> HIDE DEF events
<1>4. Write(events, k)
  BY DEF Emit, events
<1>5. m \in 0 .. Len(notes) /\ m \in {k, k + 1} /\ (k = Len(notes) => m = k)
  BY <1>1
<1>6. /\ text' = text \o r /\ begun' = begun
      /\ flushed' = Len(text) + k
      /\ refused' = IF k < Len(notes) THEN Len(text) + k + 1 ELSE 0
  <2>1. text' = text \o r /\ begun' = begun
    BY <1>2, <1>4 DEF Write
  <2>2. flushed' \in (Len(text) + k) .. (Len(text) + k)
    <3>1. flushed' \in (IF k = 0 THEN flushed ELSE Len(text) + k) .. Len(text) + k
      BY <1>4 DEF Write
    <3>2. (IF k = 0 THEN flushed ELSE Len(text) + k) = Len(text) + k
      BY <1>1, <1>3
    <3> QED
      BY <3>1, <3>2
  <2>3. flushed' = Len(text) + k
    BY <1>1, <1>3, <2>2
  <2>4. refused' = IF k < Len(notes) THEN Len(text) + k + 1 ELSE 0
    BY <1>2, <1>3, <1>4 DEF Write
  <2> QED
    BY <2>1, <2>3, <2>4
<1>7. /\ r \in Seq(StreamEvent) /\ Len(r) = m
      /\ \A i \in 1 .. m : r[i] = events[i]
  <2>1. \A i \in 1 .. m : events[i] \in StreamEvent
    BY <1>1, <1>2, <1>5
  <2>2. 1 \in Int /\ m \in Int
    BY <1>1, <1>5
  <2>3. /\ r \in Seq(StreamEvent)
        /\ Len(r) = IF 1 <= m THEN m - 1 + 1 ELSE 0
        /\ \A i \in 1 .. m - 1 + 1 : r[i] = events[1 + i - 1]
    BY <2>1, <2>2, SubSeqProperties
  <2>4. m - 1 + 1 = m /\ \A i \in 1 .. m : 1 + i - 1 = i
    BY <2>2
  <2> QED
    BY <1>1, <1>5, <2>3, <2>4
<1> HIDE DEF m, r
<1>8. /\ text' \in Seq(StreamEvent) /\ Len(text') = Len(text) + m
      /\ \A i \in 1 .. Len(text) : text'[i] = text[i]
      /\ \A i \in 1 .. m : text'[Len(text) + i] = events[i]
  <2>1. /\ text \o r \in Seq(StreamEvent) /\ Len(text \o r) = Len(text) + Len(r)
        /\ \A i \in 1 .. Len(text) + Len(r) :
             (text \o r)[i] = IF i <= Len(text) THEN text[i] ELSE r[i - Len(text)]
    BY <1>3, <1>7, ConcatProperties
  <2>2. \A i \in 1 .. Len(text) : i \in 1 .. Len(text) + m /\ i <= Len(text)
    BY <1>1, <1>3, <1>5
  <2>3. \A i \in 1 .. m : /\ Len(text) + i \in 1 .. Len(text) + m
                          /\ ~(Len(text) + i <= Len(text)) /\ Len(text) + i - Len(text) = i
    BY <1>1, <1>3, <1>5
  <2> QED
    BY <1>6, <1>7, <2>1, <2>2, <2>3
<1>9. FileInv' /\ begun' <= flushed'
  BY <1>1, <1>3, <1>5, <1>6, <1>8 DEF FileInv
<1>10. \A j \in 0 .. m : Emitted(SubSeq(text', begun' + 1, Len(text) + j), notes, t, j)
  <2> TAKE j \in 0 .. m
  <2>1. Emitted(SubSeq(text', begun + 1, Len(text) + j), notes, t, j)
    BY <1>3, <1>5, <1>8, PartOfEmitted DEF events
  <2> QED
    BY <1>6, <2>1
<1>11. k \in 0 .. m
  BY <1>1, <1>5
<1>12. Emitted(log', notes, t, k)
  BY <1>6, <1>10, <1>11 DEF log, Written
<1>13. IF k = Len(notes)
       THEN Clean'
       ELSE /\ "sink" \in Faults
            /\ refused' = Len(text') /\ Len(text') = flushed' + 1
  BY <1>1, <1>3, <1>6, <1>8 DEF Clean, m
<1>14. ASSUME NEW n \in Ends'
       PROVE  \E j \in {k, k + 1} :
                /\ Emitted(Written(n)', notes, t, j)
                /\ k = Len(notes) => j = k
  <2> DEFINE j == n - Len(text)
  <2>1. j \in {k, k + 1} /\ j \in 0 .. m /\ n = Len(text) + j /\ (k = Len(notes) => j = k)
    <3>1. n \in flushed' .. Len(text')
      BY DEF Ends
    <3>2. n \in (Len(text) + k) .. (Len(text) + m)
      BY <1>6, <1>8, <3>1
    <3>3. j \in k .. m /\ n = Len(text) + j
      BY <1>1, <1>3, <1>5, <3>2
    <3> QED
      BY <1>1, <1>5, <3>3
  <2> HIDE DEF j
  <2>2. Emitted(Written(n)', notes, t, j)
    BY <1>10, <2>1 DEF Written
  <2> QED
    BY <2>1, <2>2
<1> QED
  BY <1>1, <1>9, <1>12, <1>13, <1>14

(* What a handler adds to an open stream keeps it in order.                *)
LEMMA EmittedInOrder ==
  ASSUME TypeOK, OpenStream, NEW notes \in Seq(PacketNote), NEW t \in Nat,
         lastElapsed <= t - start,
         NEW r, NEW k, Emitted(r, notes, t, k)
  PROVE  /\ r \in Seq(StreamEvent) /\ r # <<>> /\ InOrder(r)
         /\ \A i \in DOMAIN r : r[i].at <= (IF k = 0 THEN lastElapsed ELSE t - start)
         /\ \A type \in CountedTypes :
              Cardinality(Places(r, type)) =
                statistics[type] + Cardinality(Noted(notes, k, type))
<1> DEFINE last == IF k = 0 THEN lastElapsed ELSE t - start
<1>1. /\ Len(log) \in Nat /\ DOMAIN log = 1 .. Len(log) /\ Len(log) >= 1
      /\ k \in Nat /\ DOMAIN r = 1 .. Len(log) + k
      /\ Len(r) = Len(log) + k /\ r \in Seq(StreamEvent)
      /\ \A i \in DOMAIN log : r[i] = log[i]
  BY DEF Emitted, Extends, OpenStream
<1>2. r # <<>>
  BY <1>1
<1>3. last \in Int /\ lastElapsed \in Int /\ t - start \in Int
      /\ lastElapsed <= last /\ (k # 0 => last = t - start)
  BY DEF TypeOK
<1>4. \A i \in DOMAIN log : log[i] \in StreamEvent
  BY DEF Emitted, Extends
<1>5. \A i \in 1 .. k : notes[i] \in PacketNote
  BY DEF Emitted
<1> HIDE DEF last
<1>6. ASSUME NEW i \in 1 .. Len(log)
      PROVE  /\ r[i].index = i - 1
             /\ r[i].type = "run_metadata" <=> i = 1
             /\ r[i].type # "run_summary"
             /\ r[i].at <= last
             /\ i > 1 => r[i].at >= r[i - 1].at
  <2>1. r[i] = log[i] /\ (i > 1 => r[i - 1] = log[i - 1])
    <3>1. i > 1 => i - 1 \in 1 .. Len(log)
      BY <1>1
    <3> QED
      BY <1>1, <3>1
  <2>2. log[i].at \in Int
    BY <1>1, <1>4 DEF StreamEvent, MetadataEvent
  <2>3. log[i].at <= lastElapsed
    BY <1>1 DEF OpenStream
  <2>4. log[i].at <= last
    BY <1>3, <2>2, <2>3
  <2> QED
    BY <1>1, <2>1, <2>4 DEF OpenStream, InOrder
<1>7. \A i \in 1 .. k : /\ r[Len(log) + i].index = Len(log) + i - 1
                        /\ r[Len(log) + i].type \in CountedTypes
                        /\ r[Len(log) + i].at = t - start
                        /\ r[Len(log) + i].type = notes[i].type
  <2> TAKE i \in 1 .. k
  <2>1. r[Len(log) + i] = [type |-> notes[i].type, packet |-> notes[i].packet,
                           detail |-> notes[i].detail,
                           index |-> eventIndex + i - 1, at |-> t - start]
    BY DEF Emitted, Added
  <2>2. notes[i].type \in CountedTypes
    BY <1>5 DEF PacketNote
  <2>3. eventIndex = Len(log)
    BY DEF OpenStream
  <2> QED
    BY <2>1, <2>2, <2>3
<1>8. log[Len(log)].at \in Int /\ log[Len(log)].at <= lastElapsed
  BY <1>1, <1>4 DEF StreamEvent, MetadataEvent, OpenStream
<1>9. ASSUME NEW j \in DOMAIN r, j \notin 1 .. Len(log)
      PROVE  /\ r[j].index = j - 1
             /\ r[j].type = "run_metadata" <=> j = 1
             /\ r[j].type # "run_summary"
             /\ r[j].at <= last
             /\ j > 1 => r[j].at >= r[j - 1].at
  <2>1. PICK i \in 1 .. k : j = Len(log) + i
    <3>1. j - Len(log) \in 1 .. k /\ j = Len(log) + (j - Len(log))
      BY <1>1, <1>9
    <3> QED
      BY <3>1
  <2>2. /\ r[j].index = j - 1 /\ r[j].type \in CountedTypes /\ r[j].at = t - start
    <3>1. /\ r[Len(log) + i].index = Len(log) + i - 1
          /\ r[Len(log) + i].type \in CountedTypes
          /\ r[Len(log) + i].at = t - start
      BY <1>7
    <3> QED
      BY <2>1, <3>1
  <2>3. j # 1 /\ last = t - start
    BY <1>1, <1>3, <2>1
  <2>4. r[j - 1].at <= t - start
    <3>1. CASE i = 1
      <4>1. j - 1 = Len(log) /\ Len(log) \in DOMAIN log
        BY <1>1, <2>1, <3>1
      <4>2. r[j - 1] = log[Len(log)]
        BY <1>1, <4>1
      <4> QED
        BY <1>3, <1>8, <4>2
    <3>2. CASE i # 1
      <4>1. PICK h \in 1 .. k : j - 1 = Len(log) + h
        <5>1. i - 1 \in 1 .. k /\ j - 1 = Len(log) + (i - 1)
          BY <1>1, <2>1, <3>2
        <5> QED
          BY <5>1
      <4>2. r[Len(log) + h].at = t - start
        BY <1>7
      <4> QED
        BY <1>3, <4>1, <4>2
    <3> QED
      BY <3>1, <3>2
  <2> QED
    BY <1>3, <2>2, <2>3, <2>4 DEF CountedTypes
<1>10. \A type \in CountedTypes :
         Cardinality(Places(r, type)) =
           statistics[type] + Cardinality(Noted(notes, k, type))
  <2> TAKE type \in CountedTypes
  <2>1. Cardinality(Places(r, type)) =
          Cardinality(Places(log, type)) + Cardinality(Recent(r, Len(log), k, type))
    BY ExtendedCount DEF Emitted
  <2>2. Recent(r, Len(log), k, type) = Noted(notes, k, type)
    BY <1>7 DEF Recent, Noted
  <2>3. statistics[type] = Cardinality(Places(log, type))
    BY DEF OpenStream, StatisticsFromEvents, Places
  <2> QED
    BY <2>1, <2>2, <2>3
<1>11. InOrder(r)
  BY <1>1, <1>6, <1>9 DEF InOrder
<1>12. \A i \in DOMAIN r : r[i].at <= last
  BY <1>1, <1>6, <1>9
<1> QED
  BY <1>1, <1>2, <1>10, <1>11, <1>12 DEF last

(* Emitting keeps the stream open: in order, and counted.                  *)
LEMMA EmitKeepsOpen ==
  ASSUME TypeOK, TypeOK', OpenStream, NEW notes \in Seq(PacketNote), NEW t \in Nat,
         NEW k, Emit(notes, t, k), lastElapsed <= t - start, Emitted(log', notes, t, k)
  PROVE  OpenStream'
<1>1. /\ log' \in Seq(StreamEvent) /\ log' # <<>> /\ InOrder(log')
      /\ \A i \in DOMAIN log' : log'[i].at <= (IF k = 0 THEN lastElapsed ELSE t - start)
      /\ \A type \in CountedTypes :
           Cardinality(Places(log', type)) =
             statistics[type] + Cardinality(Noted(notes, k, type))
  <2>1. PICK r : r = log'
    OBVIOUS
  <2>2. Emitted(r, notes, t, k)
    BY <2>1
  <2> HIDE <2>1
  <2>3. /\ r \in Seq(StreamEvent) /\ r # <<>> /\ InOrder(r)
        /\ \A i \in DOMAIN r : r[i].at <= (IF k = 0 THEN lastElapsed ELSE t - start)
        /\ \A type \in CountedTypes :
             Cardinality(Places(r, type)) =
               statistics[type] + Cardinality(Noted(notes, k, type))
    BY <2>2, EmittedInOrder
  <2> QED
    BY <2>1, <2>3
<1>2. eventIndex' = Len(log')
  BY DEF Emit, OpenStream, Emitted, Extends
<1>3. \A i \in DOMAIN log' : log'[i].at <= lastElapsed'
  BY <1>1 DEF Emit
<1>4. statistics' = StatisticsFromEvents(log')
  <2>1. \A type \in CountedTypes : statistics'[type] = Cardinality(Places(log', type))
    BY <1>1 DEF Emit, Noted
  <2>2. statistics' = [type \in CountedTypes |-> statistics'[type]]
    BY DEF TypeOK
  <2> QED
    BY <2>1, <2>2 DEF StatisticsFromEvents, Places
<1> QED
  BY <1>1, <1>2, <1>3, <1>4 DEF OpenStream, InOrder

(* A log in order loads, and claims no summary.                            *)
LEMMA InOrderIsSound ==
  ASSUME NEW events \in Seq(StreamEvent), InOrder(events)
  PROVE  Sound(events)
<1>1. events # <<>> => Len(events) \in DOMAIN events
  OBVIOUS
<1> QED
  BY <1>1 DEF InOrder, Sound, LoadAccepts, Honest

(* A log that is empty or just the header.                                 *)
LEMMA HeaderLoads == Sound(<<>>) /\ Sound(<<MetadataEvent>>)
<1>1. LoadAccepts(<<MetadataEvent>>) /\ LoadAccepts(<<>>)
  BY DEF LoadAccepts, MetadataEvent
<1>2. Honest(<<MetadataEvent>>) /\ Honest(<<>>)
  BY DEF Honest, MetadataEvent
<1> QED
  BY <1>1, <1>2 DEF Sound

(* With its summary an open stream is complete, and the summary is true.   *)
LEMMA SummaryCloses ==
  ASSUME TypeOK, OpenStream, log \in Seq(StreamEvent), lastElapsed <= now - start
  PROVE  SummaryEvent \in StreamEvent /\ Sound(Append(log, SummaryEvent))
<1> DEFINE e == SummaryEvent
           l == Append(log, e)
           n == Len(log)
<1>1. /\ e.type = "run_summary" /\ e.index = n /\ e.at = now - start
      /\ e.stats = StatisticsFromEvents(log)
      /\ e \in StreamEvent
  BY DEF SummaryEvent, OpenStream, StreamEvent, TypeOK
<1> HIDE DEF e
<1>2. /\ n \in Nat /\ n >= 1 /\ DOMAIN log = 1 .. n
      /\ l \in Seq(StreamEvent) /\ Len(l) = n + 1 /\ DOMAIN l = 1 .. n + 1
      /\ l[n + 1] = e /\ \A i \in 1 .. n : l[i] = log[i]
  BY <1>1 DEF OpenStream
<1>3. log[n].at <= now - start
  <2>1. log[n].at <= lastElapsed /\ log[n] \in StreamEvent
    BY <1>2 DEF OpenStream
  <2>2. log[n].at \in Int /\ lastElapsed \in Int /\ now - start \in Int
    BY <2>1 DEF StreamEvent, MetadataEvent, TypeOK
  <2> QED
    BY <2>1, <2>2
<1> HIDE DEF l, n
<1>4. LoadAccepts(l)
  <2> SUFFICES ASSUME NEW i \in DOMAIN l
               PROVE  /\ l[i].index = i - 1
                      /\ i > 1 => l[i].at >= l[i - 1].at
                      /\ (l[i].type = "run_metadata") <=> (i = 1)
                      /\ l[i].type = "run_summary" => i = Len(l)
    BY DEF LoadAccepts
  <2>1. CASE i \in 1 .. n
    <3>1. l[i] = log[i] /\ i \in DOMAIN log /\ (i > 1 => l[i - 1] = log[i - 1])
      BY <1>2, <2>1
    <3> QED
      BY <3>1 DEF OpenStream, InOrder
  <2>2. CASE i = n + 1
    <3>1. i - 1 = n /\ l[n] = log[n] /\ l[i] = e /\ i # 1
      BY <1>2, <2>2
    <3>2. log[n].at \in Int
      BY <1>2 DEF StreamEvent, MetadataEvent
    <3>3. now - start \in Int
      BY DEF TypeOK
    <3> QED
      BY <1>1, <1>2, <1>3, <2>2, <3>1, <3>2, <3>3
  <2> QED
    BY <1>2, <2>1, <2>2
<1>5. {i \in DOMAIN l : l[i].type = "run_summary"} = {Len(l)}
  BY <1>1, <1>2 DEF OpenStream, InOrder
<1>6. {i \in DOMAIN l : l[i].type = "run_metadata"} = {1}
  BY <1>1, <1>2 DEF OpenStream, InOrder
<1>7. StatisticsFromEvents(l) = StatisticsFromEvents(log)
  <2>1. \A type \in CountedTypes :
          {i \in DOMAIN l : l[i].type = type} = {i \in DOMAIN log : log[i].type = type}
    <3>1. "run_summary" \notin CountedTypes
      BY DEF CountedTypes
    <3> QED
      BY <3>1, <1>1, <1>2
  <2> QED
    BY <2>1 DEF StatisticsFromEvents
<1>8. l # <<>> /\ l[Len(l)] = e
  BY <1>2
<1>9. ValidateRunSummary(l)
  BY <1>1, <1>5, <1>6, <1>7, <1>8 DEF ValidateRunSummary
<1> QED
  BY <1>1, <1>4, <1>9 DEF Sound, Honest, e, l

(* A step that writes nothing.                                             *)
LEMMA StreamKept ==
  ASSUME StreamInv, UNCHANGED file, UNCHANGED <<eventIndex, statistics, lastElapsed>>,
         Running' => Running /\ (phase = "finally" => phase' = "finally"),
         phase' = "opened" => phase = "opened"
  PROVE  StreamInv'
<1>1. /\ UNCHANGED <<text, flushed, begun, refused>>
      /\ log' = log /\ Ends' = Ends /\ \A n : Written(n)' = Written(n)
  BY DEF file, log, Written, Ends
<1>2. OpenStream => OpenStream'
  BY <1>1 DEF OpenStream
<1>3. FileInv' /\ (Clean => Clean')
  BY <1>1 DEF StreamInv, FileInv, Clean
<1>4. \A n \in Ends' : refused' = 0 \/ n <= refused' => Sound(Written(n))'
  BY <1>1 DEF StreamInv, Sound
<1>5. Running => phase \in {"loop", "send", "receive", "finally"}
  BY DEF Running
<1>6. Running' => Running /\ begun' <= flushed' /\ OpenStream'
  BY <1>1, <1>2 DEF StreamInv
<1>7. phase' \in {"loop", "send", "receive"} => Clean'
  BY <1>3, <1>5 DEF StreamInv, Running
<1>8. phase' = "finally" => Clean' \/ (refused' = Len(text') /\ Len(text') = flushed' + 1)
  BY <1>1, <1>3, <1>5 DEF StreamInv, Running
<1> QED
  BY <1>1, <1>3, <1>4, <1>6, <1>7, <1>8 DEF StreamInv

(* A handler that emits while the run goes on.                             *)
LEMMA StreamEmitted ==
  ASSUME TypeOK, TypeOK', StreamInv, phase \in {"send", "receive"},
         NEW notes \in Seq(PacketNote), NEW t \in Nat,
         NEW k \in SinkOutcomes(Len(notes)), Emit(notes, t, k), lastElapsed <= t - start,
         IF k = Len(notes) THEN phase' \in {"loop", "send", "receive", "finally"}
                           ELSE phase' = "finally"
  PROVE  StreamInv'
<1>1. FileInv /\ Clean /\ begun <= flushed /\ OpenStream
  BY DEF StreamInv, Running
<1>2. /\ k \in 0 .. Len(notes)
      /\ FileInv' /\ begun' <= flushed'
      /\ Emitted(log', notes, t, k)
      /\ IF k = Len(notes)
         THEN Clean'
         ELSE /\ "sink" \in Faults
              /\ refused' = Len(text') /\ Len(text') = flushed' + 1
      /\ \A n \in Ends' : \E j \in {k, k + 1} :
           /\ Emitted(Written(n)', notes, t, j)
           /\ k = Len(notes) => j = k
  BY <1>1, EmitAppends
<1>3. OpenStream'
  BY <1>1, <1>2, EmitKeepsOpen
<1>4. \A n \in Ends' : Sound(Written(n)')
  <2> TAKE n \in Ends'
  <2>1. PICK j : Emitted(Written(n)', notes, t, j)
    BY <1>2
  <2>2. PICK r : r = Written(n)'
    OBVIOUS
  <2>3. Emitted(r, notes, t, j)
    BY <2>1, <2>2
  <2>4. Sound(r)
    BY <1>1, <2>3, EmittedInOrder, InOrderIsSound
  <2> QED
    BY <2>2, <2>4
<1>5. phase' # "opened"
  OBVIOUS
<1> QED
  BY <1>2, <1>3, <1>4, <1>5 DEF StreamInv, Running, Sound

(* The header is tried.                                                    *)
LEMMA StreamOpened ==
  ASSUME StreamInv, phase = "opened", Lone(MetadataEvent),
         phase' = "unwind"
           \/ /\ phase' = "loop" /\ text' = Append(text, MetadataEvent) /\ Clean'
              /\ eventIndex' = 1 /\ statistics' = ZeroStatistics /\ lastElapsed' = 0
  PROVE  StreamInv'
<1>1. FileInv /\ begun = Len(text) /\ refused = 0 /\ Len(text) \in Nat /\ flushed \in Nat
  BY LenProperties DEF StreamInv, FileInv
<1>2. MetadataEvent \in StreamEvent /\ MetadataEvent.type \notin CountedTypes
  BY DEF StreamEvent, MetadataEvent, CountedTypes
<1>3. Follows(MetadataEvent)
  BY <1>1, <1>2, LoneFollows
<1>4. Len(text) \in Ends /\ \A n \in Ends : Written(n) = <<>>
  <2>1. Len(text) \in Ends /\ \A n \in Ends : n <= begun
    BY <1>1 DEF Ends, FileInv
  <2> QED
    BY <1>1, <2>1, WrittenType
<1>5. Append(<<>>, MetadataEvent) = <<MetadataEvent>>
  OBVIOUS
<1>6. \A n \in Ends' : Written(n)' \in {<<>>, <<MetadataEvent>>}
  BY <1>3, <1>4, <1>5 DEF Follows
<1>7. \A n \in Ends' : Sound(Written(n)')
  BY <1>6, HeaderLoads
<1>8. ASSUME phase' # "unwind"
      PROVE  Clean' /\ begun' <= flushed' /\ OpenStream'
  <2>1. /\ text' = Append(text, MetadataEvent) /\ Clean'
        /\ eventIndex' = 1 /\ statistics' = ZeroStatistics /\ lastElapsed' = 0
    BY <1>8
  <2>2. flushed' = Len(text) + 1 /\ begun' = begun /\ flushed' \in Ends'
    <3>1. flushed' = Len(text') /\ Len(text') = Len(text) + 1
      BY <1>1, <1>2, <2>1, AppendProperties DEF Clean, FileInv
    <3> QED
      BY <1>1, <3>1 DEF Ends, Lone
  <2>3. log' = <<MetadataEvent>>
    <3>1. ~(flushed' \in Ends)
      BY <1>1, <2>2 DEF Ends
    <3>2. PICK n : n = flushed'
      OBVIOUS
    <3>3. Written(n)' = <<MetadataEvent>>
      BY <1>3, <1>4, <1>5, <2>2, <3>1, <3>2 DEF Follows
    <3> QED
      BY <3>2, <3>3 DEF log, Written
  <2>4. statistics' = StatisticsFromEvents(log')
    <3>1. \A type \in CountedTypes : {i \in DOMAIN log' : log'[i].type = type} = {}
      BY <1>2, <2>3
    <3> QED
      BY <2>1, <3>1, FS_EmptySet DEF StatisticsFromEvents, ZeroStatistics
  <2>5. InOrder(log')
    BY <2>3 DEF InOrder, MetadataEvent
  <2>6. eventIndex' = Len(log') /\ log' # <<>> /\ \A i \in DOMAIN log' : log'[i].at <= lastElapsed'
    BY <2>1, <2>3 DEF MetadataEvent
  <2> QED
    BY <1>1, <2>1, <2>2, <2>4, <2>5, <2>6 DEF OpenStream, InOrder
<1>9. FileInv'
  BY <1>3 DEF Follows
<1> QED
  BY <1>7, <1>8, <1>9 DEF StreamInv, Running, Sound

(* The summary is tried.                                                   *)
LEMMA StreamClosed ==
  ASSUME TypeOK, LoopInv, StreamInv, phase = "finally", phase' = "unwind",
         Lone(SummaryEvent), refused # 0 => refused' = refused
  PROVE  StreamInv'
<1>1. /\ FileInv /\ OpenStream /\ log \in Seq(StreamEvent) /\ lastElapsed <= now - start
      /\ Len(text) \in Nat /\ flushed \in Nat /\ refused \in Nat
  BY LogIsWritten, LenProperties DEF StreamInv, Running, LoopInv, FileInv
<1>2. SummaryEvent \in StreamEvent /\ Sound(Append(log, SummaryEvent))
  BY <1>1, SummaryCloses
<1>3. Follows(SummaryEvent)
  BY <1>1, <1>2, LoneFollows
<1>4. ASSUME NEW n \in Ends', refused' = 0 \/ n <= refused'
      PROVE  Sound(Written(n)')
  <2>1. CASE n \in Ends /\ Written(n)' = Written(n)
    <3>1. refused = 0 \/ n <= refused
      BY <1>4
    <3> QED
      BY <2>1, <3>1 DEF StreamInv
  <2>2. CASE n = Len(text) + 1 /\ Written(n)' = Append(Written(Len(text)), SummaryEvent)
    <3>1. refused = 0 /\ flushed = Len(text)
      <4>1. refused # 0 => refused' = refused /\ refused' # 0 /\ n <= refused /\ refused = Len(text)
        BY <1>4 DEF StreamInv, Clean
      <4>2. refused = 0
        BY <1>1, <2>2, <4>1
      <4> QED
        BY <1>1, <4>2 DEF StreamInv, Clean
    <3>2. Written(Len(text)) = log
      BY <3>1 DEF log
    <3> QED
      BY <1>2, <2>2, <3>2
  <2> QED
    BY <1>3, <2>1, <2>2 DEF Follows
<1>5. FileInv'
  BY <1>3 DEF Follows
<1> QED
  BY <1>4, <1>5 DEF StreamInv, Running, Sound

(* The event stream is in order, and so is whatever part of it a disk has  *)
(* that took nothing behind an event it refused.                           *)
THEOREM StreamCorrect == Spec => []StreamInv
<1>1. Init => StreamInv
  <2> SUFFICES ASSUME Init PROVE StreamInv
    OBVIOUS
  <2>1. text = <<>> /\ flushed = 0 /\ begun = 0 /\ refused = 0 /\ phase = "closed"
    BY DEF Init
  <2>2. FileInv
    BY <2>1, EmptySeq DEF FileInv
  <2>3. \A n \in Ends : Written(n) = <<>>
    <3>1. Len(text) = 0
      BY <2>1, EmptySeq
    <3>2. \A n \in Ends : n <= begun
      BY <2>1, <3>1 DEF Ends
    <3> QED
      BY <2>2, <3>2, WrittenType
  <2> QED
    BY <2>1, <2>2, <2>3, HeaderLoads DEF StreamInv, Running
<1>2. TypeOK /\ TypeOK' /\ LoopInv /\ StreamInv /\ [Next]_vars => StreamInv'
  <2> SUFFICES ASSUME TypeOK, TypeOK', LoopInv, StreamInv, [Next]_vars PROVE StreamInv'
    OBVIOUS
  <2>0. /\ FileInv /\ MetadataEvent \in StreamEvent
        /\ Len(text) \in Nat /\ flushed \in 0 .. Len(text) /\ refused \in Nat
    BY LenProperties DEF StreamInv, FileInv, StreamEvent
  <2>1. CASE CallerCloses
    <3>1. /\ text' = text /\ begun' = begun /\ refused' = refused /\ phase' = "closed"
          /\ flushed' \in flushed .. Len(text')
      BY <2>0, <2>1 DEF CallerCloses, file
    <3>2. Follows(MetadataEvent)
      BY <2>0, <3>1, LoneFollows DEF Lone
    <3>3. FileInv' /\ \A n \in Ends' : n \in Ends /\ Written(n)' = Written(n)
      <4>1. \A n \in Ends' : n # Len(text) + 1
        BY <2>0, <3>1 DEF Ends
      <4> QED
        BY <3>2, <4>1 DEF Follows
    <3>4. \A n \in Ends' : refused' = 0 \/ n <= refused' => Sound(Written(n)')
      BY <3>1, <3>3 DEF StreamInv
    <3> QED
      BY <3>1, <3>3, <3>4 DEF StreamInv, Running, Sound
  <2>2. CASE StopSeen
    BY <2>2, StreamKept DEF StopSeen, Running, stream
  <2>3. CASE PopReady
    BY <2>3, StreamKept DEF PopReady, Running, stream
  <2>4. CASE SendNext
    <3> DEFINE notes == ForwardNotes(First(ready))
    <3>1. PICK k \in SinkOutcomes(Len(notes)) :
            /\ Emit(notes, nowNs, k)
            /\ IF k = Len(notes)
               THEN UNCHANGED <<phase, ending>>
               ELSE phase' = "finally" /\ ending' = "failed"
      BY <2>4 DEF SendNext
    <3>2. First(ready) \in Delivery
      BY <2>4, FirstIsMember DEF SendNext, TypeOK
    <3>3. notes \in Seq(PacketNote)
      BY <3>2, ForwardNotesType DEF TypeOK
    <3>4. phase = "send" /\ lastElapsed <= nowNs - start /\ nowNs \in Nat
      BY <2>4 DEF SendNext, LoopInv, TypeOK
    <3> HIDE DEF notes
    <3> QED
      BY <3>1, <3>3, <3>4, StreamEmitted
  <2>5. CASE SendFails
    BY <2>5, StreamKept DEF SendFails, Running, stream
  <2>6. CASE DrainDone
    BY <2>6, StreamKept DEF DrainDone, Running, stream
  <2>7. CASE DrainSleeps
    BY <2>7, StreamKept DEF DrainSleeps, Running, stream
  <2>8. CASE BlockInReceive
    BY <2>8, StreamKept DEF BlockInReceive, Running, stream
  <2>9. CASE ReceiveTimesOut
    BY <2>9, StreamKept DEF ReceiveTimesOut, Running, stream
  <2>10. ASSUME NEW o \in Outcomes, Receive(o) PROVE StreamInv'
    <3> DEFINE notes == OutcomeNotes(o, packetIndex)
    <3>1. PICK k \in SinkOutcomes(Len(notes)) :
            /\ Emit(notes, now, k)
            /\ IF k = Len(notes) /\ packetIndex > highest
               THEN phase' = "loop"
               ELSE phase' = "finally"
      BY <2>10 DEF Receive
    <3>2. notes \in Seq(PacketNote) /\ now \in Nat
      BY OutcomeNotesType DEF TypeOK
    <3>3. phase = "receive" /\ lastElapsed <= now - start
      BY <2>10 DEF Receive, Running, LoopInv
    <3> HIDE DEF notes
    <3> QED
      BY <3>1, <3>2, <3>3, StreamEmitted
  <2>11. CASE Finish
    <3>1. PICK k \in SinkOutcomes(1) : Write(<<SummaryEvent>>, k)
      BY <2>11 DEF Finish
    <3>2. k \in 0 .. 1 /\ phase = "finally" /\ phase' = "unwind"
      BY <2>11 DEF Finish, SinkOutcomes
    <3>3. SummaryEvent \in StreamEvent
      BY <2>0, <3>2, LogIsWritten, SummaryCloses DEF StreamInv, Running, LoopInv
    <3>4. Lone(SummaryEvent) /\ (refused # 0 => refused' = refused)
      BY <2>0, <3>1, <3>2, <3>3, WriteIsLone
    <3> QED
      BY <3>2, <3>4, StreamClosed
  <2>12. CASE Open
    <3>1. /\ UNCHANGED <<text, flushed>> /\ begun' = Len(text) /\ refused' = 0
          /\ phase' = "opened"
      BY <2>12 DEF Open
    <3>2. FileInv'
      BY <2>0, <3>1 DEF FileInv
    <3>3. \A n \in Ends' : Written(n)' = <<>>
      <4>1. \A n \in Ends' : n \in 0 .. Len(text) /\ n <= Len(text)
        BY <2>0, <3>1 DEF Ends
      <4>2. \A n \in Ends' : SubSeq(text, Len(text) + 1, n) = <<>>
        BY <2>0, <4>1, SubSeqEmpty
      <4> QED
        BY <3>1, <4>2 DEF Written
    <3>4. \A n \in Ends' : Sound(Written(n)')
      BY <3>3, HeaderLoads
    <3> QED
      BY <3>1, <3>2, <3>4 DEF StreamInv, Running, Sound
  <2>13. CASE StartRun
    <3>1. PICK k \in 0 .. 1 :
            /\ k = 1 => recording
            /\ IF recording THEN Write(<<MetadataEvent>>, k) ELSE UNCHANGED file
            /\ eventIndex' = k
            /\ phase' = IF k = 1 THEN "loop" ELSE "unwind"
      BY <2>13 DEF StartRun, SinkOutcomes
    <3>2. phase = "opened" /\ statistics' = ZeroStatistics /\ lastElapsed' = 0 /\ refused = 0
      BY <2>13 DEF StartRun, StreamInv
    <3>3. CASE recording
      <4>1. /\ Lone(MetadataEvent) /\ text' = Append(text, MetadataEvent)
            /\ k = 1 => flushed' = Len(text') /\ refused' = refused
        BY <2>0, <3>1, <3>3, WriteIsLone
      <4>2. k = 1 => Clean'
        BY <3>2, <4>1 DEF Clean
      <4>3. k = 1 \/ phase' = "unwind"
        BY <3>1
      <4> QED
        BY <3>1, <3>2, <4>1, <4>2, <4>3, StreamOpened
    <3>4. CASE ~recording
      <4>1. Lone(MetadataEvent)
        BY <2>0, <3>1, <3>4 DEF Lone, file
      <4> QED
        BY <3>1, <3>2, <3>4, <4>1, StreamOpened
    <3> QED
      BY <3>3, <3>4
  <2>14. CASE Arrive
    BY <2>14, StreamKept DEF Arrive, Running, stream
  <2>15. CASE RequestStop
    BY <2>15, StreamKept DEF RequestStop, Running, stream
  <2>16. CASE Tick
    BY <2>16, StreamKept DEF Tick, Running, stream
  <2>17. CASE UNCHANGED vars
    BY <2>17, StreamKept DEF vars, Running, stream
  <2>18. CASE InterruptAtHeader
    <3>1. PICK k \in 0 .. 1 : InterruptedWrite(MetadataEvent, k)
      BY <2>18 DEF InterruptAtHeader
    <3>2. phase = "opened" /\ phase' = "unwind"
      BY <2>18 DEF InterruptAtHeader
    <3>3. Lone(MetadataEvent)
      BY <2>0, <3>1, InterruptedIsLone
    <3> QED
      BY <3>2, <3>3, StreamOpened
  <2>19. CASE InterruptAtSummary
    <3>1. PICK k \in 0 .. 1 : InterruptedWrite(SummaryEvent, k)
      BY <2>19 DEF InterruptAtSummary
    <3>2. phase = "finally" /\ phase' = "unwind"
      BY <2>19 DEF InterruptAtSummary
    <3>3. SummaryEvent \in StreamEvent
      BY <2>0, <3>2, LogIsWritten, SummaryCloses DEF StreamInv, Running, LoopInv
    <3>4. Lone(SummaryEvent) /\ refused' = refused
      BY <2>0, <3>1, <3>3, InterruptedIsLone
    <3> QED
      BY <3>2, <3>4, StreamClosed
  <2> QED
    BY <2>1, <2>2, <2>3, <2>4, <2>5, <2>6, <2>7, <2>8, <2>9, <2>10, <2>11, <2>12,
       <2>13, <2>14, <2>15, <2>16, <2>17, <2>18, <2>19 DEF Next, Thread, Environment
<1> QED
  BY <1>1, <1>2, TypeCorrect, LoopCorrect, PTL DEF Spec

(* The log on a disk that stays full loads, whatever ended the run and     *)
(* whenever.                                                               *)
THEOREM LogLoads == Spec => []LogAlwaysLoads
<1>1. StreamInv => LogAlwaysLoads
  BY LogIsWritten DEF StreamInv, LogAlwaysLoads, DiskStaysFull, Sound
<1> QED
  BY <1>1, StreamCorrect, PTL

(* A summary that reached such a disk counts the events before it.         *)
THEOREM SummaryCounts == Spec => []SummaryIsTrue
<1>1. StreamInv => SummaryIsTrue
  BY LogIsWritten DEF StreamInv, SummaryIsTrue, DiskStaysFull, Sound, Honest
<1> QED
  BY <1>1, StreamCorrect, PTL

-----------------------------------------------------------------------------
(* The books: what the log says of the datagrams that went out.            *)

BookInv ==
  /\ \A n \in Ends : ForwardsAgree(Written(n)) /\ ReordersAgree(Written(n))
  /\ Going =>
       /\ ending = "none"
       /\ reordered = Late
       /\ \A j \in DOMAIN sent : sent[j].packet <= highestForwarded
       /\ highestForwarded # -1 => \E j \in DOMAIN sent : sent[j].packet = highestForwarded

(* Two logs have the same events of a type.                                *)
Quiet(r, s, type) ==
  /\ Logged(r, type) = Logged(s, type)
  /\ \A i \in Logged(s, type) : r[i] = s[i]

(* A step says nothing new of a type, wherever the file ends.              *)
Unsaid(type) == \A n \in Ends' : \E m \in Ends : Quiet(Written(n)', Written(m), type)

(* The events of a type are as before when none of them is new.            *)
LEMMA QuietStep ==
  ASSUME NEW type, NEW n, NEW r, NEW s, Extends(r, s, n),
         \A i \in 1 .. n : r[Len(s) + i].type # type
  PROVE  Quiet(r, s, type)
<1>1. Recent(r, Len(s), n, type) = {}
  BY DEF Recent
<1>2. Shift(Len(s), {}) = {}
  BY DEF Shift
<1>3. Places(r, type) = Places(s, type)
  <2>1. Places(r, type) =
          Places(s, type) \cup Shift(Len(s), Recent(r, Len(s), n, type))
    BY ExtendedPlaces, Zenon
  <2> QED
    BY <1>1, <1>2, <2>1
<1>4. \A i \in DOMAIN s : r[i] = s[i]
  BY DEF Extends
<1> QED
  BY <1>3, <1>4 DEF Quiet, Logged, Places

(* A step that writes nothing.                                             *)
LEMMA SilentStep ==
  ASSUME UNCHANGED file, NEW type
  PROVE  Unsaid(type)
<1>1. Ends' = Ends /\ \A n : Written(n)' = Written(n)
  BY DEF file, Ends, Written
<1> QED
  BY <1>1 DEF Unsaid, Quiet

(* A step that writes at most one event, of another type.                  *)
LEMMA LoneEvent ==
  ASSUME FileInv, NEW e \in StreamEvent, Lone(e), NEW type, e.type # type
  PROVE  Unsaid(type)
<1>1. Follows(e)
  BY LoneFollows
<1> SUFFICES ASSUME NEW n \in Ends'
             PROVE  \E m \in Ends : Quiet(Written(n)', Written(m), type)
  BY DEF Unsaid
<1>2. CASE n \in Ends /\ Written(n)' = Written(n)
  BY <1>2 DEF Quiet
<1>3. CASE Written(n)' = Append(Written(Len(text)), e)
  <2>1. Len(text) \in Ends
    BY LenProperties DEF FileInv, Ends
  <2>2. PICK s \in Seq(StreamEvent) : s = Written(Len(text))
    BY <2>1, WrittenType
  <2>3. /\ Append(s, e) \in Seq(StreamEvent) /\ Len(Append(s, e)) = Len(s) + 1
        /\ \A i \in 1 .. Len(s) : Append(s, e)[i] = s[i]
        /\ Append(s, e)[Len(s) + 1] = e
    BY AppendProperties
  <2>4. Extends(Append(s, e), s, 1)
    BY <2>3 DEF Extends
  <2>5. Quiet(Append(s, e), s, type)
    <3>1. \A i \in 1 .. 1 : Append(s, e)[Len(s) + i].type # type
      BY <2>3
    <3> QED
      BY <2>4, <3>1, QuietStep
  <2> QED
    BY <1>3, <2>1, <2>2, <2>5
<1> QED
  BY <1>1, <1>2, <1>3 DEF Follows

(* An event has a rank among those of its type.                            *)
LEMMA RankInRange ==
  ASSUME NEW s \in Seq(StreamEvent), NEW type, NEW i \in Logged(s, type)
  PROVE  /\ IsFiniteSet(Logged(s, type)) /\ Cardinality(Logged(s, type)) \in Nat
         /\ Rank(s, type, i) \in 1 .. Cardinality(Logged(s, type))
<1> DEFINE L == Logged(s, type)
           upTo == {j \in L : j <= i}
<1>1. IsFiniteSet(L) /\ L \in SUBSET (1 .. Len(s))
  BY PlacesFinite DEF Places, Logged
<1>2. i \in upTo
  BY <1>1
<1>3. IsFiniteSet(upTo) /\ Cardinality(upTo) <= Cardinality(L)
  BY <1>1, FS_Subset
<1>4. Cardinality(upTo) # 0
  BY <1>2, <1>3, FS_EmptySet
<1>5. Cardinality(upTo) \in Nat /\ Cardinality(L) \in Nat
  BY <1>1, <1>3, FS_CardinalityType
<1> QED
  BY <1>1, <1>3, <1>4, <1>5 DEF Rank

(* Logs that have the same events agree with the same datagrams.           *)
LEMMA QuietAgrees ==
  ASSUME NEW r, NEW s, sent' = sent, ending = "failed" => ending' = "failed"
  PROVE  /\ ForwardsAgree(s) /\ Quiet(r, s, "packet_forwarded") => ForwardsAgree(r)'
         /\ ReordersAgree(s) /\ Quiet(r, s, "packet_reordered") => ReordersAgree(r)'
<1>1. ASSUME ForwardsAgree(s), Quiet(r, s, "packet_forwarded") PROVE ForwardsAgree(r)'
  <2>1. \A i : Rank(r, "packet_forwarded", i) = Rank(s, "packet_forwarded", i)
    BY <1>1 DEF Quiet, Rank
  <2> QED
    BY <1>1, <2>1 DEF Quiet, ForwardsAgree
<1>2. ASSUME ReordersAgree(s), Quiet(r, s, "packet_reordered") PROVE ReordersAgree(r)'
  <2> DEFINE places == Logged(s, "packet_reordered")
             noted(events) == {events[i].packet : i \in Logged(events, "packet_reordered")}
  <2>1. Late' = Late
    BY DEF Late
  <2>2. Logged(r, "packet_reordered") = places /\ \A i \in places : r[i] = s[i]
    BY <1>2 DEF Quiet
  <2>3. noted(r) = noted(s)
    BY <2>2
  <2>4. noted(r) \subseteq Late' /\ (ending' # "failed" => noted(r) = Late')
    BY <1>2, <2>1, <2>3 DEF ReordersAgree
  <2>5. \A i, j \in places : r[i].packet = r[j].packet => i = j
    BY <1>2, <2>2 DEF ReordersAgree
  <2>6. \A i \in places : /\ r[i].detail > r[i].packet
                         /\ \E j \in DOMAIN sent' : sent'[j].packet = r[i].detail
    BY <1>2, <2>2 DEF ReordersAgree
  <2> QED
    BY <2>2, <2>4, <2>5, <2>6 DEF ReordersAgree
<1> QED
  BY <1>1, <1>2

(* A step that sends nothing and is quiet for both types.                  *)
LEMMA BooksKept ==
  ASSUME BookInv, Unsaid("packet_forwarded"), Unsaid("packet_reordered"),
         sent' = sent,
         ending = "failed" => ending' = "failed",
         Going' => Going /\ ending' = ending /\ UNCHANGED <<reordered, highestForwarded>>
  PROVE  BookInv'
<1>1. ASSUME NEW n \in Ends' PROVE ForwardsAgree(Written(n))' /\ ReordersAgree(Written(n))'
  <2>1. PICK r : r = Written(n)'
    OBVIOUS
  <2>2. PICK s : ForwardsAgree(s) /\ Quiet(r, s, "packet_forwarded")
    BY <2>1 DEF Unsaid, BookInv
  <2>3. PICK u : ReordersAgree(u) /\ Quiet(r, u, "packet_reordered")
    BY <2>1 DEF Unsaid, BookInv
  <2>4. ForwardsAgree(r)' /\ ReordersAgree(r)'
    BY <2>2, <2>3, QuietAgrees
  <2> QED
    BY <2>1, <2>4 DEF ForwardsAgree, ReordersAgree
<1>2. Late' = Late
  BY DEF Late
<1> QED
  BY <1>1, <1>2 DEF BookInv

(* What sending a delivery d adds to a log when j of its notes are in the  *)
(* file: its reorder event, if one is due, then that it was forwarded.     *)
LEMMA ForwardAdds ==
  ASSUME TypeOK, log \in Seq(StreamEvent), NEW d \in Delivery,
         NEW j, NEW r, Emitted(r, ForwardNotes(d), nowNs, j)
  PROVE  /\ Len(log) \in Nat
         /\ \A i \in 1 .. Len(log) : r[i] = log[i]
         /\ IF j = Len(ForwardNotes(d))
            THEN \E n \in {Len(log) + 1, Len(log) + 2} :
                   /\ Logged(r, "packet_forwarded") = Logged(log, "packet_forwarded") \cup {n}
                   /\ r[n].packet = d.packet /\ r[n].detail = d.copy
            ELSE Quiet(r, log, "packet_forwarded")
         /\ IF Overtaken(d) /\ j # 0
            THEN LET n == Len(log) + 1
                 IN  /\ Logged(r, "packet_reordered") = Logged(log, "packet_reordered") \cup {n}
                     /\ r[n].packet = d.packet /\ r[n].detail = highestForwarded
            ELSE Quiet(r, log, "packet_reordered")
         /\ Quiet(r, log, "delivery_scheduled")
<1> DEFINE notes == ForwardNotes(d)
           Reorder == Note("packet_reordered", d.packet, highestForwarded)
           Forward == Note("packet_forwarded", d.packet, d.copy)
           fwd == "packet_forwarded"
           reo == "packet_reordered"
<1>1. IF Overtaken(d)
      THEN Len(notes) = 2 /\ notes[1] = Reorder /\ notes[2] = Forward
      ELSE Len(notes) = 1 /\ notes[1] = Forward
  <2>1. notes = (IF Overtaken(d) THEN <<Reorder>> ELSE <<>>) \o <<Forward>>
    BY DEF ForwardNotes, Optional
  <2> HIDE DEF notes, Reorder, Forward
  <2>2. CASE Overtaken(d)
    BY <2>1, <2>2
  <2>3. CASE ~Overtaken(d)
    BY <2>1, <2>3
  <2> QED
    BY <2>2, <2>3
<1>2. /\ Reorder.type = reo /\ Reorder.packet = d.packet /\ Reorder.detail = highestForwarded
      /\ Forward.type = fwd /\ Forward.packet = d.packet /\ Forward.detail = d.copy
  BY DEF Note
<1>3. notes \in Seq(PacketNote)
  BY ForwardNotesType DEF TypeOK
<1> HIDE DEF notes, Reorder, Forward
<1>5. j \in 0 .. Len(notes) /\ Extends(r, log, j) /\ Added(r, notes, nowNs, j)
  BY DEF Emitted, notes
<1>6. /\ Len(log) \in Nat /\ \A i \in 1 .. Len(log) : r[i] = log[i]
  BY <1>5 DEF Extends
<1>7. \A i \in 1 .. j : /\ r[Len(log) + i].type = notes[i].type
                        /\ r[Len(log) + i].packet = notes[i].packet
                        /\ r[Len(log) + i].detail = notes[i].detail
  <2> TAKE i \in 1 .. j
  <2>1. r[Len(log) + i] = [type |-> notes[i].type, packet |-> notes[i].packet,
                              detail |-> notes[i].detail,
                              index |-> eventIndex + i - 1, at |-> nowNs - start]
    BY <1>5 DEF Added
  <2> QED
    BY <2>1
<1>8. \A type : Logged(r, type) = Logged(log, type) \cup Shift(Len(log), Recent(r, Len(log), j, type))
  <2> TAKE type
  <2>1. Places(r, type) =
          Places(log, type) \cup Shift(Len(log), Recent(r, Len(log), j, type))
    BY <1>5, ExtendedPlaces, Zenon
  <2> QED
    BY <2>1 DEF Logged, Places
<1>9. \A i : Shift(Len(log), {i}) = {Len(log) + i}
  BY DEF Shift
<1>10. \A i \in 1 .. j : r[Len(log) + i].type = IF i = Len(notes) THEN fwd ELSE reo
  <2> TAKE i \in 1 .. j
  <2>1. notes[i].type = IF i = Len(notes) THEN fwd ELSE reo
    <3>1. CASE Overtaken(d)
      <4>1. Len(notes) = 2 /\ notes[1] = Reorder /\ notes[2] = Forward
        BY <1>1, <3>1
      <4>2. i \in {1, 2}
        BY <1>5, <4>1
      <4> QED
        BY <1>2, <4>1, <4>2
    <3>2. CASE ~Overtaken(d)
      <4>1. Len(notes) = 1 /\ notes[1] = Forward
        BY <1>1, <3>2
      <4>2. i = 1
        BY <1>5, <4>1
      <4> QED
        BY <1>2, <4>1, <4>2
    <3> QED
      BY <3>1, <3>2
  <2> QED
    BY <1>7, <2>1
<1>12. IF j = Len(notes)
       THEN \E n \in {Len(log) + 1, Len(log) + 2} :
              /\ Logged(r, fwd) = Logged(log, fwd) \cup {n}
              /\ r[n].packet = d.packet /\ r[n].detail = d.copy
       ELSE Quiet(r, log, fwd)
  <2>1. CASE j = Len(notes)
    <3>1. j \in 1 .. j /\ j \in {1, 2} /\ notes[j] = Forward
      BY <1>1, <2>1
    <3>2. Recent(r, Len(log), j, fwd) = {j}
      BY <1>10, <2>1, <3>1 DEF Recent
    <3>3. Logged(r, fwd) = Logged(log, fwd) \cup {Len(log) + j}
      BY <1>8, <1>9, <3>2
    <3>4. r[Len(log) + j].packet = d.packet /\ r[Len(log) + j].detail = d.copy
      BY <1>2, <1>7, <3>1
    <3> QED
      BY <2>1, <3>1, <3>3, <3>4
  <2>2. CASE j # Len(notes)
    <3>1. \A i \in 1 .. j : r[Len(log) + i].type # fwd
      <4> TAKE i \in 1 .. j
      <4>1. i # Len(notes)
        BY <1>1, <1>5, <2>2
      <4> QED
        BY <1>10, <4>1
    <3> QED
      BY <1>5, <2>2, <3>1, QuietStep
  <2> QED
    BY <2>1, <2>2
<1>13. IF Overtaken(d) /\ j # 0
       THEN /\ Logged(r, reo) = Logged(log, reo) \cup {Len(log) + 1}
            /\ r[Len(log) + 1].packet = d.packet
            /\ r[Len(log) + 1].detail = highestForwarded
       ELSE Quiet(r, log, reo)
  <2>1. CASE Overtaken(d) /\ j # 0
    <3>1. 1 \in 1 .. j /\ notes[1] = Reorder
      BY <1>1, <1>5, <2>1
    <3>2. Recent(r, Len(log), j, reo) = {1}
      <4>2. Len(notes) = 2
        BY <1>1, <2>1
      <4>1. \A i \in 1 .. j : i # 1 => i = Len(notes)
        BY <1>5, <4>2
      <4> QED
        BY <1>10, <3>1, <4>1, <4>2 DEF Recent
    <3>3. Logged(r, reo) = Logged(log, reo) \cup {Len(log) + 1}
      BY <1>8, <1>9, <3>2
    <3>4. r[Len(log) + 1].packet = d.packet /\ r[Len(log) + 1].detail = highestForwarded
      BY <1>2, <1>7, <3>1
    <3> QED
      BY <2>1, <3>3, <3>4
  <2>2. CASE ~(Overtaken(d) /\ j # 0)
    <3>1. \A i \in 1 .. j : r[Len(log) + i].type # reo
      <4> TAKE i \in 1 .. j
      <4>1. i = Len(notes)
        <5>1. ~Overtaken(d) /\ j \in Nat
          BY <1>5, <2>2
        <5>2. Len(notes) = 1
          BY <1>1, <5>1
        <5> QED
          BY <1>5, <5>2
      <4> QED
        BY <1>10, <4>1
    <3> QED
      BY <1>5, <2>2, <3>1, QuietStep
  <2> QED
    BY <2>1, <2>2
<1>14. Quiet(r, log, "delivery_scheduled")
  <2>1. \A i \in 1 .. j : r[Len(log) + i].type # "delivery_scheduled"
    BY <1>10
  <2> QED
    BY <1>5, <2>1, QuietStep
<1> QED
  BY <1>6, <1>12, <1>13, <1>14 DEF notes

(* What is given to the file when d is sent: k of its notes reach the      *)
(* disk, and j of them may when the next one was refused.                  *)
Sending(d, k, j, r) ==
  /\ Emitted(r, ForwardNotes(d), nowNs, j)
  /\ j \in {k, k + 1} /\ (k = Len(ForwardNotes(d)) => j = k)
  /\ sent' = Append(sent, d)
  /\ IF k = Len(ForwardNotes(d)) THEN ending' = ending
                                 ELSE ending' = "failed" /\ "sink" \in Faults

(* The log keeps up with what goes out, and falls behind by one only when  *)
(* the sink fails.                                                         *)
LEMMA ForwardKept ==
  ASSUME TypeOK, log \in Seq(StreamEvent), QueueInv, ForwardsAgree(log), ending = "none",
         NEW d \in Delivery, NEW k \in Nat, NEW j \in Nat, NEW r, Sending(d, k, j, r)
  PROVE  ForwardsAgree(r)'
<1> DEFINE notes == ForwardNotes(d)
           L == Logged(log, "packet_forwarded")
           M == Logged(r, "packet_forwarded")
           N == Len(sent)
<1>1. /\ Emitted(r, notes, nowNs, j)
      /\ j \in {k, k + 1} /\ (k = Len(notes) => j = k)
      /\ sent' = Append(sent, d)
      /\ IF k = Len(notes) THEN ending' = ending
                           ELSE ending' = "failed" /\ "sink" \in Faults
  BY DEF Sending
<1>2. /\ Len(log) \in Nat
      /\ \A i \in 1 .. Len(log) : r[i] = log[i]
      /\ IF j = Len(notes)
         THEN \E n \in {Len(log) + 1, Len(log) + 2} :
                /\ M = L \cup {n}
                /\ r[n].packet = d.packet /\ r[n].detail = d.copy
         ELSE Quiet(r, log, "packet_forwarded")
  BY <1>1, ForwardAdds
<1> HIDE DEF notes
<1>3. /\ sent \in Seq(Delivery) /\ N \in Nat
      /\ Len(sent') = N + 1 /\ sent'[N + 1] = d
      /\ \A i \in 1 .. N : sent'[i] = sent[i]
  BY <1>1 DEF QueueInv
<1>4. /\ IsFiniteSet(L) /\ Cardinality(L) \in Nat /\ L \in SUBSET (1 .. Len(log))
      /\ \A i \in L : Rank(log, "packet_forwarded", i) \in 1 .. Cardinality(L)
  <2>1. IsFiniteSet(L) /\ L \in SUBSET (1 .. Len(log))
    BY PlacesFinite DEF Places, Logged
  <2> QED
    BY <2>1, RankInRange, FS_CardinalityType
<1>5. Cardinality(L) = N
  BY <1>3, <1>4 DEF ForwardsAgree
<1>6. \A i \in L : LET e == sent[Rank(log, "packet_forwarded", i)]
                   IN  /\ r[i] = log[i] /\ sent'[Rank(log, "packet_forwarded", i)] = e
                       /\ log[i].packet = e.packet /\ log[i].detail = e.copy
  BY <1>2, <1>3, <1>4, <1>5 DEF ForwardsAgree
<1>7. CASE j = Len(notes)
  <2>1. PICK n \in {Len(log) + 1, Len(log) + 2} :
          /\ M = L \cup {n}
          /\ r[n].packet = d.packet /\ r[n].detail = d.copy
    BY <1>2, <1>7
  <2>2. n \notin L /\ n \in Nat /\ \A i \in L : i < n /\ i \in Nat
    BY <1>2, <1>4, <2>1
  <2>3. Cardinality(M) = N + 1
    <3> HIDE DEF L, M
    <3>1. Cardinality(L \cup {n}) = Cardinality(L) + 1
      BY <1>4, <2>2, FS_AddElement
    <3> QED
      BY <1>5, <2>1, <3>1
  <2>4. \A i \in L : Rank(r, "packet_forwarded", i) = Rank(log, "packet_forwarded", i)
    <3> TAKE i \in L
    <3>1. {h \in M : h <= i} = {h \in L : h <= i}
      BY <2>1, <2>2
    <3> QED
      BY <3>1 DEF Rank
  <2>5. Rank(r, "packet_forwarded", n) = N + 1
    <3>1. {h \in M : h <= n} = M
      BY <2>1, <2>2
    <3> QED
      BY <2>3, <3>1 DEF Rank
  <2>6. \A i \in M : LET e == sent'[Rank(r, "packet_forwarded", i)]
                     IN  r[i].packet = e.packet /\ r[i].detail = e.copy
    BY <1>3, <1>6, <2>1, <2>4, <2>5
  <2>7. Len(sent') - Cardinality(M) = 0
    BY <1>3, <2>3
  <2> QED
    BY <2>6, <2>7 DEF ForwardsAgree
<1>8. CASE j # Len(notes)
  <2>1. M = L /\ "sink" \in Faults /\ ending' = "failed"
    BY <1>1, <1>2, <1>8 DEF Quiet
  <2>2. \A i \in L : Rank(r, "packet_forwarded", i) = Rank(log, "packet_forwarded", i)
    BY <2>1 DEF Rank
  <2>3. \A i \in M : LET e == sent'[Rank(r, "packet_forwarded", i)]
                     IN  r[i].packet = e.packet /\ r[i].detail = e.copy
    BY <1>6, <2>1, <2>2
  <2>4. Len(sent') - Cardinality(M) = 1
    BY <1>3, <1>5, <2>1
  <2> QED
    BY <2>1, <2>3, <2>4 DEF ForwardsAgree
<1> QED
  BY <1>7, <1>8

(* What went out late is late when one more goes out, and that one may be. *)
LEMMA LateGrows ==
  ASSUME TypeOK, QueueInv, NEW d \in Delivery, sent' = Append(sent, d),
         \A j \in DOMAIN sent : sent[j].packet <= highestForwarded,
         highestForwarded # -1 => \E j \in DOMAIN sent : sent[j].packet = highestForwarded
  PROVE  Late' = IF d.packet < highestForwarded THEN Late \cup {d.packet} ELSE Late
<1> DEFINE N == Len(sent)
           Behind(j) == \E i \in 1 .. j - 1 : sent[i].packet > sent[j].packet
           BehindNow(j) == \E i \in 1 .. j - 1 : sent'[i].packet > sent'[j].packet
<1>1. /\ sent \in Seq(Delivery) /\ N \in Nat
      /\ DOMAIN sent' = DOMAIN sent \cup {N + 1} /\ sent'[N + 1] = d
      /\ DOMAIN sent = 1 .. N /\ \A i \in 1 .. N : sent'[i] = sent[i] /\ sent[i] \in Delivery
  BY DEF QueueInv
<1>2. highestForwarded \in Nat \cup {-1} /\ d.packet \in Nat
  BY DEF TypeOK, Delivery
<1>3. \A j \in 1 .. N : BehindNow(j) <=> Behind(j)
  BY <1>1
<1>4. BehindNow(N + 1) <=> d.packet < highestForwarded
  <2>1. BehindNow(N + 1) <=> \E i \in 1 .. N : sent[i].packet > d.packet
    BY <1>1
  <2>2. (\E i \in 1 .. N : sent[i].packet > d.packet) => d.packet < highestForwarded
    <3> SUFFICES ASSUME NEW i \in 1 .. N, sent[i].packet > d.packet
                 PROVE  d.packet < highestForwarded
      OBVIOUS
    <3>1. sent[i].packet \in Nat /\ sent[i].packet <= highestForwarded
      BY <1>1 DEF Delivery
    <3> QED
      BY <1>2, <3>1
  <2>3. d.packet < highestForwarded => \E i \in 1 .. N : sent[i].packet > d.packet
    BY <1>1, <1>2
  <2> QED
    BY <2>1, <2>2, <2>3
<1>5. Late = {sent[j].packet : j \in {j \in 1 .. N : Behind(j)}}
  BY <1>1 DEF Late
<1>6. Late' = {sent'[j].packet : j \in {j \in (1 .. N) \cup {N + 1} : BehindNow(j)}}
  BY <1>1 DEF Late
<1> HIDE DEF Behind, BehindNow
<1>7. CASE d.packet < highestForwarded
  BY <1>1, <1>3, <1>4, <1>5, <1>6, <1>7
<1>8. CASE ~(d.packet < highestForwarded)
  BY <1>1, <1>3, <1>4, <1>5, <1>6, <1>8
<1> QED
  BY <1>7, <1>8

(* A reorder event is due exactly when the delivery is overtaken and its   *)
(* packet has none yet; the sink may refuse it.                            *)
LEMMA ReorderKept ==
  ASSUME TypeOK, log \in Seq(StreamEvent), QueueInv, ReordersAgree(log), ending = "none",
         reordered = Late,
         \A j \in DOMAIN sent : sent[j].packet <= highestForwarded,
         highestForwarded # -1 => \E j \in DOMAIN sent : sent[j].packet = highestForwarded,
         NEW d \in Delivery, NEW k \in Nat, NEW j \in Nat, NEW r, Sending(d, k, j, r)
  PROVE  ReordersAgree(r)'
<1> DEFINE notes == ForwardNotes(d)
           L == Logged(log, "packet_reordered")
           M == Logged(r, "packet_reordered")
           noted == {log[i].packet : i \in L}
           named == {r[i].packet : i \in M}
           N == Len(sent)
<1>1. /\ Emitted(r, notes, nowNs, j)
      /\ j \in {k, k + 1} /\ (k = Len(notes) => j = k)
      /\ sent' = Append(sent, d)
      /\ k # Len(notes) => ending' = "failed"
  BY DEF Sending
<1>2. /\ Len(log) \in Nat
      /\ \A i \in 1 .. Len(log) : r[i] = log[i]
      /\ IF Overtaken(d) /\ j # 0
         THEN LET n == Len(log) + 1
              IN  /\ M = L \cup {n}
                  /\ r[n].packet = d.packet /\ r[n].detail = highestForwarded
         ELSE Quiet(r, log, "packet_reordered")
  BY <1>1, ForwardAdds
<1>3. Len(notes) # 0
  <2>1. notes = Optional(Overtaken(d), Note("packet_reordered", d.packet, highestForwarded))
                  \o <<Note("packet_forwarded", d.packet, d.copy)>>
    BY DEF ForwardNotes
  <2> QED
    BY <2>1 DEF Optional
<1> HIDE DEF notes
<1>4. /\ sent \in Seq(Delivery) /\ N \in Nat
      /\ DOMAIN sent' = DOMAIN sent \cup {N + 1} /\ sent'[N + 1] = d
      /\ DOMAIN sent = 1 .. N /\ \A i \in 1 .. N : sent'[i] = sent[i]
  BY <1>1 DEF QueueInv
<1>5. L \in SUBSET (1 .. Len(log))
  BY PlacesFinite DEF Places, Logged
<1>6. /\ noted = Late
      /\ \A h, i \in L : log[h].packet = log[i].packet => h = i
      /\ \A i \in L : /\ log[i].detail > log[i].packet
                      /\ \E h \in DOMAIN sent : sent[h].packet = log[i].detail
  BY DEF ReordersAgree
<1>7. highestForwarded \in Nat \cup {-1} /\ d.packet \in Nat
  BY DEF TypeOK, Delivery
<1>8. Late' = IF d.packet < highestForwarded THEN Late \cup {d.packet} ELSE Late
  BY <1>1, LateGrows
<1>9. CASE Overtaken(d) /\ j # 0
  <2> DEFINE n == Len(log) + 1
  <2>1. /\ M = L \cup {n} /\ n \notin L
        /\ r[n].packet = d.packet /\ r[n].detail = highestForwarded
    BY <1>2, <1>5, <1>9
  <2>2. \A i \in L : r[i] = log[i]
    BY <1>2, <1>5
  <2> HIDE DEF n
  <2>3. d.packet < highestForwarded /\ d.packet \notin Late
    BY <1>9 DEF Overtaken
  <2>4. named = noted \cup {d.packet}
    BY <2>1, <2>2
  <2>5. named = Late'
    BY <1>6, <1>8, <2>3, <2>4
  <2>6. \A i \in L : log[i].packet # d.packet
    BY <1>6, <2>3
  <2>7. \A h, i \in M : r[h].packet = r[i].packet => h = i
    BY <1>6, <2>1, <2>2, <2>6
  <2>8. \A i \in M : /\ r[i].detail > r[i].packet
                     /\ \E h \in DOMAIN sent' : sent'[h].packet = r[i].detail
    <3>1. highestForwarded # -1 /\ highestForwarded > d.packet
      BY <1>7, <2>3
    <3>2. PICK h \in DOMAIN sent : sent[h].packet = highestForwarded
      BY <3>1
    <3>3. h \in DOMAIN sent' /\ sent'[h].packet = highestForwarded
      BY <1>4, <3>2
    <3>4. \A i \in L : \E g \in DOMAIN sent' : sent'[g].packet = log[i].detail
      BY <1>4, <1>6
    <3> QED
      BY <1>6, <2>1, <2>2, <3>1, <3>3, <3>4
  <2> QED
    BY <2>5, <2>7, <2>8 DEF ReordersAgree
<1>10. CASE ~(Overtaken(d) /\ j # 0)
  <2>1. M = L /\ \A i \in L : r[i] = log[i]
    BY <1>2, <1>10 DEF Quiet
  <2>2. named = noted
    BY <2>1
  <2>3. Late \subseteq Late'
    BY <1>8
  <2>4. ending' # "failed" => Late' = Late
    <3> SUFFICES ASSUME ending' # "failed", d.packet < highestForwarded
                 PROVE  d.packet \in Late
      BY <1>8
    <3>1. ~Overtaken(d)
      BY <1>1, <1>3, <1>10
    <3> QED
      BY <3>1 DEF Overtaken
  <2>5. \A h, i \in M : r[h].packet = r[i].packet => h = i
    BY <1>6, <2>1
  <2>6. \A i \in M : /\ r[i].detail > r[i].packet
                     /\ \E h \in DOMAIN sent' : sent'[h].packet = r[i].detail
    <3>1. \A i \in L : \E g \in DOMAIN sent' : sent'[g].packet = log[i].detail
      BY <1>4, <1>6
    <3> QED
      BY <1>6, <2>1, <3>1
  <2> QED
    BY <1>6, <2>2, <2>3, <2>4, <2>5, <2>6 DEF ReordersAgree
<1> QED
  BY <1>9, <1>10

(* Sending a delivery keeps the books, wherever the file ends then.        *)
LEMMA SendBooks ==
  ASSUME TypeOK, LoopInv, StreamInv, QueueInv, BookInv, SendNext
  PROVE  /\ BookInv'
         /\ Unsaid("delivery_scheduled")
<1> DEFINE d == First(ready)
           notes == ForwardNotes(d)
<1>1. PICK k \in SinkOutcomes(Len(notes)) :
        /\ Emit(notes, nowNs, k)
        /\ highestForwarded' = IF Overtaken(d) /\ k = 0
                               THEN highestForwarded
                               ELSE Greater(highestForwarded, d.packet)
        /\ IF k = Len(notes)
           THEN UNCHANGED <<phase, ending>>
           ELSE phase' = "finally" /\ ending' = "failed"
  BY DEF SendNext
<1>2. /\ d \in Delivery /\ Running /\ Going /\ phase = "send" /\ sent' = Append(sent, d)
      /\ reordered' = IF Overtaken(d) THEN reordered \cup {d.packet} ELSE reordered
      /\ nowNs \in Nat
  BY FirstIsMember DEF SendNext, TypeOK, Running, Going
<1> HIDE DEF d
<1>3. notes \in Seq(PacketNote) /\ Len(notes) # 0
  <2>1. notes = Optional(Overtaken(d), Note("packet_reordered", d.packet, highestForwarded))
                  \o <<Note("packet_forwarded", d.packet, d.copy)>>
    BY DEF ForwardNotes
  <2>2. Len(notes) # 0
    BY <2>1 DEF Optional
  <2> QED
    BY <1>2, <2>2, ForwardNotesType DEF TypeOK
<1>4. /\ FileInv /\ Clean /\ begun <= flushed
      /\ flushed \in Ends /\ log = Written(flushed) /\ log \in Seq(StreamEvent)
  BY <1>2, LogIsWritten DEF StreamInv
<1>5. /\ k \in 0 .. Len(notes)
      /\ k # Len(notes) => "sink" \in Faults
      /\ \A n \in Ends' : \E j \in {k, k + 1} :
           /\ Emitted(Written(n)', notes, nowNs, j)
           /\ k = Len(notes) => j = k
  BY <1>1, <1>2, <1>3, <1>4, EmitAppends
<1>6. /\ ForwardsAgree(log) /\ ReordersAgree(log)
      /\ ending = "none" /\ reordered = Late
      /\ \A j \in DOMAIN sent : sent[j].packet <= highestForwarded
      /\ highestForwarded # -1 => \E j \in DOMAIN sent : sent[j].packet = highestForwarded
  BY <1>2, <1>4 DEF BookInv
<1>7. ASSUME NEW n \in Ends'
      PROVE  /\ ForwardsAgree(Written(n))' /\ ReordersAgree(Written(n))'
             /\ Quiet(Written(n)', Written(flushed), "delivery_scheduled")
  <2>1. PICK r : r = Written(n)'
    OBVIOUS
  <2>2. PICK j \in {k, k + 1} : Emitted(r, notes, nowNs, j) /\ (k = Len(notes) => j = k)
    BY <1>5, <2>1
  <2>3. Sending(d, k, j, r) /\ k \in Nat /\ j \in Nat
    BY <1>1, <1>2, <1>5, <2>2 DEF Sending
  <2>4. ForwardsAgree(r)'
    BY <1>2, <1>4, <1>6, <2>3, ForwardKept
  <2>5. ReordersAgree(r)'
    BY <1>2, <1>4, <1>6, <2>3, ReorderKept
  <2>6. Quiet(r, log, "delivery_scheduled")
    BY <1>2, <1>4, <2>2, ForwardAdds
  <2> QED
    BY <1>4, <2>1, <2>4, <2>5, <2>6 DEF ForwardsAgree, ReordersAgree
<1>8. ASSUME Going'
      PROVE  /\ ending' = "none" /\ reordered' = Late'
             /\ \A j \in DOMAIN sent' : sent'[j].packet <= highestForwarded'
             /\ highestForwarded' # -1 =>
                  \E j \in DOMAIN sent' : sent'[j].packet = highestForwarded'
  <2>1. k = Len(notes) /\ ending' = ending
    BY <1>1, <1>8 DEF Going
  <2>2. Late' = IF d.packet < highestForwarded THEN Late \cup {d.packet} ELSE Late
    BY <1>2, <1>6, LateGrows
  <2>3. reordered' = Late'
    BY <1>2, <1>6, <2>2 DEF Overtaken
  <2>4. highestForwarded' = Greater(highestForwarded, d.packet)
    BY <1>1, <1>3, <2>1
  <2>5. /\ sent \in Seq(Delivery) /\ DOMAIN sent' = DOMAIN sent \cup {Len(sent) + 1}
        /\ sent'[Len(sent) + 1] = d
        /\ \A i \in DOMAIN sent : sent'[i] = sent[i] /\ sent[i] \in Delivery
    BY <1>2 DEF QueueInv
  <2>6. highestForwarded \in Nat \cup {-1} /\ d.packet \in Nat
    BY <1>2 DEF TypeOK, Delivery
  <2>7. \A j \in DOMAIN sent' : sent'[j].packet <= highestForwarded'
    BY <1>6, <2>4, <2>5, <2>6 DEF Greater, Delivery
  <2>8. \E j \in DOMAIN sent' : sent'[j].packet = highestForwarded'
    BY <1>6, <2>4, <2>5, <2>6 DEF Greater
  <2> QED
    BY <1>6, <2>1, <2>3, <2>7, <2>8
<1>9. BookInv'
  BY <1>7, <1>8 DEF BookInv
<1>10. Unsaid("delivery_scheduled")
  BY <1>4, <1>7 DEF Unsaid
<1> QED
  BY <1>9, <1>10


(* The header of a stream, whether the sink takes it or not.               *)
LEMMA HeaderIsQuiet ==
  ASSUME StreamInv, StartRun \/ InterruptAtHeader, NEW type \in CountedTypes
  PROVE  Unsaid(type)
<1>1. /\ FileInv /\ MetadataEvent \in StreamEvent /\ MetadataEvent.type # type
      /\ Len(text) \in Nat /\ flushed \in 0 .. Len(text) /\ refused \in Nat
  BY LenProperties DEF StreamInv, FileInv, StreamEvent, MetadataEvent, CountedTypes
<1>2. Lone(MetadataEvent)
  <2>1. CASE StartRun
    <3>1. \E k \in 0 .. 1 :
            IF recording THEN Write(<<MetadataEvent>>, k) ELSE UNCHANGED file
      BY <2>1 DEF StartRun, SinkOutcomes
    <3>2. CASE recording
      BY <1>1, <3>1, <3>2, WriteIsLone
    <3>3. CASE ~recording
      BY <1>1, <3>1, <3>3 DEF Lone, file
    <3> QED
      BY <3>2, <3>3
  <2>2. CASE InterruptAtHeader
    BY <1>1, <2>2, InterruptedIsLone DEF InterruptAtHeader
  <2> QED
    BY <2>1, <2>2
<1> QED
  BY <1>1, <1>2, LoneEvent

(* The summary of a stream, whether the sink takes it or not.              *)
LEMMA SummaryIsQuiet ==
  ASSUME TypeOK, LoopInv, StreamInv, Finish \/ InterruptAtSummary,
         NEW type \in CountedTypes
  PROVE  Unsaid(type)
<1>1. FileInv /\ phase = "finally"
  BY DEF StreamInv, Finish, InterruptAtSummary
<1>2. SummaryEvent \in StreamEvent
  BY <1>1, LogIsWritten, SummaryCloses DEF StreamInv, Running, LoopInv
<1>3. SummaryEvent.type # type
  BY DEF SummaryEvent, CountedTypes
<1>4. Lone(SummaryEvent)
  <2>1. CASE Finish
    BY <1>1, <1>2, <2>1, WriteIsLone DEF Finish, SinkOutcomes
  <2>2. CASE InterruptAtSummary
    BY <1>1, <1>2, <2>2, InterruptedIsLone DEF InterruptAtSummary
  <2> QED
    BY <2>1, <2>2
<1> QED
  BY <1>1, <1>2, <1>3, <1>4, LoneEvent

(* The caller's close writes at most what the file still holds.            *)
LEMMA CloseIsQuiet ==
  ASSUME StreamInv, CallerCloses, NEW type \in CountedTypes
  PROVE  Unsaid(type)
<1>1. /\ FileInv /\ MetadataEvent \in StreamEvent /\ MetadataEvent.type # type
      /\ Len(text) \in Nat /\ flushed \in 0 .. Len(text) /\ refused \in Nat
  BY LenProperties DEF StreamInv, FileInv, StreamEvent, MetadataEvent, CountedTypes
<1>2. Lone(MetadataEvent)
  BY <1>1 DEF CallerCloses, file, Lone
<1> QED
  BY <1>1, <1>2, LoneEvent

(* What is said of a packet that arrives: every note is about it.          *)
EarlyNote(p) ==
  [type : {"packet_received", "packet_dropped", "packet_duplicated",
           "packet_corrupted", "packet_delayed"}, packet : {p}, detail : Int]

(* The notes of a packet: what became of it, then one for each delivery.   *)
LEMMA OutcomeNotesSplit ==
  ASSUME NEW o \in Outcomes, NEW p \in Nat
  PROVE  \E early \in Seq(EarlyNote(p)) :
           LET m == Len(early)
           IN  /\ Len(OutcomeNotes(o, p)) = m + o.copies
               /\ \A i \in 1 .. m : OutcomeNotes(o, p)[i] = early[i]
               /\ \A c \in 1 .. o.copies :
                    OutcomeNotes(o, p)[m + c] = Note("delivery_scheduled", p, c - 1)
<1> DEFINE E == EarlyNote(p)
           R == <<Note("packet_received", p, None)>>
           X == <<Note("packet_dropped", p, None)>>
           U == Optional(o.copies = 2, Note("packet_duplicated", p, None))
           C == Optional(o.corrupted, Note("packet_corrupted", p, None))
           D == Optional(o.delay > 0, Note("packet_delayed", p, None))
           S == [c \in 1..o.copies |-> Note("delivery_scheduled", p, c - 1)]
<1>1. o.copies \in 0 .. 2
  BY OutcomesAssumption
<1>2. /\ R \in Seq(E) /\ X \in Seq(E) /\ U \in Seq(E) /\ C \in Seq(E) /\ D \in Seq(E)
  <2>1. None \in Int
    BY DEF None
  <2>2. /\ Note("packet_received", p, None) \in E
        /\ Note("packet_dropped", p, None) \in E
        /\ Note("packet_duplicated", p, None) \in E
        /\ Note("packet_corrupted", p, None) \in E
        /\ Note("packet_delayed", p, None) \in E
    BY <2>1 DEF Note, EarlyNote
  <2> HIDE DEF E
  <2>3. \A note \in E : <<note>> \in Seq(E)
    OBVIOUS
  <2>4. <<>> \in Seq(E)
    OBVIOUS
  <2> QED
    BY <2>2, <2>3, <2>4, Zenon DEF Optional
<1>3. CASE o.copies = 0
  <2>1. OutcomeNotes(o, p) = R \o X
    BY <1>3 DEF OutcomeNotes
  <2>2. R \o X \in Seq(E)
    BY <1>2, ConcatProperties
  <2>3. 1 .. o.copies = {} /\ Len(R \o X) = Len(R \o X) + o.copies
    BY <1>3, <2>2, LenProperties
  <2> QED
    BY <2>1, <2>2, <2>3
<1>4. CASE o.copies # 0
  <2> DEFINE early == R \o (U \o C \o D)
             N == [type : {"delivery_scheduled"}, packet : {p}, detail : Int]
             A == E \cup N
  <2>1. OutcomeNotes(o, p) = R \o (U \o C \o D \o S)
    BY <1>4 DEF OutcomeNotes
  <2>2. S \in Seq(N) /\ Len(S) = o.copies
        /\ \A c \in 1 .. o.copies : S[c] = Note("delivery_scheduled", p, c - 1)
    <3>1. \A c \in 1 .. o.copies : c - 1 \in Int
      BY <1>1
    <3>2. \A c \in 1 .. o.copies : Note("delivery_scheduled", p, c - 1) \in N
      BY <3>1 DEF Note
    <3> HIDE DEF N
    <3>3. S \in [1 .. o.copies -> N]
      BY <3>2
    <3>4. o.copies \in Nat
      BY <1>1
    <3>5. [1 .. o.copies -> N] \subseteq UNION {[1 .. n -> N] : n \in Nat}
      BY <3>4, Zenon
    <3>6. S \in Seq(N)
      BY <3>3, <3>5, SeqDef, Zenon
    <3> QED
      BY <1>1, <3>6
  <2> HIDE DEF E, N, R, U, C, D, S
  <2>3. /\ R \in Seq(A) /\ U \in Seq(A) /\ C \in Seq(A) /\ D \in Seq(A) /\ S \in Seq(A)
    <3>1. \A s \in Seq(E) : s \in Seq(A)
      OBVIOUS
    <3>2. \A s \in Seq(N) : s \in Seq(A)
      OBVIOUS
    <3> QED
      BY <1>2, <2>2, <3>1, <3>2
  <2> HIDE DEF A
  <2>4. R \o (U \o C \o D \o S) = (R \o (U \o C \o D)) \o S
    <3> DEFINE T == U \o C \o D
    <3>1. T \in Seq(A)
      BY <2>3, ConcatProperties
    <3> HIDE DEF T
    <3>2. (R \o T) \o S = R \o (T \o S)
      BY <2>3, <3>1, ConcatAssociative, SMTT(30)
    <3> QED
      BY <3>2, Zenon DEF T
  <2>5. U \o C \o D \in Seq(E)
    BY <1>2, ConcatProperties
  <2>6. early \in Seq(E) /\ early \in Seq(A)
    <3>1. early \in Seq(E)
      BY <1>2, <2>5, ConcatProperties
    <3> HIDE DEF early
    <3> QED
      BY <3>1 DEF A
  <2>7. OutcomeNotes(o, p) = early \o S
    BY <2>1, <2>4
  <2> HIDE DEF early
  <2>8. /\ Len(early) \in Nat
        /\ Len(OutcomeNotes(o, p)) = Len(early) + o.copies
        /\ \A i \in 1 .. Len(early) + o.copies :
             OutcomeNotes(o, p)[i] = IF i <= Len(early) THEN early[i] ELSE S[i - Len(early)]
    <3>1. /\ Len(early \o S) = Len(early) + Len(S)
          /\ \A i \in 1 .. Len(early) + Len(S) :
               (early \o S)[i] = IF i <= Len(early) THEN early[i] ELSE S[i - Len(early)]
      BY <2>3, <2>6, ConcatProperties, Zenon
    <3> QED
      BY <2>2, <2>6, <2>7, <3>1
  <2>9. \A i \in 1 .. Len(early) : OutcomeNotes(o, p)[i] = early[i]
    BY <1>1, <2>8
  <2>10. \A c \in 1 .. o.copies :
           OutcomeNotes(o, p)[Len(early) + c] = Note("delivery_scheduled", p, c - 1)
    <3> TAKE c \in 1 .. o.copies
    <3>1. /\ Len(early) + c \in 1 .. Len(early) + o.copies
          /\ ~(Len(early) + c <= Len(early)) /\ Len(early) + c - Len(early) = c
      BY <1>1, <2>8
    <3> QED
      BY <2>2, <2>8, <3>1
  <2>11. early \in Seq(EarlyNote(p))
    BY <2>6 DEF E
  <2> QED
    BY <2>8, <2>9, <2>10, <2>11, Zenon
<1> QED
  BY <1>3, <1>4

(* Moving positions along twice moves them by the sum.                     *)
LEMMA ShiftedTwice ==
  ASSUME NEW m \in Nat, NEW n \in Nat, NEW B \in SUBSET Nat
  PROVE  Shift(m, Shift(n, B)) = Shift(m + n, B)
<1>1. \A i \in B : m + (n + i) = (m + n) + i
  OBVIOUS
<1>2. \A x : x \in Shift(m, Shift(n, B)) <=> \E i \in B : x = m + (n + i)
  BY Zenon DEF Shift
<1>3. \A x : x \in Shift(m + n, B) <=> \E i \in B : x = (m + n) + i
  BY Zenon DEF Shift
<1> QED
  BY <1>1, <1>2, <1>3

(* A packet that arrives adds the events of its deliveries, one for each   *)
(* copy, once all of its notes are in the file; and none about what was    *)
(* sent.                                                                   *)
LEMMA OutcomeAdds ==
  ASSUME TypeOK, log \in Seq(StreamEvent), NEW o \in Outcomes,
         NEW j, NEW r, Emitted(r, OutcomeNotes(o, packetIndex), now, j)
  PROVE  /\ Quiet(r, log, "packet_forwarded") /\ Quiet(r, log, "packet_reordered")
         /\ j = Len(OutcomeNotes(o, packetIndex)) =>
              \E n \in Nat :
                /\ n >= Len(log)
                /\ Logged(r, "delivery_scheduled") =
                     Logged(log, "delivery_scheduled") \cup Shift(n, 1 .. o.copies)
                /\ \A i \in Logged(log, "delivery_scheduled") : r[i] = log[i]
                /\ \A c \in 1 .. o.copies :
                     r[n + c].packet = packetIndex /\ r[n + c].detail = c - 1
<1> DEFINE p == packetIndex
           notes == OutcomeNotes(o, p)
           due == "delivery_scheduled"
<1>1. p \in Nat /\ now \in Nat /\ o.copies \in Nat
  BY OutcomesAssumption DEF TypeOK
<1>2. PICK early \in Seq(EarlyNote(p)) :
        /\ Len(notes) = Len(early) + o.copies
        /\ \A i \in 1 .. Len(early) : notes[i] = early[i]
        /\ \A c \in 1 .. o.copies : notes[Len(early) + c] = Note(due, p, c - 1)
  BY <1>1, OutcomeNotesSplit
<1>3. Len(log) \in Nat
  BY LenProperties
<1>4. notes \in Seq(PacketNote)
  BY <1>1, OutcomeNotesType
<1> HIDE DEF notes
<1>5. j \in 0 .. Len(notes) /\ Extends(r, log, j) /\ Added(r, notes, now, j)
  BY DEF Emitted, notes
<1>6. \A i \in 1 .. j : /\ r[Len(log) + i].type = notes[i].type
                        /\ r[Len(log) + i].packet = notes[i].packet
                        /\ r[Len(log) + i].detail = notes[i].detail
  <2> TAKE i \in 1 .. j
  <2>1. r[Len(log) + i] = [type |-> notes[i].type, packet |-> notes[i].packet,
                              detail |-> notes[i].detail,
                              index |-> eventIndex + i - 1, at |-> now - start]
    BY <1>5 DEF Added
  <2> QED
    BY <2>1
<1>7. Len(early) \in Nat /\ \A i \in 1 .. Len(early) : early[i] \in EarlyNote(p)
  BY <1>2
<1>8. \A c \in 1 .. o.copies : /\ notes[Len(early) + c].type = due
                               /\ notes[Len(early) + c].packet = p
                               /\ notes[Len(early) + c].detail = c - 1
  <2> TAKE c \in 1 .. o.copies
  <2>1. notes[Len(early) + c] = Note(due, p, c - 1)
    BY <1>2
  <2> QED
    BY <2>1 DEF Note
<1>9. \A i \in 1 .. Len(notes) :
        IF i <= Len(early)
        THEN notes[i].type \notin {due, "packet_forwarded", "packet_reordered"}
        ELSE notes[i].type = due
  <2> TAKE i \in 1 .. Len(notes)
  <2>1. CASE i <= Len(early)
    <3>1. notes[i] \in EarlyNote(p)
      BY <1>2, <1>7, <2>1
    <3> QED
      BY <2>1, <3>1 DEF EarlyNote
  <2>2. CASE ~(i <= Len(early))
    <3>1. PICK c \in 1 .. o.copies : i = Len(early) + c
      <4>1. i - Len(early) \in 1 .. o.copies /\ i = Len(early) + (i - Len(early))
        BY <1>1, <1>2, <1>7, <2>2
      <4> QED
        BY <4>1
    <3> QED
      BY <1>8, <2>2, <3>1
  <2> QED
    BY <2>1, <2>2
<1>10. \A i \in 1 .. j : r[Len(log) + i].type \notin {"packet_forwarded", "packet_reordered"}
  <2> TAKE i \in 1 .. j
  <2>1. i \in 1 .. Len(notes) /\ r[Len(log) + i].type = notes[i].type
    BY <1>1, <1>2, <1>5, <1>6, <1>7
  <2>2. CASE i <= Len(early)
    BY <1>9, <2>1, <2>2
  <2>3. CASE ~(i <= Len(early))
    BY <1>9, <2>1, <2>3
  <2> QED
    BY <2>2, <2>3
<1>11. Quiet(r, log, "packet_forwarded") /\ Quiet(r, log, "packet_reordered")
  BY <1>5, <1>10, QuietStep
<1>12. ASSUME j = Len(notes)
       PROVE  \E n \in Nat :
                /\ n >= Len(log)
                /\ Logged(r, due) = Logged(log, due) \cup Shift(n, 1 .. o.copies)
                /\ \A i \in Logged(log, due) : r[i] = log[i]
                /\ \A c \in 1 .. o.copies :
                     r[n + c].packet = p /\ r[n + c].detail = c - 1
  <2> DEFINE n == Len(log) + Len(early)
  <2>1. n \in Nat /\ n >= Len(log)
    BY <1>3, <1>7
  <2>2. Logged(r, due) = Logged(log, due) \cup Shift(Len(log), Recent(r, Len(log), j, due))
    <3>1. Places(r, due) =
            Places(log, due) \cup Shift(Len(log), Recent(r, Len(log), j, due))
      BY <1>5, ExtendedPlaces, Zenon
    <3> QED
      BY <3>1 DEF Logged, Places
  <2>3. Recent(r, Len(log), j, due) = {i \in 1 .. j : ~(i <= Len(early))}
    <3>1. \A i \in 1 .. j : r[Len(log) + i].type = due <=> ~(i <= Len(early))
      <4> TAKE i \in 1 .. j
      <4>1. i \in 1 .. Len(notes) /\ r[Len(log) + i].type = notes[i].type
        BY <1>6, <1>12
      <4>2. CASE i <= Len(early)
        BY <1>9, <4>1, <4>2
      <4>3. CASE ~(i <= Len(early))
        BY <1>9, <4>1, <4>3
      <4> QED
        BY <4>2, <4>3
    <3> QED
      BY <3>1 DEF Recent
  <2>4. {i \in 1 .. j : ~(i <= Len(early))} = Shift(Len(early), 1 .. o.copies)
    <3>1. j = Len(early) + o.copies
      BY <1>2, <1>12
    <3>2. \A i \in 1 .. j : ~(i <= Len(early)) =>
            i - Len(early) \in 1 .. o.copies /\ i = Len(early) + (i - Len(early))
      BY <1>1, <1>7, <3>1
    <3>3. \A c \in 1 .. o.copies :
            Len(early) + c \in 1 .. j /\ ~(Len(early) + c <= Len(early))
      BY <1>1, <1>7, <3>1
    <3> QED
      BY <3>2, <3>3 DEF Shift
  <2>5. Shift(Len(log), Shift(Len(early), 1 .. o.copies)) = Shift(n, 1 .. o.copies)
    <3>1. 1 .. o.copies \in SUBSET Nat
      BY <1>1
    <3> QED
      BY <1>3, <1>7, <3>1, ShiftedTwice
  <2>6. \A i \in Logged(log, due) : r[i] = log[i]
    BY <1>3, <1>5 DEF Extends, Logged
  <2>7. \A c \in 1 .. o.copies : r[n + c].packet = p /\ r[n + c].detail = c - 1
    <3> TAKE c \in 1 .. o.copies
    <3>1. Len(early) + c \in 1 .. j /\ n + c = Len(log) + (Len(early) + c)
      BY <1>1, <1>2, <1>3, <1>7, <1>12
    <3> QED
      BY <1>6, <1>8, <3>1
  <2> HIDE DEF n
  <2> QED
    BY <2>1, <2>2, <2>3, <2>4, <2>5, <2>6, <2>7
<1> QED
  BY <1>11, <1>12 DEF notes

(* The arrival of a packet, whatever its decision.                         *)
LEMMA ReceiveIsQuiet ==
  ASSUME TypeOK, StreamInv, NEW o \in Outcomes, Receive(o)
  PROVE  Unsaid("packet_forwarded") /\ Unsaid("packet_reordered")
<1> DEFINE notes == OutcomeNotes(o, packetIndex)
<1>1. PICK k \in SinkOutcomes(Len(notes)) : Emit(notes, now, k)
  BY DEF Receive
<1>2. /\ FileInv /\ Clean /\ begun <= flushed
      /\ flushed \in Ends /\ log = Written(flushed) /\ log \in Seq(StreamEvent)
  BY LogIsWritten DEF StreamInv, Receive, Running
<1>3. notes \in Seq(PacketNote) /\ now \in Nat
  BY OutcomeNotesType DEF TypeOK
<1>4. \A n \in Ends' : \E j : Emitted(Written(n)', notes, now, j)
  BY <1>1, <1>2, <1>3, EmitAppends
<1>5. ASSUME NEW n \in Ends'
      PROVE  /\ Quiet(Written(n)', Written(flushed), "packet_forwarded")
             /\ Quiet(Written(n)', Written(flushed), "packet_reordered")
  <2>1. PICK r : r = Written(n)'
    OBVIOUS
  <2>2. PICK j : Emitted(r, notes, now, j)
    BY <1>4, <2>1
  <2>3. Quiet(r, log, "packet_forwarded") /\ Quiet(r, log, "packet_reordered")
    BY <1>2, <2>2, OutcomeAdds
  <2> QED
    BY <1>2, <2>1, <2>3
<1> QED
  BY <1>2, <1>5 DEF Unsaid

(* Before anything is sent there is nothing to book.                       *)
LEMMA NothingBooked ==
  sent = <<>> => ForwardsAgree(<<>>) /\ ReordersAgree(<<>>) /\ Late = {}
<1> SUFFICES ASSUME sent = <<>>
             PROVE  ForwardsAgree(<<>>) /\ ReordersAgree(<<>>) /\ Late = {}
  OBVIOUS
<1>1. \A type : Logged(<<>>, type) = {}
  BY DEF Logged
<1>2. Late = {}
  BY DEF Late
<1>3. ForwardsAgree(<<>>)
  <2>1. Len(sent) - Cardinality({}) = 0
    BY FS_EmptySet
  <2> QED
    BY <1>1, <2>1, SMTT(30) DEF ForwardsAgree
<1>4. ReordersAgree(<<>>)
  BY <1>1, <1>2 DEF ReordersAgree
<1> QED
  BY <1>2, <1>3, <1>4

(* A session has nothing in the file when it is opened.                    *)
LEMMA OpenWritesNothing ==
  ASSUME FileInv, Open
  PROVE  \A n \in Ends' : Written(n)' = <<>>
<1>1. /\ UNCHANGED <<text, flushed>> /\ begun' = Len(text)
      /\ Len(text) \in Nat /\ flushed \in 0 .. Len(text) /\ text \in Seq(StreamEvent)
  BY LenProperties DEF Open, FileInv
<1>2. \A n \in Ends' : n \in 0 .. Len(text) /\ n <= Len(text)
  BY <1>1 DEF Ends
<1>3. \A n \in Ends' : SubSeq(text, Len(text) + 1, n) = <<>>
  BY <1>1, <1>2, SubSeqEmpty
<1> QED
  BY <1>1, <1>3 DEF Written

(* The books are right in every state.                                     *)
THEOREM BooksCorrect == Spec => []BookInv
<1>1. Init => BookInv
  <2> SUFFICES ASSUME Init PROVE BookInv
    OBVIOUS
  <2>1. /\ text = <<>> /\ begun = 0 /\ flushed = 0 /\ refused = 0
        /\ sent = <<>> /\ ending = "none" /\ ~Going
    BY DEF Init, Going
  <2>2. Len(text) = 0 /\ FileInv
    BY <2>1, EmptySeq DEF FileInv
  <2>3. \A n \in Ends : Written(n) = <<>>
    <3>1. \A n \in Ends : n <= begun
      BY <2>1, <2>2 DEF Ends
    <3> QED
      BY <2>2, <3>1, WrittenType
  <2> QED
    BY <2>1, <2>3, NothingBooked DEF BookInv
<1>2. TypeOK /\ LoopInv /\ QueueInv /\ StreamInv /\ BookInv /\ [Next]_vars => BookInv'
  <2> SUFFICES ASSUME TypeOK, LoopInv, QueueInv, StreamInv, BookInv, [Next]_vars
               PROVE  BookInv'
    OBVIOUS
  <2> DEFINE BothUnsaid == Unsaid("packet_forwarded") /\ Unsaid("packet_reordered")
  <2>1. UNCHANGED file => BothUnsaid
    BY SilentStep
  <2>2. "packet_forwarded" \in CountedTypes /\ "packet_reordered" \in CountedTypes
    BY DEF CountedTypes
  <2> HIDE DEF BothUnsaid
  <2>3. CASE CallerCloses
    <3>1. BothUnsaid
      BY <2>2, <2>3, CloseIsQuiet DEF BothUnsaid
    <3> QED
      BY <2>3, <3>1, BooksKept DEF CallerCloses, Going, BothUnsaid
  <2>4. CASE StopSeen
    <3>1. ending # "failed"
      BY <2>4 DEF StopSeen, BookInv, Going
    <3> QED
      BY <2>1, <2>4, <3>1, BooksKept DEF StopSeen, Going, BothUnsaid
  <2>5. CASE PopReady
    BY <2>1, <2>5, BooksKept DEF PopReady, Going, BothUnsaid, forwarder
  <2>6. CASE SendNext
    BY <2>6, SendBooks
  <2>7. CASE SendFails
    BY <2>1, <2>7, BooksKept DEF SendFails, Going, BothUnsaid
  <2>8. CASE DrainDone
    <3>1. ending # "failed"
      BY <2>8 DEF DrainDone, BookInv, Going
    <3> QED
      BY <2>1, <2>8, <3>1, BooksKept DEF DrainDone, Going, BothUnsaid
  <2>9. CASE DrainSleeps
    BY <2>1, <2>9, BooksKept DEF DrainSleeps, Going, BothUnsaid, forwarder
  <2>10. CASE BlockInReceive
    BY <2>1, <2>10, BooksKept DEF BlockInReceive, Going, BothUnsaid, forwarder
  <2>11. CASE ReceiveTimesOut
    BY <2>1, <2>11, BooksKept DEF ReceiveTimesOut, Going, BothUnsaid, forwarder
  <2>12. ASSUME NEW o \in Outcomes, Receive(o) PROVE BookInv'
    <3>1. BothUnsaid
      BY <2>12, ReceiveIsQuiet DEF BothUnsaid
    <3>2. ending = "none" /\ (Going' => ending' = ending) /\ sent' = sent
      BY <2>12 DEF Receive, BookInv, Going
    <3> QED
      BY <2>12, <3>1, <3>2, BooksKept DEF Receive, Going, BothUnsaid, forwarder
  <2>13. CASE Finish
    <3>1. BothUnsaid
      BY <2>2, <2>13, SummaryIsQuiet DEF BothUnsaid
    <3> QED
      BY <2>13, <3>1, BooksKept DEF Finish, Going, BothUnsaid
  <2>14. CASE Open
    <3>1. /\ sent' = <<>> /\ ending' = "none"
          /\ reordered' = {} /\ highestForwarded' = -1
      BY <2>14 DEF Open, FreshSession
    <3>2. (sent = <<>>)'
      BY <3>1
    <3>3. (ForwardsAgree(<<>>) /\ ReordersAgree(<<>>) /\ Late = {})'
      BY <3>2, NothingBooked, PTL
    <3>4. \A n \in Ends' : Written(n)' = <<>>
      BY <2>14, OpenWritesNothing DEF StreamInv
    <3>5. ASSUME NEW n \in Ends'
          PROVE  ForwardsAgree(Written(n))' /\ ReordersAgree(Written(n))'
      <4>1. PICK r : r = Written(n)' /\ r = <<>>
        BY <3>4
      <4>2. ForwardsAgree(r)'
        BY <3>3, <4>1
      <4>3. ReordersAgree(r)'
        BY <3>3, <4>1
      <4> QED
        BY <4>1, <4>2, <4>3 DEF ForwardsAgree, ReordersAgree
    <3> QED
      BY <3>1, <3>3, <3>5 DEF BookInv
  <2>15. CASE StartRun
    <3>1. BothUnsaid
      BY <2>2, <2>15, HeaderIsQuiet DEF BothUnsaid
    <3> QED
      BY <2>15, <3>1, BooksKept DEF StartRun, Going, BothUnsaid, forwarder
  <2>16. CASE Arrive
    BY <2>1, <2>16, BooksKept DEF Arrive, Going, BothUnsaid, forwarder
  <2>17. CASE RequestStop
    BY <2>1, <2>17, BooksKept DEF RequestStop, Going, BothUnsaid, forwarder
  <2>18. CASE Tick
    BY <2>1, <2>18, BooksKept DEF Tick, Going, BothUnsaid, forwarder
  <2>19. CASE UNCHANGED vars
    BY <2>1, <2>19, BooksKept DEF vars, Going, BothUnsaid, forwarder
  <2>20. CASE InterruptAtHeader
    <3>1. BothUnsaid
      BY <2>2, <2>20, HeaderIsQuiet DEF BothUnsaid
    <3>2. ending # "failed"
      BY <2>20 DEF InterruptAtHeader, BookInv, Going
    <3> QED
      BY <2>20, <3>1, <3>2, BooksKept DEF InterruptAtHeader, Going, BothUnsaid
  <2>21. CASE InterruptAtSummary
    <3>1. BothUnsaid
      BY <2>2, <2>21, SummaryIsQuiet DEF BothUnsaid
    <3> QED
      BY <2>21, <3>1, BooksKept DEF InterruptAtSummary, Going, BothUnsaid
  <2> QED
    BY <2>3, <2>4, <2>5, <2>6, <2>7, <2>8, <2>9, <2>10, <2>11, <2>12, <2>13, <2>14,
       <2>15, <2>16, <2>17, <2>18, <2>19, <2>20, <2>21 DEF Next, Thread, Environment
<1> QED
  BY <1>1, <1>2, TypeCorrect, LoopCorrect, QueueCorrect, StreamCorrect, PTL DEF Spec

(* What the log says was forwarded is what went out, item by item; only a  *)
(* sink that failed makes it miss the last one.                            *)
THEOREM ForwardLogCorrect == Spec => []ForwardLogIsTrue
<1>1. StreamInv /\ BookInv => ForwardLogIsTrue
  BY LogIsWritten DEF StreamInv, BookInv, ForwardLogIsTrue
<1> QED
  BY <1>1, StreamCorrect, BooksCorrect, PTL

(* Reorder events name the packets that went out behind a newer one, each  *)
(* once, with a newer packet that did go out.                              *)
THEOREM ReorderEventsCorrect == Spec => []ReorderEventsAreTrue
<1>1. StreamInv /\ BookInv => ReorderEventsAreTrue
  BY LogIsWritten DEF StreamInv, BookInv, ReorderEventsAreTrue
<1> QED
  BY <1>1, StreamCorrect, BooksCorrect, PTL

-----------------------------------------------------------------------------
(* The end of a finite run: what was scheduled and what went out.          *)

(* The deliveries the run has, and those a log says were scheduled.        *)
Gone == {Key(sent[j]) : j \in DOMAIN sent}
Held == {Key(d) : d \in Waiting} \cup Gone
Named(events, i)  == <<events[i].packet, events[i].detail>>
Scheduled(events) == {Named(events, i) : i \in Logged(events, "delivery_scheduled")}

ScheduledOnce(events) ==
  \A i, j \in Logged(events, "delivery_scheduled") :
    Named(events, i) = Named(events, j) => i = j

ScheduleInv ==
  /\ Going => \A n \in Ends : Scheduled(Written(n)) = Held /\ ScheduledOnce(Written(n))
  /\ ending = "drained" =>
       /\ pending = {} /\ ready = {}
       /\ \A i, j \in DOMAIN sent : Key(sent[i]) = Key(sent[j]) => i = j
       /\ \A n \in Ends : Scheduled(Written(n)) = Gone /\ ScheduledOnce(Written(n))

(* Logs that have the same events schedule the same deliveries.            *)
LEMMA QuietSchedule ==
  ASSUME NEW r, NEW s, Quiet(r, s, "delivery_scheduled")
  PROVE  /\ Scheduled(r) = Scheduled(s)
         /\ ScheduledOnce(s) => ScheduledOnce(r)
<1>1. \A i \in Logged(s, "delivery_scheduled") : Named(r, i) = Named(s, i)
  BY DEF Quiet, Named
<1>2. Scheduled(r) = Scheduled(s)
  BY <1>1 DEF Quiet, Scheduled
<1>3. ScheduledOnce(s) => ScheduledOnce(r)
  BY <1>1 DEF Quiet, ScheduledOnce
<1> QED
  BY <1>2, <1>3

(* A step that schedules nothing.                                          *)
LEMMA ScheduleKept ==
  ASSUME ScheduleInv, Unsaid("delivery_scheduled"),
         Going' => Going /\ Held' = Held,
         ending' = "drained" => ending = "drained" /\ UNCHANGED <<pending, ready, sent>>
  PROVE  ScheduleInv'
<1>1. ASSUME NEW n \in Ends'
      PROVE  \E m \in Ends : /\ Scheduled(Written(n)') = Scheduled(Written(m))
                             /\ ScheduledOnce(Written(m)) => ScheduledOnce(Written(n)')
  <2>1. PICK m \in Ends : Quiet(Written(n)', Written(m), "delivery_scheduled")
    BY DEF Unsaid
  <2>2. PICK r, s : r = Written(n)' /\ s = Written(m)
    OBVIOUS
  <2>3. Quiet(r, s, "delivery_scheduled")
    BY <2>1, <2>2
  <2>4. Scheduled(r) = Scheduled(s) /\ (ScheduledOnce(s) => ScheduledOnce(r))
    BY <2>3, QuietSchedule
  <2> QED
    BY <2>2, <2>4
<1>2. Going' => \A n \in Ends' : Scheduled(Written(n)') = Held' /\ ScheduledOnce(Written(n)')
  BY <1>1 DEF ScheduleInv
<1>3. ASSUME ending' = "drained"
      PROVE  /\ pending' = {} /\ ready' = {}
             /\ \A i, j \in DOMAIN sent' : Key(sent'[i]) = Key(sent'[j]) => i = j
             /\ \A n \in Ends' : Scheduled(Written(n)') = Gone' /\ ScheduledOnce(Written(n)')
  <2>1. ending = "drained" /\ UNCHANGED <<pending, ready, sent>>
    BY <1>3
  <2>2. Gone' = Gone
    BY <2>1 DEF Gone
  <2> QED
    BY <1>1, <2>1, <2>2 DEF ScheduleInv
<1> QED
  BY <1>2, <1>3 DEF ScheduleInv, Scheduled, ScheduledOnce, Named

(* Popping moves deliveries within what waits.                             *)
LEMMA PopHolds ==
  ASSUME QueueInv, PopReady
  PROVE  Held' = Held
<1>1. /\ ready = {} /\ sent' = sent
      /\ ready' = ReadyAt(pending, now, highest, releaseHolds)
      /\ pending' = pending \ ready'
  BY DEF PopReady, QueueInv, Going
<1>2. Waiting' = Waiting
  BY <1>1 DEF Waiting, ReadyAt
<1> QED
  BY <1>1, <1>2 DEF Held, Gone

(* Sending keeps the deliveries that wait or went out, together.           *)
LEMMA SendHolds ==
  ASSUME TypeOK, QueueInv, SendNext
  PROVE  Held' = Held
<1> DEFINE d == First(ready)
           N == Len(sent)
<1>1. d \in ready /\ d \in Delivery
  BY FirstIsMember DEF SendNext, TypeOK
<1>2. ready' = ready \ {d} /\ sent' = Append(sent, d) /\ pending' = pending
  BY DEF SendNext, scheduler
<1>3. sent \in Seq(Delivery) /\ d \notin pending
  BY <1>1 DEF SendNext, QueueInv, Going, Distinct
<1> HIDE DEF d
<1>4. /\ DOMAIN sent' = DOMAIN sent \cup {N + 1} /\ sent'[N + 1] = d
      /\ \A j \in DOMAIN sent : sent'[j] = sent[j]
  BY <1>1, <1>2, <1>3
<1>5. Waiting = Waiting' \cup {d}
  BY <1>1, <1>2, <1>3 DEF Waiting
<1> QED
  BY <1>4, <1>5 DEF Held, Gone

(* What a packet's deliveries are called.                                  *)
LEMMA DeliveryKeys ==
  ASSUME NEW o \in Outcomes, NEW p \in Nat, NEW t \in Nat
  PROVE  {Key(d) : d \in Deliveries(o, p, t)} = {<<p, c - 1>> : c \in 1 .. o.copies}
<1>1. o.copies \in Nat
  BY OutcomesAssumption
<1> DEFINE A == 0 .. o.copies - 1
           B == {c - 1 : c \in 1 .. o.copies}
<1>2. A = B
  <2>1. \A c \in A : c + 1 \in 1 .. o.copies /\ c = (c + 1) - 1
    BY <1>1
  <2>2. \A c \in 1 .. o.copies : c - 1 \in A
    BY <1>1
  <2> QED
    BY <2>1, <2>2
<1>3. {Key(d) : d \in Deliveries(o, p, t)} = {<<p, c>> : c \in A}
  <2> DEFINE Copy(c) == [due |-> t + o.delay, packet |-> p, copy |-> c, after |-> p + o.hold]
  <2>1. Deliveries(o, p, t) = {Copy(c) : c \in A}
    BY DEF Deliveries
  <2>2. \A c \in A : Key(Copy(c)) = <<p, c>>
    BY DEF Key
  <2> HIDE DEF Copy, A
  <2> QED
    BY <2>1, <2>2
<1>4. {<<p, c - 1>> : c \in 1 .. o.copies} = {<<p, c>> : c \in B}
  OBVIOUS
<1> QED
  BY <1>2, <1>3, <1>4

(* A packet that is scheduled brings its deliveries and their events, and  *)
(* no event of an earlier packet has their names.                          *)
LEMMA OutcomeSchedules ==
  ASSUME TypeOK, QueueInv, Going, packetIndex = highest + 1, log \in Seq(StreamEvent),
         Scheduled(log) = Held, ScheduledOnce(log),
         NEW o \in Outcomes,
         NEW r, Emitted(r, OutcomeNotes(o, packetIndex), now, Len(OutcomeNotes(o, packetIndex)))
  PROVE  /\ Scheduled(r) = Held \cup {<<packetIndex, c - 1>> : c \in 1 .. o.copies}
         /\ ScheduledOnce(r)
<1> DEFINE S == Logged(log, "delivery_scheduled")
           T == Logged(r, "delivery_scheduled")
           names == {<<packetIndex, c - 1>> : c \in 1 .. o.copies}
<1>1. PICK n \in Nat :
        /\ n >= Len(log)
        /\ T = S \cup Shift(n, 1 .. o.copies)
        /\ \A i \in S : r[i] = log[i]
        /\ \A c \in 1 .. o.copies : r[n + c].packet = packetIndex /\ r[n + c].detail = c - 1
  BY OutcomeAdds
<1>2. packetIndex \in Nat /\ highest \in Int /\ o.copies \in Nat
  BY OutcomesAssumption DEF TypeOK
<1>3. \A i \in S : Named(r, i) = Named(log, i)
  BY <1>1 DEF Named
<1>4. \A c \in 1 .. o.copies : Named(r, n + c) = <<packetIndex, c - 1>>
  BY <1>1 DEF Named
<1>5. Scheduled(r) = Held \cup names
  BY <1>1, <1>3, <1>4 DEF Scheduled, Shift
<1>6. \A i \in S : Named(log, i)[1] < packetIndex
  <2>1. \A d \in Waiting : d.packet \in Nat /\ d.packet < packetIndex
    BY <1>2 DEF QueueInv, Bounded, TypeOK, Waiting, Delivery
  <2>2. \A j \in DOMAIN sent : sent[j].packet \in Nat /\ sent[j].packet < packetIndex
    <3>1. \A j \in DOMAIN sent : sent[j] \in Delivery
      BY DEF QueueInv
    <3> QED
      BY <1>2, <3>1 DEF QueueInv, Bounded, Delivery
  <2>3. \A key \in Held : key[1] < packetIndex
    BY <2>1, <2>2 DEF Held, Gone, Key
  <2> QED
    BY <2>3 DEF Scheduled
<1>7. ScheduledOnce(r)
  <2>1. \A i \in S, c \in 1 .. o.copies : Named(r, i) # Named(r, n + c)
    BY <1>2, <1>3, <1>4, <1>6
  <2>2. \A b, c \in 1 .. o.copies : Named(r, n + b) = Named(r, n + c) => b = c
    BY <1>2, <1>4
  <2>3. \A i, j \in S : Named(r, i) = Named(r, j) => i = j
    BY <1>3 DEF ScheduledOnce
  <2> QED
    BY <1>1, <2>1, <2>2, <2>3, SMTT(30) DEF ScheduledOnce, Shift
<1> QED
  BY <1>5, <1>7

(* So does its arrival, wherever the file ends then.                       *)
LEMMA ReceiveSchedules ==
  ASSUME TypeOK, LoopInv, StreamInv, QueueInv, ScheduleInv, NEW o \in Outcomes, Receive(o),
         Going'
  PROVE  \A n \in Ends' : Scheduled(Written(n)') = Held' /\ ScheduledOnce(Written(n)')
<1> DEFINE notes == OutcomeNotes(o, packetIndex)
           new == Deliveries(o, packetIndex, now)
           names == {<<packetIndex, c - 1>> : c \in 1 .. o.copies}
<1>1. PICK k \in SinkOutcomes(Len(notes)) :
        /\ Emit(notes, now, k)
        /\ IF k = Len(notes) /\ packetIndex > highest
           THEN pending' = pending \cup new
           ELSE phase' = "finally"
  BY DEF Receive
<1>2. Running /\ Going /\ phase = "receive" /\ ready' = ready /\ sent' = sent
  BY DEF Receive, Running, Going
<1>3. k = Len(notes) /\ pending' = pending \cup new
  BY <1>1 DEF Going
<1>4. /\ FileInv /\ Clean /\ begun <= flushed
      /\ flushed \in Ends /\ log = Written(flushed) /\ log \in Seq(StreamEvent)
  BY <1>2, LogIsWritten DEF StreamInv
<1>5. notes \in Seq(PacketNote) /\ now \in Nat
  BY OutcomeNotesType DEF TypeOK
<1>6. \A n \in Ends' : Emitted(Written(n)', notes, now, Len(notes))
  BY <1>1, <1>3, <1>4, <1>5, EmitAppends
<1>7. packetIndex \in Nat /\ packetIndex = highest + 1
  BY <1>2 DEF TypeOK, LoopInv
<1>8. Held' = Held \cup names
  <2>1. {Key(d) : d \in new} = names
    BY <1>5, <1>7, DeliveryKeys
  <2>2. Waiting' = Waiting \cup new
    BY <1>2, <1>3 DEF Waiting
  <2> HIDE DEF new, names
  <2> QED
    BY <1>2, <2>1, <2>2 DEF Held, Gone
<1>9. Scheduled(log) = Held /\ ScheduledOnce(log)
  BY <1>2, <1>4 DEF ScheduleInv
<1> TAKE n \in Ends'
<1>10. PICK r : r = Written(n)'
  OBVIOUS
<1>11. Emitted(r, notes, now, Len(notes))
  BY <1>6, <1>10
<1>12. Scheduled(r) = Held \cup names /\ ScheduledOnce(r)
  BY <1>2, <1>4, <1>7, <1>9, <1>11, OutcomeSchedules
<1> QED
  BY <1>8, <1>10, <1>12

(* While it drains nothing is held back, so a run without a deadline has   *)
(* nothing left.                                                           *)
LEMMA DrainedCompletes ==
  ASSUME TypeOK, QueueInv, ScheduleInv, DrainDone
  PROVE  ScheduleInv'
<1>1. /\ Going /\ phase = "send" /\ draining /\ ready = {}
      /\ pending = {} \/ NextDeadline(pending, highest, releaseHolds) = {}
      /\ UNCHANGED <<pending, ready, sent, text, flushed, begun>> /\ ~Going'
  BY DEF DrainDone, Going, scheduler, file
<1>2. releaseHolds
  BY <1>1 DEF QueueInv
<1>3. pending = {}
  <2> SUFFICES ASSUME pending # {} PROVE FALSE
    OBVIOUS
  <2> DEFINE times == {d.due : d \in {e \in pending : Eligible(e, highest, releaseHolds)}}
  <2>1. {e \in pending : Eligible(e, highest, releaseHolds)} = pending
    BY <1>2 DEF Eligible
  <2>2. times \in SUBSET Nat /\ times # {}
    BY <2>1 DEF TypeOK, Delivery
  <2>3. PICK t \in times : \A u \in times : t <= u
    <3> HIDE DEF times
    <3> QED
      BY <2>2, LeastNat
  <2>4. t \in NextDeadline(pending, highest, releaseHolds)
    BY <2>3 DEF NextDeadline
  <2> QED
    BY <1>1, <2>4
<1>4. Held = Gone
  BY <1>1, <1>3 DEF Held, Waiting
<1>5. \A n \in Ends : Scheduled(Written(n)) = Gone /\ ScheduledOnce(Written(n))
  BY <1>1, <1>4 DEF ScheduleInv
<1>6. \A i, j \in DOMAIN sent : Key(sent[i]) = Key(sent[j]) => i = j
  BY <1>1 DEF QueueInv, Distinct
<1>7. Gone' = Gone /\ Ends' = Ends /\ \A n : Written(n)' = Written(n)
  BY <1>1 DEF Gone, Ends, Written
<1>8. \A n \in Ends' : Scheduled(Written(n)') = Gone' /\ ScheduledOnce(Written(n)')
  BY <1>5, <1>7
<1> QED
  BY <1>1, <1>3, <1>6, <1>8 DEF ScheduleInv, Scheduled, ScheduledOnce, Named

(* The log's schedule is the run's, until the run ends.                    *)
THEOREM ScheduleCorrect == Spec => []ScheduleInv
<1> DEFINE Silent == Unsaid("delivery_scheduled")
<1>1. Init => ScheduleInv
  BY DEF Init, ScheduleInv, Going
<1>2. TypeOK /\ LoopInv /\ QueueInv /\ StreamInv /\ BookInv /\ ScheduleInv /\ [Next]_vars
        => ScheduleInv'
  <2> SUFFICES ASSUME TypeOK, LoopInv, QueueInv, StreamInv, BookInv, ScheduleInv, [Next]_vars
               PROVE  ScheduleInv'
    OBVIOUS
  <2>1. UNCHANGED file => Silent
    BY SilentStep
  <2>2. "delivery_scheduled" \in CountedTypes
    BY DEF CountedTypes
  <2>3. Going => ending = "none"
    BY DEF BookInv
  <2>4. UNCHANGED <<pending, ready, sent>> => Held' = Held
    BY DEF Held, Gone, Waiting
  <2> HIDE DEF Silent
  <2>5. CASE CallerCloses
    <3>1. Silent
      BY <2>2, <2>5, CloseIsQuiet DEF Silent
    <3> QED
      BY <2>5, <3>1, ScheduleKept DEF CallerCloses, Going, Silent, scheduler
  <2>6. CASE StopSeen
    BY <2>1, <2>6, ScheduleKept DEF StopSeen, Going, Silent
  <2>7. CASE PopReady
    BY <2>1, <2>3, <2>7, PopHolds, ScheduleKept DEF PopReady, Going, Silent
  <2>8. CASE SendNext
    <3>1. Silent
      BY <2>8, SendBooks DEF Silent
    <3>2. Going /\ ending' # "drained"
      BY <2>3, <2>8 DEF SendNext, Going
    <3> QED
      BY <2>8, <3>1, <3>2, SendHolds, ScheduleKept DEF Silent
  <2>9. CASE SendFails
    BY <2>1, <2>9, ScheduleKept DEF SendFails, Going, Silent
  <2>10. CASE DrainDone
    BY <2>10, DrainedCompletes
  <2>11. CASE DrainSleeps
    BY <2>1, <2>3, <2>4, <2>11, ScheduleKept DEF DrainSleeps, Going, Silent, scheduler
  <2>12. CASE BlockInReceive
    BY <2>1, <2>3, <2>4, <2>12, ScheduleKept DEF BlockInReceive, Going, Silent, scheduler
  <2>13. CASE ReceiveTimesOut
    BY <2>1, <2>3, <2>4, <2>13, ScheduleKept DEF ReceiveTimesOut, Going, Silent, scheduler
  <2>14. ASSUME NEW o \in Outcomes, Receive(o) PROVE ScheduleInv'
    <3>1. ending' # "drained"
      BY <2>3, <2>14 DEF Receive, Going
    <3>2. Going' =>
            \A n \in Ends' : Scheduled(Written(n)') = Held' /\ ScheduledOnce(Written(n)')
      BY <2>14, ReceiveSchedules
    <3> QED
      BY <3>1, <3>2 DEF ScheduleInv, Scheduled, ScheduledOnce, Named
  <2>15. CASE Finish
    <3>1. Silent
      BY <2>2, <2>15, SummaryIsQuiet DEF Silent
    <3> QED
      BY <2>15, <3>1, ScheduleKept DEF Finish, Going, Silent, scheduler
  <2>16. CASE Open
    <3>1. sent' = <<>> /\ pending' = {} /\ ready' = {} /\ ending' = "none"
      BY <2>16 DEF Open, FreshSession
    <3>2. \A n \in Ends' : Written(n)' = <<>>
      BY <2>16, OpenWritesNothing DEF StreamInv
    <3>3. Held' = {}
      BY <3>1 DEF Held, Gone, Waiting
    <3>4. Scheduled(<<>>) = {} /\ ScheduledOnce(<<>>)
      BY DEF Scheduled, ScheduledOnce, Logged
    <3>5. \A n \in Ends' : Scheduled(Written(n)') = Held' /\ ScheduledOnce(Written(n)')
      BY <3>2, <3>3, <3>4
    <3> QED
      BY <3>1, <3>5 DEF ScheduleInv, Scheduled, ScheduledOnce, Named
  <2>17. CASE StartRun
    <3>1. Silent
      BY <2>2, <2>17, HeaderIsQuiet DEF Silent
    <3>2. ending' # "drained" /\ Going
      BY <2>3, <2>17 DEF StartRun, Going
    <3> QED
      BY <2>4, <2>17, <3>1, <3>2, ScheduleKept DEF StartRun, Silent, scheduler
  <2>18. CASE Arrive
    BY <2>1, <2>4, <2>18, ScheduleKept DEF Arrive, Going, Silent, scheduler
  <2>19. CASE RequestStop
    BY <2>1, <2>4, <2>19, ScheduleKept DEF RequestStop, Going, Silent, scheduler
  <2>20. CASE Tick
    BY <2>1, <2>4, <2>20, ScheduleKept DEF Tick, Going, Silent, scheduler
  <2>21. CASE UNCHANGED vars
    BY <2>1, <2>4, <2>21, ScheduleKept DEF vars, Going, Silent, scheduler
  <2>22. CASE InterruptAtHeader
    <3>1. Silent
      BY <2>2, <2>22, HeaderIsQuiet DEF Silent
    <3> QED
      BY <2>22, <3>1, ScheduleKept DEF InterruptAtHeader, Going, Silent
  <2>23. CASE InterruptAtSummary
    <3>1. Silent
      BY <2>2, <2>23, SummaryIsQuiet DEF Silent
    <3> QED
      BY <2>23, <3>1, ScheduleKept DEF InterruptAtSummary, Going, Silent
  <2> QED
    BY <2>5, <2>6, <2>7, <2>8, <2>9, <2>10, <2>11, <2>12, <2>13, <2>14, <2>15, <2>16,
       <2>17, <2>18, <2>19, <2>20, <2>21, <2>22, <2>23 DEF Next, Thread, Environment
<1> QED
  BY <1>1, <1>2, TypeCorrect, LoopCorrect, QueueCorrect, StreamCorrect, BooksCorrect, PTL
     DEF Spec

(* A finite run that ends of itself has forwarded everything it scheduled, *)
(* each delivery once, and nothing else.                                   *)
THEOREM DrainCompletes == Spec => []DrainIsComplete
<1>1. StreamInv /\ ScheduleInv => DrainIsComplete
  <2> SUFFICES ASSUME StreamInv, ScheduleInv, ending = "drained" PROVE DrainIsComplete
    BY DEF DrainIsComplete
  <2>1. flushed \in Ends /\ log = Written(flushed)
    BY LogIsWritten DEF StreamInv
  <2>2. /\ pending = {} /\ ready = {}
        /\ \A i, j \in DOMAIN sent : Key(sent[i]) = Key(sent[j]) => i = j
        /\ Scheduled(log) = Gone /\ ScheduledOnce(log)
    BY <2>1 DEF ScheduleInv
  <2> QED
    BY <2>2 DEF DrainIsComplete, Scheduled, ScheduledOnce, Named, Gone, Key
<1> QED
  BY <1>1, StreamCorrect, ScheduleCorrect, PTL
=============================================================================
