----------------------------- MODULE LinkRuntime ----------------------------
(***************************************************************************)
(* The UDP link emulator: one thread that receives datagrams, decides      *)
(* their impairments, schedules the deliveries, forwards the ready ones    *)
(* and writes an event stream; around it the network, the clock, the       *)
(* signal handlers and the caller that opens and closes it.                *)
(*                                                                         *)
(* Every handler of the thread is one action: nothing else changes its     *)
(* state, and what the others change meanwhile (the clock, the socket      *)
(* buffer, the stop request) it reads once, where the action does.  The    *)
(* event sink may fail at any event of a handler.  A tick of the clock is  *)
(* longer than the poll interval, so a poll may end within any tick.       *)
(***************************************************************************)
EXTENDS LinkEvents, LinkScheduler

CONSTANTS
  Outcomes,     (* the decisions the impairment configuration can produce  *)
  RunLimits,    (* the max_packets a run may be given; 0 stands for None   *)
  Faults,       (* what may happen to a run: "send", "sink", "interrupt"   *)
  MaxArrivals,  (* bound: datagrams that reach the sockets of all sessions *)
  MaxTime,      (* bound: the clock stops here once nothing waits for it   *)
  MaxRuns       (* bound: how often the runtime is opened                  *)

ASSUME OutcomesAssumption ==
  /\ Outcomes \subseteq [copies : 0..2, corrupted : BOOLEAN, delay : Nat, hold : Nat]
  /\ Outcomes # {}
ASSUME BoundsAssumption ==
  /\ RunLimits \subseteq Nat
  /\ Faults \subseteq {"send", "sink", "interrupt"}
  /\ MaxArrivals \in Nat /\ MaxTime \in Nat /\ MaxRuns \in Nat

VARIABLES
  now,         (* the monotonic clock                                      *)
  phase,       (* where the thread is                                      *)
  isOpen,      (* both sockets are open                                    *)
  inbox,       (* datagrams in the input socket's buffer                   *)
  stop,        (* the stop event                                           *)
  limit,       (* max_packets of this run                                  *)
  packetIndex, (* the impairment engine's next index                       *)
  highest,     (* the scheduler's highest packet index                     *)
  pending,     (* the scheduler's heap                                     *)
  releaseHolds,
  ready,       (* deliveries popped from the heap and not sent yet         *)
  nowNs,       (* the time the loop read when it last popped               *)
  received, draining,
  highestForwarded, reordered,
  start, eventIndex, statistics, lastElapsed,  (* the event stream         *)
  text,        (* the events given to the recorder's file, by all sessions *)
  flushed,     (* how many of them are on disk                             *)
  begun,       (* how many there were when this session was opened         *)
  refused,     (* the first event of this session that failed to be        *)
               (* flushed, as its place in text; 0, none                   *)
  recording,   (* the recorder has not been closed                         *)
  sent,        (* the datagrams given to the network, in order             *)
  ending,      (* why the run ended                                        *)
  runs

scheduler == <<packetIndex, highest, pending, releaseHolds>>
forwarder == <<highestForwarded, reordered>>
stream    == <<start, eventIndex, statistics, lastElapsed>>
file      == <<text, flushed, begun, refused, recording>>
loop      == <<stop, limit, received, draining>>
vars == <<now, phase, isOpen, inbox, scheduler, ready, nowNs, forwarder,
          stream, file, loop, sent, ending, runs>>

Phases == {"closed", "opened", "loop", "send", "receive", "finally", "unwind"}

(* The thread is inside run(), past the header.                            *)
Running == phase \in {"loop", "send", "receive", "finally"}

Greater(m, n) == IF m > n THEN m ELSE n

-----------------------------------------------------------------------------
(* The event stream.  A handler emits its notes one after the other; k of  *)
(* them reach the sink, and if k is not all of them the next one raised.   *)

Note(type, packet, detail) == [type |-> type, packet |-> packet, detail |-> detail]

Numbered(notes, t) ==
  [i \in DOMAIN notes |->
     [type |-> notes[i].type, packet |-> notes[i].packet,
      detail |-> notes[i].detail, index |-> eventIndex + i - 1, at |-> t - start]]

(* JsonlEventRecorder.write, once for each event.  The one it raises at    *)
(* was given to the file before its flush failed, and the file keeps it:   *)
(* the next flush tries again, with what is given to the file by then.  So *)
(* a flush leaves any part of what waits on disk if it fails, and all of   *)
(* it if it succeeds.  The runtime has one recorder, whatever it is opened *)
(* for, and nothing it does takes an event back.                           *)
Write(events, k) ==
  /\ text' = text \o SubSeq(events, 1, IF k < Len(events) THEN k + 1 ELSE k)
  /\ flushed' \in (IF k = 0 THEN flushed ELSE Len(text) + k) .. Len(text) + k
  /\ refused' = IF k < Len(events) /\ refused = 0 THEN Len(text) + k + 1 ELSE refused
  /\ UNCHANGED <<begun, recording>>

(* KeyboardInterrupt in the course of it: k is 1 if the event went out and *)
(* was returned from.                                                      *)
InterruptedWrite(event, k) ==
  /\ \/ k = 0 /\ UNCHANGED <<text, flushed>>
     \/ /\ recording
        /\ text' = Append(text, event)
        /\ flushed' \in (IF k = 0 THEN flushed ELSE Len(text) + 1) .. Len(text) + 1
  /\ UNCHANGED <<begun, refused, recording>>

(* What this session has in the file when the file ends at event n, and    *)
(* what it has on disk.                                                    *)
Written(n) == SubSeq(text, begun + 1, n)
log == Written(flushed)

SinkOutcomes(n) == IF "sink" \in Faults THEN 0..n ELSE {n}

(* The two events that no counter counts open and close a stream.          *)
MetadataEvent ==
  [type |-> "run_metadata", packet |-> None, detail |-> None, index |-> 0, at |-> 0]

SummaryEvent ==
  [type |-> "run_summary", packet |-> None, stats |-> statistics,
   index |-> eventIndex, at |-> now - start]

(* Mutant: a handler counts each kind of event it emits, not each event.   *)
EmitCountingKinds(notes, t, k) ==
  /\ Write(Numbered(notes, t), k)
  /\ eventIndex' = eventIndex + k
  /\ statistics' = [type \in CountedTypes |->
       statistics[type] + (IF \E i \in 1..k : notes[i].type = type THEN 1 ELSE 0)]
  /\ lastElapsed' = IF k = 0 THEN lastElapsed ELSE t - start
  /\ UNCHANGED start

Emit(notes, t, k) ==
  /\ Write(Numbered(notes, t), k)
  /\ eventIndex' = eventIndex + k
  /\ statistics' = [type \in CountedTypes |->
       statistics[type] + Cardinality({i \in 1..k : notes[i].type = type})]
  /\ lastElapsed' = IF k = 0 THEN lastElapsed ELSE t - start
  /\ UNCHANGED start

Optional(condition, note) == IF condition THEN <<note>> ELSE <<>>

(* _emit_outcome                                                           *)
OutcomeNotes(o, p) ==
  <<Note("packet_received", p, None)>> \o
  IF o.copies = 0
  THEN <<Note("packet_dropped", p, None)>>
  ELSE Optional(o.copies = 2, Note("packet_duplicated", p, None)) \o
       Optional(o.corrupted, Note("packet_corrupted", p, None)) \o
       Optional(o.delay > 0, Note("packet_delayed", p, None)) \o
       [c \in 1..o.copies |-> Note("delivery_scheduled", p, c - 1)]

(* _emit_forwarded: whether the reorder event is due, and the events.      *)
(* Mutant: the set of packets that were reported is not consulted.         *)
OvertakenAgain(d) == d.packet < highestForwarded

Overtaken(d) == d.packet < highestForwarded /\ d.packet \notin reordered

ForwardNotes(d) ==
  Optional(Overtaken(d), Note("packet_reordered", d.packet, highestForwarded)) \o
  <<Note("packet_forwarded", d.packet, d.copy)>>

-----------------------------------------------------------------------------
(* The caller: run_link_command, or any user of the class.                 *)

(* open() restarts the engine, the scheduler and the forwarding marks.     *)
FreshSession ==
  /\ packetIndex' = 0 /\ highest' = -1 /\ pending' = {} /\ releaseHolds' = FALSE
  /\ highestForwarded' = -1 /\ reordered' = {}

(* The recorder was given to the constructor: open() leaves its file alone, *)
(* and what it does not reset (the clock readings, the stop event) too.    *)
Open ==
  /\ phase = "closed" /\ ~isOpen
  /\ runs < MaxRuns
  /\ runs' = runs + 1
  /\ phase' = "opened" /\ isOpen' = TRUE /\ inbox' = 0
  /\ FreshSession
  /\ begun' = Len(text) /\ refused' = 0
  /\ sent' = <<>> /\ ending' = "none"
  /\ eventIndex' = 0 /\ statistics' = ZeroStatistics /\ lastElapsed' = 0
  /\ ready' = {}
  /\ UNCHANGED <<now, start, nowNs, loop, text, flushed, recording>>

(* run(): its prologue, up to and including the stream header.  The stop   *)
(* event is the caller's and may be set already.  A sink that fails on the *)
(* header raises outside the try block; a recorder that was closed raises  *)
(* before it gives the file anything.                                      *)
StartRun ==
  /\ phase = "opened"
  /\ limit' \in RunLimits
  /\ stop' \in BOOLEAN
  /\ received' = 0 /\ draining' = FALSE
  /\ start' = now /\ statistics' = ZeroStatistics
  /\ \E k \in (IF recording THEN SinkOutcomes(1) ELSE {0}) :
       /\ IF recording THEN Write(<<MetadataEvent>>, k) ELSE UNCHANGED file
       /\ eventIndex' = k
       /\ lastElapsed' = 0
       /\ phase' = IF k = 1 THEN "loop" ELSE "unwind"
       /\ ending' = IF k = 1 THEN ending ELSE "failed"
  /\ UNCHANGED <<now, isOpen, inbox, scheduler, ready, nowNs, forwarder, sent, runs>>

(* Mutant: the header is written within the try block, so an interrupted   *)
(* header is followed by a summary.                                        *)
InterruptAtHeaderInTry ==
  /\ phase = "opened" /\ "interrupt" \in Faults
  /\ received' = 0 /\ draining' = FALSE
  /\ start' = now /\ statistics' = ZeroStatistics /\ lastElapsed' = 0
  /\ \E k \in 0 .. 1 :
       /\ InterruptedWrite(MetadataEvent, k)
       /\ eventIndex' = k
  /\ phase' = "finally" /\ ending' = "stopped"
  /\ UNCHANGED <<now, isOpen, inbox, scheduler, ready, nowNs, forwarder, stop, limit,
                 sent, runs>>

(* KeyboardInterrupt while the header is written, or before run() has its  *)
(* own signal handlers.                                                    *)
InterruptAtHeader ==
  /\ phase = "opened" /\ "interrupt" \in Faults
  /\ received' = 0 /\ draining' = FALSE
  /\ start' = now /\ statistics' = ZeroStatistics /\ lastElapsed' = 0
  /\ \E k \in 0 .. 1 :
       /\ InterruptedWrite(MetadataEvent, k)
       /\ eventIndex' = k
  /\ phase' = "unwind" /\ ending' = "stopped"
  /\ UNCHANGED <<now, isOpen, inbox, scheduler, ready, nowNs, forwarder, stop, limit,
                 sent, runs>>

(* The caller's finally block.  The command closes its recorder too, which *)
(* flushes once more what the file still holds and forgets it if that      *)
(* fails; another user of the class may keep the recorder and open the     *)
(* runtime again.                                                          *)
CallerCloses ==
  /\ phase \in {"opened", "unwind"}
  /\ phase' = "closed" /\ isOpen' = FALSE /\ inbox' = 0
  /\ \/ UNCHANGED file
     \/ /\ recording /\ recording' = FALSE
        /\ flushed' \in (IF "sink" \in Faults THEN flushed ELSE Len(text)) .. Len(text)
        /\ UNCHANGED <<text, begun, refused>>
  /\ ending' = IF ending = "none" THEN "stopped" ELSE ending
  /\ UNCHANGED <<now, scheduler, ready, nowNs, forwarder, stream, loop, sent, runs>>

-----------------------------------------------------------------------------
(* The loop of run().                                                      *)

StopSeen ==
  /\ phase = "loop" /\ stop
  /\ phase' = "finally" /\ ending' = "stopped"
  /\ UNCHANGED <<now, isOpen, inbox, scheduler, ready, nowNs, forwarder, stream,
                 file, loop, sent, runs>>

(* The first half of _send_ready: everything ready leaves the heap at once. *)
PopReady ==
  /\ phase = "loop" /\ ~stop
  /\ nowNs' = now
  /\ ready' = ReadyAt(pending, now, highest, releaseHolds)
  /\ pending' = pending \ ready'
  /\ phase' = "send"
  /\ UNCHANGED <<now, isOpen, inbox, packetIndex, highest, releaseHolds, forwarder,
                 stream, file, loop, sent, ending, runs>>

(* The second half: each item goes to the network, then to the log.        *)
SendNext ==
  /\ phase = "send" /\ ready # {}
  /\ LET d == First(ready)
         notes == ForwardNotes(d)
     IN  /\ ready' = ready \ {d}
         /\ sent' = Append(sent, d)
         /\ reordered' = IF Overtaken(d) THEN reordered \cup {d.packet} ELSE reordered
         /\ \E k \in SinkOutcomes(Len(notes)) :
              /\ Emit(notes, nowNs, k)
              /\ highestForwarded' = IF Overtaken(d) /\ k = 0
                                     THEN highestForwarded
                                     ELSE Greater(highestForwarded, d.packet)
              /\ IF k = Len(notes)
                 THEN UNCHANGED <<phase, ending>>
                 ELSE phase' = "finally" /\ ending' = "failed"
  /\ UNCHANGED <<now, isOpen, inbox, scheduler, nowNs, loop, runs>>

(* Mutant: the event is written before the datagram goes out.              *)
SendFailsAfterLogging ==
  /\ phase = "send" /\ ready # {}
  /\ "send" \in Faults
  /\ Emit(ForwardNotes(First(ready)), nowNs, Len(ForwardNotes(First(ready))))
  /\ phase' = "finally" /\ ending' = "failed"
  /\ UNCHANGED <<now, isOpen, inbox, scheduler, ready, nowNs, forwarder,
                 loop, sent, runs>>

(* sendto raises or sends less than the datagram: the rest of the batch,   *)
(* already popped, is lost.                                                *)
SendFails ==
  /\ phase = "send" /\ ready # {}
  /\ "send" \in Faults
  /\ phase' = "finally" /\ ending' = "failed"
  /\ UNCHANGED <<now, isOpen, inbox, scheduler, ready, nowNs, forwarder, stream,
                 file, loop, sent, runs>>

(* Draining, and nothing is left to wait for.                              *)
DrainDone ==
  /\ phase = "send" /\ ready = {} /\ draining
  /\ pending = {} \/ NextDeadline(pending, highest, releaseHolds) = {}
  /\ phase' = "finally" /\ ending' = "drained"
  /\ UNCHANGED <<now, isOpen, inbox, scheduler, ready, nowNs, forwarder, stream,
                 file, loop, sent, runs>>

(* Draining: sleep no longer than the next deadline, then loop.            *)
DrainSleeps ==
  /\ phase = "send" /\ ready = {} /\ draining
  /\ pending # {} /\ NextDeadline(pending, highest, releaseHolds) # {}
  /\ phase' = "loop"
  /\ UNCHANGED <<now, isOpen, inbox, scheduler, ready, nowNs, forwarder, stream,
                 file, loop, sent, ending, runs>>

(* The timeout given to the socket when it is not the poll interval: the   *)
(* time left to the next deadline.                                         *)
RemainingTime ==
  {Greater(0, t - nowNs) : t \in NextDeadline(pending, highest, releaseHolds)}

BlockInReceive ==
  /\ phase = "send" /\ ready = {} /\ ~draining
  /\ phase' = "receive"
  /\ UNCHANGED <<now, isOpen, inbox, scheduler, ready, nowNs, forwarder, stream,
                 file, loop, sent, ending, runs>>

ReceiveTimesOut ==
  /\ phase = "receive" /\ inbox = 0
  /\ phase' = "loop"
  /\ UNCHANGED <<now, isOpen, inbox, scheduler, ready, nowNs, forwarder, stream,
                 file, loop, sent, ending, runs>>

(* Mutant: the run waits for one packet more than it was asked for.        *)
LimitPassed(n) == limit # 0 /\ n > limit

LimitReached(n) == limit # 0 /\ n >= limit

(* A datagram is received, decided, accounted for and scheduled.  The      *)
(* scheduler refuses an index that is not above its highest.               *)
Receive(o) ==
  /\ phase = "receive" /\ inbox > 0
  /\ inbox' = inbox - 1
  /\ packetIndex' = packetIndex + 1
  /\ LET notes == OutcomeNotes(o, packetIndex)
     IN  \E k \in SinkOutcomes(Len(notes)) :
           /\ Emit(notes, now, k)
           /\ IF k = Len(notes) /\ packetIndex > highest
              THEN /\ highest' = packetIndex
                   /\ pending' = pending \cup Deliveries(o, packetIndex, now)
                   /\ received' = received + 1
                   /\ draining' = LimitReached(received')
                   /\ releaseHolds' = (releaseHolds \/ draining')
                   /\ phase' = "loop"
                   /\ UNCHANGED ending
              ELSE /\ phase' = "finally" /\ ending' = "failed"
                   /\ UNCHANGED <<highest, pending, received, draining, releaseHolds>>
  /\ UNCHANGED <<now, isOpen, ready, nowNs, forwarder, stop, limit, sent, runs>>

(* The finally block: the summary, if the sink takes it, and the sockets.  *)
Finish ==
  /\ phase = "finally"
  /\ \E k \in SinkOutcomes(1) :
       /\ Write(<<SummaryEvent>>, k)
       /\ eventIndex' = eventIndex + k
       /\ lastElapsed' = IF k = 1 THEN now - start ELSE lastElapsed
       /\ ending' = IF k = 1 THEN ending ELSE "failed"
  /\ phase' = "unwind" /\ isOpen' = FALSE /\ inbox' = 0
  /\ UNCHANGED <<now, scheduler, ready, nowNs, forwarder, start, statistics, loop,
                 sent, runs>>

(* KeyboardInterrupt in the finally block, where the handlers of run() are *)
(* gone: before, in or after the summary, or before the sockets are closed. *)
InterruptAtSummary ==
  /\ phase = "finally" /\ "interrupt" \in Faults
  /\ \E k \in 0 .. 1 :
       /\ InterruptedWrite(SummaryEvent, k)
       /\ eventIndex' = eventIndex + k
       /\ lastElapsed' = IF k = 1 THEN now - start ELSE lastElapsed
  /\ ending' = IF ending = "failed" THEN "failed" ELSE "stopped"
  /\ phase' = "unwind"
  /\ isOpen' \in BOOLEAN /\ inbox' = IF isOpen' THEN inbox ELSE 0
  /\ UNCHANGED <<now, scheduler, ready, nowNs, forwarder, start, statistics, loop,
                 sent, runs>>

-----------------------------------------------------------------------------
(* The environment.                                                        *)

(* What the earlier sessions received, for the bound on arrivals.          *)
EarlierPackets ==
  Cardinality({i \in 1 .. begun : text[i].type = "packet_received"})

(* A datagram reaches the bound input socket.                              *)
Arrive ==
  /\ isOpen
  /\ packetIndex + inbox + EarlierPackets < MaxArrivals
  /\ inbox' = inbox + 1
  /\ UNCHANGED <<now, phase, isOpen, scheduler, ready, nowNs, forwarder, stream,
                 file, loop, sent, ending, runs>>

(* SIGINT, SIGTERM or the owner of the stop event.                         *)
RequestStop ==
  /\ Running /\ ~stop
  /\ stop' = TRUE
  /\ UNCHANGED <<now, phase, isOpen, inbox, scheduler, ready, nowNs, forwarder,
                 stream, file, limit, received, draining, sent, ending, runs>>

Tick ==
  /\ now < MaxTime \/ \E d \in pending \cup ready : d.due > now
  /\ now' = now + 1
  /\ UNCHANGED <<phase, isOpen, inbox, scheduler, ready, nowNs, forwarder, stream,
                 file, loop, sent, ending, runs>>

-----------------------------------------------------------------------------
Init ==
  /\ now = 0 /\ phase = "closed" /\ isOpen = FALSE /\ inbox = 0
  /\ stop = FALSE /\ limit = 0
  /\ packetIndex = 0 /\ highest = -1 /\ pending = {} /\ releaseHolds = FALSE
  /\ ready = {} /\ nowNs = 0
  /\ received = 0 /\ draining = FALSE
  /\ highestForwarded = -1 /\ reordered = {}
  /\ start = 0 /\ eventIndex = 0 /\ statistics = ZeroStatistics /\ lastElapsed = 0
  /\ text = <<>> /\ flushed = 0 /\ begun = 0 /\ refused = 0 /\ recording = TRUE
  /\ sent = <<>> /\ ending = "none" /\ runs = 0

(* The steps of the thread, from the call of run() to the caller's close.  *)
Thread ==
  \/ CallerCloses
  \/ StopSeen \/ PopReady \/ SendNext \/ SendFails
  \/ DrainDone \/ DrainSleeps \/ BlockInReceive \/ ReceiveTimesOut
  \/ \E o \in Outcomes : Receive(o)
  \/ Finish

Environment ==
  Open \/ StartRun \/ Arrive \/ RequestStop \/ InterruptAtHeader \/ InterruptAtSummary

Next == Thread \/ Environment \/ Tick

Spec == Init /\ [][Next]_vars

(* The thread and the clock go on; whether anybody opens the runtime, sends *)
(* to it or stops it is up to the environment.                              *)
FairSpec == Spec /\ WF_vars(Thread) /\ WF_vars(Tick)
-----------------------------------------------------------------------------
(* Properties.                                                             *)

Delivery == [due : Nat, packet : Nat, copy : 0..1, after : Nat]

(* Every variable of the thread has its type, in every state (the proofs   *)
(* have that of what was sent and written).                                *)
TypeOK ==
  /\ now \in Nat /\ nowNs \in Nat /\ start \in Nat
  /\ phase \in Phases
  /\ isOpen \in BOOLEAN /\ stop \in BOOLEAN /\ recording \in BOOLEAN
  /\ draining \in BOOLEAN /\ releaseHolds \in BOOLEAN
  /\ inbox \in Nat /\ limit \in Nat /\ received \in Nat /\ runs \in Nat
  /\ packetIndex \in Nat
  /\ highest \in Nat \cup {-1} /\ highestForwarded \in Nat \cup {-1}
  /\ pending \subseteq Delivery /\ ready \subseteq Delivery
  /\ reordered \subseteq Nat
  /\ eventIndex \in Nat /\ lastElapsed \in Int
  /\ statistics \in [CountedTypes -> Nat]
  /\ ending \in {"none", "stopped", "drained", "failed"}

(* The index the engine gives the next packet is always one the scheduler  *)
(* accepts: enqueue never raises "packet outcomes must be enqueued in      *)
(* strictly increasing order", also after the runtime was reopened.        *)
EnqueueNeverRefused == phase = "receive" => packetIndex > highest

(* When the thread blocks in recvfrom, everything that is due and released *)
(* has left the heap, so the timeout it passes is never zero.  Zero would  *)
(* make the socket non-blocking, and the loop handles TimeoutError only.   *)
ReceiveAlwaysBlocks == phase = "receive" => \A t \in RemainingTime : t > 0

(* No event carries a time before the last one: _emit never raises "event  *)
(* clock moved backwards", for a batch stamped with the time its loop read *)
(* or for a packet stamped with the time it was received.                  *)
EventClockNeverRefused ==
  Running => /\ lastElapsed <= now - start
             /\ phase = "send" /\ ready # {} => lastElapsed <= nowNs - start

(* No call of the loop is refused by what it calls.                        *)
NoInternalError == EnqueueNeverRefused /\ ReceiveAlwaysBlocks /\ EventClockNeverRefused

(* A disk that refused an event takes none behind it.                      *)
DiskStaysFull == refused = 0 \/ flushed <= refused

(* Whatever failed or was interrupted, and whenever the process dies:      *)
(* load_link_events accepts what the session has on disk, which is the     *)
(* whole file if the runtime was opened once (a second session has a       *)
(* second header, which the loader rejects).  That is for a disk that      *)
(* stays full once it refused an event.  events.py promises that           *)
(* interrupted runs "remain inspectable".                                  *)
LogAlwaysLoads == DiskStaysFull => LoadAccepts(log)

(* The promise without the condition.  A disk that recovers takes the      *)
(* event whose flush failed, and the summary with the same index.          *)
LogLoadsOnAnyDisk == LoadAccepts(log)

(* Under the same condition, a session whose part of the file ends with a  *)
(* summary tells the truth about its own events.                           *)
SummaryIsTrue ==
  DiskStaysFull /\ log # <<>> /\ log[Len(log)].type = "run_summary" => ValidateRunSummary(log)

(* Where a log has events of a type, and how many there are up to one.     *)
Logged(events, type) == {i \in DOMAIN events : events[i].type = type}
Rank(events, type, i) == Cardinality({j \in Logged(events, type) : j <= i})

(* The log and the network agree on what was forwarded, item by item and   *)
(* in order: the log never claims a datagram that did not go out, and lags *)
(* by at most the one whose event the sink refused.                        *)
ForwardsAgree(events) ==
  /\ Len(sent) - Cardinality(Logged(events, "packet_forwarded")) \in
       (IF ending = "failed" /\ "sink" \in Faults THEN {0, 1} ELSE {0})
  /\ \A i \in Logged(events, "packet_forwarded") :
       LET d == sent[Rank(events, "packet_forwarded", i)]
       IN  events[i].packet = d.packet /\ events[i].detail = d.copy

(* So says what the session has on disk, on any disk.                      *)
ForwardLogIsTrue == ForwardsAgree(log)

(* The packets one of whose copies went out after a newer packet.          *)
Late ==
  {sent[j].packet : j \in {j \in DOMAIN sent :
     \E i \in 1 .. j - 1 : sent[i].packet > sent[j].packet}}

(* A packet has a reorder event exactly when one of its copies went out    *)
(* after a newer packet, it has only one, and the packet it names really   *)
(* is newer and went out; unless the sink refused that event.              *)
ReordersAgree(events) ==
  LET places == Logged(events, "packet_reordered")
      noted  == {events[i].packet : i \in places}
  IN  /\ noted \subseteq Late
      /\ ending # "failed" => noted = Late
      /\ \A i, j \in places : events[i].packet = events[j].packet => i = j
      /\ \A i \in places :
           /\ events[i].detail > events[i].packet
           /\ \E j \in DOMAIN sent : sent[j].packet = events[i].detail

(* So says what the session has on disk, on any disk.                      *)
ReorderEventsAreTrue == ReordersAgree(log)

(* A finite run that ends of itself has forwarded everything it scheduled: *)
(* no tail hold keeps a delivery back, and nothing was scheduled or went   *)
(* out twice.                                                              *)
DrainIsComplete ==
  ending = "drained" =>
    LET scheduled == Logged(log, "delivery_scheduled")
        Named(i)  == <<log[i].packet, log[i].detail>>
        Gone(i)   == <<sent[i].packet, sent[i].copy>>
    IN  /\ pending = {} /\ ready = {}
        /\ {Named(i) : i \in scheduled} = {Gone(i) : i \in DOMAIN sent}
        /\ \A i, j \in scheduled : Named(i) = Named(j) => i = j
        /\ \A i, j \in DOMAIN sent : Gone(i) = Gone(j) => i = j

(* A delivery that is not held never leaves after one that comes later in *)
(* the order of due time, packet and copy, held or not, whenever either    *)
(* was received and in whichever poll it was popped.  So one delay for all *)
(* packets keeps the order of the input, and copies leave by their index   *)
(* (ADR 0001: copy_index is the stable tie-breaker).                       *)
UnheldLeaveInOrder ==
  \A i, j \in DOMAIN sent :
    i < j /\ sent[j].after = sent[j].packet => ~Before(sent[j], sent[i])

(* ADR 0001: "A zero window disables reordering."                          *)
ZeroWindowKeepsOrder ==
  (\A o \in Outcomes : o.hold = 0) => Logged(log, "packet_reordered") = {}

(* The runtime is a channel of the promised kind.                          *)
Channel == INSTANCE LinkChannel WITH
  time        <- now,
  up          <- isOpen,
  accepted    <- highest + 1,
  waiting     <- IF isOpen THEN pending \cup ready ELSE {},
  delivered   <- sent,
  inputEnded  <- releaseHolds,
  interrupted <- isOpen /\ ending \in {"stopped", "failed"}
ImplementsChannel == Channel!Spec

(* A run that was asked to stop, or whose last packet has arrived, ends:   *)
(* its sockets are closed and its caller has the terminal back.            *)
RunEnds ==
  (Running /\ (stop \/ (limit > 0 /\ packetIndex + inbox >= limit)))
    ~> (phase = "closed")

(* A delivery whose hold is over leaves, whatever else keeps arriving; a   *)
(* run that ends meanwhile discards it.                                    *)
EligibleLeaves ==
  \A p \in 0 .. MaxArrivals - 1 :
    (\E d \in pending : d.packet = p /\ Eligible(d, highest, releaseHolds))
      ~> (~\E d \in pending \cup ready : d.packet = p) \/ phase = "closed"
=============================================================================
