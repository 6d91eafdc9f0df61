---------------------------- MODULE AlarmListener ---------------------------
(***************************************************************************)
(* The ground-station listener with both recordings on: it receives a      *)
(* datagram, records it, decodes it, evaluates its alarms and writes their *)
(* transitions to the alarm log.  SIGINT is not translated into a request  *)
(* here: Python raises KeyboardInterrupt between two steps of the loop,    *)
(* and the contexts close while it unwinds.  The steps are therefore as    *)
(* fine as what an interruption can tear apart.                            *)
(***************************************************************************)
EXTENDS AlarmRules, AlarmEvents, FiniteSets, SequencesExt

CONSTANTS
  Datagrams,     (* what may arrive: packets, and Garbage                  *)
  Garbage,       (* a datagram decode_packet rejects                       *)
  DiskMayFail,   (* a write to either file may fail                        *)
  MaxDatagrams   (* bound: datagrams received in one session               *)

ASSUME ListenerAssumption ==
  /\ \A d \in Datagrams \ {Garbage} : d.sequence \in 0 .. SequenceModulus - 1
  /\ DiskMayFail \in BOOLEAN /\ MaxDatagrams \in Nat

VARIABLES
  phase,         (* where the thread is                                    *)
  engine,        (* the alarm engine's state                               *)
  raw,           (* the datagram in hand                                   *)
  todo,          (* its transitions that were not written yet              *)
  telemetry,     (* the telemetry recording on disk                        *)
  alarmLog,      (* the alarm log on disk                                  *)
  buffer,        (* lines of the alarm log that were not flushed           *)
  eventIndex, statistics,  (* the alarm recorder                           *)
  cause          (* why and in which phase the loop was left               *)

recorder == <<alarmLog, buffer, eventIndex, statistics>>
vars == <<phase, engine, raw, todo, telemetry, recorder, cause>>

NoDatagram == [sequence |-> NoSequence]

(* The phases of the loop.  The last three are inside the alarm recorder:  *)
(* the line is in the file object, then on disk, then the index counts it; *)
(* then the statistics do.                                                 *)
Recording == {"written", "flushed", "indexed"}
Looping == {"receive", "record", "process", "emit"} \cup Recording
Stopped == {"stopped", "failed", "killed"}
Phases == {"start", "unwind"} \cup Looping \cup Stopped

Causes == ({"interrupt"} \X Looping) \cup ({"disk"} \X {"record", "written"})
Nothing == <<"none", "none">>

Metadata == [type |-> "run_metadata", index |-> 0]
Summary  == [type |-> "run_summary", index |-> eventIndex, statistics |-> statistics]
Event(transition) ==
  [type |-> transition.type, index |-> eventIndex, sequence |-> raw.sequence,
   identity |-> transition.identity, severity |-> transition.severity]

(* Both files are created and truncated and the header is written, or an   *)
(* OSError ends the command before it received anything; a header whose    *)
(* flush failed may still reach the disk when the file object goes away.   *)
Start ==
  /\ phase = "start"
  /\ telemetry' = <<>>
  /\ \/ /\ alarmLog' = <<Metadata>> /\ eventIndex' = 1
        /\ phase' = "receive"
     \/ /\ DiskMayFail
        /\ alarmLog' \in {<<>>, <<Metadata>>}
        /\ phase' = "stopped" /\ UNCHANGED eventIndex
  /\ UNCHANGED <<engine, raw, todo, buffer, statistics, cause>>

Receive(datagram) ==
  /\ phase = "receive"
  /\ Len(telemetry) < MaxDatagrams
  /\ raw' = datagram
  /\ phase' = "record"
  /\ UNCHANGED <<engine, todo, telemetry, recorder, cause>>

(* A record whose write is cut short may still be in the file object, and  *)
(* reach the disk when the recorder closes.                                *)
MaybeRecorded == telemetry' \in {telemetry, Append(telemetry, raw)}

(* Recording comes before decoding: a rejected datagram is kept too.       *)
Record ==
  /\ phase = "record"
  /\ \/ /\ telemetry' = Append(telemetry, raw)
        /\ phase' = "process" /\ UNCHANGED cause
     \/ /\ DiskMayFail /\ MaybeRecorded
        /\ phase' = "unwind" /\ cause' = <<"disk", "record">>
  /\ UNCHANGED <<engine, raw, todo, recorder>>

(* Mutant: a rejected datagram forgets the sequence.                       *)
RejectForgettingSequence ==
  /\ phase = "process" /\ raw = Garbage
  /\ engine' = [engine EXCEPT !.last = NoSequence]
  /\ phase' = "receive"
  /\ UNCHANGED <<raw, todo, telemetry, recorder, cause>>

Reject ==
  /\ phase = "process" /\ raw = Garbage
  /\ phase' = "receive"
  /\ UNCHANGED <<engine, raw, todo, telemetry, recorder, cause>>

Process ==
  /\ phase = "process" /\ raw # Garbage
  /\ engine' = NextState(engine, raw)
  /\ todo' = Transitions(engine, raw)
  /\ phase' = IF todo' = <<>> THEN "receive" ELSE "emit"
  /\ UNCHANGED <<raw, telemetry, recorder, cause>>

(* _write_event: the line goes to the file object, is flushed, is indexed. *)
WriteEvent ==
  /\ phase = "emit"
  /\ buffer' = Append(buffer, Event(Head(todo)))
  /\ phase' = "written"
  /\ UNCHANGED <<engine, raw, todo, telemetry, alarmLog, eventIndex, statistics, cause>>

(* A flush that fails keeps the line in the file object.                   *)
Flush ==
  /\ phase = "written"
  /\ \/ /\ alarmLog' = alarmLog \o buffer /\ buffer' = <<>>
        /\ phase' = "flushed" /\ UNCHANGED cause
     \/ /\ DiskMayFail
        /\ phase' = "unwind" /\ cause' = <<"disk", "written">>
        /\ UNCHANGED <<alarmLog, buffer>>
  /\ UNCHANGED <<engine, raw, todo, telemetry, eventIndex, statistics>>

CountIndex ==
  /\ phase = "flushed"
  /\ eventIndex' = eventIndex + 1
  /\ phase' = "indexed"
  /\ UNCHANGED <<engine, raw, todo, telemetry, alarmLog, buffer, statistics, cause>>

(* Mutant: the statistics count alarms, not transitions.                   *)
CountTransitionOnceRaised ==
  /\ phase = "indexed"
  /\ statistics' = IF Head(todo).type = "updated" THEN statistics
                   ELSE WithTransition(statistics, Head(todo).type)
  /\ todo' = Tail(todo)
  /\ phase' = IF todo' = <<>> THEN "receive" ELSE "emit"
  /\ UNCHANGED <<engine, raw, telemetry, alarmLog, buffer, eventIndex, cause>>

CountTransition ==
  /\ phase = "indexed"
  /\ statistics' = WithTransition(statistics, Head(todo).type)
  /\ todo' = Tail(todo)
  /\ phase' = IF todo' = <<>> THEN "receive" ELSE "emit"
  /\ UNCHANGED <<engine, raw, telemetry, alarmLog, buffer, eventIndex, cause>>

(* KeyboardInterrupt, at any step of the loop: what is in hand is dropped. *)
Interrupt ==
  /\ phase \in Looping
  /\ phase' = "unwind" /\ cause' = <<"interrupt", phase>>
  /\ IF phase = "record" THEN MaybeRecorded ELSE UNCHANGED telemetry
  /\ UNCHANGED <<engine, raw, todo, recorder>>

(* Mutant: closing after an interruption writes no summary.                *)
CloseWithoutSummary ==
  /\ phase = "unwind"
  /\ phase' = "stopped"
  /\ alarmLog' = alarmLog \o buffer /\ buffer' = <<>>
  /\ UNCHANGED <<engine, raw, todo, telemetry, eventIndex, statistics, cause>>

(* The contexts unwind: the alarm recorder writes its summary, flushes     *)
(* what it holds and closes; then the telemetry recorder closes.  If the   *)
(* flush fails, the text stays in the file object, which writes what it    *)
(* can of it when it goes away, with nobody there to be told.              *)
Close ==
  /\ phase = "unwind"
  /\ \/ /\ alarmLog' = alarmLog \o buffer \o <<Summary>>
        /\ buffer' = <<>> /\ eventIndex' = eventIndex + 1
        /\ phase' = "stopped"
     \/ /\ DiskMayFail
        /\ alarmLog' \in {alarmLog, alarmLog \o buffer, alarmLog \o buffer \o <<Summary>>}
        /\ phase' = "failed"
        /\ UNCHANGED <<buffer, eventIndex>>
  /\ UNCHANGED <<engine, raw, todo, telemetry, statistics, cause>>

(* The process is killed: only what was flushed remains.                   *)
Kill ==
  /\ phase \notin Stopped
  /\ phase' = "killed"
  /\ UNCHANGED <<engine, raw, todo, telemetry, recorder, cause>>

Init ==
  /\ phase = "start" /\ engine = Fresh /\ raw = NoDatagram /\ todo = <<>>
  /\ telemetry = <<>> /\ alarmLog = <<>>
  /\ buffer = <<>> /\ eventIndex = 0 /\ statistics = ZeroStatistics
  /\ cause = Nothing

Thread ==
  \/ Start \/ Record \/ Reject \/ Process
  \/ WriteEvent \/ Flush \/ CountIndex \/ CountTransition \/ Close

Next == Thread \/ Interrupt \/ Kill \/ \E d \in Datagrams : Receive(d)

Spec == Init /\ [][Next]_vars

-----------------------------------------------------------------------------
(* Properties.                                                             *)

(* The loop was left inside the alarm recorder, between the line and the   *)
(* counters that account for it.                                           *)
Torn == cause[2] \in Recording

(* Whenever the process is killed, interrupted or fails, the alarm log is  *)
(* one load_alarm_events accepts: unless the loop was left inside the      *)
(* recorder and the recorder was then closed, or its closing failed.       *)
AlarmLogLoads == (Torn /\ phase \in {"stopped", "failed"}) \/ LoadAccepts(alarmLog)

(* An interruption anywhere else leaves a complete log, unless the disk    *)
(* refuses its summary: "a cooperatively interrupted run writes a summary  *)
(* while unwinding" (ADR 0004).                                            *)
InterruptWritesSummary ==
  phase = "stopped" /\ cause[1] = "interrupt" /\ ~Torn =>
    IsComplete(alarmLog) /\ LoadAccepts(alarmLog)

(* The same without the exception: what the decision record promises.      *)
InterruptedRunIsComplete ==
  phase = "stopped" /\ cause[1] = "interrupt" =>
    IsComplete(alarmLog) /\ LoadAccepts(alarmLog)

(* Transitions, each with the sequence number of its packet.               *)
Stamped(packet, transitions) ==
  [i \in DOMAIN transitions |-> <<packet.sequence, transitions[i]>>]

(* An engine, and what it has emitted, one datagram later.                 *)
After(account, datagram) ==
  IF datagram = Garbage THEN account
  ELSE [engine |-> NextState(account.engine, datagram),
        out    |-> account.out \o Stamped(datagram, Transitions(account.engine, datagram))]

(* What a fresh engine makes of the first n records of a recording.        *)
Story(records) ==
  LET story[n \in 0 .. Len(records)] ==
        IF n = 0 THEN [engine |-> Fresh, out |-> <<>>]
        ELSE After(story[n - 1], records[n])
  IN  story

Replayed(records) == Story(records)[Len(records)].out

(* What lies between the header and the summary of the alarm log.          *)
LoggedTransitions ==
  LET last == IF IsComplete(alarmLog) THEN Len(alarmLog) - 1 ELSE Len(alarmLog)
      events == SubSeq(alarmLog, 2, last)
  IN  [i \in DOMAIN events |->
         <<events[i].sequence,
           Transition(events[i].identity, events[i].type, events[i].severity)>>]

(* The two files tell one story, whatever ended the session: every logged  *)
(* transition is the one the recording explains, in the same order, and    *)
(* the log lacks at most transitions of the last recorded datagram.        *)
LogFollowsRecording ==
  /\ IsPrefix(LoggedTransitions, Replayed(telemetry))
  /\ telemetry # <<>> => IsPrefix(Replayed(Front(telemetry)), LoggedTransitions)
=============================================================================
