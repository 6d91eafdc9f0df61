--------------------------- MODULE InspectionProofs --------------------------
(***************************************************************************)
(* Proofs about the listener and its readers, for every policy, every set  *)
(* of datagrams and every fault: what the listener leaves in its two       *)
(* files, what a replay prints, and what the inspector writes and refuses. *)
(***************************************************************************)
EXTENDS InspectionCommand, TelemetryReplay, FiniteSetTheorems, SequenceTheorems, TLAPS

Reading == {"idle"} \cup Loading
Steps == Reading \cup Writing \cup {"cleanup", "ended"}

(* What the step says about the report and the temporary file.             *)
StepInv ==
  /\ step \in Steps
  /\ step \in Reading \cup {"create", "created", "write", "replace"} => report = "old"
  /\ step = "replaced" => report = "new"
  /\ step \in Reading \cup {"create", "replaced"} => temp = "none"
  /\ step = "created" => temp = "unnamed"
  /\ step \in {"write", "replace", "cleanup"} => temp # "unnamed"
  /\ step \notin {"idle", "ended"} => ~selection.aliases

(* What the outcome says: there is one when the command is over or cleans  *)
(* up, and a command that cleans up has failed or was interrupted.         *)
OutcomeInv ==
  /\ step \in Reading \cup Writing => outcome = "none"
  /\ step = "cleanup" => outcome \in {"io_error", "interrupted"}

FileInv == StepInv /\ OutcomeInv /\ ReportIsOldOrNew /\ NothingLeftBehind

(* _exit_code returns one of the three verdicts.                           *)
LEMMA VerdictIsOne == \A s : Verdict(s) \in Verdicts
  BY DEF Verdict, Verdicts

(* Before the command there is the old report and no temporary file.       *)
LEMMA FileInit == InspectionInit => FileInv
  BY DEF InspectionInit, FileInv, StepInv, OutcomeInv, ReportIsOldOrNew,
         NothingLeftBehind, Steps, Reading, Loading, Writing, Verdicts, Nobody

(* Reading the evidence touches no file.                                   *)
LEMMA LoadingStep ==
  ASSUME FileInv,
         (\E s \in Selections : Begin(s) \/ Refuse(s)) \/ LoadTelemetry \/ LoadAlarms \/ LoadLink
  PROVE  FileInv'
<1> USE DEF FileInv, StepInv, OutcomeInv, ReportIsOldOrNew, NothingLeftBehind,
            Steps, Reading, Loading, Writing, Verdicts, files
<1>1. CASE \E s \in Selections : Begin(s) \/ Refuse(s)
  BY <1>1 DEF Begin, Refuse, Sensible
<1>2. CASE LoadTelemetry
  BY <1>2 DEF LoadTelemetry, FailReading
<1>3. CASE LoadAlarms
  BY <1>3 DEF LoadAlarms, FailReading
<1>4. CASE LoadLink
  BY <1>4 DEF LoadLink, FailReading
<1> QED BY <1>1, <1>2, <1>3, <1>4

(* The writer.  A failure with no name for the temporary file has made     *)
(* none, and every other one is cleaned up.                                *)
LEMMA WritingStep ==
  ASSUME FileInv,
         \/ CreateTemporary \/ NameTemporary \/ WriteTemporary \/ Replace \/ Finish
         \/ CleanUp
  PROVE  FileInv'
<1> USE DEF FileInv, StepInv, OutcomeInv, ReportIsOldOrNew, NothingLeftBehind,
            Steps, Reading, Loading, Writing, Verdicts, files
<1>1. CASE CreateTemporary
  BY <1>1 DEF CreateTemporary, Fail
<1>2. CASE NameTemporary
  BY <1>2 DEF NameTemporary
<1>3. CASE WriteTemporary
  BY <1>3 DEF WriteTemporary, Fail
<1>4. CASE Replace
  BY <1>4 DEF Replace, Fail
<1>5. CASE Finish
  BY <1>5, VerdictIsOne DEF Finish
<1>6. CASE CleanUp
  BY <1>6 DEF CleanUp
<1> QED BY <1>1, <1>2, <1>3, <1>4, <1>5, <1>6

(* The end that comes from outside.                                        *)
LEMMA StoppingStep ==
  ASSUME FileInv, InterruptCommand \/ InterruptCleanUp \/ KillCommand
  PROVE  FileInv'
<1> USE DEF FileInv, StepInv, OutcomeInv, ReportIsOldOrNew, NothingLeftBehind,
            Steps, Reading, Loading, Writing, Verdicts, files
<1>1. CASE InterruptCommand
  BY <1>1 DEF InterruptCommand
<1>2. CASE InterruptCleanUp
  BY <1>2 DEF InterruptCleanUp
<1>3. CASE KillCommand
  BY <1>3 DEF KillCommand
<1> QED BY <1>1, <1>2, <1>3

(* The listener writes neither file; every step of the command keeps both  *)
(* in a state its next step, or its clean-up, can go on from.              *)
LEMMA FileStep == FileInv /\ [InspectionNext]_<<vars, command>> => FileInv'
<1> SUFFICES ASSUME FileInv, [InspectionNext]_<<vars, command>> PROVE FileInv'
  OBVIOUS
<1>1. CASE CommandStep
  BY <1>1, LoadingStep, WritingStep, StoppingStep DEF CommandStep
<1>2. CASE UNCHANGED command
  BY <1>2 DEF FileInv, StepInv, OutcomeInv, ReportIsOldOrNew, NothingLeftBehind,
              command, files
<1> QED BY <1>1, <1>2 DEF InspectionNext, ListenerStep

(* The invariant of the files holds in every behaviour of the command.     *)
THEOREM FilesCorrect == InspectionSpec => []FileInv
  BY FileInit, FileStep, PTL DEF InspectionSpec

(* Whatever fails or interrupts it, and whatever the listener does, the    *)
(* report is the old one or the whole new one, and which of the two        *)
(* follows from how the command ended.                                     *)
THEOREM ReportCorrect == InspectionSpec => []ReportIsOldOrNew
  BY FilesCorrect, PTL DEF FileInv

(* No temporary file is left behind, but by a kill, by an interruption in  *)
(* one of the two windows, or by a file system that keeps it.              *)
THEOREM CleanUpCorrect == InspectionSpec => []NothingLeftBehind
  BY FilesCorrect, PTL DEF FileInv

-----------------------------------------------------------------------------
(* The listener: what it has on disk wherever it is left.                  *)

Numbers == {d.sequence : d \in Datagrams \cup {NoDatagram}}
Identities == {"sequence-gap", "temperature", "battery", "safe-mode"}

(* The transitions the engine returns, and the lines of an alarm log.      *)
Told == [identity : Identities, type : TransitionTypes, severity : Severities]
LogLines ==
  {Metadata}
    \cup [type : TransitionTypes, index : Nat, sequence : Numbers,
          identity : Identities, severity : Severities]
    \cup [type : {"run_summary"}, index : Nat, statistics : [TransitionTypes -> Nat]]

ListenerType ==
  /\ phase \in Phases
  /\ raw \in Datagrams \cup {NoDatagram}
  /\ engine.temperature \in Severities
  /\ todo \in Seq(Told)
  /\ alarmLog \in Seq(LogLines) /\ buffer \in Seq(LogLines)
  /\ eventIndex \in Nat
  /\ statistics \in [TransitionTypes -> Nat]
  /\ cause \in Causes \cup {Nothing}

(* The log of a session that was not closed: a header, then transitions,   *)
(* each with the index of its position.                                    *)
Open(log) ==
  \A i \in DOMAIN log :
    /\ log[i].index = i - 1
    /\ log[i].type = "run_metadata" <=> i = 1
    /\ log[i].type # "run_summary"

(* The loop is at a step of the recorder, or was left there.               *)
LeftAt(place) == phase = place \/ (phase = "unwind" /\ cause[2] = place)

(* What the log, the file object and the counters say at each step.  The   *)
(* counters lag behind by the line in hand, in one, two or three places.   *)
RecorderInv ==
  /\ phase = "start" => alarmLog = <<>> /\ buffer = <<>> /\ eventIndex = 0
                          /\ statistics = ZeroStatistics
  /\ phase \in {"start"} \cup Looping => cause = Nothing
  /\ phase \in Looping \cup {"unwind"} => Open(alarmLog) /\ alarmLog # <<>>
  /\ phase \in {"emit"} \cup Recording \/ (phase = "unwind" /\ Torn) => todo # <<>>
  /\ phase \in Looping \ Recording \/ (phase = "unwind" /\ ~Torn) =>
       /\ buffer = <<>>
       /\ eventIndex = Len(alarmLog)
       /\ statistics = StatisticsFromEvents(alarmLog)
  /\ LeftAt("written") =>
       /\ Len(buffer) = 1
       /\ buffer[1].index = eventIndex /\ buffer[1].type = Head(todo).type
       /\ eventIndex = Len(alarmLog)
       /\ statistics = StatisticsFromEvents(alarmLog)
  /\ LeftAt("flushed") \/ LeftAt("indexed") =>
       /\ buffer = <<>>
       /\ Len(alarmLog) = IF LeftAt("flushed") THEN eventIndex + 1 ELSE eventIndex
       /\ StatisticsFromEvents(alarmLog) = WithTransition(statistics, Head(todo).type)

(* And what the session leaves: an open log when it was killed; a log that *)
(* is refused when it was torn and then closed; else one that loads, and   *)
(* that is complete if it was interrupted.  A close that fails leaves one  *)
(* or the other, or the log still open.                                    *)
LeftInv ==
  /\ phase = "killed" => Open(alarmLog)
  /\ phase = "stopped" =>
       IF Torn THEN ~LoadAccepts(alarmLog)
       ELSE /\ LoadAccepts(alarmLog)
            /\ cause[1] = "interrupt" => IsComplete(alarmLog)
  /\ phase = "failed" =>
       \/ Open(alarmLog)
       \/ IF Torn THEN ~LoadAccepts(alarmLog) ELSE LoadAccepts(alarmLog)

ListenerInv == ListenerType /\ RecorderInv /\ LeftInv

(* What a rule returns is told, in whatever state the engine is.           *)
LEMMA TransitionsAreTold ==
  ASSUME NEW s, s.temperature \in Severities, NEW packet
  PROVE  /\ Transitions(s, packet) \in Seq(Told)
         /\ NextState(s, packet).temperature \in Severities
<1> DEFINE next == NextState(s, packet)
           gap == IF IsGap(s.last, packet.sequence)
                  THEN <<Transition("sequence-gap", "raised", "warning")>> ELSE <<>>
           temperature == TemperatureTransitions(s.temperature, next.temperature)
           battery == SwitchTransitions("battery", s.battery, next.battery, "critical")
           safe == SwitchTransitions("safe-mode", s.safe, next.safe, "warning")
<1>1. next.temperature \in Severities
  BY DEF NextState, NextTemperature, Severities
<1>2. Transitions(s, packet) = ((gap \o temperature) \o battery) \o safe
  BY DEF Transitions
<1>3. /\ <<>> \in Seq(Told)
      /\ \A d \in Identities, type \in TransitionTypes, severity \in Severities :
           <<Transition(d, type, severity)>> \in Seq(Told)
  <2>1. ASSUME NEW d \in Identities, NEW type \in TransitionTypes, NEW severity \in Severities
        PROVE  Transition(d, type, severity) \in Told
    BY DEF Transition, Told
  <2> QED
    BY <2>1
<1>4. gap \in Seq(Told)
  <2>1. "sequence-gap" \in Identities /\ "raised" \in TransitionTypes /\ "warning" \in Severities
    BY DEF Identities, TransitionTypes, Severities
  <2> QED
    BY <1>3, <2>1
<1>5. temperature \in Seq(Told)
  <2>1. /\ "temperature" \in Identities
        /\ "raised" \in TransitionTypes /\ "cleared" \in TransitionTypes
        /\ "updated" \in TransitionTypes
    BY DEF Identities, TransitionTypes
  <2>2. \/ temperature = <<>>
        \/ temperature = <<Transition("temperature", "raised", next.temperature)>>
        \/ temperature = <<Transition("temperature", "cleared", s.temperature)>>
        \/ temperature = <<Transition("temperature", "updated", next.temperature)>>
    BY DEF TemperatureTransitions
  <2> HIDE DEF temperature
  <2> QED
    BY <1>1, <1>3, <2>1, <2>2
<1>6. ASSUME NEW d \in Identities, NEW severity \in Severities, NEW old, NEW new
      PROVE  SwitchTransitions(d, old, new, severity) \in Seq(Told)
  <2>1. (IF new THEN "raised" ELSE "cleared") \in TransitionTypes
    BY DEF TransitionTypes
  <2> QED
    BY <1>3, <2>1 DEF SwitchTransitions
<1>7. battery \in Seq(Told) /\ safe \in Seq(Told)
  <2>1. /\ "battery" \in Identities /\ "safe-mode" \in Identities
        /\ "warning" \in Severities /\ "critical" \in Severities
    BY DEF Identities, Severities
  <2> QED
    BY <1>6, <2>1
<1> HIDE DEF gap, temperature, battery, safe
<1>8. gap \o temperature \in Seq(Told)
  BY <1>4, <1>5, ConcatProperties
<1>9. (gap \o temperature) \o battery \in Seq(Told)
  BY <1>7, <1>8, ConcatProperties
<1>10. ((gap \o temperature) \o battery) \o safe \in Seq(Told)
  BY <1>7, <1>9, ConcatProperties
<1> QED
  BY <1>1, <1>2, <1>10 DEF next

(* A file object with one line in it.                                      *)
LEMMA OneLine ==
  ASSUME NEW q \in Seq(LogLines), Len(q) = 1
  PROVE  q[1] \in LogLines /\ q = <<q[1]>>
<1>1. DOMAIN q = 1 .. 1 /\ 1 \in 1 .. 1
  OBVIOUS
<1> QED
  BY <1>1

(* One more line changes the counters as the recorder's own do: by one for *)
(* a transition, and not at all for anything else.                         *)
LEMMA CountsGrow ==
  ASSUME NEW log \in Seq(LogLines), NEW e \in LogLines
  PROVE  /\ StatisticsFromEvents(log) \in [TransitionTypes -> Nat]
         /\ StatisticsFromEvents(Append(log, e)) =
              IF e.type \in TransitionTypes THEN WithTransition(StatisticsFromEvents(log), e.type)
              ELSE StatisticsFromEvents(log)
<1> DEFINE longer == Append(log, e)
           n == Len(log)
           Of(q, t) == {i \in DOMAIN q : q[i].type = t}
<1>1. /\ n \in Nat /\ DOMAIN log = 1 .. n /\ DOMAIN longer = 1 .. n + 1
      /\ \A i \in 1 .. n : longer[i] = log[i]
      /\ longer[n + 1] = e
  OBVIOUS
<1>2. 1 .. n + 1 = (1 .. n) \cup {n + 1} /\ n + 1 \notin 1 .. n
  BY <1>1
<1> HIDE DEF longer, n
<1>3. \A t : /\ Of(log, t) \in SUBSET (1 .. n)
             /\ e.type = t => Of(longer, t) = Of(log, t) \cup {n + 1}
             /\ e.type # t => Of(longer, t) = Of(log, t)
  BY <1>1, <1>2
<1> HIDE DEF Of
<1>4. ASSUME NEW t
      PROVE  /\ Cardinality(Of(log, t)) \in Nat
             /\ e.type = t => Cardinality(Of(longer, t)) = Cardinality(Of(log, t)) + 1
             /\ e.type # t => Cardinality(Of(longer, t)) = Cardinality(Of(log, t))
  <2>1. IsFiniteSet(1 .. n)
    <3>1. 1 \in Int /\ n \in Int
      BY <1>1
    <3> QED
      BY <3>1, FS_Interval
  <2>2. IsFiniteSet(Of(log, t)) /\ n + 1 \notin Of(log, t)
    BY <1>2, <1>3, <2>1, FS_Subset
  <2>3. /\ Cardinality(Of(log, t)) \in Nat
        /\ Cardinality(Of(log, t) \cup {n + 1}) = Cardinality(Of(log, t)) + 1
    BY <2>2, FS_AddElement, FS_CardinalityType
  <2> QED
    BY <1>3, <2>3
<1>5. \A q : StatisticsFromEvents(q) = [t \in TransitionTypes |-> Cardinality(Of(q, t))]
  BY DEF StatisticsFromEvents, Of
<1>6. StatisticsFromEvents(longer) =
        IF e.type \in TransitionTypes THEN WithTransition(StatisticsFromEvents(log), e.type)
        ELSE StatisticsFromEvents(log)
  BY <1>4, <1>5 DEF WithTransition
<1> QED
  BY <1>4, <1>5, <1>6 DEF longer

(* An open log loads, and has no end yet.                                  *)
LEMMA OpenLoads ==
  ASSUME NEW log \in Seq(LogLines), Open(log)
  PROVE  LoadAccepts(log) /\ ~IsComplete(log)
<1>1. DOMAIN log = 1 .. Len(log) /\ Len(log) \in Nat /\ (log # <<>> => Len(log) \in DOMAIN log)
  OBVIOUS
<1> QED
  BY <1>1 DEF Open, LoadAccepts, IsComplete

(* It stays open when a transition with the next index is added.           *)
LEMMA OpenGrows ==
  ASSUME NEW log \in Seq(LogLines), Open(log), log # <<>>, NEW e \in LogLines,
         e.index = Len(log), e.type \in TransitionTypes
  PROVE  Open(Append(log, e))
<1>1. Len(log) \in Nat /\ Len(log) # 0 /\ DOMAIN log = 1 .. Len(log)
  OBVIOUS
<1>2. ASSUME NEW i \in DOMAIN Append(log, e)
      PROVE  \/ i \in DOMAIN log /\ Append(log, e)[i] = log[i]
             \/ i = Len(log) + 1 /\ Append(log, e)[i] = e
  BY <1>1
<1>3. e.type # "run_metadata" /\ e.type # "run_summary"
  BY DEF TransitionTypes
<1> HIDE DEF TransitionTypes
<1> QED
  BY <1>1, <1>2, <1>3 DEF Open

(* A summary ends it; what the readers then ask is that the summary has    *)
(* the next index and the counters of the events.                          *)
LEMMA SummaryEnds ==
  ASSUME NEW log \in Seq(LogLines), Open(log), log # <<>>, NEW e \in LogLines, e.type = "run_summary"
  PROVE  /\ IsComplete(Append(log, e))
         /\ LoadAccepts(Append(log, e)) <=>
              e.index = Len(log) /\ e.statistics = StatisticsFromEvents(log)
<1> DEFINE longer == Append(log, e)
           n == Len(log)
<1>1. /\ n \in Nat /\ n # 0 /\ DOMAIN log = 1 .. n /\ DOMAIN longer = 1 .. n + 1
      /\ Len(longer) = n + 1 /\ longer # <<>>
      /\ \A i \in 1 .. n : longer[i] = log[i]
      /\ longer[n + 1] = e
  OBVIOUS
<1>2. StatisticsFromEvents(longer) = StatisticsFromEvents(log)
  <2>1. e.type \notin TransitionTypes
    BY DEF TransitionTypes
  <2> QED
    BY <2>1, CountsGrow
<1> HIDE DEF longer, n
<1>3. IsComplete(longer)
  BY <1>1 DEF IsComplete
<1>4. ASSUME NEW i \in 1 .. n
      PROVE  /\ longer[i].index = i - 1
             /\ longer[i].type = "run_metadata" <=> i = 1
             /\ longer[i].type # "run_summary"
  BY <1>1, <1>4 DEF Open
<1>5. n + 1 - 1 = n /\ n + 1 # 1 /\ n + 1 \in 1 .. n + 1
  BY <1>1
<1>6. \A i \in 1 .. n + 1 : i \in 1 .. n \/ i = n + 1
  BY <1>1
<1>7. (\A i \in DOMAIN longer :
         /\ longer[i].index = i - 1
         /\ longer[i].type = "run_metadata" <=> i = 1
         /\ longer[i].type = "run_summary" => i = Len(longer))
        <=> e.index = n
  BY <1>1, <1>4, <1>5, <1>6
<1> QED
  BY <1>1, <1>2, <1>3, <1>7 DEF LoadAccepts, longer, n

(* Before the listener there is no log.                                    *)
LEMMA ListenerInit == Init => ListenerInv
<1> SUFFICES ASSUME Init PROVE ListenerInv
  OBVIOUS
<1>1. ListenerType
  BY DEF Init, ListenerType, Phases, Fresh, Severities, ZeroStatistics, TransitionTypes
<1>2. RecorderInv
  BY DEF Init, RecorderInv, LeftAt, Looping, Recording, Nothing
<1>3. LeftInv
  BY DEF Init, LeftInv
<1> QED
  BY <1>1, <1>2, <1>3 DEF ListenerInv

(* The header is an open log, whose counters are zero.                     *)
LEMMA HeaderOpens ==
  /\ <<Metadata>> \in Seq(LogLines) /\ Open(<<Metadata>>)
  /\ Len(<<Metadata>>) = 1
  /\ StatisticsFromEvents(<<Metadata>>) = ZeroStatistics
  /\ Open(<<>>)
<1>1. Metadata \in LogLines
  BY DEF LogLines
<1>2. Open(<<Metadata>>) /\ Open(<<>>)
  BY DEF Open, Metadata
<1>3. \A t \in TransitionTypes :
        {i \in DOMAIN <<Metadata>> : <<Metadata>>[i].type = t} = {}
  BY DEF Metadata, TransitionTypes
<1>4. StatisticsFromEvents(<<Metadata>>) = ZeroStatistics
  BY <1>3, FS_EmptySet DEF StatisticsFromEvents, ZeroStatistics
<1> QED
  BY <1>1, <1>2, <1>4

(* Each step of the loop outside the recorder leaves the log as it was.    *)
LEMMA LoopStep ==
  ASSUME ListenerInv,
         (\E d \in Datagrams : Receive(d)) \/ Record \/ Reject \/ Process
  PROVE  ListenerInv'
<1> USE DEF ListenerInv
<1>1. /\ phase \in {"receive", "record", "process"}
      /\ phase' \in {"receive", "record", "process", "emit", "unwind"}
      /\ phase' = "emit" => todo' # <<>>
      /\ phase' # "unwind" => cause' = cause
      /\ phase' = "unwind" => cause' = <<"disk", "record">>
      /\ UNCHANGED recorder
  BY DEF Receive, Record, Reject, Process, recorder
<1>2. raw' \in Datagrams \cup {NoDatagram}
  BY DEF Receive, Record, Reject, Process, ListenerType
<1>3. engine'.temperature \in Severities /\ todo' \in Seq(Told)
  BY TransitionsAreTold DEF Receive, Record, Reject, Process, ListenerType
<1>4. UNCHANGED <<alarmLog, buffer, eventIndex, statistics>>
  BY <1>1 DEF recorder
<1>5. phase' \in Phases /\ cause' \in Causes \cup {Nothing}
  BY <1>1 DEF ListenerType, Phases, Causes, Looping
<1>6. ListenerType'
  BY <1>2, <1>3, <1>4, <1>5 DEF ListenerType
<1>7. /\ cause = Nothing
      /\ Open(alarmLog) /\ alarmLog # <<>> /\ buffer = <<>>
      /\ eventIndex = Len(alarmLog) /\ statistics = StatisticsFromEvents(alarmLog)
  BY <1>1 DEF RecorderInv, Looping, Recording
<1>8. RecorderInv'
  <2>1. phase' = "unwind" => ~Torn'
    BY <1>1 DEF Torn, Recording
  <2>2. ~LeftAt("written")' /\ ~LeftAt("flushed")' /\ ~LeftAt("indexed")'
    BY <1>1 DEF LeftAt
  <2>3. phase' \notin {"start"} \cup Recording
    BY <1>1 DEF Recording
  <2> QED
    <3>1. phase' \in Looping => cause' = Nothing
      BY <1>1, <1>7 DEF Looping, Recording
    <3>2. phase' = "emit" \/ phase' \notin {"emit"} \cup Recording
      BY <2>3
    <3> QED
      BY <1>1, <1>4, <1>7, <2>1, <2>2, <2>3, <3>1, <3>2 DEF RecorderInv
<1>9. LeftInv'
  BY <1>1 DEF LeftInv
<1> QED
  BY <1>6, <1>8, <1>9

(* The header is on disk, or there is no session.                          *)
LEMMA StartStep ==
  ASSUME ListenerInv, Start
  PROVE  ListenerInv'
<1> USE DEF ListenerInv, Start
<1>1. ListenerType /\ buffer = <<>> /\ statistics = ZeroStatistics /\ cause = Nothing
  BY DEF RecorderInv
<1>2. ASSUME alarmLog' = <<Metadata>>, eventIndex' = 1, phase' = "receive"
      PROVE  ListenerInv'
  <2>1. ListenerType'
    BY <1>1, <1>2, HeaderOpens DEF ListenerType, Phases, Looping
  <2>2. /\ Open(alarmLog') /\ alarmLog' # <<>>
        /\ Len(alarmLog') = 1
        /\ StatisticsFromEvents(alarmLog') = ZeroStatistics
    BY <1>2, HeaderOpens
  <2>3. RecorderInv'
    BY <1>1, <1>2, <2>2 DEF RecorderInv, LeftAt, Looping, Recording
  <2>4. LeftInv'
    BY <1>2 DEF LeftInv
  <2> QED
    BY <2>1, <2>3, <2>4
<1>3. ASSUME alarmLog' \in {<<>>, <<Metadata>>}, phase' = "stopped", UNCHANGED eventIndex
      PROVE  ListenerInv'
  <2>1. alarmLog' \in Seq(LogLines) /\ LoadAccepts(alarmLog')
    <3>1. <<>> \in Seq(LogLines)
      OBVIOUS
    <3>2. alarmLog' \in Seq(LogLines) /\ Open(alarmLog')
      BY <1>3, <3>1, HeaderOpens
    <3> QED
      BY <3>2, OpenLoads
  <2>2. ListenerType'
    BY <1>1, <1>3, <2>1 DEF ListenerType, Phases, Stopped
  <2>3. RecorderInv'
    BY <1>3 DEF RecorderInv, LeftAt, Looping, Recording
  <2>4. cause' = Nothing /\ ~Torn' /\ cause'[1] # "interrupt"
    BY <1>1 DEF Nothing, Torn, Recording
  <2>5. LeftInv'
    BY <1>3, <2>1, <2>4 DEF LeftInv
  <2> QED
    BY <2>2, <2>3, <2>5
<1> QED
  BY <1>2, <1>3

(* The line goes to the file object.                                       *)
LEMMA WriteEventStep ==
  ASSUME ListenerInv, WriteEvent
  PROVE  ListenerInv'
<1> USE DEF ListenerInv, WriteEvent
<1> DEFINE e == Event(Head(todo))
<1>1. /\ todo # <<>> /\ buffer = <<>> /\ cause = Nothing
      /\ Open(alarmLog) /\ alarmLog # <<>>
      /\ eventIndex = Len(alarmLog) /\ statistics = StatisticsFromEvents(alarmLog)
  BY DEF RecorderInv, Looping, Recording
<1>2. e \in LogLines /\ e.index = eventIndex /\ e.type = Head(todo).type
  <2>1. Head(todo) \in Told
    BY <1>1 DEF ListenerType
  <2>2. raw.sequence \in Numbers
    BY DEF ListenerType, Numbers
  <2> QED
    BY <2>1, <2>2 DEF Event, LogLines, Told, ListenerType
<1> HIDE DEF e
<1>3. buffer' = <<e>>
  BY <1>1 DEF e
<1>4. /\ <<e>> \in Seq(LogLines)
      /\ Len(<<e>>) = 1 /\ <<e>>[1] = e
  BY <1>2
<1>5. ListenerType'
  BY <1>3, <1>4 DEF ListenerType, Phases, Looping, Recording
<1>6. Len(buffer') = 1 /\ buffer'[1].index = eventIndex' /\ buffer'[1].type = Head(todo').type
  <2>1. eventIndex' = eventIndex /\ todo' = todo
    OBVIOUS
  <2> HIDE DEF ListenerInv, WriteEvent
  <2> QED
    BY <1>2, <1>3, <1>4, <2>1
<1>7. RecorderInv'
  BY <1>1, <1>6 DEF RecorderInv, LeftAt, Looping, Recording
<1>8. LeftInv'
  BY DEF LeftInv
<1> QED
  BY <1>5, <1>7, <1>8

(* Then to the disk, or it stays where it is.                              *)
LEMMA FlushStep ==
  ASSUME ListenerInv, Flush
  PROVE  ListenerInv'
<1> USE DEF ListenerInv, Flush
<1> DEFINE e == buffer[1]
<1>1. /\ todo # <<>> /\ cause = Nothing
      /\ Open(alarmLog) /\ alarmLog # <<>>
      /\ Len(buffer) = 1 /\ e.index = eventIndex /\ e.type = Head(todo).type
      /\ eventIndex = Len(alarmLog) /\ statistics = StatisticsFromEvents(alarmLog)
  BY DEF RecorderInv, LeftAt, Looping, Recording
<1>2. e \in LogLines /\ buffer = <<e>> /\ e.type \in TransitionTypes
  <2>1. Head(todo) \in Told /\ buffer \in Seq(LogLines)
    BY <1>1 DEF ListenerType
  <2>2. Head(todo).type \in TransitionTypes
    BY <2>1 DEF Told
  <2>3. e \in LogLines /\ buffer = <<e>>
    BY <1>1, <2>1, OneLine
  <2> QED
    BY <1>1, <2>2, <2>3
<1> HIDE DEF e
<1>3. ASSUME alarmLog' = alarmLog \o buffer, buffer' = <<>>, phase' = "flushed", UNCHANGED cause
      PROVE  ListenerInv'
  <2>1. alarmLog' = Append(alarmLog, e)
    BY <1>2, <1>3, AppendIsConcat DEF ListenerType
  <2>2. /\ alarmLog' \in Seq(LogLines) /\ alarmLog' # <<>>
        /\ Len(alarmLog') = eventIndex + 1
    BY <1>1, <1>2, <2>1 DEF ListenerType
  <2>3. Open(alarmLog')
    BY <1>1, <1>2, <2>1, OpenGrows DEF ListenerType
  <2>4. StatisticsFromEvents(alarmLog') = WithTransition(statistics, Head(todo).type)
    BY <1>1, <1>2, <2>1, CountsGrow DEF ListenerType
  <2>5. ListenerType'
    BY <1>3, <2>2 DEF ListenerType, Phases, Looping, Recording
  <2>6. RecorderInv'
    BY <1>1, <1>3, <2>2, <2>3, <2>4 DEF RecorderInv, LeftAt, Looping, Recording
  <2>7. LeftInv'
    BY <1>3 DEF LeftInv
  <2> QED
    BY <2>5, <2>6, <2>7
<1>4. ASSUME phase' = "unwind", cause' = <<"disk", "written">>, UNCHANGED <<alarmLog, buffer>>
      PROVE  ListenerInv'
  <2>1. ListenerType'
    BY <1>4 DEF ListenerType, Phases, Causes
  <2>2. Torn' /\ LeftAt("written")' /\ ~LeftAt("flushed")' /\ ~LeftAt("indexed")'
    BY <1>4 DEF Torn, LeftAt, Recording
  <2>3. Len(buffer') = 1 /\ buffer'[1].index = eventIndex' /\ buffer'[1].type = Head(todo').type
    BY <1>1, <1>4 DEF e
  <2>4. RecorderInv'
    BY <1>1, <1>4, <2>2, <2>3 DEF RecorderInv, Looping, Recording
  <2>5. LeftInv'
    BY <1>4 DEF LeftInv
  <2> QED
    BY <2>1, <2>4, <2>5
<1> QED
  BY <1>3, <1>4

(* Then the index counts it.                                               *)
LEMMA CountIndexStep ==
  ASSUME ListenerInv, CountIndex
  PROVE  ListenerInv'
<1> USE DEF ListenerInv, CountIndex
<1>1. /\ todo # <<>> /\ cause = Nothing /\ buffer = <<>>
      /\ Open(alarmLog) /\ alarmLog # <<>>
      /\ Len(alarmLog) = eventIndex + 1
      /\ StatisticsFromEvents(alarmLog) = WithTransition(statistics, Head(todo).type)
  BY DEF RecorderInv, LeftAt, Looping, Recording
<1>2. ListenerType'
  BY DEF ListenerType, Phases, Looping, Recording
<1>3. RecorderInv'
  BY <1>1 DEF RecorderInv, LeftAt, Looping, Recording
<1>4. LeftInv'
  BY DEF LeftInv
<1> QED
  BY <1>2, <1>3, <1>4

(* The statistics are the last to know.                                    *)
LEMMA CountTransitionStep ==
  ASSUME ListenerInv, CountTransition
  PROVE  ListenerInv'
<1> USE DEF ListenerInv, CountTransition
<1>1. /\ todo # <<>> /\ cause = Nothing /\ buffer = <<>>
      /\ Open(alarmLog) /\ alarmLog # <<>>
      /\ Len(alarmLog) = eventIndex
      /\ StatisticsFromEvents(alarmLog) = WithTransition(statistics, Head(todo).type)
  BY DEF RecorderInv, LeftAt, Looping, Recording
<1>2. statistics' = StatisticsFromEvents(alarmLog')
  BY <1>1
<1>3. statistics' \in [TransitionTypes -> Nat]
  BY <1>2, HeaderOpens, CountsGrow DEF ListenerType
<1>4. todo' \in Seq(Told)
  BY <1>1 DEF ListenerType
<1>5. /\ phase' \in {"receive", "emit"}
      /\ phase' = "emit" => todo' # <<>>
  OBVIOUS
<1>6. ListenerType'
  BY <1>3, <1>4, <1>5 DEF ListenerType, Phases, Looping
<1>7. RecorderInv'
  BY <1>1, <1>2, <1>5 DEF RecorderInv, LeftAt, Looping, Recording
<1>8. LeftInv'
  BY <1>5 DEF LeftInv
<1> QED
  BY <1>6, <1>7, <1>8

(* An interruption leaves everything where it is.                          *)
LEMMA InterruptStep ==
  ASSUME ListenerInv, Interrupt
  PROVE  ListenerInv'
<1> USE DEF ListenerInv, Interrupt
<1>1. /\ phase \in Looping /\ phase' = "unwind"
      /\ cause' = <<"interrupt", phase>>
      /\ UNCHANGED <<engine, raw, todo, alarmLog, buffer, eventIndex, statistics>>
  BY DEF recorder
<1>2. cause' \in Causes
  BY <1>1 DEF Causes
<1>3. ListenerType'
  BY <1>1, <1>2 DEF ListenerType, Phases
<1>4. \A p \in Recording : LeftAt(p)' <=> p = phase
  BY <1>1 DEF LeftAt, Looping, Recording
<1>5. \A p \in Recording : LeftAt(p) <=> p = phase
  BY <1>1 DEF LeftAt, Looping, Recording
<1>6. Torn' <=> phase \in Recording
  BY <1>1 DEF Torn
<1>7. RecorderInv'
  <2>1. phase' \notin {"start", "emit"} \cup Looping
    BY <1>1 DEF Looping, Recording
  <2>2. /\ Open(alarmLog) /\ alarmLog # <<>>
        /\ phase \in Recording => todo # <<>>
        /\ phase \notin Recording =>
             buffer = <<>> /\ eventIndex = Len(alarmLog)
             /\ statistics = StatisticsFromEvents(alarmLog)
    BY <1>1 DEF RecorderInv
  <2>3. LeftAt("written")' =>
          /\ Len(buffer) = 1
          /\ buffer[1].index = eventIndex /\ buffer[1].type = Head(todo).type
          /\ eventIndex = Len(alarmLog)
          /\ statistics = StatisticsFromEvents(alarmLog)
    BY <1>4, <1>5 DEF RecorderInv, Recording
  <2>4. LeftAt("flushed")' \/ LeftAt("indexed")' =>
          /\ buffer = <<>>
          /\ Len(alarmLog) = IF LeftAt("flushed")' THEN eventIndex + 1 ELSE eventIndex
          /\ StatisticsFromEvents(alarmLog) = WithTransition(statistics, Head(todo).type)
    BY <1>4, <1>5 DEF RecorderInv, Recording
  <2>5. Recording \cap {"start", "emit"} = {} /\ Recording \subseteq Looping
    BY DEF Recording, Looping
  <2> HIDE DEF LeftAt, Torn, Interrupt, ListenerInv
  <2> QED
    BY <1>1, <1>6, <2>1, <2>2, <2>3, <2>4, <2>5 DEF RecorderInv
<1>8. LeftInv'
  BY <1>1 DEF LeftInv
<1> QED
  BY <1>3, <1>7, <1>8

(* What is closed after it was torn is refused: the summary has an index   *)
(* that is taken, or counters that lack the line in hand.                  *)
LEMMA TornIsRefused ==
  ASSUME ListenerInv, phase = "unwind", Torn, NEW log, log = alarmLog \o buffer \o <<Summary>>
  PROVE  log \in Seq(LogLines) /\ ~LoadAccepts(log)
<1> USE DEF ListenerInv
<1>1. /\ Open(alarmLog) /\ alarmLog # <<>> /\ alarmLog \in Seq(LogLines) /\ buffer \in Seq(LogLines)
      /\ todo # <<>>
      /\ eventIndex \in Nat /\ statistics \in [TransitionTypes -> Nat]
      /\ todo \in Seq(Told)
  BY DEF RecorderInv, ListenerType
<1>2. Head(todo).type \in TransitionTypes
  <2>1. Head(todo) \in Told
    BY <1>1
  <2> QED
    BY <2>1 DEF Told
<1>3. /\ Summary \in LogLines /\ Summary.type = "run_summary"
      /\ Summary.index = eventIndex /\ Summary.statistics = statistics
  BY <1>1 DEF Summary, LogLines
<1> HIDE DEF Summary, ListenerInv
<1>4. CASE LeftAt("written")
  <2> DEFINE e == buffer[1]
  <2>1. /\ Len(buffer) = 1 /\ e.index = Len(alarmLog) /\ e.type \in TransitionTypes
        /\ eventIndex = Len(alarmLog)
    BY <1>2, <1>4 DEF ListenerInv, RecorderInv
  <2>2. e \in LogLines /\ buffer = <<e>>
    <3>1. buffer \in Seq(LogLines) /\ Len(buffer) = 1
      BY <1>1, <2>1
    <3> QED
      BY <3>1, OneLine
  <2> HIDE DEF e
  <2> DEFINE longer == Append(alarmLog, e)
  <2>3. longer = alarmLog \o buffer
    BY <1>1, <2>2, AppendIsConcat
  <2>4. /\ longer \in Seq(LogLines) /\ longer # <<>>
        /\ Len(longer) = Len(alarmLog) + 1 /\ Len(alarmLog) \in Nat
    BY <1>1, <2>2
  <2>5. Open(longer)
    BY <1>1, <2>1, <2>2, OpenGrows
  <2> HIDE DEF longer
  <2>6. log = Append(longer, Summary)
    BY <1>3, <2>3, <2>4, AppendIsConcat
  <2>7. ~LoadAccepts(Append(longer, Summary))
    BY <1>3, <2>1, <2>4, <2>5, SummaryEnds
  <2>8. Append(longer, Summary) \in Seq(LogLines)
    BY <1>3, <2>4
  <2> QED
    BY <2>6, <2>7, <2>8
<1>5. CASE LeftAt("flushed") \/ LeftAt("indexed")
  <2>1. /\ buffer = <<>>
        /\ Len(alarmLog) = eventIndex + 1 \/ Len(alarmLog) = eventIndex
        /\ StatisticsFromEvents(alarmLog) = WithTransition(statistics, Head(todo).type)
    BY <1>5 DEF ListenerInv, RecorderInv
  <2>2. log = Append(alarmLog, Summary)
    <3>1. alarmLog \o buffer = alarmLog
      BY <1>1, <2>1, ConcatEmptySeq
    <3> QED
      BY <1>1, <1>3, <3>1, AppendIsConcat
  <2>3. statistics # StatisticsFromEvents(alarmLog)
    BY <1>1, <1>2, <2>1 DEF WithTransition
  <2>4. ~LoadAccepts(Append(alarmLog, Summary))
    BY <1>1, <1>3, <2>3, SummaryEnds
  <2>5. Append(alarmLog, Summary) \in Seq(LogLines)
    BY <1>1, <1>3
  <2> QED
    BY <2>2, <2>4, <2>5
<1>6. LeftAt("written") \/ LeftAt("flushed") \/ LeftAt("indexed")
  BY DEF LeftAt, Torn, Recording
<1> QED
  BY <1>4, <1>5, <1>6

(* What is closed after it was left anywhere else is complete and loads.   *)
LEMMA WholeIsComplete ==
  ASSUME ListenerInv, phase = "unwind", ~Torn, NEW log, log = alarmLog \o buffer \o <<Summary>>
  PROVE  log \in Seq(LogLines) /\ LoadAccepts(log) /\ IsComplete(log)
<1>1. /\ Open(alarmLog) /\ alarmLog # <<>> /\ alarmLog \in Seq(LogLines)
      /\ buffer = <<>> /\ eventIndex = Len(alarmLog)
      /\ statistics = StatisticsFromEvents(alarmLog)
      /\ eventIndex \in Nat /\ statistics \in [TransitionTypes -> Nat]
  BY DEF ListenerInv, RecorderInv, ListenerType
<1>2. /\ Summary \in LogLines /\ Summary.type = "run_summary"
      /\ Summary.index = eventIndex /\ Summary.statistics = statistics
  BY <1>1 DEF Summary, LogLines
<1> HIDE DEF Summary
<1>3. log = Append(alarmLog, Summary)
  <2>1. alarmLog \o buffer = alarmLog
    BY <1>1, ConcatEmptySeq
  <2> QED
    BY <1>1, <1>2, <2>1, AppendIsConcat
<1>4. Append(alarmLog, Summary) \in Seq(LogLines)
  BY <1>1, <1>2
<1>5. LoadAccepts(Append(alarmLog, Summary)) /\ IsComplete(Append(alarmLog, Summary))
  BY <1>1, <1>2, SummaryEnds
<1> QED
  BY <1>3, <1>4, <1>5

(* With the line it may hold behind it, the log is open still.             *)
LEMMA HeldIsOpen ==
  ASSUME ListenerInv, phase = "unwind", NEW log, log = alarmLog \o buffer
  PROVE  log \in Seq(LogLines) /\ Open(log) /\ log # <<>>
<1>1. /\ Open(alarmLog) /\ alarmLog # <<>> /\ alarmLog \in Seq(LogLines)
      /\ buffer \in Seq(LogLines) /\ todo \in Seq(Told)
  BY DEF ListenerInv, RecorderInv, ListenerType
<1>2. CASE LeftAt("written")
  <2> DEFINE e == buffer[1]
  <2>1. Len(buffer) = 1 /\ e.index = Len(alarmLog) /\ e.type = Head(todo).type /\ todo # <<>>
    BY <1>2 DEF ListenerInv, RecorderInv, LeftAt, Torn, Recording
  <2>2. Head(todo) \in Told
    BY <1>1, <2>1
  <2>3. e \in LogLines /\ buffer = <<e>> /\ e.type \in TransitionTypes
    BY <1>1, <2>1, <2>2, OneLine DEF Told
  <2> HIDE DEF e
  <2>4. log = Append(alarmLog, e)
    BY <1>1, <2>3, AppendIsConcat
  <2> DEFINE longer == Append(alarmLog, e)
  <2>5. Open(longer)
    BY <1>1, <2>1, <2>3, OpenGrows
  <2>6. longer \in Seq(LogLines) /\ longer # <<>>
    BY <1>1, <2>3, AppendProperties
  <2> QED
    BY <2>4, <2>5, <2>6
<1>3. CASE ~LeftAt("written")
  <2>1. buffer = <<>>
    BY <1>3 DEF ListenerInv, RecorderInv, LeftAt, Torn, Recording
  <2> QED
    BY <1>1, <2>1, ConcatEmptySeq
<1> QED
  BY <1>2, <1>3

(* The recorder closes; or it cannot write its summary and leaves what its *)
(* file object still gets out.                                             *)
LEMMA CloseStep ==
  ASSUME ListenerInv, Close
  PROVE  ListenerInv'
<1>1. /\ phase = "unwind" /\ phase' \in {"stopped", "failed"}
      /\ UNCHANGED <<engine, raw, todo, statistics, cause>>
  BY DEF Close
<1>2. RecorderInv'
  BY <1>1 DEF RecorderInv, LeftAt, Looping, Recording
<1>3. ASSUME NEW log, log = alarmLog \o buffer \o <<Summary>>
      PROVE  /\ log \in Seq(LogLines)
             /\ Torn => ~LoadAccepts(log)
             /\ ~Torn => LoadAccepts(log) /\ IsComplete(log)
  BY <1>1, <1>3, TornIsRefused, WholeIsComplete
<1>4. ASSUME alarmLog' = alarmLog \o buffer \o <<Summary>>, buffer' = <<>>,
             eventIndex' = eventIndex + 1, phase' = "stopped"
      PROVE  ListenerInv'
  <2>1. alarmLog' \in Seq(LogLines) /\ buffer' \in Seq(LogLines)
    BY <1>1, <1>3, <1>4, EmptySeq
  <2>3. eventIndex \in Nat /\ eventIndex' \in Nat /\ phase' \in Phases
    BY <1>4 DEF ListenerInv, ListenerType, Phases, Stopped
  <2>4. ListenerType'
    BY <1>1, <2>1, <2>3 DEF ListenerInv, ListenerType
  <2>2. LeftInv'
    BY <1>1, <1>3, <1>4 DEF LeftInv, Torn
  <2> QED
    BY <1>2, <2>2, <2>4 DEF ListenerInv
<1>5. ASSUME alarmLog' \in {alarmLog, alarmLog \o buffer, alarmLog \o buffer \o <<Summary>>},
             phase' = "failed", UNCHANGED <<buffer, eventIndex>>
      PROVE  ListenerInv'
  <2>1. Open(alarmLog) /\ alarmLog \in Seq(LogLines)
    BY <1>1 DEF ListenerInv, ListenerType, RecorderInv
  <2>2. Open(alarmLog \o buffer) /\ alarmLog \o buffer \in Seq(LogLines)
    BY <1>1, HeldIsOpen
  <2>3. ListenerType'
    BY <1>1, <1>3, <1>5, <2>1, <2>2 DEF ListenerInv, ListenerType, Phases, Stopped
  <2>4. LeftInv'
    BY <1>1, <1>3, <1>5, <2>1, <2>2 DEF LeftInv, Torn
  <2> QED
    BY <1>2, <2>3, <2>4 DEF ListenerInv
<1> QED
  BY <1>4, <1>5 DEF Close

(* A killed process leaves what was flushed.                               *)
LEMMA KillStep ==
  ASSUME ListenerInv, Kill
  PROVE  ListenerInv'
<1>1. /\ phase' = "killed" /\ phase \notin Stopped
      /\ UNCHANGED <<engine, raw, todo, alarmLog, buffer, eventIndex, statistics, cause>>
  BY DEF Kill, recorder
<1>2. ListenerType'
  BY <1>1 DEF ListenerInv, ListenerType, Phases, Stopped
<1>3. RecorderInv'
  BY <1>1 DEF RecorderInv, LeftAt, Looping, Recording
<1>4. Open(alarmLog)
  <2>1. CASE phase = "start"
    BY <2>1, HeaderOpens DEF ListenerInv, RecorderInv
  <2>2. CASE phase \in Looping \cup {"unwind"}
    BY <2>2 DEF ListenerInv, RecorderInv
  <2> QED
    BY <1>1, <2>1, <2>2 DEF ListenerInv, ListenerType, Phases
<1> QED
  BY <1>1, <1>2, <1>3, <1>4 DEF ListenerInv, LeftInv

(* Whatever happens next, the recorder can account for it.                 *)
LEMMA ListenerMoves == ListenerInv /\ [Next]_vars => ListenerInv'
<1> SUFFICES ASSUME ListenerInv, [Next]_vars PROVE ListenerInv'
  OBVIOUS
<1>1. CASE UNCHANGED vars
  BY <1>1 DEF ListenerInv, ListenerType, RecorderInv, LeftInv, LeftAt, Torn, vars, recorder
<1> QED
  BY <1>1, LoopStep, StartStep, WriteEventStep, FlushStep, CountIndexStep,
     CountTransitionStep, InterruptStep, CloseStep, KillStep DEF Next, Thread

(* What the invariant says of the log on disk.                             *)
LEMMA LogsLeft ==
  ASSUME ListenerInv
  PROVE  AlarmLogLoads /\ InterruptWritesSummary
<1>1. phase \in Looping \cup {"unwind"} => LoadAccepts(alarmLog)
  BY OpenLoads DEF ListenerInv, ListenerType, RecorderInv
<1>2. phase = "start" => LoadAccepts(alarmLog)
  <2>1. <<>> \in Seq(LogLines)
    OBVIOUS
  <2> QED
    BY <2>1, HeaderOpens, OpenLoads DEF ListenerInv, RecorderInv
<1>3. phase = "killed" => LoadAccepts(alarmLog)
  BY OpenLoads DEF ListenerInv, ListenerType, LeftInv
<1>4. phase = "stopped" /\ ~Torn =>
        LoadAccepts(alarmLog) /\ (cause[1] = "interrupt" => IsComplete(alarmLog))
  BY DEF ListenerInv, LeftInv
<1>5. phase = "failed" /\ ~Torn => LoadAccepts(alarmLog)
  BY OpenLoads DEF ListenerInv, ListenerType, LeftInv
<1>6. phase \in {"start", "stopped", "failed", "killed", "unwind"} \cup Looping
  BY DEF ListenerInv, ListenerType, Phases, Stopped
<1> QED
  BY <1>1, <1>2, <1>3, <1>4, <1>5, <1>6 DEF AlarmLogLoads, InterruptWritesSummary

-----------------------------------------------------------------------------
(* The recorder's books are right in every behaviour of the listener.      *)
THEOREM ListenerCorrect == Spec => []ListenerInv
  BY ListenerInit, ListenerMoves, PTL DEF Spec

(* Whatever the disk does, and wherever the listener is interrupted or     *)
(* killed, the log on disk is one the readers accept, unless the loop was  *)
(* left inside the recorder.                                               *)
THEOREM AlarmLogCorrect == Spec => []AlarmLogLoads
  BY ListenerCorrect, LogsLeft, PTL

(* And an interruption anywhere else leaves a complete one.                *)
THEOREM InterruptionCompletes == Spec => []InterruptWritesSummary
  BY ListenerCorrect, LogsLeft, PTL

-----------------------------------------------------------------------------
(* The story of a recording, told by a fresh engine record by record.      *)

(* What is in a recording, and what is in an alarm log's story.            *)
Records == Datagrams \cup {NoDatagram}
Entries == Numbers \X Told

Opening == [engine |-> Fresh, out |-> <<>>]

IsStory(f, records) ==
  f = [n \in 0 .. Len(records) |-> IF n = 0 THEN Opening ELSE After(f[n - 1], records[n])]

(* A recording has one story, and its beginnings are the stories of its    *)
(* beginnings.                                                             *)
HasStory(records) ==
  /\ IsStory(Story(records), records)
  /\ \A f : IsStory(f, records) => f = Story(records)
  /\ \A n \in 0 .. Len(records) :
       Story(SubSeq(records, 1, n)) = [k \in 0 .. n |-> Story(records)[k]]

Typed(account) == account.engine.temperature \in Severities /\ account.out \in Seq(Entries)

(* What was emitted stays emitted.                                         *)
Grows(records) ==
  /\ \A n \in 0 .. Len(records) : Typed(Story(records)[n])
  /\ \A m, n \in 0 .. Len(records) :
       m <= n => IsPrefix(Story(records)[m].out, Story(records)[n].out)

Settled(records) == HasStory(records) /\ Grows(records)

(* A prefix, said position by position.                                    *)
LEMMA PrefixIs ==
  ASSUME NEW S, NEW s \in Seq(S), NEW t \in Seq(S)
  PROVE  IsPrefix(s, t) <=> Len(s) <= Len(t) /\ \A i \in 1 .. Len(s) : s[i] = t[i]
<1>1. SubSeq(s, 1, Len(s)) = s
  OBVIOUS
<1>2. ASSUME Len(s) <= Len(t)
      PROVE  /\ Len(SubSeq(t, 1, Len(s))) = Len(s)
             /\ \A i \in 1 .. Len(s) : SubSeq(t, 1, Len(s))[i] = t[i]
             /\ SubSeq(t, 1, Len(s)) \in Seq(S)
  BY <1>2
<1>3. ASSUME Len(s) <= Len(t), \A i \in 1 .. Len(s) : s[i] = t[i]
      PROVE  SubSeq(t, 1, Len(s)) = s
  <2> DEFINE u == SubSeq(t, 1, Len(s))
  <2>1. u \in Seq(S) /\ Len(u) = Len(s) /\ \A i \in 1 .. Len(s) : u[i] = s[i]
    BY <1>2, <1>3
  <2> HIDE DEF u
  <2>2. u = s
    BY <2>1, SeqEqual
  <2> QED
    BY <2>2 DEF u
<1> QED
  BY <1>1, <1>2, <1>3 DEF IsPrefix

(* The order of prefixes.                                                  *)
LEMMA PrefixOrder ==
  ASSUME NEW S, NEW s \in Seq(S), NEW t \in Seq(S), NEW u \in Seq(S)
  PROVE  /\ IsPrefix(s, s)
         /\ IsPrefix(<<>>, s)
         /\ IsPrefix(s, s \o t)
         /\ IsPrefix(s, t) /\ IsPrefix(t, u) => IsPrefix(s, u)
         /\ IsPrefix(s, u) /\ IsPrefix(t, u) => IsPrefix(s, t) \/ IsPrefix(t, s)
<1>1. IsPrefix(s, s) /\ (IsPrefix(s, t) /\ IsPrefix(t, u) => IsPrefix(s, u))
  BY PrefixIs
<1>2. IsPrefix(<<>>, s)
  <2> DEFINE none == <<>>
  <2>1. none \in Seq(S) /\ Len(none) <= Len(s) /\ \A i \in 1 .. Len(none) : none[i] = s[i]
    OBVIOUS
  <2> HIDE DEF none
  <2>2. IsPrefix(none, s)
    BY <2>1, PrefixIs
  <2> QED
    BY <2>2 DEF none
<1>3. IsPrefix(s, s \o t)
  <2> DEFINE both == s \o t
  <2>1. /\ both \in Seq(S) /\ Len(s) <= Len(both)
        /\ \A i \in 1 .. Len(s) : s[i] = both[i]
    OBVIOUS
  <2> HIDE DEF both
  <2>2. IsPrefix(s, both)
    BY <2>1, PrefixIs
  <2> QED
    BY <2>2 DEF both
<1>4. IsPrefix(s, u) /\ IsPrefix(t, u) => IsPrefix(s, t) \/ IsPrefix(t, s)
  BY PrefixIs
<1> QED
  BY <1>1, <1>2, <1>3, <1>4

(* A longer beginning.                                                     *)
LEMMA PrefixConcat ==
  ASSUME NEW S, NEW s \in Seq(S), NEW t \in Seq(S), NEW u \in Seq(S), IsPrefix(t, u)
  PROVE  s \o t \in Seq(S) /\ IsPrefix(s \o t, s \o u)
<1>1. Len(t) <= Len(u) /\ \A i \in 1 .. Len(t) : t[i] = u[i]
  BY PrefixIs
<1>2. /\ s \o t \in Seq(S) /\ Len(s \o t) = Len(s) + Len(t)
      /\ \A i \in 1 .. Len(s) + Len(t) :
           (s \o t)[i] = IF i <= Len(s) THEN s[i] ELSE t[i - Len(s)]
  BY ConcatProperties
<1>3. /\ s \o u \in Seq(S) /\ Len(s \o u) = Len(s) + Len(u)
      /\ \A i \in 1 .. Len(s) + Len(u) :
           (s \o u)[i] = IF i <= Len(s) THEN s[i] ELSE u[i - Len(s)]
  BY ConcatProperties
<1>4. Len(s) \in Nat /\ Len(t) \in Nat /\ Len(u) \in Nat
  OBVIOUS
<1>5. ASSUME NEW i \in 1 .. Len(s) + Len(t) PROVE (s \o t)[i] = (s \o u)[i]
  <2>1. i \in 1 .. Len(s) + Len(u)
    BY <1>1, <1>4
  <2>2. CASE i <= Len(s)
    BY <1>2, <1>3, <2>1, <2>2
  <2>3. CASE ~(i <= Len(s))
    <3>1. i - Len(s) \in 1 .. Len(t)
      BY <1>4, <2>3
    <3> QED
      BY <1>1, <1>2, <1>3, <2>1, <2>3, <3>1
  <2> QED
    BY <2>2, <2>3
<1> DEFINE a == s \o t
           b == s \o u
<1>6. a \in Seq(S) /\ b \in Seq(S) /\ Len(a) <= Len(b) /\ \A i \in 1 .. Len(a) : a[i] = b[i]
  BY <1>1, <1>2, <1>3, <1>4, <1>5
<1> HIDE DEF a, b
<1>7. IsPrefix(a, b)
  BY <1>6, PrefixIs
<1> QED
  BY <1>6, <1>7 DEF a, b

(* One choice of a function that tells a story.                            *)
LEMMA StoryIsStory ==
  ASSUME NEW records, NEW f, IsStory(f, records), \A g : IsStory(g, records) => g = f
  PROVE  Story(records) = f
<1>1. Story(records) = CHOOSE g : IsStory(g, records)
  BY DEF Story, IsStory, Opening
<1> QED
  BY <1>1

(* A story, record by record.                                              *)
LEMMA StoryPoints ==
  ASSUME NEW records, Len(records) \in Nat, NEW f, IsStory(f, records)
  PROVE  /\ f = [k \in 0 .. Len(records) |-> f[k]]
         /\ f[0] = Opening
         /\ \A k \in 1 .. Len(records) : f[k] = After(f[k - 1], records[k])
<1>1. f = [k \in 0 .. Len(records) |-> IF k = 0 THEN Opening ELSE After(f[k - 1], records[k])]
  BY DEF IsStory
<1>2. f = [k \in 0 .. Len(records) |-> f[k]]
  BY <1>1
<1>3. 0 \in 0 .. Len(records) /\ f[0] = Opening
  BY <1>1
<1>4. ASSUME NEW k \in 1 .. Len(records) PROVE f[k] = After(f[k - 1], records[k])
  <2>1. k \in 0 .. Len(records) /\ k # 0
    OBVIOUS
  <2> QED
    BY <1>1, <2>1
<1> QED
  BY <1>2, <1>3, <1>4

(* An empty recording has one.                                             *)
LEMMA StoryBegins == Settled(<<>>) /\ Story(<<>>) = [n \in 0 .. 0 |-> Opening]
<1> DEFINE f == [n \in 0 .. 0 |-> Opening]
<1>1. Len(<<>>) = 0 /\ SubSeq(<<>>, 1, 0) = <<>>
  OBVIOUS
<1>2. \A g : IsStory(g, <<>>) <=> g = f
  <2>1. \A g : [n \in 0 .. 0 |-> IF n = 0 THEN Opening ELSE After(g[n - 1], <<>>[n])] = f
    OBVIOUS
  <2> QED
    BY <1>1, <2>1 DEF IsStory
<1> HIDE DEF f
<1>3. Story(<<>>) = f
  BY <1>2, StoryIsStory
<1>4. f = [n \in 0 .. 0 |-> Opening] /\ DOMAIN f = 0 .. 0 /\ f[0] = Opening
  BY DEF f
<1>5. HasStory(<<>>)
  BY <1>1, <1>2, <1>3, <1>4 DEF HasStory
<1>6. Typed(Opening)
  BY DEF Typed, Opening, Fresh, Severities
<1>7. Opening.out \in Seq(Entries)
  BY <1>6 DEF Typed
<1>8. Grows(<<>>)
  <2>1. \A n \in 0 .. Len(<<>>) : Story(<<>>)[n] = Opening
    BY <1>1, <1>3, <1>4
  <2> QED
    BY <1>6, <1>7, <2>1, PrefixOrder DEF Grows
<1> QED
  BY <1>3, <1>4, <1>5, <1>8 DEF Settled

(* Stamping changes no length.                                             *)
LEMMA StampedTyped ==
  ASSUME NEW d \in Records, NEW q \in Seq(Told)
  PROVE  /\ Stamped(d, q) \in Seq(Entries)
         /\ Len(Stamped(d, q)) = Len(q)
         /\ \A i \in 1 .. Len(q) : Stamped(d, q)[i] = <<d.sequence, q[i]>>
<1>1. d.sequence \in Numbers
  BY DEF Records, Numbers
<1>2. Stamped(d, q) = [i \in 1 .. Len(q) |-> <<d.sequence, q[i]>>]
  BY DEF Stamped
<1>3. \A i \in 1 .. Len(q) : <<d.sequence, q[i]>> \in Entries
  BY <1>1 DEF Entries
<1> QED
  BY <1>2, <1>3

(* One datagram later the account has its types, and lacks nothing.        *)
LEMMA AfterTyped ==
  ASSUME NEW account, Typed(account), NEW d \in Records
  PROVE  Typed(After(account, d)) /\ IsPrefix(account.out, After(account, d).out)
<1>1. CASE d = Garbage
  BY <1>1, PrefixOrder DEF After, Typed
<1>2. CASE d # Garbage
  <2> DEFINE told == Transitions(account.engine, d)
             next == NextState(account.engine, d)
             line == Stamped(d, told)
  <2>1. told \in Seq(Told) /\ next.temperature \in Severities
    BY TransitionsAreTold DEF Typed
  <2>2. line \in Seq(Entries)
    BY <2>1, StampedTyped
  <2>3. After(account, d) = [engine |-> next, out |-> account.out \o line]
    BY <1>2 DEF After
  <2> HIDE DEF told, next, line
  <2>4. account.out \in Seq(Entries)
    BY DEF Typed
  <2>5. account.out \o line \in Seq(Entries) /\ IsPrefix(account.out, account.out \o line)
    BY <2>2, <2>4, PrefixOrder
  <2> QED
    BY <2>1, <2>3, <2>5 DEF Typed
<1> QED
  BY <1>1, <1>2

(* One record more: the story goes on from where it was.                   *)
LEMMA StoryContinues ==
  ASSUME NEW records \in Seq(Records), Settled(records), NEW d \in Records
  PROVE  /\ Settled(Append(records, d))
         /\ Story(Append(records, d)) =
              [k \in 0 .. Len(records) + 1 |->
                 IF k <= Len(records) THEN Story(records)[k]
                 ELSE After(Story(records)[Len(records)], d)]
<1> DEFINE n == Len(records)
           longer == Append(records, d)
           old == Story(records)
           end == After(old[n], d)
           new == [k \in 0 .. n + 1 |-> IF k <= n THEN old[k] ELSE end]
<1>1. /\ n \in Nat /\ Len(longer) = n + 1 /\ longer[n + 1] = d
      /\ \A i \in 1 .. n : longer[i] = records[i]
      /\ longer \in Seq(Records)
  OBVIOUS
<1>2. /\ old[0] = Opening
      /\ \A k \in 1 .. n : old[k] = After(old[k - 1], records[k])
      /\ \A g : IsStory(g, records) => g = old
      /\ \A m \in 0 .. n : Story(SubSeq(records, 1, m)) = [k \in 0 .. m |-> old[k]]
  BY StoryPoints DEF Settled, HasStory
<1>3. /\ \A m \in 0 .. n : SubSeq(longer, 1, m) = SubSeq(records, 1, m)
      /\ SubSeq(longer, 1, n + 1) = longer
  <2>1. ASSUME NEW m \in 0 .. n PROVE SubSeq(longer, 1, m) = SubSeq(records, 1, m)
    OBVIOUS
  <2>2. SubSeq(longer, 1, Len(longer)) = longer
    BY <1>1, SubSeqFull
  <2> QED
    BY <1>1, <2>1, <2>2
<1> HIDE DEF longer, old, n
<1>4. IsStory(new, longer)
  <2>1. ASSUME NEW k \in 0 .. n + 1
        PROVE  new[k] = IF k = 0 THEN Opening ELSE After(new[k - 1], longer[k])
    <3>1. CASE k = 0
      BY <1>1, <1>2, <3>1
    <3>2. CASE k \in 1 .. n
      <4>1. new[k] = old[k] /\ new[k - 1] = old[k - 1]
        BY <1>1, <3>2
      <4>2. old[k] = After(old[k - 1], records[k])
        BY <1>1, <1>2, <3>2
      <4> QED
        BY <1>1, <3>2, <4>1, <4>2
    <3>3. CASE k = n + 1
      <4>1. new[k] = end /\ new[k - 1] = old[n] /\ k # 0
        BY <1>1, <3>3
      <4> QED
        BY <1>1, <3>3, <4>1
    <3> QED
      BY <1>1, <3>1, <3>2, <3>3
  <2> QED
    BY <1>1, <2>1 DEF IsStory
<1>5. ASSUME NEW g, IsStory(g, longer) PROVE g = new
  <2> DEFINE short == [k \in 0 .. n |-> g[k]]
  <2>1. /\ g = [k \in 0 .. n + 1 |-> g[k]]
        /\ g[0] = Opening
        /\ \A k \in 1 .. n + 1 : g[k] = After(g[k - 1], longer[k])
    <3>1. Len(longer) \in Nat /\ Len(longer) = n + 1
      BY <1>1
    <3>2. /\ g = [k \in 0 .. Len(longer) |-> g[k]]
          /\ g[0] = Opening
          /\ \A k \in 1 .. Len(longer) : g[k] = After(g[k - 1], longer[k])
      BY <1>5, <3>1, StoryPoints
    <3> QED
      BY <3>1, <3>2
  <2>2. ASSUME NEW k \in 0 .. n
        PROVE  short[k] = IF k = 0 THEN Opening ELSE After(short[k - 1], records[k])
    <3>1. CASE k = 0
      BY <1>1, <2>1, <3>1
    <3>2. CASE k # 0
      <4>1. short[k] = g[k] /\ short[k - 1] = g[k - 1] /\ longer[k] = records[k]
        BY <1>1, <3>2
      <4>2. k \in 1 .. n + 1
        BY <1>1, <3>2
      <4>3. g[k] = After(g[k - 1], longer[k])
        BY <2>1, <4>2
      <4> QED
        BY <3>2, <4>1, <4>3
    <3> QED
      BY <3>1, <3>2
  <2>3. IsStory(short, records)
    BY <2>2 DEF IsStory, n
  <2>4. short = old
    BY <1>2, <2>3
  <2>5. ASSUME NEW k \in 0 .. n + 1 PROVE g[k] = new[k]
    <3>1. CASE k \in 0 .. n
      <4>1. old[k] = g[k]
        BY <2>4, <3>1
      <4> QED
        BY <1>1, <3>1, <4>1
    <3>2. CASE k = n + 1
      <4>1. old[n] = g[n]
        BY <1>1, <2>4
      <4>2. g[n + 1] = After(g[n], longer[n + 1])
        <5>1. k \in 1 .. n + 1 /\ k - 1 = n
          BY <1>1, <3>2
        <5>2. g[k] = After(g[k - 1], longer[k])
          BY <2>1, <5>1
        <5> QED
          BY <3>2, <5>1, <5>2
      <4> QED
        BY <1>1, <3>2, <4>1, <4>2
    <3> QED
      BY <1>1, <3>1, <3>2
  <2> HIDE DEF short
  <2> QED
    BY <2>1, <2>5
<1> HIDE DEF new
<1>6. Story(longer) = new
  BY <1>4, <1>5, StoryIsStory
<1>7. HasStory(longer)
  <2>1. ASSUME NEW m \in 0 .. n + 1
        PROVE  Story(SubSeq(longer, 1, m)) = [k \in 0 .. m |-> new[k]]
    <3>1. CASE m \in 0 .. n
      <4>1. Story(SubSeq(longer, 1, m)) = [k \in 0 .. m |-> old[k]]
        BY <1>2, <1>3, <3>1
      <4>2. \A k \in 0 .. m : new[k] = old[k]
        BY <1>1, <3>1 DEF new
      <4> QED
        BY <4>1, <4>2
    <3>2. CASE m = n + 1
      BY <1>3, <1>6, <3>2 DEF new
    <3> QED
      BY <1>1, <3>1, <3>2
  <2> QED
    BY <1>1, <1>4, <1>5, <1>6, <2>1 DEF HasStory
<1>8. /\ \A k \in 0 .. n : new[k] = old[k]
      /\ new[n + 1] = end
  BY <1>1 DEF new
<1>9. /\ \A k \in 0 .. n : Typed(old[k])
      /\ \A j, k \in 0 .. n : j <= k => IsPrefix(old[j].out, old[k].out)
  BY DEF Settled, Grows, old, n
<1>10. Typed(end) /\ IsPrefix(old[n].out, end.out)
  <2>1. Typed(old[n])
    BY <1>1, <1>9
  <2> QED
    BY <2>1, AfterTyped
<1> HIDE DEF end
<1>11. Grows(longer)
  <2>1. \A k \in 0 .. n + 1 : Typed(new[k])
    <3> SUFFICES ASSUME NEW k \in 0 .. n + 1 PROVE Typed(new[k])
      OBVIOUS
    <3>1. k \in 0 .. n \/ k = n + 1
      BY <1>1
    <3> QED
      BY <1>8, <1>9, <1>10, <3>1
  <2>2. ASSUME NEW j \in 0 .. n + 1, NEW k \in 0 .. n + 1, j <= k
        PROVE  IsPrefix(new[j].out, new[k].out)
    <3>1. /\ new[j].out \in Seq(Entries) /\ new[k].out \in Seq(Entries)
          /\ old[n].out \in Seq(Entries)
      BY <1>1, <1>9, <2>1 DEF Typed
    <3>2. CASE k \in 0 .. n
      <4>1. j \in 0 .. n
        BY <1>1, <2>2, <3>2
      <4> QED
        BY <1>8, <1>9, <2>2, <3>2, <4>1
    <3>3. CASE j = n + 1 /\ k = n + 1
      BY <3>1, <3>3, PrefixOrder
    <3>4. CASE j \in 0 .. n /\ k = n + 1
      <4>1. IsPrefix(new[j].out, old[n].out)
        <5>1. j <= n /\ n \in 0 .. n
          BY <1>1, <3>4
        <5> QED
          BY <1>8, <1>9, <3>4, <5>1
      <4>2. IsPrefix(old[n].out, new[k].out)
        BY <1>8, <1>10, <3>4
      <4> QED
        BY <3>1, <4>1, <4>2, PrefixOrder
    <3> QED
      BY <1>1, <2>2, <3>2, <3>3, <3>4
  <2> QED
    BY <1>1, <1>6, <2>1, <2>2 DEF Grows
<1> QED
  BY <1>6, <1>7, <1>11 DEF Settled, new, end, n, longer, old

-----------------------------------------------------------------------------
(* The alarm log tells the story of the recording.                         *)

(* A line of the log as a transition with the number of its packet.        *)
LoggedAs(line) == <<line.sequence, Transition(line.identity, line.type, line.severity)>>

EventsOf(log) == SubSeq(log, 2, IF IsComplete(log) THEN Len(log) - 1 ELSE Len(log))
Logged(log) == [i \in DOMAIN EventsOf(log) |-> LoggedAs(EventsOf(log)[i])]

(* The engine and what it has emitted, n records into the recording.       *)
Account(n) == Story(telemetry)[n]
Recorded == Len(telemetry)

(* The datagram in hand is the last one recorded; what is still to be      *)
(* written of its transitions completes the story.                         *)
InHand ==
  telemetry # <<>> /\ raw = telemetry[Recorded]

RestIs(transitions) == Logged(alarmLog) \o Stamped(raw, transitions) = Account(Recorded).out

(* The log is the story up to some point of the last record.               *)
Follows ==
  /\ IsPrefix(Logged(alarmLog), Account(Recorded).out)
  /\ telemetry # <<>> => IsPrefix(Account(Recorded - 1).out, Logged(alarmLog))

StoryInv ==
  /\ telemetry \in Seq(Records) /\ Settled(telemetry)
  /\ Logged(alarmLog) \in Seq(Entries)
  /\ Follows
  /\ phase = "start" => telemetry = <<>>
  /\ phase \in {"start", "receive", "record"} =>
       engine = Account(Recorded).engine /\ Logged(alarmLog) = Account(Recorded).out
  /\ phase = "process" =>
       /\ InHand
       /\ engine = Account(Recorded - 1).engine
       /\ Logged(alarmLog) = Account(Recorded - 1).out
  /\ phase \in {"emit"} \cup Recording => InHand /\ engine = Account(Recorded).engine
  /\ phase = "emit" => RestIs(todo)
  /\ LeftAt("written") =>
       InHand /\ RestIs(todo) /\ LoggedAs(buffer[1]) = <<raw.sequence, Head(todo)>>
  /\ phase \in {"flushed", "indexed"} => RestIs(Tail(todo))

(* The log of the property is this log.                                    *)
LEMMA LoggedIs == LoggedTransitions = Logged(alarmLog)
  BY DEF LoggedTransitions, Logged, EventsOf, LoggedAs

(* What a transition says is all there is to it.                           *)
LEMMA TransitionIs ==
  ASSUME NEW t \in Told
  PROVE  Transition(t.identity, t.type, t.severity) = t
  BY DEF Transition, Told

(* The story an open log tells: every line but the header.                 *)
LEMMA OpenTells ==
  ASSUME NEW log \in Seq(LogLines), Open(log), log # <<>>
  PROVE  Logged(log) = [i \in 1 .. Len(log) - 1 |-> LoggedAs(log[i + 1])]
<1>1. ~IsComplete(log)
  BY OpenLoads
<1>2. Len(log) \in Nat /\ Len(log) # 0
  OBVIOUS
<1>3. EventsOf(log) = SubSeq(log, 2, Len(log))
  BY <1>1 DEF EventsOf
<1>4. /\ DOMAIN SubSeq(log, 2, Len(log)) = 1 .. Len(log) - 1
      /\ \A i \in 1 .. Len(log) - 1 : SubSeq(log, 2, Len(log))[i] = log[i + 1]
  BY <1>2
<1> QED
  BY <1>3, <1>4 DEF Logged

(* A header tells nothing, and neither does an empty log.                  *)
LEMMA HeaderTells == Logged(<<Metadata>>) = <<>> /\ Logged(<<>>) = <<>>
<1>1. Logged(<<Metadata>>) = <<>>
  <2>1. ~IsComplete(<<Metadata>>) /\ Len(<<Metadata>>) = 1
    BY HeaderOpens, OpenLoads
  <2>2. SubSeq(<<Metadata>>, 2, 1) = <<>>
    BY SubSeqEmpty
  <2>3. EventsOf(<<Metadata>>) = <<>>
    BY <2>1, <2>2 DEF EventsOf
  <2> QED
    BY <2>3 DEF Logged
<1>2. Logged(<<>>) = <<>>
  <2>1. ~IsComplete(<<>>)
    BY DEF IsComplete
  <2>2. EventsOf(<<>>) = <<>>
    BY <2>1 DEF EventsOf
  <2> QED
    BY <2>2 DEF Logged
<1> QED
  BY <1>1, <1>2

(* One line more is one transition more.                                   *)
LEMMA LineTells ==
  ASSUME NEW log \in Seq(LogLines), Open(log), log # <<>>, NEW e \in LogLines,
         e.index = Len(log), e.type \in TransitionTypes,
         Logged(log) \in Seq(Entries), LoggedAs(e) \in Entries
  PROVE  Logged(Append(log, e)) = Logged(log) \o <<LoggedAs(e)>>
<1> DEFINE n == Len(log)
           longer == Append(log, e)
<1>1. n \in Nat /\ n # 0 /\ Len(longer) = n + 1 /\ longer[n + 1] = e
      /\ \A i \in 1 .. n : longer[i] = log[i]
  OBVIOUS
<1>2. longer \in Seq(LogLines) /\ Open(longer) /\ longer # <<>>
  BY OpenGrows
<1> HIDE DEF longer
<1>3. /\ Logged(log) = [i \in 1 .. n - 1 |-> LoggedAs(log[i + 1])]
      /\ Logged(longer) = [i \in 1 .. n |-> LoggedAs(longer[i + 1])]
  <2>1. Logged(log) = [i \in 1 .. n - 1 |-> LoggedAs(log[i + 1])]
    BY OpenTells
  <2>2. Logged(longer) = [i \in 1 .. Len(longer) - 1 |-> LoggedAs(longer[i + 1])]
    BY <1>2, OpenTells
  <2>3. Len(longer) - 1 = n
    BY <1>1
  <2> QED
    BY <2>1, <2>2, <2>3
<1> HIDE DEF n
<1>4. Logged(log) \o <<LoggedAs(e)>> = Append(Logged(log), LoggedAs(e))
  BY AppendIsConcat
<1>5. Len(Logged(log)) = n - 1
  BY <1>1, <1>3
<1>6. Append(Logged(log), LoggedAs(e)) =
        [i \in 1 .. n |-> IF i <= n - 1 THEN Logged(log)[i] ELSE LoggedAs(e)]
  <2> DEFINE q == Logged(log)
             x == LoggedAs(e)
             u == [i \in 1 .. n |-> IF i <= n - 1 THEN q[i] ELSE x]
  <2>1. q \in Seq(Entries) /\ x \in Entries /\ Len(q) = n - 1
    BY <1>5
  <2> HIDE DEF q, x
  <2>2. u \in Seq(Entries) /\ Len(u) = n
    <3>1. \A i \in 1 .. n : (IF i <= n - 1 THEN q[i] ELSE x) \in Entries
      BY <1>1, <2>1
    <3> QED
      BY <1>1, <3>1
  <2>3. /\ Append(q, x) \in Seq(Entries) /\ Len(Append(q, x)) = n
        /\ \A i \in 1 .. n : Append(q, x)[i] = IF i <= n - 1 THEN q[i] ELSE x
    BY <1>1, <2>1
  <2>4. Append(q, x) = u
    BY <2>2, <2>3, SeqEqual
  <2> QED
    BY <2>4 DEF q, x
<1>7. ASSUME NEW i \in 1 .. n
      PROVE  LoggedAs(longer[i + 1]) = IF i <= n - 1 THEN Logged(log)[i] ELSE LoggedAs(e)
  <2>1. CASE i <= n - 1
    <3>1. i \in 1 .. n - 1 /\ i + 1 \in 1 .. n
      BY <1>1, <2>1
    <3> QED
      BY <1>1, <1>3, <2>1, <3>1
  <2>2. CASE ~(i <= n - 1)
    <3>1. i = n
      BY <1>1, <2>2
    <3> QED
      BY <1>1, <2>2, <3>1
  <2> QED
    BY <2>1, <2>2
<1>8. Logged(longer) = Append(Logged(log), LoggedAs(e))
  BY <1>3, <1>6, <1>7
<1> QED
  BY <1>4, <1>8 DEF longer

(* A summary tells nothing.                                                *)
LEMMA SummaryTells ==
  ASSUME NEW log \in Seq(LogLines), Open(log), log # <<>>, NEW e \in LogLines, e.type = "run_summary"
  PROVE  Logged(Append(log, e)) = Logged(log)
<1> DEFINE n == Len(log)
           longer == Append(log, e)
<1>1. n \in Nat /\ n # 0 /\ Len(longer) = n + 1 /\ \A i \in 1 .. n : longer[i] = log[i]
  OBVIOUS
<1>2. IsComplete(longer)
  BY SummaryEnds
<1>3. EventsOf(longer) = SubSeq(longer, 2, n)
  BY <1>1, <1>2 DEF EventsOf
<1>4. /\ DOMAIN SubSeq(longer, 2, n) = 1 .. n - 1
      /\ \A i \in 1 .. n - 1 : SubSeq(longer, 2, n)[i] = log[i + 1]
  BY <1>1
<1> HIDE DEF longer
<1>5. Logged(longer) = [i \in 1 .. n - 1 |-> LoggedAs(log[i + 1])]
  BY <1>3, <1>4 DEF Logged
<1> QED
  BY <1>5, OpenTells DEF longer

(* What is known of the recording at any point of it.                      *)
LEMMA AccountsTyped ==
  ASSUME StoryInv
  PROVE  /\ Recorded \in Nat
         /\ Typed(Account(Recorded))
         /\ telemetry # <<>> =>
              /\ Recorded - 1 \in 0 .. Recorded
              /\ telemetry[Recorded] \in Records
              /\ Typed(Account(Recorded - 1))
              /\ Account(Recorded) = After(Account(Recorded - 1), telemetry[Recorded])
<1>1. telemetry \in Seq(Records) /\ Settled(telemetry)
  BY DEF StoryInv
<1>2. Recorded \in Nat /\ (telemetry # <<>> => Recorded # 0 /\ telemetry[Recorded] \in Records)
  BY <1>1 DEF Recorded
<1>3. \A k \in 0 .. Recorded : Typed(Account(k))
  BY <1>1 DEF Settled, Grows, Recorded, Account
<1>4. \A k \in 1 .. Recorded : Account(k) = After(Account(k - 1), telemetry[k])
  <2>1. IsStory(Story(telemetry), telemetry)
    BY <1>1 DEF Settled, HasStory
  <2> QED
    BY <1>2, <2>1, StoryPoints DEF Recorded, Account
<1>5. Recorded # 0 => Recorded - 1 \in 0 .. Recorded /\ Recorded \in 1 .. Recorded
  BY <1>2
<1>6. Recorded \in 0 .. Recorded
  BY <1>2
<1> QED
  BY <1>2, <1>3, <1>4, <1>5, <1>6

(* A record more.                                                          *)
LEMMA RecordingGrows ==
  ASSUME StoryInv, NEW d \in Records, telemetry' = Append(telemetry, d)
  PROVE  /\ telemetry' \in Seq(Records) /\ Settled(telemetry')
         /\ telemetry' # <<>>
         /\ Recorded' = Recorded + 1
         /\ telemetry'[Recorded + 1] = d
         /\ \A k \in 0 .. Recorded : Story(telemetry')[k] = Account(k)
         /\ Story(telemetry')[Recorded + 1] = After(Account(Recorded), d)
<1>1. telemetry \in Seq(Records) /\ Settled(telemetry)
  BY DEF StoryInv
<1>2. /\ telemetry' \in Seq(Records) /\ telemetry' # <<>>
      /\ Recorded \in Nat /\ Recorded' = Recorded + 1 /\ telemetry'[Recorded + 1] = d
  BY <1>1 DEF Recorded
<1>3. /\ Settled(telemetry')
      /\ Story(telemetry') =
           [k \in 0 .. Recorded + 1 |->
              IF k <= Recorded THEN Account(k) ELSE After(Account(Recorded), d)]
  BY <1>1, StoryContinues DEF Recorded, Account
<1>4. \A k \in 0 .. Recorded : k \in 0 .. Recorded + 1 /\ k <= Recorded
  BY <1>2
<1>5. Recorded + 1 \in 0 .. Recorded + 1 /\ ~(Recorded + 1 <= Recorded)
  BY <1>2
<1>6. \A k \in 0 .. Recorded : Story(telemetry')[k] = Account(k)
  BY <1>3, <1>4
<1>7. Story(telemetry')[Recorded + 1] = After(Account(Recorded), d)
  BY <1>3, <1>5
<1> QED
  BY <1>1, <1>2, <1>3, <1>6, <1>7

(* When the log has the whole story of the records before it, the log      *)
(* follows the recording whatever the new record brings.                   *)
LEMMA FollowsRecord ==
  ASSUME StoryInv, NEW d \in Records, telemetry' = Append(telemetry, d),
         UNCHANGED alarmLog, Logged(alarmLog) = Account(Recorded).out
  PROVE  /\ Follows'
         /\ Account(Recorded - 1)' = Account(Recorded)
         /\ telemetry'[Recorded'] = d
<1>1. /\ Recorded \in Nat /\ Recorded' = Recorded + 1 /\ telemetry'[Recorded + 1] = d
      /\ Story(telemetry')[Recorded] = Account(Recorded)
      /\ Story(telemetry')[Recorded + 1] = After(Account(Recorded), d)
  <2>1. Recorded \in Nat
    BY AccountsTyped
  <2>2. Recorded \in 0 .. Recorded
    BY <2>1
  <2> QED
    BY <2>1, <2>2, RecordingGrows
<1>2. Recorded' - 1 = Recorded
  BY <1>1
<1>3. Account(Recorded - 1)' = Account(Recorded)
  BY <1>1, <1>2 DEF Account
<1>4. Account(Recorded)' = After(Account(Recorded), d)
  BY <1>1 DEF Account
<1>5. /\ Account(Recorded).out \in Seq(Entries)
      /\ IsPrefix(Account(Recorded).out, After(Account(Recorded), d).out)
  BY AccountsTyped, AfterTyped DEF Typed
<1>6. IsPrefix(Account(Recorded).out, Account(Recorded).out)
  BY <1>5, PrefixOrder
<1>7. Logged(alarmLog)' = Account(Recorded).out
  OBVIOUS
<1> QED
  BY <1>1, <1>3, <1>4, <1>5, <1>6, <1>7 DEF Follows

(* What is unchanged says the same.                                        *)
LEMMA SameStory ==
  ASSUME UNCHANGED <<telemetry, alarmLog>>
  PROVE  /\ Recorded' = Recorded
         /\ Account(Recorded)' = Account(Recorded)
         /\ Account(Recorded - 1)' = Account(Recorded - 1)
         /\ Logged(alarmLog)' = Logged(alarmLog)
         /\ Follows' <=> Follows
  BY DEF Recorded, Account, Follows

(* The empty story.                                                        *)
LEMMA NothingIsTold ==
  <<>> \in Seq(Entries) /\ <<>> \in Seq(Records) /\ IsPrefix(<<>>, <<>>)
<1> DEFINE none == <<>>
<1>1. none \in Seq(Entries) /\ none \in Seq(Records)
  OBVIOUS
<1> HIDE DEF none
<1>2. IsPrefix(none, none)
  BY <1>1, PrefixOrder
<1> QED
  BY <1>1, <1>2 DEF none

(* Nothing is recorded, and nothing is told.                               *)
LEMMA StoryInit == Init => StoryInv
<1> SUFFICES ASSUME Init PROVE StoryInv
  OBVIOUS
<1>1. telemetry = <<>> /\ alarmLog = <<>> /\ phase = "start" /\ engine = Fresh
  BY DEF Init
<1>2. Settled(telemetry) /\ Recorded = 0 /\ Account(Recorded) = Opening
  BY <1>1, StoryBegins DEF Recorded, Account
<1>3. Logged(alarmLog) = <<>> /\ Opening.out = <<>> /\ Opening.engine = Fresh
  BY <1>1, HeaderTells DEF Opening
<1>4. <<>> \in Seq(Entries) /\ <<>> \in Seq(Records) /\ IsPrefix(<<>>, <<>>)
  BY NothingIsTold
<1>5. Follows
  BY <1>1, <1>2, <1>3, <1>4 DEF Follows
<1> QED
  BY <1>1, <1>2, <1>3, <1>4, <1>5 DEF StoryInv, LeftAt, Recording

(* The session starts, and still nothing is told.                          *)
LEMMA StoryStarts == StoryInv /\ Start => StoryInv'
<1> SUFFICES ASSUME StoryInv, Start PROVE StoryInv'
  OBVIOUS
<1>1. /\ telemetry = <<>> /\ telemetry' = <<>> /\ UNCHANGED engine
      /\ phase' \in {"receive", "stopped"} /\ alarmLog' \in {<<>>, <<Metadata>>}
  BY DEF StoryInv, Start
<1>2. Settled(telemetry') /\ Recorded' = 0 /\ Account(Recorded)' = Opening
  BY <1>1, StoryBegins DEF Recorded, Account
<1>3. engine = Opening.engine
  BY <1>1, StoryBegins DEF StoryInv, Start, Recorded, Account
<1>4. Logged(alarmLog)' = <<>> /\ Opening.out = <<>>
  BY <1>1, HeaderTells DEF Opening
<1>5. <<>> \in Seq(Entries) /\ <<>> \in Seq(Records) /\ IsPrefix(<<>>, <<>>)
  BY NothingIsTold
<1>6. Follows'
  BY <1>1, <1>2, <1>4, <1>5 DEF Follows
<1> QED
  BY <1>1, <1>2, <1>3, <1>4, <1>5, <1>6 DEF StoryInv, LeftAt, Recording

(* A datagram is received, and recorded; or the loop is left there, and it *)
(* may have been recorded all the same.                                    *)
LEMMA StoryRecords ==
  ASSUME ListenerInv, StoryInv,
         (\E d \in Datagrams : Receive(d)) \/ Record \/ (Interrupt /\ phase = "record")
  PROVE  StoryInv'
<1>1. CASE \E d \in Datagrams : Receive(d)
  <2>1. /\ phase = "receive" /\ phase' = "record"
        /\ UNCHANGED <<engine, telemetry, alarmLog>>
    BY <1>1 DEF Receive, recorder
  <2> QED
    BY <2>1, SameStory DEF StoryInv, LeftAt, Recording
<1>2. CASE Record \/ (Interrupt /\ phase = "record")
  <2>1. /\ phase = "record" /\ phase' \in {"process", "unwind"}
        /\ phase' = "process" => telemetry' = Append(telemetry, raw)
        /\ phase' = "unwind" => cause'[2] = "record"
        /\ telemetry' \in {telemetry, Append(telemetry, raw)}
        /\ UNCHANGED <<engine, raw, alarmLog>>
    BY <1>2 DEF Record, Interrupt, MaybeRecorded, recorder
  <2>2. /\ engine = Account(Recorded).engine /\ Logged(alarmLog) = Account(Recorded).out
        /\ raw \in Records
    BY <2>1 DEF StoryInv, ListenerInv, ListenerType, Records
  <2>3. CASE telemetry' = Append(telemetry, raw)
    <3>1. /\ Follows'
          /\ Account(Recorded - 1)' = Account(Recorded)
          /\ telemetry'[Recorded'] = raw
      BY <2>1, <2>2, <2>3, FollowsRecord
    <3>2. telemetry' \in Seq(Records) /\ Settled(telemetry') /\ telemetry' # <<>>
      BY <2>2, <2>3, RecordingGrows
    <3>3. Logged(alarmLog)' = Logged(alarmLog)
      BY <2>1
    <3>4. InHand'
      BY <2>1, <3>1, <3>2 DEF InHand
    <3> QED
      BY <2>1, <2>2, <3>1, <3>2, <3>3, <3>4 DEF StoryInv, LeftAt, Recording
  <2>4. CASE telemetry' = telemetry /\ phase' = "unwind"
    BY <2>1, <2>4, SameStory DEF StoryInv, LeftAt, Recording
  <2> QED
    BY <2>1, <2>3, <2>4
<1> QED
  BY <1>1, <1>2

(* A rejected datagram tells nothing.                                      *)
LEMMA StoryRejects ==
  ASSUME StoryInv, Reject
  PROVE  StoryInv'
<1>1. /\ phase = "process" /\ phase' = "receive" /\ raw = Garbage
      /\ UNCHANGED <<engine, telemetry, alarmLog>>
  BY DEF Reject, recorder
<1>2. /\ telemetry # <<>> /\ raw = telemetry[Recorded]
      /\ engine = Account(Recorded - 1).engine
      /\ Logged(alarmLog) = Account(Recorded - 1).out
  BY <1>1 DEF StoryInv, InHand
<1>3. Account(Recorded) = Account(Recorded - 1)
  BY <1>1, <1>2, AccountsTyped DEF After
<1> QED
  BY <1>1, <1>2, <1>3, SameStory DEF StoryInv, LeftAt, Recording

(* A decoded one tells its transitions, which are all still to be written. *)
LEMMA StoryProcesses ==
  ASSUME ListenerInv, StoryInv, Process
  PROVE  StoryInv'
<1>1. /\ phase = "process" /\ raw # Garbage
      /\ engine' = NextState(engine, raw) /\ todo' = Transitions(engine, raw)
      /\ phase' = IF todo' = <<>> THEN "receive" ELSE "emit"
      /\ UNCHANGED <<raw, telemetry, alarmLog>>
  BY DEF Process, recorder
<1>2. /\ telemetry # <<>> /\ raw = telemetry[Recorded]
      /\ engine = Account(Recorded - 1).engine
      /\ Logged(alarmLog) = Account(Recorded - 1).out
  BY <1>1 DEF StoryInv, InHand
<1>3. /\ Account(Recorded).engine = engine'
      /\ Account(Recorded).out = Logged(alarmLog) \o Stamped(raw, todo')
  <2>1. Account(Recorded) = After(Account(Recorded - 1), raw)
    BY <1>2, AccountsTyped
  <2>2. Account(Recorded) =
          [engine |-> engine', out |-> Logged(alarmLog) \o Stamped(raw, todo')]
    BY <1>1, <1>2, <2>1 DEF After
  <2> QED
    BY <2>2
<1>4. Logged(alarmLog) \in Seq(Entries) /\ raw \in Records /\ todo' \in Seq(Told)
  <2>1. Typed(Account(Recorded - 1)) /\ raw \in Records
    BY <1>2, AccountsTyped
  <2> QED
    BY <1>1, <1>2, <2>1, TransitionsAreTold DEF Typed
<1>5. todo' = <<>> => Account(Recorded).out = Logged(alarmLog)
  <2> SUFFICES ASSUME todo' = <<>> PROVE Account(Recorded).out = Logged(alarmLog)
    OBVIOUS
  <2>1. Stamped(raw, todo') = <<>>
    BY DEF Stamped
  <2>2. Logged(alarmLog) \o <<>> = Logged(alarmLog)
    BY <1>4, ConcatEmptySeq
  <2> QED
    BY <1>3, <2>1, <2>2
<1>6. InHand'
  BY <1>1, <1>2, SameStory DEF InHand
<1>7. RestIs(todo)'
  BY <1>1, <1>3, SameStory DEF RestIs
<1> QED
  BY <1>1, <1>3, <1>5, <1>6, <1>7, SameStory DEF StoryInv, LeftAt, Recording

(* The line in the file object is the first transition of the rest.        *)
LEMMA StoryWrites ==
  ASSUME ListenerInv, StoryInv, WriteEvent
  PROVE  StoryInv'
<1>1. /\ phase = "emit" /\ phase' = "written"
      /\ buffer' = Append(buffer, Event(Head(todo)))
      /\ UNCHANGED <<engine, raw, todo, telemetry, alarmLog>>
  BY DEF WriteEvent
<1>2. buffer = <<>> /\ todo # <<>> /\ todo \in Seq(Told)
  BY <1>1 DEF ListenerInv, ListenerType, RecorderInv, Looping, Recording
<1>3. buffer'[1] = Event(Head(todo))
  BY <1>1, <1>2
<1>4. LoggedAs(buffer'[1]) = <<raw.sequence, Head(todo)>>
  <2>1. Head(todo) \in Told
    BY <1>2
  <2>2. LoggedAs(Event(Head(todo))) =
          <<raw.sequence, Transition(Head(todo).identity, Head(todo).type, Head(todo).severity)>>
    BY DEF LoggedAs, Event
  <2> QED
    BY <1>3, <2>1, <2>2, TransitionIs
<1>5. InHand /\ engine = Account(Recorded).engine /\ RestIs(todo)
  BY <1>1 DEF StoryInv
<1>6. InHand' /\ RestIs(todo)'
  BY <1>1, <1>5, SameStory DEF InHand, RestIs
<1> QED
  BY <1>1, <1>4, <1>5, <1>6, SameStory DEF StoryInv, LeftAt, Recording

(* What the log says once the line is in it.                               *)
LEMMA LineReaches ==
  ASSUME ListenerInv, StoryInv, LeftAt("written"), NEW log, log = alarmLog \o buffer
  PROVE  /\ log \in Seq(LogLines) /\ Open(log) /\ log # <<>>
         /\ Logged(log) \in Seq(Entries)
         /\ IsPrefix(Logged(alarmLog), Logged(log))
         /\ IsPrefix(Logged(log), Account(Recorded).out)
         /\ Logged(log) \o Stamped(raw, Tail(todo)) = Account(Recorded).out
<1> DEFINE e == buffer[1]
           h == Head(todo)
           line == Stamped(raw, Tail(todo))
<1>1. /\ Open(alarmLog) /\ alarmLog # <<>> /\ alarmLog \in Seq(LogLines)
      /\ todo # <<>> /\ todo \in Seq(Told) /\ raw \in Records
      /\ e.type = h.type /\ e.index = Len(alarmLog)
  BY DEF ListenerInv, ListenerType, RecorderInv, LeftAt, Looping, Recording, Torn, Records
<1>2. e \in LogLines /\ buffer = <<e>>
  <2>1. buffer \in Seq(LogLines) /\ Len(buffer) = 1
    BY DEF ListenerInv, ListenerType, RecorderInv
  <2> QED
    BY <2>1, OneLine
<1>3. Logged(alarmLog) \in Seq(Entries) /\ RestIs(todo) /\ LoggedAs(e) = <<raw.sequence, h>>
  BY DEF StoryInv
<1>4. h \in Told /\ Tail(todo) \in Seq(Told)
  BY <1>1
<1>5. e.type \in TransitionTypes /\ LoggedAs(e) \in Entries
  <2>1. raw.sequence \in Numbers
    BY <1>1 DEF Records, Numbers
  <2> QED
    BY <1>1, <1>3, <1>4, <2>1 DEF Told, Entries
<1> HIDE DEF e, h
<1>6. log = Append(alarmLog, e)
  BY <1>1, <1>2, AppendIsConcat
<1>7. /\ Logged(log) = Logged(alarmLog) \o <<LoggedAs(e)>>
      /\ Open(log)
  BY <1>1, <1>2, <1>3, <1>5, <1>6, LineTells, OpenGrows
<1>8. log \in Seq(LogLines) /\ log # <<>>
  BY <1>1, <1>2, <1>6
<1>9. Stamped(raw, todo) = <<LoggedAs(e)>> \o line
  <2>1. /\ Stamped(raw, todo) \in Seq(Entries) /\ Len(Stamped(raw, todo)) = Len(todo)
        /\ \A i \in 1 .. Len(todo) : Stamped(raw, todo)[i] = <<raw.sequence, todo[i]>>
    BY <1>1, StampedTyped
  <2>2. /\ line \in Seq(Entries) /\ Len(line) = Len(Tail(todo))
        /\ \A i \in 1 .. Len(Tail(todo)) : line[i] = <<raw.sequence, Tail(todo)[i]>>
    BY <1>1, <1>4, StampedTyped
  <2>3. /\ Len(todo) \in Nat /\ Len(todo) # 0 /\ Len(Tail(todo)) = Len(todo) - 1
        /\ todo[1] = h /\ \A i \in 1 .. Len(todo) - 1 : Tail(todo)[i] = todo[i + 1]
    BY <1>1 DEF h
  <2> DEFINE one == <<LoggedAs(e)>>
  <2>4. one \in Seq(Entries) /\ Len(one) = 1 /\ one[1] = <<raw.sequence, h>>
    BY <1>3, <1>5
  <2> HIDE DEF one, line
  <2>5. /\ one \o line \in Seq(Entries)
        /\ Len(one \o line) = Len(todo)
        /\ \A i \in 1 .. Len(todo) : (one \o line)[i] = IF i <= 1 THEN one[i] ELSE line[i - 1]
    <3>1. Len(one) + Len(line) = Len(todo)
      BY <2>2, <2>3, <2>4
    <3>2. /\ one \o line \in Seq(Entries)
          /\ Len(one \o line) = Len(one) + Len(line)
          /\ \A i \in 1 .. Len(one) + Len(line) :
               (one \o line)[i] = IF i <= Len(one) THEN one[i] ELSE line[i - Len(one)]
      <4>1. one \in Seq(Entries) /\ line \in Seq(Entries)
        BY <2>2, <2>4
      <4> QED
        BY <4>1, ConcatProperties
    <3> QED
      BY <2>4, <3>1, <3>2
  <2>6. ASSUME NEW i \in 1 .. Len(todo) PROVE (one \o line)[i] = Stamped(raw, todo)[i]
    <3>1. CASE i = 1
      <4>1. (one \o line)[i] = one[1] /\ Stamped(raw, todo)[i] = <<raw.sequence, todo[1]>>
        BY <2>1, <2>5, <3>1
      <4> QED
        BY <2>3, <2>4, <4>1
    <3>2. CASE i # 1
      <4>1. i - 1 \in 1 .. Len(todo) - 1 /\ (i - 1) + 1 = i /\ ~(i <= 1)
        BY <2>3, <3>2
      <4>2. line[i - 1] = <<raw.sequence, todo[i]>>
        BY <2>2, <2>3, <4>1
      <4> QED
        BY <2>1, <2>5, <4>1, <4>2
    <3> QED
      BY <3>1, <3>2
  <2>7. one \o line = Stamped(raw, todo)
    BY <2>1, <2>5, <2>6, SeqEqual
  <2> QED
    BY <2>7 DEF one
<1>10. line \in Seq(Entries)
  BY <1>1, <1>4, StampedTyped
<1> HIDE DEF line
<1>11. <<LoggedAs(e)>> \in Seq(Entries)
  BY <1>5
<1>12. /\ Logged(log) \in Seq(Entries)
       /\ IsPrefix(Logged(alarmLog), Logged(log))
  <2>1. Logged(alarmLog) \o <<LoggedAs(e)>> \in Seq(Entries)
    BY <1>3, <1>11, ConcatProperties
  <2>2. IsPrefix(Logged(alarmLog), Logged(alarmLog) \o <<LoggedAs(e)>>)
    BY <1>3, <1>11, PrefixOrder
  <2> QED
    BY <1>7, <2>1, <2>2
<1>13. Logged(log) \o line = Account(Recorded).out
  <2>1. (Logged(alarmLog) \o <<LoggedAs(e)>>) \o line = Logged(alarmLog) \o (<<LoggedAs(e)>> \o line)
    BY <1>3, <1>10, <1>11, ConcatAssociative
  <2> QED
    BY <1>3, <1>7, <1>9, <2>1 DEF RestIs
<1>14. IsPrefix(Logged(log), Account(Recorded).out)
  <2>1. IsPrefix(Logged(log), Logged(log) \o line)
    BY <1>10, <1>12, PrefixOrder
  <2> QED
    BY <1>13, <2>1
<1> QED
  BY <1>7, <1>8, <1>12, <1>13, <1>14 DEF line

(* A longer log that is still a beginning of the story follows it.         *)
LEMMA FollowsFlush ==
  ASSUME StoryInv, UNCHANGED telemetry,
         Logged(alarmLog') \in Seq(Entries),
         IsPrefix(Logged(alarmLog), Logged(alarmLog')),
         IsPrefix(Logged(alarmLog'), Account(Recorded).out)
  PROVE  Follows'
<1>1. /\ Recorded' = Recorded /\ Account(Recorded)' = Account(Recorded)
      /\ Account(Recorded - 1)' = Account(Recorded - 1)
      /\ Logged(alarmLog)' = Logged(alarmLog')
  BY DEF Recorded, Account
<1>2. Logged(alarmLog) \in Seq(Entries) /\ Follows
  BY DEF StoryInv
<1>3. telemetry # <<>> => IsPrefix(Account(Recorded - 1).out, Logged(alarmLog'))
  <2> SUFFICES ASSUME telemetry # <<>>
               PROVE  IsPrefix(Account(Recorded - 1).out, Logged(alarmLog'))
    OBVIOUS
  <2>1. Account(Recorded - 1).out \in Seq(Entries)
    BY AccountsTyped DEF Typed
  <2>2. IsPrefix(Account(Recorded - 1).out, Logged(alarmLog))
    BY <1>2 DEF Follows
  <2> QED
    BY <1>2, <2>1, <2>2, PrefixOrder
<1> QED
  BY <1>1, <1>3 DEF Follows

(* The line reaches the disk, or stays in the file object.                 *)
LEMMA StoryFlushes ==
  ASSUME ListenerInv, StoryInv, Flush
  PROVE  StoryInv'
<1>1. /\ phase = "written" /\ UNCHANGED <<engine, raw, todo, telemetry>>
      /\ InHand /\ engine = Account(Recorded).engine /\ RestIs(todo)
      /\ LoggedAs(buffer[1]) = <<raw.sequence, Head(todo)>>
      /\ LeftAt("written")
  BY DEF Flush, StoryInv, Recording, LeftAt
<1>2. /\ Recorded' = Recorded /\ Account(Recorded)' = Account(Recorded)
      /\ Account(Recorded - 1)' = Account(Recorded - 1)
      /\ InHand'
  BY <1>1 DEF Recorded, Account, InHand
<1>3. CASE alarmLog' = alarmLog \o buffer /\ phase' = "flushed"
  <2>1. /\ Logged(alarmLog') \in Seq(Entries)
        /\ IsPrefix(Logged(alarmLog), Logged(alarmLog'))
        /\ IsPrefix(Logged(alarmLog'), Account(Recorded).out)
        /\ Logged(alarmLog') \o Stamped(raw, Tail(todo)) = Account(Recorded).out
    BY <1>1, <1>3, LineReaches
  <2>2. Follows'
    BY <1>1, <2>1, FollowsFlush
  <2>3. RestIs(Tail(todo))'
    BY <1>1, <1>2, <2>1 DEF RestIs
  <2> QED
    BY <1>1, <1>2, <1>3, <2>1, <2>2, <2>3 DEF StoryInv, LeftAt, Recording
<1>4. CASE phase' = "unwind" /\ UNCHANGED <<alarmLog, buffer>>
  <2>1. RestIs(todo)' /\ LoggedAs(buffer[1])' = <<raw.sequence, Head(todo)>>'
    BY <1>1, <1>2, <1>4 DEF RestIs
  <2> QED
    BY <1>1, <1>2, <1>4, <2>1, SameStory DEF StoryInv, LeftAt, Recording
<1> QED
  BY <1>3, <1>4 DEF Flush

(* The counters tell nothing; when both have counted the line, the rest is *)
(* what is still to be written, or there is none.                          *)
LEMMA StoryCounts ==
  ASSUME ListenerInv, StoryInv, CountIndex \/ CountTransition
  PROVE  StoryInv'
<1>1. /\ phase \in {"flushed", "indexed"} /\ UNCHANGED <<engine, raw, telemetry, alarmLog>>
      /\ \/ phase' = "indexed" /\ todo' = todo
         \/ phase' = (IF todo' = <<>> THEN "receive" ELSE "emit") /\ todo' = Tail(todo)
  BY DEF CountIndex, CountTransition
<1>2. /\ InHand /\ engine = Account(Recorded).engine /\ RestIs(Tail(todo))
      /\ Logged(alarmLog) \in Seq(Entries)
  BY <1>1 DEF StoryInv, Recording
<1>3. InHand'
  BY <1>1, <1>2, SameStory DEF InHand
<1>4. CASE phase' = "indexed" /\ todo' = todo
  <2>1. RestIs(Tail(todo))'
    BY <1>1, <1>2, <1>4, SameStory DEF RestIs
  <2> QED
    BY <1>1, <1>2, <1>3, <1>4, <2>1, SameStory DEF StoryInv, LeftAt, Recording
<1>5. CASE phase' = (IF todo' = <<>> THEN "receive" ELSE "emit") /\ todo' = Tail(todo)
  <2>1. RestIs(todo)'
    BY <1>1, <1>2, <1>5, SameStory DEF RestIs
  <2>2. todo' = <<>> => Logged(alarmLog) = Account(Recorded).out
    <3> SUFFICES ASSUME todo' = <<>> PROVE Logged(alarmLog) = Account(Recorded).out
      OBVIOUS
    <3>1. Stamped(raw, todo') = <<>>
      BY DEF Stamped
    <3>2. Logged(alarmLog) \o <<>> = Logged(alarmLog)
      BY <1>2, ConcatEmptySeq
    <3> QED
      BY <1>2, <1>5, <3>1, <3>2 DEF RestIs
  <2> QED
    BY <1>1, <1>2, <1>3, <1>5, <2>1, <2>2, SameStory DEF StoryInv, LeftAt, Recording
<1> QED
  BY <1>1, <1>4, <1>5

(* The loop is left, or the process ends: both files stay as they are.     *)
LEMMA StoryIsLeft ==
  ASSUME ListenerInv, StoryInv, (Interrupt /\ phase # "record") \/ Kill
  PROVE  StoryInv'
<1>1. /\ UNCHANGED <<raw, todo, telemetry, alarmLog, buffer>>
      /\ \/ phase' = "killed"
         \/ phase' = "unwind" /\ cause'[2] = phase /\ phase \in Looping
  BY DEF Interrupt, Kill, recorder
<1>2. LeftAt("written")' => LeftAt("written")
  BY <1>1 DEF LeftAt
<1>3. InHand' = InHand /\ RestIs(todo)' = RestIs(todo)
  BY <1>1, SameStory DEF InHand, RestIs
<1> QED
  BY <1>1, <1>2, <1>3, SameStory DEF StoryInv, Recording

(* A close writes the line in the file object, and a summary that tells    *)
(* nothing; or less than that.                                             *)
LEMMA StoryCloses ==
  ASSUME ListenerInv, StoryInv, Close
  PROVE  StoryInv'
<1>1. /\ phase = "unwind" /\ phase' \in {"stopped", "failed"} /\ UNCHANGED telemetry
      /\ alarmLog' \in {alarmLog, alarmLog \o buffer, alarmLog \o buffer \o <<Summary>>}
  BY DEF Close
<1>2. CASE UNCHANGED alarmLog
  BY <1>1, <1>2, SameStory DEF StoryInv, LeftAt, Recording
<1>3. CASE alarmLog' \in {alarmLog \o buffer, alarmLog \o buffer \o <<Summary>>}
  <2> DEFINE log == alarmLog \o buffer
  <2>1. /\ log \in Seq(LogLines) /\ Open(log) /\ log # <<>>
        /\ Logged(log) \in Seq(Entries)
        /\ IsPrefix(Logged(alarmLog), Logged(log))
        /\ IsPrefix(Logged(log), Account(Recorded).out)
    <3>1. CASE LeftAt("written")
      BY <3>1, LineReaches
    <3>2. CASE ~LeftAt("written")
      <4>1. buffer = <<>>
        BY <1>1, <3>2 DEF ListenerInv, RecorderInv, LeftAt, Torn, Recording
      <4>2. /\ alarmLog \in Seq(LogLines) /\ Open(alarmLog) /\ alarmLog # <<>>
        BY <1>1 DEF ListenerInv, ListenerType, RecorderInv
      <4>3. log = alarmLog
        BY <4>1, <4>2, ConcatEmptySeq
      <4>4. Logged(alarmLog) \in Seq(Entries) /\ IsPrefix(Logged(alarmLog), Account(Recorded).out)
        BY DEF StoryInv, Follows
      <4>5. IsPrefix(Logged(alarmLog), Logged(alarmLog))
        BY <4>4, PrefixOrder
      <4> QED
        BY <4>2, <4>3, <4>4, <4>5
    <3> QED
      BY <3>1, <3>2
  <2>2. Summary \in LogLines /\ Summary.type = "run_summary"
    BY DEF Summary, LogLines, ListenerInv, ListenerType
  <2> HIDE DEF log, Summary
  <2>3. alarmLog' = log \/ alarmLog' = Append(log, Summary)
    BY <1>3, <2>1, <2>2, AppendIsConcat DEF log
  <2>4. Logged(alarmLog') = Logged(log)
    BY <2>1, <2>2, <2>3, SummaryTells
  <2>5. Follows'
    BY <1>1, <2>1, <2>4, FollowsFlush
  <2> QED
    BY <1>1, <2>1, <2>4, <2>5 DEF StoryInv, LeftAt, Recording
<1> QED
  BY <1>1, <1>2, <1>3

(* Whatever happens next, the log tells the story of the recording.        *)
LEMMA StoryMoves == ListenerInv /\ StoryInv /\ [Next]_vars => StoryInv'
<1> SUFFICES ASSUME ListenerInv, StoryInv, [Next]_vars PROVE StoryInv'
  OBVIOUS
<1>1. CASE UNCHANGED vars
  <2>1. UNCHANGED <<phase, engine, raw, todo, telemetry, alarmLog, buffer, cause>>
    BY <1>1 DEF vars, recorder
  <2> QED
    BY <2>1, SameStory DEF StoryInv, LeftAt, InHand, RestIs
<1> QED
  BY <1>1, StoryStarts, StoryRecords, StoryRejects, StoryProcesses, StoryWrites, StoryFlushes,
     StoryCounts, StoryIsLeft, StoryCloses DEF Next, Thread

(* What the invariant says in the terms of the property.                   *)
LEMMA StoryFollows ==
  ASSUME StoryInv
  PROVE  LogFollowsRecording
<1>1. telemetry \in Seq(Records) /\ HasStory(telemetry) /\ Follows
  BY DEF StoryInv, Settled
<1>2. Replayed(telemetry) = Account(Recorded).out
  BY DEF Replayed, Account, Recorded
<1>3. telemetry # <<>> => Replayed(Front(telemetry)) = Account(Recorded - 1).out
  <2> SUFFICES ASSUME telemetry # <<>>
               PROVE  Replayed(Front(telemetry)) = Account(Recorded - 1).out
    OBVIOUS
  <2>1. Recorded - 1 \in 0 .. Recorded
    BY AccountsTyped
  <2>2. Front(telemetry) = SubSeq(telemetry, 1, Recorded - 1)
    BY DEF Front, Recorded
  <2>3. Len(SubSeq(telemetry, 1, Recorded - 1)) = Recorded - 1
    BY <1>1, <2>1 DEF Recorded
  <2>4. Story(SubSeq(telemetry, 1, Recorded - 1)) = [k \in 0 .. Recorded - 1 |-> Account(k)]
    BY <1>1, <2>1 DEF HasStory, Recorded, Account
  <2>5. Recorded - 1 \in 0 .. Recorded - 1
    BY <2>1
  <2> QED
    BY <2>2, <2>3, <2>4, <2>5 DEF Replayed
<1> QED
  BY <1>1, <1>2, <1>3, LoggedIs DEF Follows, LogFollowsRecording

(* The story of the recording is the log's, in every behaviour of the      *)
(* listener.                                                               *)
THEOREM StoryCorrect == Spec => []StoryInv
  BY ListenerCorrect, StoryInit, StoryMoves, PTL DEF Spec

(* Whatever ends the listener, its two files tell one story, and the log   *)
(* lacks at most transitions of the last datagram recorded.                *)
THEOREM LogFollows == Spec => []LogFollowsRecording
  BY StoryCorrect, StoryFollows, PTL

-----------------------------------------------------------------------------
(* A replay of the recording, which has come as far as the records it has  *)
(* taken.                                                                  *)

HasTaken(n) == replayed = Account(n).engine /\ printed = Account(n).out

ReaderInv ==
  /\ taken \in 0 .. Recorded
  /\ reader \in Readers
  /\ reader \in {"idle", "reading", "ended"} => HasTaken(taken)
  /\ reader = "holding" => taken # 0 /\ HasTaken(taken - 1)
  /\ reader = "ended" => length = taken
  /\ reader = "idle" => taken = 0
  /\ printed \in Seq(Entries) /\ IsPrefix(printed, Account(taken).out)

ReplayInv == ListenerInv /\ StoryInv /\ ReaderInv

(* A recording only grows, and with it its story.                          *)
LEMMA StoryIsKept ==
  ASSUME ListenerInv, StoryInv, [Next]_vars
  PROVE  /\ Recorded \in Nat /\ Recorded' \in Nat /\ Recorded <= Recorded'
         /\ \A k \in 0 .. Recorded : Story(telemetry')[k] = Story(telemetry)[k]
<1>1. \/ telemetry' = telemetry
      \/ raw \in Records /\ telemetry' = Append(telemetry, raw)
  <2>1. raw \in Records /\ (phase = "start" => telemetry = <<>>)
    BY DEF ListenerInv, ListenerType, StoryInv, Records
  <2> QED
    BY <2>1 DEF Next, Thread, Start, Receive, Record, MaybeRecorded, Reject, Process, WriteEvent,
                Flush, CountIndex, CountTransition, Interrupt, Close, Kill, vars, recorder
<1>2. Recorded \in Nat
  BY AccountsTyped
<1>3. CASE telemetry' = telemetry
  BY <1>2, <1>3 DEF Recorded
<1>4. CASE raw \in Records /\ telemetry' = Append(telemetry, raw)
  BY <1>2, <1>4, RecordingGrows DEF Account
<1> QED
  BY <1>1, <1>3, <1>4

(* The listener moves, and the replay has still taken what it has.         *)
LEMMA ReaderWaits ==
  ASSUME ReplayInv, [Next]_vars, UNCHANGED readerVars
  PROVE  ReaderInv'
<1>1. UNCHANGED <<reader, taken, replayed, printed, length>>
  BY DEF readerVars
<1>2. /\ Recorded \in Nat /\ Recorded' \in Nat /\ Recorded <= Recorded'
      /\ \A k \in 0 .. Recorded : Story(telemetry')[k] = Story(telemetry)[k]
  BY StoryIsKept DEF ReplayInv
<1>3. ReaderInv /\ taken \in 0 .. Recorded
  BY DEF ReplayInv, ReaderInv
<1>4. taken' \in 0 .. Recorded'
  BY <1>1, <1>2, <1>3
<1>5. Account(taken)' = Account(taken)
  BY <1>1, <1>2, <1>3 DEF Account
<1>6. taken # 0 => Account(taken - 1)' = Account(taken - 1)
  <2>1. taken # 0 => taken - 1 \in 0 .. Recorded
    BY <1>2, <1>3
  <2> QED
    BY <1>1, <1>2, <2>1 DEF Account
<1> QED
  BY <1>1, <1>3, <1>4, <1>5, <1>6 DEF ReaderInv, HasTaken

(* What is known of the records a replay has taken.                        *)
LEMMA TakenTyped ==
  ASSUME ReplayInv
  PROVE  /\ Recorded \in Nat /\ taken \in 0 .. Recorded
         /\ \A k \in 0 .. Recorded : Account(k).out \in Seq(Entries) /\ Typed(Account(k))
         /\ \A j, k \in 0 .. Recorded : j <= k => IsPrefix(Account(j).out, Account(k).out)
         /\ taken # 0 => /\ taken - 1 \in 0 .. Recorded
                         /\ telemetry[taken] \in Records
                         /\ Account(taken) = After(Account(taken - 1), telemetry[taken])
<1>1. Recorded \in Nat /\ taken \in 0 .. Recorded
  BY AccountsTyped DEF ReplayInv, ReaderInv
<1>2. telemetry \in Seq(Records) /\ HasStory(telemetry) /\ Grows(telemetry)
  BY DEF ReplayInv, StoryInv, Settled
<1>3. \A k \in 0 .. Recorded : Account(k).out \in Seq(Entries) /\ Typed(Account(k))
  BY <1>2 DEF Grows, Typed, Account, Recorded
<1>4. \A j, k \in 0 .. Recorded : j <= k => IsPrefix(Account(j).out, Account(k).out)
  BY <1>2 DEF Grows, Account, Recorded
<1>5. taken # 0 => taken - 1 \in 0 .. Recorded /\ taken \in 1 .. Recorded
  BY <1>1
<1>6. \A k \in 1 .. Recorded :
        telemetry[k] \in Records /\ Account(k) = After(Account(k - 1), telemetry[k])
  <2>1. IsStory(Story(telemetry), telemetry)
    BY <1>2 DEF HasStory
  <2>2. Len(telemetry) \in Nat /\ \A k \in 1 .. Recorded : telemetry[k] \in Records
    BY <1>2 DEF Recorded
  <2> QED
    BY <2>1, <2>2, StoryPoints DEF Recorded, Account
<1> QED
  BY <1>1, <1>3, <1>4, <1>5, <1>6

(* A step of the replay.                                                   *)
LEMMA ReaderStep ==
  ASSUME ReplayInv, Replay
  PROVE  ReaderInv'
<1>1. UNCHANGED <<vars, telemetry>>
  BY DEF Replay, ReplayStarts, Take, EndOfFile, ReplayRefuses, ReplayPacket, ReplayInterrupted, vars
<1>2. Recorded' = Recorded
  BY <1>1 DEF Recorded
<1>3. ReaderInv
  BY DEF ReplayInv
<1>4. ASSUME NEW k \in 0 .. Recorded PROVE Account(k)' = Account(k)
  BY <1>1 DEF Account
<1>5. CASE ReplayStarts
  <2>1. /\ reader = "idle" /\ reader' \in {"refused", "reading"}
        /\ UNCHANGED <<taken, replayed, printed, length>>
    BY <1>5 DEF ReplayStarts
  <2>2. Account(taken)' = Account(taken)
    BY <1>1, <2>1 DEF Account
  <2> QED
    BY <1>2, <1>3, <2>1, <2>2 DEF ReaderInv, HasTaken, Readers
<1>6. CASE Take
  <2>1. /\ reader = "reading" /\ reader' = "holding" /\ taken < Recorded /\ taken' = taken + 1
        /\ UNCHANGED <<replayed, printed, length>>
    BY <1>6 DEF Take, Recorded
  <2>2. taken + 1 \in 0 .. Recorded /\ taken + 1 # 0 /\ (taken + 1) - 1 = taken /\ taken <= taken + 1
    BY <2>1, TakenTyped
  <2>3. Account(taken - 1)' = Account(taken) /\ Account(taken)' = Account(taken + 1)
    BY <1>1, <2>1, <2>2 DEF Account
  <2>4. IsPrefix(printed, Account(taken + 1).out)
    BY <1>3, <2>1, <2>2, TakenTyped DEF ReaderInv, HasTaken
  <2> QED
    BY <1>2, <1>3, <2>1, <2>2, <2>3, <2>4 DEF ReaderInv, HasTaken, Readers
<1>7. CASE EndOfFile
  <2>1. /\ reader = "reading" /\ reader' = "ended" /\ taken = Recorded /\ length' = Recorded
        /\ UNCHANGED <<taken, replayed, printed>>
    BY <1>7 DEF EndOfFile, Recorded
  <2>2. Account(taken)' = Account(taken)
    BY <1>1, <2>1 DEF Account
  <2> QED
    BY <1>2, <1>3, <2>1, <2>2 DEF ReaderInv, HasTaken, Readers
<1>8. CASE ReplayRefuses
  <2>1. /\ reader = "holding" /\ reader' = "refused"
        /\ UNCHANGED <<taken, replayed, printed, length>>
    BY <1>8 DEF ReplayRefuses
  <2>2. Account(taken)' = Account(taken)
    BY <1>1, <2>1 DEF Account
  <2> QED
    BY <1>2, <1>3, <2>1, <2>2 DEF ReaderInv, HasTaken, Readers
<1> DEFINE d == telemetry[taken]
           line == Stamped(d, Transitions(replayed, d))
<1>9. ASSUME reader = "holding", d # Garbage
      PROVE  /\ Account(taken) = [engine |-> NextState(replayed, d), out |-> printed \o line]
             /\ line \in Seq(Entries) /\ printed \in Seq(Entries)
  <2>1. taken # 0 /\ replayed = Account(taken - 1).engine /\ printed = Account(taken - 1).out
    BY <1>3, <1>9 DEF ReaderInv, HasTaken
  <2>2. /\ Account(taken) = After(Account(taken - 1), d) /\ d \in Records
        /\ Typed(Account(taken - 1))
    BY <2>1, TakenTyped
  <2>3. Transitions(replayed, d) \in Seq(Told) /\ printed \in Seq(Entries)
    BY <2>1, <2>2, TransitionsAreTold DEF Typed
  <2>4. line \in Seq(Entries)
    BY <2>2, <2>3, StampedTyped
  <2> QED
    BY <1>9, <2>1, <2>2, <2>3, <2>4 DEF After
<1>10. CASE ReplayPacket
  <2>1. /\ reader = "holding" /\ reader' = "reading" /\ d # Garbage
        /\ printed' = printed \o line /\ replayed' = NextState(replayed, d)
        /\ UNCHANGED <<taken, length>>
    BY <1>10 DEF ReplayPacket, Lines
  <2>2. Account(taken)' = Account(taken)
    BY <1>1, <2>1 DEF Account
  <2>3. HasTaken(taken)'
    <3>1. /\ Account(taken).engine = NextState(replayed, d)
          /\ Account(taken).out = printed \o line
      BY <1>9, <2>1
    <3> QED
      BY <2>1, <2>2, <3>1 DEF HasTaken
  <2>4. printed' \in Seq(Entries) /\ IsPrefix(printed', Account(taken)'.out)
    <3>1. printed' = Account(taken).out /\ printed' \in Seq(Entries)
      BY <2>2, <2>3, TakenTyped DEF HasTaken
    <3> QED
      BY <2>2, <3>1, PrefixOrder
  <2> QED
    BY <1>2, <1>3, <2>1, <2>3, <2>4 DEF ReaderInv, Readers
<1>11. CASE ReplayInterrupted
  <2>1. /\ reader \in {"reading", "holding"} /\ reader' = "interrupted"
        /\ UNCHANGED <<taken, replayed, length>>
        /\ \/ /\ reader = "holding" /\ d # Garbage
              /\ \E k \in 0 .. Len(line) : printed' = printed \o SubSeq(line, 1, k)
           \/ printed' = printed
    BY <1>11 DEF ReplayInterrupted, Lines
  <2>2. Account(taken)' = Account(taken)
    BY <1>1, <2>1 DEF Account
  <2>3. printed' \in Seq(Entries) /\ IsPrefix(printed', Account(taken).out)
    <3>1. CASE printed' = printed
      BY <1>3, <3>1 DEF ReaderInv
    <3>2. CASE /\ reader = "holding" /\ d # Garbage
               /\ \E k \in 0 .. Len(line) : printed' = printed \o SubSeq(line, 1, k)
      <4>1. PICK k \in 0 .. Len(line) : printed' = printed \o SubSeq(line, 1, k)
        BY <3>2
      <4>2. /\ Account(taken).out = printed \o line
            /\ line \in Seq(Entries) /\ printed \in Seq(Entries)
        BY <1>9, <3>2
      <4> HIDE DEF line, d
      <4>3. SubSeq(line, 1, k) \in Seq(Entries) /\ Len(SubSeq(line, 1, k)) = k
            /\ \A i \in 1 .. k : SubSeq(line, 1, k)[i] = line[i]
        BY <4>2
      <4> DEFINE part == SubSeq(line, 1, k)
      <4>4. part \in Seq(Entries) /\ IsPrefix(part, line)
        <5>1. Len(part) <= Len(line) /\ \A i \in 1 .. Len(part) : part[i] = line[i]
          BY <4>2, <4>3
        <5> QED
          BY <4>2, <4>3, <5>1, PrefixIs
      <4> HIDE DEF part
      <4>5. printed \o part \in Seq(Entries) /\ IsPrefix(printed \o part, printed \o line)
        BY <4>2, <4>4, PrefixConcat
      <4> QED
        BY <4>1, <4>2, <4>5 DEF part
    <3> QED
      BY <2>1, <3>1, <3>2
  <2> QED
    BY <1>2, <1>3, <2>1, <2>2, <2>3 DEF ReaderInv, Readers
<1> QED
  BY <1>5, <1>6, <1>7, <1>8, <1>10, <1>11 DEF Replay

(* The two of them agree.                                                  *)
LEMMA ReplaysAgree ==
  ASSUME ReplayInv
  PROVE  ReplayAgreesWithLog
<1> DEFINE log == Logged(alarmLog)
           all == Account(Recorded).out
<1>1. /\ log \in Seq(Entries) /\ IsPrefix(log, all)
      /\ printed \in Seq(Entries) /\ IsPrefix(printed, Account(taken).out)
  BY DEF ReplayInv, StoryInv, Follows, ReaderInv
<1>2. Recorded \in 0 .. Recorded /\ taken \in 0 .. Recorded /\ taken <= Recorded
  BY TakenTyped
<1>3. all \in Seq(Entries) /\ IsPrefix(printed, all)
  <2>1. /\ all \in Seq(Entries) /\ Account(taken).out \in Seq(Entries)
        /\ IsPrefix(Account(taken).out, all)
    BY <1>2, TakenTyped
  <2> HIDE DEF all
  <2> QED
    BY <1>1, <2>1, PrefixOrder
<1>4. reader = "ended" /\ length = Len(telemetry) => printed = all
  BY DEF ReplayInv, ReaderInv, HasTaken, Recorded
<1> HIDE DEF log, all
<1>5. IsPrefix(printed, log) \/ IsPrefix(log, printed)
  BY <1>1, <1>3, PrefixOrder
<1> QED
  BY <1>1, <1>4, <1>5, LoggedIs DEF ReplayAgreesWithLog, log

(* In every behaviour of a listener and a replay beside it.                *)
THEOREM ReplayCorrect == ReplaySpec => []ReplayInv
<1>1. ReplayInit => ReplayInv
  <2> SUFFICES ASSUME ReplayInit PROVE ReplayInv
    OBVIOUS
  <2>1. ListenerInv /\ StoryInv /\ telemetry = <<>>
    BY ListenerInit, StoryInit DEF ReplayInit, Init
  <2>2. Recorded = 0 /\ Account(0) = Opening
    BY <2>1, StoryBegins DEF Recorded, Account
  <2>3. printed = <<>> /\ replayed = Fresh /\ taken = 0 /\ reader = "idle"
    BY DEF ReplayInit
  <2>4. HasTaken(taken)
    BY <2>2, <2>3 DEF HasTaken, Opening
  <2>5. printed \in Seq(Entries) /\ IsPrefix(printed, Account(taken).out)
    BY <2>2, <2>3, NothingIsTold DEF Opening
  <2> QED
    BY <2>1, <2>2, <2>3, <2>4, <2>5 DEF ReplayInv, ReaderInv, Readers
<1>2. ReplayInv /\ [ReplayNext]_replayVars => ReplayInv'
  <2> SUFFICES ASSUME ReplayInv, [ReplayNext]_replayVars PROVE ReplayInv'
    OBVIOUS
  <2>1. [Next]_vars
    BY DEF ReplayNext, Replay, ReplayStarts, Take, EndOfFile, ReplayRefuses, ReplayPacket,
           ReplayInterrupted, replayVars
  <2>2. ListenerInv' /\ StoryInv'
    BY <2>1, ListenerMoves, StoryMoves DEF ReplayInv
  <2>3. UNCHANGED readerVars \/ Replay
    BY DEF ReplayNext, replayVars
  <2>4. ReaderInv'
    BY <2>1, <2>3, ReaderWaits, ReaderStep
  <2> QED
    BY <2>2, <2>4 DEF ReplayInv
<1> QED
  BY <1>1, <1>2, PTL DEF ReplaySpec

(* The alarms a replay prints are those of the log, as far as both have    *)
(* come, whatever ended either of them.                                    *)
THEOREM ReplayAgrees == ReplaySpec => []ReplayAgreesWithLog
  BY ReplayCorrect, ReplaysAgree, PTL

-----------------------------------------------------------------------------
(* The inspector and the log of a listener that had stopped before it.     *)

(* The alarm lane was read, and found to load.                             *)
AlarmsRead == step \in {"link"} \cup Writing \/ outcome \in Verdicts

(* A listener that had stopped has still stopped, so what was read of its  *)
(* log is what the log is.                                                 *)
EvidenceInv ==
  /\ ListenerInv /\ FileInv
  /\ quiet => phase \in Stopped
  /\ quiet /\ selection.alarm /\ AlarmsRead => LoadAccepts(alarmLog)

(* The loader of the inspector is the loader of the alarm log.             *)
LEMMA SameLoader == \A log : Alarm!LoadAccepts(log) <=> LoadAccepts(log)
<1>1. \A log : Alarm!IsComplete(log) <=> IsComplete(log)
  BY DEF Alarm!IsComplete, IsComplete
<1>2. \A log : Alarm!StatisticsFromEvents(log) = StatisticsFromEvents(log)
  BY DEF Alarm!StatisticsFromEvents, Alarm!TransitionTypes, StatisticsFromEvents, TransitionTypes,
         Alarm!Cardinality, Cardinality
<1> QED
  BY <1>1, <1>2 DEF Alarm!LoadAccepts, LoadAccepts

(* A torn log that was completed is one the loader refuses.                *)
LEMMA TornLogs ==
  ASSUME ListenerInv, Torn, IsComplete(alarmLog)
  PROVE  ~LoadAccepts(alarmLog)
<1>1. phase \in {"start"} \cup Looping => ~Torn
  BY DEF ListenerInv, RecorderInv, Torn, Nothing, Recording
<1>2. phase \in {"unwind", "killed"} => ~IsComplete(alarmLog)
  BY OpenLoads DEF ListenerInv, ListenerType, RecorderInv, LeftInv
<1>3. phase = "stopped" => ~LoadAccepts(alarmLog)
  BY DEF ListenerInv, LeftInv
<1>4. phase = "failed" => ~LoadAccepts(alarmLog)
  BY OpenLoads DEF ListenerInv, ListenerType, LeftInv
<1>5. phase \in {"start", "stopped", "failed", "killed", "unwind"} \cup Looping
  BY DEF ListenerInv, ListenerType, Phases, Stopped
<1> QED
  BY <1>1, <1>2, <1>3, <1>4, <1>5

(* A listener that has stopped does nothing.                               *)
LEMMA StoppedStays == phase \in Stopped => ~Next
  BY DEF Stopped, Next, Thread, Start, Receive, Record, Reject, Process, WriteEvent, Flush,
         CountIndex, CountTransition, Interrupt, Looping, Recording, Close, Kill

(* One step of the listener or the command.                                *)
LEMMA EvidenceStep == EvidenceInv /\ [InspectionNext]_<<vars, command>> => EvidenceInv'
<1> SUFFICES ASSUME EvidenceInv, [InspectionNext]_<<vars, command>> PROVE EvidenceInv'
  OBVIOUS
<1>1. FileInv'
  BY FileStep DEF EvidenceInv
<1>2. ListenerInv'
  <2>1. [Next]_vars
    BY DEF InspectionNext, ListenerStep
  <2> QED
    BY <2>1, ListenerMoves DEF EvidenceInv
<1>3. CASE ListenerStep
  <2>1. ~quiet /\ ~quiet'
    BY <1>3, StoppedStays DEF ListenerStep, EvidenceInv, command, lanes
  <2> QED
    BY <1>1, <1>2, <2>1 DEF EvidenceInv
<1>4. CASE CommandStep /\ UNCHANGED vars
  <2>1. UNCHANGED <<phase, alarmLog>>
    BY <1>4 DEF vars, recorder
  <2>2. CASE \E s \in Selections : Begin(s)
    <3>1. /\ quiet' => phase \in Stopped
          /\ step' = "telemetry" /\ outcome' = outcome /\ outcome = "none"
      BY <2>2 DEF Begin, EvidenceInv, FileInv, OutcomeInv, Reading
    <3>2. ~AlarmsRead'
      BY <3>1 DEF AlarmsRead, Writing, Verdicts
    <3> QED
      BY <1>1, <1>2, <2>1, <3>1, <3>2 DEF EvidenceInv
  <2>3. CASE LoadAlarms
    <3>1. /\ quiet' = quiet /\ selection' = selection
          /\ outcome = "none"
      BY <2>3 DEF LoadAlarms, FailReading, lanes, EvidenceInv, FileInv, OutcomeInv, Reading, Loading
    <3>2. ASSUME selection.alarm, AlarmsRead' PROVE LoadAccepts(alarmLog)
      <4>1. seenAlarms' = Provided(alarmLog) /\ AlarmLaneLoads(seenAlarms')
        BY <2>3, <3>1, <3>2 DEF LoadAlarms, FailReading, AlarmsRead, Writing, Verdicts
      <4>2. Alarm!LoadAccepts(alarmLog)
        BY <4>1 DEF AlarmLaneLoads, Provided
      <4> QED
        BY <4>2, SameLoader
    <3> QED
      BY <1>1, <1>2, <2>1, <3>1, <3>2 DEF EvidenceInv, LoadAccepts, IsComplete, StatisticsFromEvents
  <2>4. CASE \/ (\E s \in Selections : Refuse(s)) \/ LoadTelemetry \/ LoadLink
             \/ CreateTemporary \/ NameTemporary \/ WriteTemporary \/ Replace \/ Finish
             \/ CleanUp \/ InterruptCommand \/ InterruptCleanUp \/ KillCommand
    <3>1. UNCHANGED <<quiet, selection>>
      BY <2>4 DEF Refuse, LoadTelemetry, LoadLink, FailReading, CreateTemporary, NameTemporary,
                  WriteTemporary, Replace, Finish, CleanUp, InterruptCommand, InterruptCleanUp,
                  KillCommand, Fail, lanes
    <3>2. AlarmsRead' => AlarmsRead
      BY <2>4 DEF Refuse, LoadTelemetry, LoadLink, FailReading, CreateTemporary, NameTemporary,
                  WriteTemporary, Replace, Finish, CleanUp, InterruptCommand, InterruptCleanUp,
                  KillCommand, Fail, AlarmsRead, Writing, Verdicts
    <3> QED
      BY <1>1, <1>2, <2>1, <3>1, <3>2 DEF EvidenceInv
  <2> QED
    BY <1>4, <2>2, <2>3, <2>4 DEF CommandStep
<1>5. CASE UNCHANGED <<vars, command>>
  BY <1>1, <1>2, <1>5 DEF EvidenceInv, AlarmsRead, vars, recorder, command, lanes
<1> QED
  BY <1>3, <1>4, <1>5 DEF InspectionNext

(* In every behaviour of the inspector.                                    *)
THEOREM EvidenceCorrect == InspectionSpec => []EvidenceInv
<1>1. InspectionInit => EvidenceInv
  BY ListenerInit, FileInit DEF InspectionInit, EvidenceInv
<1> QED
  BY <1>1, EvidenceStep, PTL DEF InspectionSpec

(* A torn log, once it was closed, is never taken for evidence: whatever   *)
(* the listener recorded and wherever in the recorder it was torn.         *)
THEOREM TornLogsCorrect == InspectionSpec => []TornLogsAreRejected
<1>1. EvidenceInv => TornLogsAreRejected
  <2> SUFFICES ASSUME EvidenceInv, outcome \in Verdicts, selection.alarm, quiet,
                      Torn, IsComplete(alarmLog)
               PROVE  FALSE
    BY DEF TornLogsAreRejected
  <2>1. LoadAccepts(alarmLog)
    BY DEF EvidenceInv, AlarmsRead
  <2> QED
    BY <2>1, TornLogs DEF EvidenceInv
<1> QED
  BY <1>1, EvidenceCorrect, PTL

-----------------------------------------------------------------------------
(* What the records of a recording have to do with the alarms of its story.*)

(* The decoded records that do not follow the one before them.             *)
Mismatched(records) ==
  {j \in Decoded(records) : \E i \in Decoded(records) :
     /\ IsNext(records, i, j)
     /\ records[j].sequence # (records[i].sequence + 1) % SequenceModulus}

GapAlarms(out) == {k \in DOMAIN out : out[k][2].identity = "sequence-gap"}

(* The sequence number an engine remembers is that of the last decoded     *)
(* record.                                                                 *)
Remembers(records, last) ==
  \/ Decoded(records) = {} /\ last = NoSequence
  \/ \E i \in Decoded(records) :
       (\A k \in Decoded(records) : k <= i) /\ last = records[i].sequence

Balanced(records, account) ==
  /\ Remembers(records, account.engine.last)
  /\ DetectGaps => Cardinality(GapAlarms(account.out)) = Cardinality(Mismatched(records))

(* A gap is told first, and nothing else of a packet's story is a gap.     *)
LEMMA GapsAreTold ==
  ASSUME NEW s, s.temperature \in Severities, NEW packet, NEW q, q = Transitions(s, packet)
  PROVE  /\ q \in Seq(Told)
         /\ \A i \in DOMAIN q :
              q[i].identity = "sequence-gap" <=> i = 1 /\ IsGap(s.last, packet.sequence)
         /\ IsGap(s.last, packet.sequence) => 1 \in DOMAIN q
<1> DEFINE next == NextState(s, packet)
           G == IsGap(s.last, packet.sequence)
           gap == IF G THEN <<Transition("sequence-gap", "raised", "warning")>> ELSE <<>>
           temperature == TemperatureTransitions(s.temperature, next.temperature)
           battery == SwitchTransitions("battery", s.battery, next.battery, "critical")
           safe == SwitchTransitions("safe-mode", s.safe, next.safe, "warning")
           Others == {t \in Told : t.identity # "sequence-gap"}
<1>1. q \in Seq(Told) /\ next.temperature \in Severities
  BY TransitionsAreTold
<1>2. q = ((gap \o temperature) \o battery) \o safe
  BY DEF Transitions
<1>3. ASSUME NEW d \in Identities \ {"sequence-gap"}, NEW type \in TransitionTypes,
             NEW severity \in Severities
      PROVE  <<Transition(d, type, severity)>> \in Seq(Others)
  <2>1. Transition(d, type, severity) \in Others
    BY DEF Transition, Told
  <2> QED
    BY <2>1
<1>4. temperature \in Seq(Others)
  <2>1. /\ "temperature" \in Identities \ {"sequence-gap"}
        /\ "raised" \in TransitionTypes /\ "cleared" \in TransitionTypes
        /\ "updated" \in TransitionTypes
    BY DEF Identities, TransitionTypes
  <2>2. \/ temperature = <<>>
        \/ temperature = <<Transition("temperature", "raised", next.temperature)>>
        \/ temperature = <<Transition("temperature", "cleared", s.temperature)>>
        \/ temperature = <<Transition("temperature", "updated", next.temperature)>>
    BY DEF TemperatureTransitions
  <2>3. <<>> \in Seq(Others)
    OBVIOUS
  <2> HIDE DEF temperature, Others
  <2> QED
    BY <1>1, <1>3, <2>1, <2>2, <2>3
<1>5. ASSUME NEW d \in Identities \ {"sequence-gap"}, NEW severity \in Severities, NEW old, NEW new
      PROVE  SwitchTransitions(d, old, new, severity) \in Seq(Others)
  <2>1. (IF new THEN "raised" ELSE "cleared") \in TransitionTypes
    BY DEF TransitionTypes
  <2>2. <<>> \in Seq(Others)
    OBVIOUS
  <2> HIDE DEF Others
  <2> QED
    BY <1>3, <2>1, <2>2 DEF SwitchTransitions
<1>6. battery \in Seq(Others) /\ safe \in Seq(Others)
  <2>1. /\ "battery" \in Identities \ {"sequence-gap"} /\ "safe-mode" \in Identities \ {"sequence-gap"}
        /\ "warning" \in Severities /\ "critical" \in Severities
    BY DEF Identities, Severities
  <2> HIDE DEF Others
  <2> QED
    BY <1>5, <2>1
<1> DEFINE first == Transition("sequence-gap", "raised", "warning")
<1>7. first \in Told /\ first.identity = "sequence-gap" /\ <<first>> \in Seq(Told)
  BY DEF Transition, Told, Identities, TransitionTypes, Severities
<1>8. /\ \A t \in Seq(Others) : t \in Seq(Told) /\ \A i \in DOMAIN t : t[i].identity # "sequence-gap"
      /\ \A t \in Seq(Others), u \in Seq(Others) : t \o u \in Seq(Others)
      /\ Others \subseteq Told
  OBVIOUS
<1> HIDE DEF temperature, battery, safe, next, Others, first
<1> DEFINE rest == (temperature \o battery) \o safe
<1>9. rest \in Seq(Others)
  BY <1>4, <1>6, <1>8
<1>10. gap \in Seq(Told) /\ temperature \in Seq(Told) /\ battery \in Seq(Told) /\ safe \in Seq(Told)
  <2>1. gap \in Seq(Told)
    BY <1>7 DEF first
  <2> QED
    BY <1>4, <1>6, <1>8, <2>1
<1> HIDE DEF gap
<1>11. q = gap \o rest
  <2>1. (gap \o temperature) \o battery = gap \o (temperature \o battery)
    BY <1>10, ConcatAssociative
  <2>2. temperature \o battery \in Seq(Told)
    BY <1>10, ConcatProperties
  <2>3. (gap \o (temperature \o battery)) \o safe = gap \o rest
    BY <1>10, <2>2, ConcatAssociative, SMTT(30)
  <2> QED
    BY <1>2, <2>1, <2>3
<1>12. rest \in Seq(Told) /\ \A i \in DOMAIN rest : rest[i].identity # "sequence-gap"
  BY <1>8, <1>9
<1> HIDE DEF rest
<1>13. CASE G
  <2>1. gap = <<first>>
    BY <1>13 DEF gap, first
  <2>2. /\ DOMAIN q = 1 .. 1 + Len(rest) /\ Len(rest) \in Nat
        /\ q[1] = first
        /\ \A i \in 2 .. 1 + Len(rest) : q[i] = rest[i - 1] /\ i - 1 \in DOMAIN rest
    BY <1>7, <1>11, <1>12, <2>1
  <2>3. ASSUME NEW i \in DOMAIN q PROVE q[i].identity = "sequence-gap" <=> i = 1
    <3>1. i = 1 \/ i \in 2 .. 1 + Len(rest)
      BY <2>2
    <3> QED
      BY <1>7, <1>12, <2>2, <3>1
  <2>4. 1 \in DOMAIN q
    BY <2>2
  <2> QED
    BY <1>1, <1>13, <2>3, <2>4
<1>14. CASE ~G
  <2>1. q = rest
    BY <1>10, <1>11, <1>12, <1>14, ConcatEmptySeq DEF gap
  <2> QED
    BY <1>1, <1>12, <1>14, <2>1
<1> QED
  BY <1>13, <1>14


(* A datagram more, decoded or rejected.                                   *)
LEMMA DecodedGrows ==
  ASSUME NEW records \in Seq(Datagrams), NEW d \in Datagrams
  PROVE  /\ Decoded(records) \subseteq 1 .. Len(records)
         /\ Len(records) \in Nat /\ Len(records) + 1 \notin Decoded(records)
         /\ Append(records, d)[Len(records) + 1] = d
         /\ \A i \in Decoded(records) : Append(records, d)[i] = records[i]
         /\ d = Garbage => Decoded(Append(records, d)) = Decoded(records)
         /\ d # Garbage =>
              Decoded(Append(records, d)) = Decoded(records) \cup {Len(records) + 1}
<1> DEFINE n == Len(records)
           longer == Append(records, d)
<1>1. /\ n \in Nat /\ DOMAIN records = 1 .. n /\ DOMAIN longer = 1 .. n + 1
      /\ \A i \in 1 .. n : longer[i] = records[i]
      /\ longer[n + 1] = d
  OBVIOUS
<1> HIDE DEF n, longer
<1>2. Decoded(records) \subseteq 1 .. n /\ n + 1 \notin Decoded(records)
  BY <1>1 DEF Decoded
<1>3. ASSUME NEW i PROVE i \in Decoded(longer) <=> i \in Decoded(records) \/ (i = n + 1 /\ d # Garbage)
  <2>1. i \in 1 .. n + 1 <=> i \in 1 .. n \/ i = n + 1
    BY <1>1
  <2>2. n + 1 \notin 1 .. n
    BY <1>1
  <2> QED
    BY <1>1, <2>1, <2>2 DEF Decoded
<1>4. \A i \in Decoded(records) : longer[i] = records[i]
  BY <1>1, <1>2
<1>5. /\ d = Garbage => Decoded(longer) = Decoded(records)
      /\ d # Garbage => Decoded(longer) = Decoded(records) \cup {n + 1}
  BY <1>3
<1> QED
  BY <1>1, <1>2, <1>4, <1>5 DEF n, longer

(* A sequence number that was decoded is one.                              *)
LEMMA SequencesAreNumbers ==
  ASSUME NEW records \in Seq(Datagrams), NEW i \in Decoded(records)
  PROVE  records[i].sequence \in 0 .. SequenceModulus - 1 /\ records[i].sequence # NoSequence
<1>1. records[i] \in Datagrams \ {Garbage}
  BY DEF Decoded
<1>2. records[i].sequence \in 0 .. SequenceModulus - 1
  BY <1>1, ListenerAssumption
<1>3. \A x \in 0 .. SequenceModulus - 1 : x # NoSequence
  BY ModulusAssumption DEF NoSequence
<1> QED
  BY <1>2, <1>3

(* It mismatches exactly if its packet does not follow what was remembered.*)
LEMMA MismatchGrows ==
  ASSUME NEW records \in Seq(Datagrams), NEW d \in Datagrams, d # Garbage,
         NEW last, Remembers(records, last)
  PROVE  /\ Remembers(Append(records, d), d.sequence)
         /\ Mismatched(Append(records, d)) =
              IF last # NoSequence /\ d.sequence # (last + 1) % SequenceModulus
              THEN Mismatched(records) \cup {Len(records) + 1} ELSE Mismatched(records)
<1> DEFINE n == Len(records)
           D == Decoded(records)
           longer == Append(records, d)
<1>1. /\ D \subseteq 1 .. n /\ n \in Nat /\ n + 1 \notin D
      /\ longer[n + 1] = d
      /\ \A i \in D : longer[i] = records[i]
      /\ Decoded(longer) = D \cup {n + 1}
  BY DecodedGrows
<1> HIDE DEF n, longer
<1>2. Remembers(longer, d.sequence)
  <2>1. \A k \in Decoded(longer) : k <= n + 1
    BY <1>1
  <2> QED
    BY <1>1, <2>1 DEF Remembers
<1>3. \A i, j \in D : IsNext(longer, i, j) <=> IsNext(records, i, j)
  <2> SUFFICES ASSUME NEW i \in D, NEW j \in D
               PROVE  IsNext(longer, i, j) <=> IsNext(records, i, j)
    OBVIOUS
  <2>1. j <= n + 1
    BY <1>1
  <2> QED
    BY <1>1, <2>1 DEF IsNext
<1>4. \A i \in D : ~IsNext(longer, n + 1, i)
  BY <1>1 DEF IsNext
<1>5. \A j \in D : j \in Mismatched(longer) <=> j \in Mismatched(records)
  BY <1>1, <1>3, <1>4 DEF Mismatched
<1>6. n + 1 \in Mismatched(longer) <=>
        last # NoSequence /\ d.sequence # (last + 1) % SequenceModulus
  <2>1. CASE D = {} /\ last = NoSequence
    <3>1. \A i \in Decoded(longer) : ~IsNext(longer, i, n + 1)
      BY <1>1, <2>1 DEF IsNext
    <3> QED
      BY <2>1, <3>1 DEF Mismatched
  <2>2. ASSUME NEW i \in D, \A k \in D : k <= i, last = records[i].sequence
        PROVE  n + 1 \in Mismatched(longer) <=>
                 last # NoSequence /\ d.sequence # (last + 1) % SequenceModulus
    <3>1. last # NoSequence
      BY <2>2, SequencesAreNumbers
    <3>2. i < n + 1 /\ IsNext(longer, i, n + 1)
      BY <1>1, <2>2 DEF IsNext
    <3>3. ASSUME NEW j \in Decoded(longer), IsNext(longer, j, n + 1) PROVE j = i
      <4>1. j \in D /\ j \in 1 .. n /\ i \in 1 .. n
        BY <1>1, <3>3 DEF IsNext
      <4>2. i <= j /\ j <= i
        BY <1>1, <2>2, <3>2, <3>3, <4>1 DEF IsNext
      <4> QED
        BY <1>1, <4>1, <4>2
    <3>4. longer[i].sequence = last /\ longer[n + 1].sequence = d.sequence
      BY <1>1, <2>2
    <3> QED
      BY <1>1, <3>1, <3>2, <3>3, <3>4 DEF Mismatched
  <2> QED
    BY <2>1, <2>2 DEF Remembers
<1>7. Mismatched(longer) \subseteq D \cup {n + 1} /\ Mismatched(records) \subseteq D
  BY <1>1 DEF Mismatched
<1> DEFINE G == last # NoSequence /\ d.sequence # (last + 1) % SequenceModulus
<1> HIDE DEF G, D
<1>8. Mismatched(longer) = IF G THEN Mismatched(records) \cup {n + 1} ELSE Mismatched(records)
  <2>1. n + 1 \in Mismatched(longer) <=> G
    BY <1>6 DEF G
  <2>2. n + 1 \notin Mismatched(records)
    BY <1>1, <1>7
  <2> DEFINE M == Mismatched(records)
             L == Mismatched(longer)
             m == n + 1
  <2>3. \A j \in D : j \in L <=> j \in M
    BY <1>5
  <2>4. L \subseteq D \cup {m} /\ M \subseteq D
    BY <1>7
  <2> HIDE DEF M, L, m
  <2>5. (m \in L <=> G) /\ m \notin M
    BY <2>1, <2>2 DEF M, L, m
  <2>6. CASE G
    <3>1. L = M \cup {m}
      BY <2>3, <2>4, <2>5, <2>6
    <3> QED
      BY <2>6, <3>1 DEF M, L, m
  <2>7. CASE ~G
    <3>1. L = M
      BY <2>3, <2>4, <2>5, <2>7
    <3> QED
      BY <2>7, <3>1 DEF M, L, m
  <2> QED
    BY <2>6, <2>7
<1> QED
  BY <1>2, <1>8 DEF n, longer, G

(* What a rejected datagram changes: nothing.                              *)
LEMMA MismatchStays ==
  ASSUME NEW records \in Seq(Datagrams), Garbage \in Datagrams,
         NEW last, Remembers(records, last)
  PROVE  /\ Remembers(Append(records, Garbage), last)
         /\ Mismatched(Append(records, Garbage)) = Mismatched(records)
<1> DEFINE longer == Append(records, Garbage)
<1>1. /\ Decoded(longer) = Decoded(records)
      /\ \A i \in Decoded(records) : longer[i] = records[i]
  BY DecodedGrows
<1> HIDE DEF longer
<1>2. Remembers(longer, last)
  BY <1>1 DEF Remembers
<1>3. \A i, j : IsNext(longer, i, j) <=> IsNext(records, i, j)
  BY <1>1 DEF IsNext
<1>4. Mismatched(longer) = Mismatched(records)
  BY <1>1, <1>3 DEF Mismatched
<1> QED
  BY <1>2, <1>4 DEF longer

(* The gaps among the alarms of one packet more.                           *)
LEMMA GapAlarmsGrow ==
  ASSUME NEW out \in Seq(Entries), NEW d \in Records, NEW s, s.temperature \in Severities
  PROVE  /\ GapAlarms(out) \subseteq 1 .. Len(out) /\ Len(out) \in Nat
         /\ GapAlarms(out \o Stamped(d, Transitions(s, d))) =
              IF IsGap(s.last, d.sequence) THEN GapAlarms(out) \cup {Len(out) + 1}
              ELSE GapAlarms(out)
<1> DEFINE n == Len(out)
           q == Transitions(s, d)
           line == Stamped(d, q)
           longer == out \o line
           G == IsGap(s.last, d.sequence)
<1>1. /\ q \in Seq(Told)
      /\ \A i \in DOMAIN q : q[i].identity = "sequence-gap" <=> i = 1 /\ G
      /\ G => 1 \in DOMAIN q
  BY GapsAreTold
<1> HIDE DEF q, G
<1>2. /\ line \in Seq(Entries) /\ Len(line) = Len(q)
      /\ \A i \in 1 .. Len(q) : line[i] = <<d.sequence, q[i]>>
  BY <1>1, StampedTyped
<1> HIDE DEF line
<1>3. /\ n \in Nat /\ Len(q) \in Nat /\ DOMAIN out = 1 .. n /\ DOMAIN q = 1 .. Len(q)
      /\ longer \in Seq(Entries) /\ DOMAIN longer = 1 .. n + Len(q)
      /\ \A i \in 1 .. n : longer[i] = out[i]
      /\ \A i \in 1 .. Len(q) : longer[n + i] = line[i]
  <2>1. n \in Nat /\ Len(q) \in Nat /\ DOMAIN out = 1 .. n /\ DOMAIN q = 1 .. Len(q)
    BY <1>1
  <2>2. /\ longer \in Seq(Entries) /\ Len(longer) = n + Len(q)
        /\ \A i \in 1 .. n + Len(q) : longer[i] = IF i <= n THEN out[i] ELSE line[i - n]
    <3>1. /\ longer \in Seq(Entries) /\ Len(longer) = Len(out) + Len(line)
          /\ \A i \in 1 .. Len(out) + Len(line) :
               longer[i] = IF i <= Len(out) THEN out[i] ELSE line[i - Len(out)]
      <4>1. line \in Seq(Entries)
        BY <1>2
      <4> QED
        BY <4>1, ConcatProperties
    <3> HIDE DEF longer
    <3> QED
      BY <1>2, <3>1
  <2>4. DOMAIN longer = 1 .. n + Len(q)
    BY <2>2
  <2> HIDE DEF longer, n
  <2>5. ASSUME NEW i \in 1 .. n PROVE longer[i] = out[i]
    <3>1. i \in 1 .. n + Len(q) /\ i <= n
      BY <2>1
    <3> QED
      BY <2>2, <3>1
  <2>6. ASSUME NEW i \in 1 .. Len(q) PROVE longer[n + i] = line[i]
    <3>1. n + i \in 1 .. n + Len(q) /\ ~(n + i <= n) /\ (n + i) - n = i
      BY <2>1
    <3>2. longer[n + i] = line[(n + i) - n]
      BY <2>2, <3>1
    <3> QED
      BY <3>1, <3>2
  <2> QED
    BY <2>1, <2>2, <2>4, <2>5, <2>6
<1> HIDE DEF n, longer
<1>4. GapAlarms(out) \subseteq 1 .. n
  BY <1>3 DEF GapAlarms
<1>5. ASSUME NEW i \in 1 .. n PROVE i \in GapAlarms(longer) <=> i \in GapAlarms(out)
  <2>1. i \in 1 .. n + Len(q)
    BY <1>3
  <2> QED
    BY <1>3, <2>1 DEF GapAlarms
<1>6. ASSUME NEW i \in 1 .. Len(q) PROVE n + i \in GapAlarms(longer) <=> i = 1 /\ G
  <2>1. n + i \in 1 .. n + Len(q)
    BY <1>3
  <2>2. longer[n + i][2] = q[i]
    BY <1>2, <1>3
  <2> QED
    BY <1>1, <1>3, <2>1, <2>2 DEF GapAlarms
<1>7. GapAlarms(longer) \subseteq 1 .. n + Len(q)
  BY <1>3 DEF GapAlarms
<1>8. \A j \in 1 .. n + Len(q) : j \in 1 .. n \/ (j - n \in 1 .. Len(q) /\ j = n + (j - n))
  BY <1>3
<1>9. ASSUME NEW j PROVE j \in GapAlarms(longer) <=> j \in GapAlarms(out) \/ (j = n + 1 /\ G)
  <2>1. CASE j \in 1 .. n
    <3>1. j # n + 1
      BY <1>3, <2>1
    <3> QED
      BY <1>5, <2>1, <3>1
  <2>2. CASE j \in 1 .. n + Len(q) /\ j \notin 1 .. n
    <3>1. PICK i \in 1 .. Len(q) : j = n + i
      BY <1>8, <2>2
    <3>2. i = 1 <=> j = n + 1
      BY <1>3, <3>1
    <3> QED
      BY <1>4, <1>6, <2>2, <3>1, <3>2
  <2>3. CASE j \notin 1 .. n + Len(q)
    <3>1. ~(j = n + 1 /\ G)
      <4>1. G => n + 1 \in 1 .. n + Len(q)
        BY <1>1, <1>3
      <4> QED
        BY <2>3, <4>1
    <3>2. j \notin 1 .. n
      BY <1>3, <2>3
    <3> QED
      BY <1>4, <1>7, <2>3, <3>1, <3>2
  <2> QED
    BY <2>1, <2>2, <2>3
<1>10. GapAlarms(longer) = IF G THEN GapAlarms(out) \cup {n + 1} ELSE GapAlarms(out)
  BY <1>9
<1> QED
  BY <1>3, <1>4, <1>10 DEF n, G, longer, line, q

(* The balance is kept, datagram by datagram.                              *)
LEMMA BalanceIsKept ==
  ASSUME NEW records \in Seq(Datagrams), NEW d \in Datagrams,
         NEW account, Typed(account), Balanced(records, account)
  PROVE  Balanced(Append(records, d), After(account, d))
<1> DEFINE longer == Append(records, d)
           last == account.engine.last
           n == Len(records)
<1>1. Remembers(records, last)
  BY DEF Balanced
<1>2. CASE d = Garbage
  <2>1. After(account, d) = account
    BY <1>2 DEF After
  <2>2. Remembers(longer, last) /\ Mismatched(longer) = Mismatched(records)
    BY <1>1, <1>2, MismatchStays
  <2> HIDE DEF longer
  <2>3. Balanced(longer, account)
    BY <2>2 DEF Balanced
  <2> QED
    BY <2>1, <2>3 DEF longer
<1>3. CASE d # Garbage
  <2> DEFINE new == After(account, d)
             G == IsGap(last, d.sequence)
  <2>1. /\ new.engine.last = d.sequence
        /\ new.out = account.out \o Stamped(d, Transitions(account.engine, d))
    BY <1>3 DEF After, NextState
  <2> DEFINE J == last # NoSequence /\ d.sequence # (last + 1) % SequenceModulus
  <2>2. /\ Remembers(longer, d.sequence)
        /\ Mismatched(longer) = IF J THEN Mismatched(records) \cup {n + 1} ELSE Mismatched(records)
    <3> HIDE DEF last
    <3> QED
      BY <1>1, <1>3, MismatchGrows
  <2>3. /\ Mismatched(records) \subseteq 1 .. n /\ n \in Nat
    BY DecodedGrows DEF Mismatched
  <2>4. account.out \in Seq(Entries) /\ account.engine.temperature \in Severities /\ d \in Records
    BY DEF Typed, Records
  <2> HIDE DEF longer, new, G, J
  <2> DEFINE m == Len(account.out)
  <2>5. /\ GapAlarms(account.out) \subseteq 1 .. m /\ m \in Nat
        /\ GapAlarms(new.out) = IF G THEN GapAlarms(account.out) \cup {m + 1}
                                ELSE GapAlarms(account.out)
    <3> DEFINE out == account.out
               s == account.engine
    <3> HIDE DEF out, s
    <3>1. out \in Seq(Entries) /\ s.temperature \in Severities /\ d \in Records
      BY <2>4 DEF out, s
    <3>2. /\ GapAlarms(out) \subseteq 1 .. Len(out) /\ Len(out) \in Nat
          /\ GapAlarms(out \o Stamped(d, Transitions(s, d))) =
              IF IsGap(s.last, d.sequence) THEN GapAlarms(out) \cup {Len(out) + 1}
              ELSE GapAlarms(out)
      BY <3>1, GapAlarmsGrow
    <3> QED
      BY <2>1, <3>2 DEF G, out, s
  <2> HIDE DEF m, n
  <2>6. DetectGaps => (G <=> J)
    BY DEF IsGap, G, J
  <2> DEFINE A == GapAlarms(account.out)
             M == Mismatched(records)
  <2>7. /\ IsFiniteSet(A) /\ m + 1 \notin A
        /\ IsFiniteSet(M) /\ n + 1 \notin M
    <3>1. IsFiniteSet(1 .. m) /\ IsFiniteSet(1 .. n) /\ m + 1 \notin 1 .. m /\ n + 1 \notin 1 .. n
      BY <2>3, <2>5, FS_Interval
    <3> QED
      BY <2>3, <2>5, <3>1, FS_Subset
  <2>8. /\ Cardinality(A \cup {m + 1}) = Cardinality(A) + 1
        /\ Cardinality(M \cup {n + 1}) = Cardinality(M) + 1
    BY <2>7, FS_AddElement
  <2>9. DetectGaps => Cardinality(A) = Cardinality(M)
    BY DEF Balanced
  <2> HIDE DEF A, M
  <2>10. DetectGaps => Cardinality(GapAlarms(new.out)) = Cardinality(Mismatched(longer))
    BY <2>2, <2>5, <2>6, <2>8, <2>9 DEF A, M
  <2> QED
    BY <2>1, <2>2, <2>10 DEF Balanced, longer, new
<1> QED
  BY <1>2, <1>3


-----------------------------------------------------------------------------
(* What is known of every recording as it grows.                           *)

(* Gap alarms balance mismatches at every point.                           *)
Counted(records) ==
  \A n \in 0 .. Len(records) : Balanced(SubSeq(records, 1, n), Story(records)[n])

(* Every transition was emitted for one record.                            *)
Emitted(records, k, p) ==
  Len(Story(records)[k - 1].out) < p /\ p <= Len(Story(records)[k].out)

Traced(records) ==
  \A p \in 1 .. Len(Replayed(records)) : \E k \in 1 .. Len(records) : Emitted(records, k, p)

(* Without a repetition, a sequence number names one record.               *)
Distinct(records) ==
  Repeated(records) = {} =>
    \A i, j \in Decoded(records) : records[i].sequence = records[j].sequence => i = j

Known(records) == Counted(records) /\ Traced(records) /\ Distinct(records)

(* The sets of records with one sequence number, a record more.            *)
LEMMA AtGrows ==
  ASSUME NEW records \in Seq(Datagrams), NEW d \in Datagrams, NEW sequence
  PROVE  /\ IsFiniteSet(At(records, sequence)) /\ At(records, sequence) \subseteq 1 .. Len(records)
         /\ d # Garbage /\ d.sequence = sequence =>
              At(Append(records, d), sequence) = At(records, sequence) \cup {Len(records) + 1}
         /\ d = Garbage \/ d.sequence # sequence =>
              At(Append(records, d), sequence) = At(records, sequence)
<1> DEFINE n == Len(records)
           longer == Append(records, d)
           D == Decoded(records)
<1>1. /\ D \subseteq 1 .. n /\ n \in Nat /\ n + 1 \notin D
      /\ longer[n + 1] = d
      /\ \A i \in D : longer[i] = records[i]
      /\ d = Garbage => Decoded(longer) = D
      /\ d # Garbage => Decoded(longer) = D \cup {n + 1}
  BY DecodedGrows
<1>2. At(records, sequence) \subseteq D
  BY DEF At
<1>3. IsFiniteSet(1 .. n)
  BY <1>1, FS_Interval
<1>4. IsFiniteSet(At(records, sequence)) /\ At(records, sequence) \subseteq 1 .. n
  <2>1. At(records, sequence) \in SUBSET (1 .. n)
    BY <1>1, <1>2
  <2> QED
    BY <1>3, <2>1, FS_Subset
<1> HIDE DEF longer, n
<1>5. ASSUME d # Garbage, d.sequence = sequence
      PROVE  At(longer, sequence) = At(records, sequence) \cup {n + 1}
  BY <1>1, <1>5 DEF At
<1>6. ASSUME d = Garbage \/ d.sequence # sequence
      PROVE  At(longer, sequence) = At(records, sequence)
  BY <1>1, <1>6 DEF At
<1> QED
  BY <1>4, <1>5, <1>6 DEF longer, n

(* A record more repeats, or is distinct from all before it.               *)
LEMMA DistinctGrows ==
  ASSUME NEW records \in Seq(Datagrams), NEW d \in Datagrams, Distinct(records)
  PROVE  Distinct(Append(records, d))
<1> DEFINE n == Len(records)
           longer == Append(records, d)
           D == Decoded(records)
<1>1. /\ D \subseteq 1 .. n /\ n \in Nat /\ n + 1 \notin D
      /\ longer[n + 1] = d
      /\ \A i \in D : longer[i] = records[i]
      /\ d = Garbage => Decoded(longer) = D
      /\ d # Garbage => Decoded(longer) = D \cup {n + 1}
  BY DecodedGrows
<1>2. \A s : /\ IsFiniteSet(At(records, s)) /\ At(records, s) \subseteq 1 .. n
             /\ d # Garbage /\ d.sequence = s => At(longer, s) = At(records, s) \cup {n + 1}
             /\ d = Garbage \/ d.sequence # s => At(longer, s) = At(records, s)
  BY AtGrows
<1> HIDE DEF longer, n
<1> SUFFICES ASSUME Repeated(longer) = {}, NEW i \in Decoded(longer), NEW j \in Decoded(longer),
                    longer[i].sequence = longer[j].sequence
             PROVE  i = j
  BY DEF Distinct, longer
<1>3. ASSUME NEW k \in D, k \in Repeated(records) PROVE FALSE
  <2> DEFINE s == records[k].sequence
             A == At(records, s)
             B == At(longer, s)
  <2>1. (\A m \in A : k <= m) /\ A # {k}
    BY <1>3 DEF Repeated
  <2>2. k \in 1 .. n /\ longer[k] = records[k] /\ k \in Decoded(longer)
    BY <1>1
  <2>3. /\ B = A \/ B = A \cup {n + 1}
        /\ A \subseteq 1 .. n /\ k \in A
    BY <1>2 DEF At
  <2>4. B = At(longer, longer[k].sequence)
    BY <2>2
  <2> HIDE DEF A, B
  <2>5. (\A m \in B : k <= m) /\ B # {k}
    <3>1. k <= n + 1 /\ n + 1 # k
      BY <1>1, <2>2
    <3>2. CASE B = A
      BY <2>1, <3>2
    <3>3. CASE B = A \cup {n + 1}
      BY <2>1, <3>1, <3>3
    <3> QED
      BY <2>3, <3>2, <3>3
  <2>6. k \in Repeated(longer)
    BY <2>2, <2>4, <2>5 DEF Repeated
  <2> QED
    BY <2>6
<1>4. Repeated(records) = {}
  BY <1>3 DEF Repeated
<1>5. \A k, m \in D : records[k].sequence = records[m].sequence => k = m
  BY <1>4 DEF Distinct
<1>6. ASSUME NEW k \in D, d # Garbage, d.sequence = records[k].sequence PROVE FALSE
  <2> DEFINE B == At(longer, d.sequence)
  <2>1. At(records, d.sequence) = {k}
    <3>1. \A m \in D : records[m].sequence = d.sequence <=> m = k
      BY <1>5, <1>6
    <3> QED
      BY <3>1 DEF At
  <2>2. B = {k, n + 1}
    BY <1>2, <1>6, <2>1
  <2>3. k \in 1 .. n /\ longer[k] = records[k] /\ k \in Decoded(longer) /\ n + 1 # k
    BY <1>1
  <2>4. B = At(longer, longer[k].sequence)
    BY <1>6, <2>3
  <2> HIDE DEF B
  <2>5. (\A m \in B : k <= m) /\ B # {k}
    BY <1>1, <2>2, <2>3
  <2>6. k \in Repeated(longer)
    BY <2>3, <2>4, <2>5 DEF Repeated
  <2> QED
    BY <2>6
<1> QED
  BY <1>1, <1>5, <1>6

(* All of it, a record more.                                               *)
LEMMA KnownGrows ==
  ASSUME NEW records \in Seq(Datagrams), NEW d \in Datagrams, Settled(records), Known(records)
  PROVE  Known(Append(records, d))
<1> DEFINE n == Len(records)
           longer == Append(records, d)
           old == Story(records)
           new == Story(longer)
<1>1. records \in Seq(Records) /\ d \in Records
  BY DEF Records
<1>2. /\ n \in Nat /\ Len(longer) = n + 1 /\ SubSeq(records, 1, n) = records
      /\ SubSeq(longer, 1, n + 1) = longer
      /\ \A m \in 0 .. n : SubSeq(longer, 1, m) = SubSeq(records, 1, m)
  <2>1. n \in Nat /\ Len(longer) = n + 1 /\ longer \in Seq(Datagrams)
    OBVIOUS
  <2>2. ASSUME NEW m \in 0 .. n PROVE SubSeq(longer, 1, m) = SubSeq(records, 1, m)
    OBVIOUS
  <2>3. SubSeq(longer, 1, Len(longer)) = longer
    BY <2>1, SubSeqFull
  <2>4. SubSeq(records, 1, n) = records
    BY SubSeqFull
  <2> QED
    BY <2>1, <2>2, <2>3, <2>4
<1>3. new = [k \in 0 .. n + 1 |-> IF k <= n THEN old[k] ELSE After(old[n], d)]
  BY <1>1, StoryContinues
<1> HIDE DEF longer, old, new, n
<1>4. (\A k \in 0 .. n : new[k] = old[k]) /\ new[n + 1] = After(old[n], d)
  BY <1>2, <1>3
<1>5. Counted(longer)
  <2>1. \A m \in 0 .. n : Balanced(SubSeq(records, 1, m), old[m])
    BY DEF Known, Counted, n, old
  <2>2. Typed(old[n])
    BY <1>2 DEF Settled, Grows, n, old
  <2>3. Balanced(records, old[n])
    <3>1. n \in 0 .. n /\ SubSeq(records, 1, n) = records
      BY <1>2
    <3>2. Balanced(SubSeq(records, 1, n), old[n])
      BY <2>1, <3>1
    <3> QED
      BY <3>1, <3>2
  <2>4. Balanced(longer, new[n + 1])
    BY <1>4, <2>2, <2>3, BalanceIsKept DEF longer
  <2>5. ASSUME NEW m \in 0 .. n + 1 PROVE Balanced(SubSeq(longer, 1, m), new[m])
    <3>1. m \in 0 .. n \/ m = n + 1
      BY <1>2
    <3> QED
      BY <1>2, <1>4, <2>1, <2>4, <3>1
  <2> QED
    BY <1>2, <2>5 DEF Counted, new
<1>6. Traced(longer)
  <2>1. ASSUME NEW p \in 1 .. Len(new[n + 1].out)
        PROVE  \E k \in 1 .. n + 1 : Len(new[k - 1].out) < p /\ p <= Len(new[k].out)
    <3>1. Len(old[n].out) \in Nat
      <4>1. old[n].out \in Seq(Entries)
        BY <1>2 DEF Settled, Grows, Typed, n, old
      <4> QED
        BY <4>1
    <3>2. CASE Len(old[n].out) < p
      <4>1. new[n] = old[n] /\ n + 1 \in 1 .. n + 1 /\ (n + 1) - 1 = n
        BY <1>2, <1>4
      <4> QED
        BY <2>1, <3>2, <4>1
    <3>3. CASE ~(Len(old[n].out) < p)
      <4>1. p \in 1 .. Len(old[n].out)
        BY <3>1, <3>3
      <4>2. PICK k \in 1 .. n : Len(old[k - 1].out) < p /\ p <= Len(old[k].out)
        BY <4>1 DEF Known, Traced, Emitted, Replayed, n, old
      <4>3. k \in 0 .. n /\ k - 1 \in 0 .. n /\ k \in 1 .. n + 1
        BY <1>2
      <4>4. new[k - 1] = old[k - 1] /\ new[k] = old[k]
        BY <1>4, <4>3
      <4> QED
        BY <4>2, <4>3, <4>4
    <3> QED
      BY <3>2, <3>3
  <2> QED
    BY <1>2, <2>1 DEF Traced, Emitted, Replayed, new
<1>7. Distinct(longer)
  BY DistinctGrows DEF Known, longer
<1> QED
  BY <1>5, <1>6, <1>7 DEF Known, longer

(* Of the empty recording.                                                 *)
LEMMA KnownBegins == Known(<<>>)
<1> DEFINE none == <<>>
<1>1. Story(none) = [n \in 0 .. 0 |-> Opening] /\ Len(none) = 0 /\ none \in Seq(Datagrams)
  BY StoryBegins
<1>2. Story(none)[0] = Opening /\ SubSeq(none, 1, 0) = none
  BY <1>1
<1>3. Decoded(none) = {} /\ Mismatched(none) = {} /\ Repeated(none) = {}
  BY <1>1 DEF Decoded, Mismatched, Repeated
<1>4. GapAlarms(none) = {}
  BY DEF GapAlarms
<1>5. Balanced(none, Opening)
  <2>1. Opening.engine.last = NoSequence /\ Opening.out = none
    BY DEF Opening, Fresh
  <2> QED
    BY <1>3, <1>4, <2>1 DEF Balanced, Remembers
<1>6. Counted(none)
  <2>1. \A n \in 0 .. 0 : n = 0
    OBVIOUS
  <2> HIDE DEF none
  <2> QED
    BY <1>1, <1>2, <1>5, <2>1 DEF Counted
<1>7. Traced(none)
  <2>1. Len(Replayed(none)) = 0
    <3>1. Len(Opening.out) = 0
      BY DEF Opening
    <3> HIDE DEF none
    <3> QED
      BY <1>1, <1>2, <3>1 DEF Replayed
  <2> HIDE DEF none
  <2> QED
    BY <2>1 DEF Traced
<1>8. Distinct(none)
  BY <1>3 DEF Distinct
<1> QED
  BY <1>6, <1>7, <1>8 DEF Known

-----------------------------------------------------------------------------
RecordsInv ==
  /\ telemetry \in Seq(Datagrams) /\ Known(telemetry)
  /\ phase = "record" => raw \in Datagrams

(* A step of the listener leaves the recording alone or records what was   *)
(* received.                                                               *)
LEMMA RecordingStep ==
  ASSUME StoryInv, RecordsInv, [Next]_vars
  PROVE  \/ telemetry' = telemetry
         \/ raw \in Datagrams /\ telemetry' = Append(telemetry, raw)
<1>1. (phase = "record" => raw \in Datagrams) /\ (phase = "start" => telemetry = <<>>)
  BY DEF RecordsInv, StoryInv
<1> QED
  BY <1>1 DEF Next, Thread, Start, Receive, Record, MaybeRecorded, Reject, Process, WriteEvent,
              Flush, CountIndex, CountTransition, Interrupt, Close, Kill, vars, recorder

(* Recording keeps what is known.                                         *)
LEMMA RecordsMove ==
  ASSUME StoryInv, RecordsInv, [Next]_vars
  PROVE  RecordsInv'
<1>1. phase' = "record" => raw' \in Datagrams
  BY DEF RecordsInv, Next, Thread, Start, Receive, Record, Reject, Process, WriteEvent,
         Flush, CountIndex, CountTransition, Interrupt, Close, Kill, vars
<1>2. telemetry' \in Seq(Datagrams) /\ Known(telemetry')
  <2>1. telemetry \in Seq(Datagrams) /\ Settled(telemetry) /\ Known(telemetry)
    BY DEF RecordsInv, StoryInv
  <2>2. CASE telemetry' = telemetry
    BY <2>1, <2>2
  <2>3. CASE raw \in Datagrams /\ telemetry' = Append(telemetry, raw)
    <3>1. Known(Append(telemetry, raw))
      BY <2>1, <2>3, KnownGrows
    <3> QED
      BY <2>1, <2>3, <3>1
  <2> QED
    BY <2>2, <2>3, RecordingStep
<1> QED
  BY <1>1, <1>2 DEF RecordsInv

(* At the start there is no record.                                        *)
LEMMA RecordsInit == Init => RecordsInv
<1> SUFFICES ASSUME Init PROVE RecordsInv
  OBVIOUS
<1>1. telemetry = <<>> /\ phase = "start"
  BY DEF Init
<1>2. telemetry \in Seq(Datagrams) /\ Known(telemetry)
  BY <1>1, KnownBegins
<1> QED
  BY <1>1, <1>2 DEF RecordsInv


-----------------------------------------------------------------------------
(* The inspector reads a beginning of the recording, and the log as it     *)
(* stays.                                                                  *)

TelemetryRead == step = "alarm" \/ AlarmsRead

SeenInv ==
  /\ TelemetryRead /\ selection.telemetry =>
       \E r \in 0 .. Recorded :
         /\ seenTelemetry = Provided(SubSeq(telemetry, 1, r))
         /\ quiet => r = Recorded
  /\ AlarmsRead /\ selection.alarm => seenAlarms = Provided(alarmLog) /\ LoadAccepts(alarmLog)

SessionInv == EvidenceInv /\ StoryInv /\ RecordsInv /\ SeenInv

(* While the listener can move, the alarm lane was not read.               *)
LEMMA NotYetRead ==
  ASSUME FileInv, EvidenceOpen
  PROVE  ~AlarmsRead /\ outcome = "none"
  BY DEF FileInv, OutcomeInv, EvidenceOpen, AlarmsRead, Reading, Loading, Writing, Verdicts

(* The listener moves.                                                     *)
LEMMA SeenStays ==
  ASSUME SessionInv, ListenerStep
  PROVE  SeenInv'
<1>1. /\ ~AlarmsRead /\ ~quiet
      /\ UNCHANGED <<step, selection, seenTelemetry, seenAlarms, quiet, outcome>>
      /\ [Next]_vars
  BY NotYetRead, StoppedStays
     DEF SessionInv, EvidenceInv, ListenerStep, command, lanes
<1>2. ~AlarmsRead' /\ (TelemetryRead' <=> TelemetryRead)
  BY <1>1 DEF AlarmsRead, TelemetryRead
<1>3. telemetry \in Seq(Datagrams)
  BY DEF SessionInv, RecordsInv
<1>4. \/ telemetry' = telemetry
      \/ raw \in Datagrams /\ telemetry' = Append(telemetry, raw)
  BY <1>1, RecordingStep DEF SessionInv
<1>5. ASSUME NEW r \in 0 .. Recorded
      PROVE  r \in 0 .. Recorded' /\ SubSeq(telemetry', 1, r) = SubSeq(telemetry, 1, r)
  <2>1. CASE telemetry' = telemetry
    BY <2>1 DEF Recorded
  <2>2. CASE raw \in Datagrams /\ telemetry' = Append(telemetry, raw)
    <3>1. Len(Append(telemetry, raw)) = Len(telemetry) + 1 /\ Len(telemetry) \in Nat
      BY <1>3, <2>2
    <3>2. SubSeq(Append(telemetry, raw), 1, r) = SubSeq(telemetry, 1, r)
      BY <1>3, <2>2 DEF Recorded
    <3> QED
      BY <2>2, <3>1, <3>2 DEF Recorded
  <2> QED
    BY <1>4, <2>1, <2>2
<1>6. ASSUME TelemetryRead', selection'.telemetry
      PROVE  \E r \in 0 .. Recorded' : seenTelemetry' = Provided(SubSeq(telemetry', 1, r))
  <2>1. PICK r \in 0 .. Recorded : seenTelemetry = Provided(SubSeq(telemetry, 1, r))
    BY <1>1, <1>2, <1>6 DEF SessionInv, SeenInv
  <2> QED
    BY <1>1, <1>5, <2>1
<1> QED
  BY <1>1, <1>2, <1>6 DEF SeenInv

(* The command moves.                                                      *)
LEMMA SeenStep == SessionInv /\ [InspectionNext]_<<vars, command>> => SeenInv'
<1> SUFFICES ASSUME SessionInv, [InspectionNext]_<<vars, command>> PROVE SeenInv'
  OBVIOUS
<1>1. SeenInv /\ FileInv /\ telemetry \in Seq(Datagrams)
  BY DEF SessionInv, EvidenceInv, RecordsInv
<1>2. CASE CommandStep /\ UNCHANGED vars
  <2>1. UNCHANGED <<telemetry, alarmLog>>
    BY <1>2 DEF vars, recorder
  <2>2. Recorded' = Recorded /\ Recorded \in Nat
    BY <1>1, <2>1 DEF Recorded
  <2>3. (LoadAccepts(alarmLog))' <=> LoadAccepts(alarmLog)
    BY <2>1
  <2>4. CASE \E s \in Selections : Begin(s)
    <3>1. step' = "telemetry" /\ outcome' = "none"
      BY <1>1, <2>4 DEF Begin, FileInv, OutcomeInv, Reading
    <3>2. ~TelemetryRead' /\ ~AlarmsRead'
      BY <3>1 DEF TelemetryRead, AlarmsRead, Writing, Verdicts
    <3> QED
      BY <3>2 DEF SeenInv
  <2>5. CASE LoadTelemetry
    <3>1. ~AlarmsRead' /\ outcome = "none"
      BY <1>1, <2>5 DEF LoadTelemetry, FailReading, FileInv, OutcomeInv, Reading, Loading,
                        AlarmsRead, Writing, Verdicts
    <3>2. ASSUME TelemetryRead', selection'.telemetry
          PROVE  seenTelemetry' = Provided(SubSeq(telemetry, 1, Recorded))
      <4>1. seenTelemetry' = Provided(telemetry)
        BY <2>5, <3>1, <3>2 DEF LoadTelemetry, FailReading, TelemetryRead
      <4>2. SubSeq(telemetry, 1, Recorded) = telemetry
        BY <1>1, SubSeqFull DEF Recorded
      <4> QED
        BY <4>1, <4>2
    <3>3. Recorded \in 0 .. Recorded
      BY <2>2
    <3> QED
      BY <2>1, <2>2, <3>1, <3>2, <3>3 DEF SeenInv
  <2>6. CASE LoadAlarms
    <3>1. /\ UNCHANGED <<selection, seenTelemetry, quiet>> /\ step = "alarm" /\ outcome = "none"
      BY <1>1, <2>6 DEF LoadAlarms, FailReading, lanes, FileInv, OutcomeInv, Reading, Loading
    <3>2. TelemetryRead
      BY <3>1 DEF TelemetryRead
    <3>3. ASSUME selection.alarm, AlarmsRead'
          PROVE  seenAlarms' = Provided(alarmLog) /\ LoadAccepts(alarmLog)
      <4>1. seenAlarms' = Provided(alarmLog) /\ AlarmLaneLoads(seenAlarms')
        BY <2>6, <3>1, <3>3 DEF LoadAlarms, FailReading, AlarmsRead, Writing, Verdicts
      <4>2. Alarm!LoadAccepts(alarmLog)
        BY <4>1 DEF AlarmLaneLoads, Provided
      <4> QED
        BY <4>1, <4>2, SameLoader
    <3> QED
      BY <1>1, <2>1, <2>2, <2>3, <3>1, <3>2, <3>3 DEF SeenInv
  <2>7. CASE \/ (\E s \in Selections : Refuse(s)) \/ LoadLink
             \/ CreateTemporary \/ NameTemporary \/ WriteTemporary \/ Replace \/ Finish
             \/ CleanUp \/ InterruptCommand \/ InterruptCleanUp \/ KillCommand
    <3>1. UNCHANGED <<selection, seenTelemetry, seenAlarms, quiet>>
      BY <2>7 DEF Refuse, LoadLink, FailReading, CreateTemporary, NameTemporary,
                  WriteTemporary, Replace, Finish, CleanUp, InterruptCommand, InterruptCleanUp,
                  KillCommand, Fail, lanes
    <3>2. (AlarmsRead' => AlarmsRead) /\ step' # "alarm"
      BY <2>7 DEF Refuse, LoadLink, FailReading, CreateTemporary, NameTemporary,
                  WriteTemporary, Replace, Finish, CleanUp, InterruptCommand, InterruptCleanUp,
                  KillCommand, Fail, AlarmsRead, Writing, Verdicts
    <3>3. TelemetryRead' => TelemetryRead
      BY <3>2 DEF TelemetryRead
    <3> QED
      BY <1>1, <2>1, <2>2, <2>3, <3>1, <3>2, <3>3 DEF SeenInv
  <2> QED
    BY <1>2, <2>4, <2>5, <2>6, <2>7 DEF CommandStep
<1>3. CASE UNCHANGED <<vars, command>>
  <2>1. UNCHANGED <<telemetry, alarmLog, step, outcome, selection, seenTelemetry, seenAlarms, quiet>>
    BY <1>3 DEF vars, recorder, command, lanes
  <2> QED
    BY <1>1, <2>1 DEF SeenInv, TelemetryRead, AlarmsRead, Recorded
<1> QED
  BY <1>2, <1>3, SeenStays DEF InspectionNext

(* It has read so in every behaviour of the inspector.                     *)
THEOREM SessionCorrect == InspectionSpec => []SessionInv
<1>1. InspectionInit => SessionInv
  <2> SUFFICES ASSUME InspectionInit PROVE SessionInv
    OBVIOUS
  <2>1. Init /\ ~TelemetryRead /\ ~AlarmsRead
    BY DEF InspectionInit, TelemetryRead, AlarmsRead, Writing, Verdicts
  <2>2. EvidenceInv
    BY ListenerInit, FileInit DEF InspectionInit, EvidenceInv
  <2> QED
    BY <2>1, <2>2, StoryInit, RecordsInit DEF SessionInv, SeenInv
<1>2. SessionInv /\ [InspectionNext]_<<vars, command>> => SessionInv'
  <2> SUFFICES ASSUME SessionInv, [InspectionNext]_<<vars, command>> PROVE SessionInv'
    OBVIOUS
  <2>1. [Next]_vars
    BY DEF InspectionNext, ListenerStep, command, lanes, files, vars, recorder
  <2>2. EvidenceInv'
    BY EvidenceStep DEF SessionInv
  <2>3. StoryInv'
    BY <2>1, StoryMoves DEF SessionInv, EvidenceInv
  <2>4. RecordsInv'
    BY <2>1, RecordsMove DEF SessionInv
  <2> QED
    BY <2>2, <2>3, <2>4, SeenStep DEF SessionInv
<1> QED
  BY <1>1, <1>2, PTL DEF InspectionSpec

-----------------------------------------------------------------------------
(* What a replay of a beginning of the recording prints.                   *)
LEMMA ReplayedBeginning ==
  ASSUME StoryInv, NEW n \in 0 .. Recorded
  PROVE  /\ Replayed(SubSeq(telemetry, 1, n)) = Account(n).out
         /\ Len(SubSeq(telemetry, 1, n)) = n
<1>1. telemetry \in Seq(Records) /\ HasStory(telemetry)
  BY DEF StoryInv, Settled
<1>2. Len(SubSeq(telemetry, 1, n)) = n
  BY <1>1 DEF Recorded
<1>3. Story(SubSeq(telemetry, 1, n)) = [k \in 0 .. n |-> Account(k)]
  BY <1>1 DEF HasStory, Recorded, Account
<1>4. n \in 0 .. n
  BY <1>1 DEF Recorded
<1> QED
  BY <1>2, <1>3, <1>4 DEF Replayed

(* No number follows itself: the modulus is at least two.                  *)
LEMMA NextIsAnother ==
  ASSUME NEW x \in 0 .. SequenceModulus - 1
  PROVE  (x + 1) % SequenceModulus # x
<1>1. SequenceModulus \in Nat /\ SequenceModulus >= 2
  BY ModulusAssumption
<1>2. CASE x + 1 < SequenceModulus
  <2>1. (x + 1) % SequenceModulus = x + 1
    BY <1>1, <1>2
  <2> QED
    BY <2>1
<1>3. CASE x + 1 = SequenceModulus
  <2>1. (x + 1) % SequenceModulus = 0
    BY <1>1, <1>3
  <2> QED
    BY <1>1, <1>3, <2>1
<1> QED
  BY <1>1, <1>2, <1>3

(* The mismatches are the gaps and the immediate repeats.                  *)
Repeats(records) ==
  {j \in Decoded(records) : \E i \in Decoded(records) :
     IsNext(records, i, j) /\ records[j].sequence = records[i].sequence}

(* They are disjoint, and together all mismatches.                         *)
LEMMA MismatchesSplit ==
  ASSUME NEW records \in Seq(Datagrams)
  PROVE  /\ IsFiniteSet(Gaps(records)) /\ IsFiniteSet(Repeats(records))
         /\ Gaps(records) \cap Repeats(records) = {}
         /\ Mismatched(records) = Gaps(records) \cup Repeats(records)
<1>1. Decoded(records) \in SUBSET (1 .. Len(records)) /\ Len(records) \in Nat
  BY DEF Decoded
<1>2. IsFiniteSet(1 .. Len(records))
  BY <1>1, FS_Interval
<1>3. IsFiniteSet(Decoded(records))
  BY <1>1, <1>2, FS_Subset
<1>4. Gaps(records) \in SUBSET Decoded(records) /\ Repeats(records) \in SUBSET Decoded(records)
  BY DEF Gaps, Repeats
<1>5. IsFiniteSet(Gaps(records)) /\ IsFiniteSet(Repeats(records))
  BY <1>3, <1>4, FS_Subset
<1>6. ASSUME NEW i \in Decoded(records), NEW k \in Decoded(records), NEW j \in Decoded(records),
             IsNext(records, i, j), IsNext(records, k, j)
      PROVE  i = k
  <2>1. i \in Nat /\ k \in Nat /\ j \in Nat
    BY <1>1
  <2>2. k <= i /\ i <= k
    BY <1>6, <2>1 DEF IsNext
  <2> QED
    BY <2>1, <2>2
<1>7. ASSUME NEW j, j \in Gaps(records), j \in Repeats(records) PROVE FALSE
  BY <1>6, <1>7 DEF Gaps, Repeats
<1>8. ASSUME NEW i \in Decoded(records), NEW j \in Decoded(records),
             records[j].sequence = records[i].sequence
      PROVE  records[j].sequence # (records[i].sequence + 1) % SequenceModulus
  BY <1>8, SequencesAreNumbers, NextIsAnother
<1>9. Mismatched(records) = Gaps(records) \cup Repeats(records)
  BY <1>8 DEF Mismatched, Gaps, Repeats
<1> QED
  BY <1>5, <1>7, <1>9

(* Inspector and alarm engine agree about gaps.                            *)
LEMMA RepeatsExplain ==
  ASSUME SessionInv
  PROVE  RepeatsExplainGaps
<1> SUFFICES ASSUME Decided, selection.telemetry, DetectGaps
             PROVE  Cardinality(GapAlarms(Replayed(seenTelemetry.records))) =
                      Cardinality(Gaps(seenTelemetry.records))
                      + Cardinality(Repeats(seenTelemetry.records))
  BY DEF RepeatsExplainGaps, GapAlarms, Repeats
<1>1. TelemetryRead
  BY DEF Decided, TelemetryRead, AlarmsRead, Writing
<1>2. PICK r \in 0 .. Recorded : seenTelemetry = Provided(SubSeq(telemetry, 1, r))
  BY <1>1 DEF SessionInv, SeenInv
<1> DEFINE records == SubSeq(telemetry, 1, r)
<1>3. seenTelemetry.records = records
  BY <1>2 DEF Provided
<1>4. telemetry \in Seq(Datagrams) /\ Counted(telemetry)
  BY DEF SessionInv, RecordsInv, Known
<1>5. records \in Seq(Datagrams)
  BY <1>4 DEF Recorded
<1>6. Replayed(records) = Account(r).out
  BY ReplayedBeginning DEF SessionInv
<1>7. Balanced(records, Account(r))
  BY <1>4 DEF Counted, Recorded, Account
<1> HIDE DEF records
<1>8. Cardinality(GapAlarms(Replayed(records))) = Cardinality(Mismatched(records))
  BY <1>6, <1>7 DEF Balanced
<1>9. Cardinality(Mismatched(records)) = Cardinality(Gaps(records)) + Cardinality(Repeats(records))
  <2>1. /\ IsFiniteSet(Gaps(records)) /\ IsFiniteSet(Repeats(records))
        /\ Gaps(records) \cap Repeats(records) = {}
        /\ Mismatched(records) = Gaps(records) \cup Repeats(records)
    BY <1>5, MismatchesSplit
  <2>2. Cardinality({}) = 0
    BY FS_EmptySet
  <2>3. /\ Cardinality(Gaps(records)) \in Nat /\ Cardinality(Repeats(records)) \in Nat
    BY <2>1, FS_CardinalityType
  <2>4. Cardinality(Gaps(records) \cup Repeats(records)) =
          Cardinality(Gaps(records)) + Cardinality(Repeats(records))
          - Cardinality(Gaps(records) \cap Repeats(records))
    <3> DEFINE g == Gaps(records)
               e == Repeats(records)
    <3>1. IsFiniteSet(g) /\ IsFiniteSet(e)
      BY <2>1
    <3> HIDE DEF g, e
    <3>2. Cardinality(g \cup e) = Cardinality(g) + Cardinality(e) - Cardinality(g \cap e)
      BY <3>1, FS_Union
    <3> QED
      BY <3>2 DEF g, e
  <2>5. Cardinality(Gaps(records) \cap Repeats(records)) = 0
    BY <2>1, <2>2
  <2>6. Cardinality(Mismatched(records)) = Cardinality(Gaps(records) \cup Repeats(records))
    BY <2>1
  <2> DEFINE g == Cardinality(Gaps(records))
             e == Cardinality(Repeats(records))
  <2>7. g + e - 0 = g + e
    BY <2>3
  <2> QED
    BY <2>4, <2>5, <2>6, <2>7
<1> QED
  BY <1>3, <1>8, <1>9

-----------------------------------------------------------------------------
(* Who raised an alarm.                                                    *)

(* Of the transitions the recording explains, each was emitted for one     *)
(* record, which decoded and has the sequence number of the transition.    *)
LEMMA OneRecordEmits ==
  ASSUME StoryInv, RecordsInv, NEW p \in 1 .. Len(Account(Recorded).out)
  PROVE  \E k \in Decoded(telemetry) :
           /\ Emitted(telemetry, k, p)
           /\ \A m \in DOMAIN telemetry : Emitted(telemetry, m, p) => m = k
           /\ telemetry[k].sequence = Account(Recorded).out[p][1]
<1>1. telemetry \in Seq(Datagrams) /\ Settled(telemetry) /\ Traced(telemetry)
  BY DEF StoryInv, RecordsInv, Known
<1>2. Recorded \in Nat /\ DOMAIN telemetry = 1 .. Recorded
  BY <1>1 DEF Recorded
<1>3. PICK k \in 1 .. Recorded : Emitted(telemetry, k, p)
  BY <1>1 DEF Traced, Replayed, Account, Recorded
<1>4. Len(Account(k - 1).out) < p /\ p <= Len(Account(k).out)
  BY <1>3 DEF Emitted, Account
<1>5. \A m \in 0 .. Recorded : /\ Typed(Account(m)) /\ Account(m).out \in Seq(Entries)
                               /\ Len(Account(m).out) \in Nat
  BY <1>1 DEF Settled, Grows, Typed, Account, Recorded
<1>6. ASSUME NEW a \in 0 .. Recorded, NEW b \in 0 .. Recorded, a <= b
      PROVE  /\ Len(Account(a).out) <= Len(Account(b).out)
             /\ \A i \in 1 .. Len(Account(a).out) : Account(a).out[i] = Account(b).out[i]
  <2> DEFINE s == Account(a).out
             t == Account(b).out
  <2>1. IsPrefix(s, t)
    BY <1>1, <1>6 DEF Settled, Grows, Account, Recorded
  <2>2. s \in Seq(Entries) /\ t \in Seq(Entries)
    BY <1>5
  <2> HIDE DEF s, t
  <2>3. Len(s) <= Len(t) /\ \A i \in 1 .. Len(s) : s[i] = t[i]
    BY <2>1, <2>2, PrefixIs
  <2> QED
    BY <2>3 DEF s, t
<1>7. ASSUME NEW m \in 1 .. Recorded, Emitted(telemetry, m, p) PROVE m = k
  <2>1. Len(Account(m - 1).out) < p /\ p <= Len(Account(m).out)
    BY <1>7 DEF Emitted, Account
  <2>2. k - 1 \in 0 .. Recorded /\ m - 1 \in 0 .. Recorded /\ k \in 0 .. Recorded /\ m \in 0 .. Recorded
    BY <1>2
  <2>3. CASE m < k
    <3>1. m <= k - 1
      BY <1>2, <2>3
    <3>2. Len(Account(m).out) <= Len(Account(k - 1).out)
      BY <1>6, <2>2, <3>1
    <3> QED
      BY <1>4, <1>5, <2>1, <2>2, <3>2
  <2>4. CASE k < m
    <3>1. k <= m - 1
      BY <1>2, <2>4
    <3>2. Len(Account(k).out) <= Len(Account(m - 1).out)
      BY <1>6, <2>2, <3>1
    <3> QED
      BY <1>4, <1>5, <2>1, <2>2, <3>2
  <2> QED
    BY <1>2, <2>3, <2>4
<1>8. Account(k) = After(Account(k - 1), telemetry[k])
  <2>1. IsStory(Story(telemetry), telemetry)
    BY <1>1 DEF Settled, HasStory
  <2> QED
    BY <1>2, <2>1, StoryPoints DEF Recorded, Account
<1>9. k \in 0 .. Recorded /\ k - 1 \in 0 .. Recorded /\ k <= Recorded /\ Recorded \in 0 .. Recorded
  BY <1>2
<1>10. telemetry[k] # Garbage
  <2>1. telemetry[k] = Garbage => Account(k) = Account(k - 1)
    BY <1>8 DEF After
  <2> QED
    BY <1>4, <1>5, <1>9, <2>1
<1> DEFINE before == Account(k - 1)
           told == Transitions(before.engine, telemetry[k])
           line == Stamped(telemetry[k], told)
<1>11. Account(k).out = before.out \o line
  <2>1. After(before, telemetry[k]) =
          [engine |-> NextState(before.engine, telemetry[k]), out |-> before.out \o line]
    BY <1>10 DEF After
  <2>2. Account(k) = After(before, telemetry[k])
    BY <1>8
  <2> HIDE DEF before, line
  <2> QED
    BY <2>1, <2>2
<1>12. telemetry[k] \in Records /\ told \in Seq(Told)
  <2>1. before.engine.temperature \in Severities
    BY <1>5, <1>9 DEF Typed
  <2> QED
    BY <1>1, <1>2, <2>1, TransitionsAreTold DEF Records
<1> HIDE DEF told
<1>13. /\ line \in Seq(Entries) /\ Len(line) = Len(told)
       /\ \A i \in 1 .. Len(told) : line[i] = <<telemetry[k].sequence, told[i]>>
  BY <1>12, StampedTyped
<1>14. before.out \in Seq(Entries) /\ Len(before.out) \in Nat /\ Len(told) \in Nat
  BY <1>5, <1>9, <1>12
<1> HIDE DEF before, line
<1>15. /\ Len(Account(k).out) = Len(before.out) + Len(told)
       /\ \A i \in 1 .. Len(before.out) + Len(told) :
            Account(k).out[i] = IF i <= Len(before.out) THEN before.out[i]
                                ELSE line[i - Len(before.out)]
  <2> DEFINE out == before.out
  <2>1. out \in Seq(Entries) /\ line \in Seq(Entries)
    BY <1>13, <1>14
  <2> HIDE DEF out
  <2>2. /\ Len(out \o line) = Len(out) + Len(line)
        /\ \A i \in 1 .. Len(out) + Len(line) :
             (out \o line)[i] = IF i <= Len(out) THEN out[i] ELSE line[i - Len(out)]
    BY <2>1, ConcatProperties
  <2> QED
    BY <1>11, <1>13, <2>2 DEF out
<1>16. p \in 1 .. Len(before.out) + Len(told) /\ ~(p <= Len(before.out)) /\ p - Len(before.out) \in 1 .. Len(told)
  BY <1>4, <1>14, <1>15 DEF before
<1>17. Account(k).out[p] = line[p - Len(before.out)]
  BY <1>15, <1>16
<1>18. Account(k).out[p][1] = telemetry[k].sequence
  BY <1>13, <1>16, <1>17
<1>19. Account(k).out[p] = Account(Recorded).out[p]
  <2>1. p \in 1 .. Len(Account(k).out)
    BY <1>15, <1>16
  <2> QED
    BY <1>6, <1>9, <2>1
<1>20. k \in Decoded(telemetry)
  BY <1>2, <1>10 DEF Decoded
<1> QED
  BY <1>2, <1>3, <1>7, <1>18, <1>19, <1>20

(* A transition in the log is one the recording explains.                  *)
LEMMA LoggedIsExplained ==
  ASSUME ListenerInv, StoryInv, LoadAccepts(alarmLog),
         NEW i \in DOMAIN alarmLog, alarmLog[i].type \in TransitionTypes
  PROVE  /\ i - 1 \in 1 .. Len(Account(Recorded).out)
         /\ Account(Recorded).out[i - 1][1] = alarmLog[i].sequence
<1> DEFINE last == IF IsComplete(alarmLog) THEN Len(alarmLog) - 1 ELSE Len(alarmLog)
           story == Account(Recorded).out
           log == Logged(alarmLog)
<1>1. alarmLog \in Seq(LogLines) /\ Len(alarmLog) \in Nat /\ i \in 1 .. Len(alarmLog)
  BY DEF ListenerInv, ListenerType
<1>2. i # 1 /\ (IsComplete(alarmLog) => i # Len(alarmLog))
  BY DEF LoadAccepts, IsComplete, TransitionTypes
<1>3. i \in 2 .. last /\ last \in Nat /\ last <= Len(alarmLog)
  BY <1>1, <1>2
<1> HIDE DEF last
<1>4. EventsOf(alarmLog) = SubSeq(alarmLog, 2, last)
  BY DEF EventsOf, last
<1>5. /\ DOMAIN SubSeq(alarmLog, 2, last) = 1 .. last - 1
      /\ \A j \in 1 .. last - 1 : SubSeq(alarmLog, 2, last)[j] = alarmLog[j + 1]
  BY <1>1, <1>3
<1>6. i - 1 \in 1 .. last - 1 /\ (i - 1) + 1 = i
  BY <1>1, <1>3
<1>7. log = [j \in 1 .. last - 1 |-> LoggedAs(alarmLog[j + 1])]
  BY <1>4, <1>5 DEF Logged
<1>8. Len(log) = last - 1 /\ log[i - 1] = LoggedAs(alarmLog[i])
  BY <1>3, <1>6, <1>7
<1>9. log \in Seq(Entries) /\ IsPrefix(log, story)
  BY DEF StoryInv, Follows
<1>10. story \in Seq(Entries)
  BY AccountsTyped DEF Typed
<1> HIDE DEF log, story
<1>11. Len(log) <= Len(story) /\ \A j \in 1 .. Len(log) : log[j] = story[j]
  BY <1>9, <1>10, PrefixIs
<1>12. i - 1 \in 1 .. Len(story) /\ story[i - 1] = LoggedAs(alarmLog[i])
  BY <1>6, <1>8, <1>10, <1>11
<1> QED
  BY <1>12 DEF LoggedAs, story

(* The record the property names is the one the transition was emitted for.*)
LEMMA RaisedByOne ==
  ASSUME StoryInv, RecordsInv, NEW i, i - 1 \in 1 .. Len(Account(Recorded).out)
  PROVE  /\ RaisedBy(i) \in Decoded(telemetry)
         /\ telemetry[RaisedBy(i)].sequence = Account(Recorded).out[i - 1][1]
<1> DEFINE p == i - 1
           R(k) == /\ Len(Replayed(SubSeq(telemetry, 1, k))) >= p
                   /\ Len(Replayed(SubSeq(telemetry, 1, k - 1))) < p
<1>1. Recorded \in Nat /\ DOMAIN telemetry = 1 .. Recorded
  BY DEF StoryInv, Recorded
<1>2. PICK k \in Decoded(telemetry) :
        /\ Emitted(telemetry, k, p)
        /\ \A m \in DOMAIN telemetry : Emitted(telemetry, m, p) => m = k
        /\ telemetry[k].sequence = Account(Recorded).out[p][1]
  BY OneRecordEmits
<1>3. k \in DOMAIN telemetry
  BY DEF Decoded
<1>4. ASSUME NEW m \in DOMAIN telemetry PROVE R(m) <=> Emitted(telemetry, m, p)
  <2>1. m \in 0 .. Recorded /\ m - 1 \in 0 .. Recorded
    BY <1>1
  <2>2. /\ Replayed(SubSeq(telemetry, 1, m)) = Account(m).out
        /\ Replayed(SubSeq(telemetry, 1, m - 1)) = Account(m - 1).out
    BY <2>1, ReplayedBeginning
  <2>3. Account(m).out \in Seq(Entries)
    BY <2>1 DEF StoryInv, Settled, Grows, Typed, Account, Recorded
  <2>4. p \in Nat /\ Len(Account(m).out) \in Nat
    BY <2>3
  <2> QED
    BY <2>2, <2>4 DEF Emitted, Account
<1>5. RaisedBy(i) = CHOOSE m \in DOMAIN telemetry : R(m)
  BY DEF RaisedBy
<1> HIDE DEF R
<1>6. RaisedBy(i) = k
  BY <1>2, <1>3, <1>4, <1>5
<1> QED
  BY <1>2, <1>6

(* A correlation called exact names the very record that raised the alarm. *)
LEMMA ExactNames ==
  ASSUME SessionInv
  PROVE  ExactNamesItsCause
<1> SUFFICES ASSUME Decided, selection.telemetry, selection.alarm,
                    NEW i \in TransitionsIn(seenAlarms.records)
             PROVE  LET c == Inspected.correlations[i]
                    IN  /\ quiet => c.kind # "impossible"
                        /\ c.kind = "exact" /\ (quiet \/ Repeated(telemetry) = {}) =>
                             c.candidates = {RaisedBy(i)}
  BY DEF ExactNamesItsCause
<1>1. TelemetryRead /\ AlarmsRead
  BY DEF Decided, TelemetryRead, AlarmsRead, Writing
<1>2. PICK r \in 0 .. Recorded :
        /\ seenTelemetry = Provided(SubSeq(telemetry, 1, r))
        /\ quiet => r = Recorded
  BY <1>1 DEF SessionInv, SeenInv
<1>3. seenAlarms = Provided(alarmLog) /\ LoadAccepts(alarmLog)
  BY <1>1 DEF SessionInv, SeenInv
<1> DEFINE records == SubSeq(telemetry, 1, r)
           s == alarmLog[i].sequence
           k == RaisedBy(i)
           c == Correlate(records, s)
<1>4. seenTelemetry.records = records /\ seenAlarms.records = alarmLog
  BY <1>2, <1>3 DEF Provided
<1>5. Inspected.correlations[i] = c
  BY <1>4 DEF Inspected, Session
<1>6. i \in DOMAIN alarmLog /\ alarmLog[i].type \in TransitionTypes
  BY <1>4 DEF TransitionsIn, Alarm!TransitionTypes, TransitionTypes
<1>7. ListenerInv /\ StoryInv /\ RecordsInv
  BY DEF SessionInv, EvidenceInv
<1>8. k \in Decoded(telemetry) /\ telemetry[k].sequence = s
  BY <1>3, <1>6, <1>7, LoggedIsExplained, RaisedByOne
<1>9. telemetry \in Seq(Datagrams) /\ Distinct(telemetry) /\ Recorded \in Nat
  BY <1>7 DEF RecordsInv, Known, Recorded
<1>10. /\ DOMAIN records = 1 .. r /\ DOMAIN telemetry = 1 .. Recorded
       /\ \A m \in 1 .. r : records[m] = telemetry[m] /\ m \in 1 .. Recorded
       /\ quiet => records = telemetry
  <2>1. SubSeq(telemetry, 1, Recorded) = telemetry
    BY <1>9, SubSeqFull DEF Recorded
  <2>2. DOMAIN records = 1 .. r /\ \A m \in 1 .. r : records[m] = telemetry[m]
    BY <1>9 DEF Recorded
  <2> QED
    BY <1>2, <1>9, <2>1, <2>2 DEF Recorded
<1> HIDE DEF records, s, k
<1>11. quiet => k \in At(records, s)
  BY <1>8, <1>10 DEF At
<1>12. c.candidates = At(records, s)
  BY DEF Correlate
<1>13. quiet => c.kind # "impossible"
  BY <1>11 DEF Correlate
<1>14. ASSUME c.kind = "exact", quiet \/ Repeated(telemetry) = {}
       PROVE  c.candidates = {k}
  <2>1. PICK x \in At(records, s) : At(records, s) = {x}
    BY <1>14 DEF Correlate
  <2>2. x = k
    <3>1. CASE quiet
      BY <1>11, <2>1, <3>1
    <3>2. CASE Repeated(telemetry) = {}
      <4>1. x \in Decoded(telemetry) /\ telemetry[x].sequence = s
        BY <1>10, <2>1 DEF At, Decoded
      <4> QED
        BY <1>8, <1>9, <3>2, <4>1 DEF Distinct
    <3> QED
      BY <1>14, <3>1, <3>2
  <2> QED
    BY <1>12, <2>1, <2>2
<1> QED
  BY <1>5, <1>13, <1>14 DEF k

(* Inspector and alarm engine agree about gaps, whatever was recorded and  *)
(* wherever in it the inspector stopped reading: the gap alarms that the   *)
(* recording explains are as many as the gap diagnostics and the immediate *)
(* repeats.                                                                *)
THEOREM RepeatsAgree == InspectionSpec => []RepeatsExplainGaps
  BY SessionCorrect, RepeatsExplain, PTL

(* A correlation called exact names the record that raised the alarm, if   *)
(* the listener had stopped or no sequence number occurs twice; and the    *)
(* inspector of a finished session misses no record.                       *)
THEOREM ExactCauses == InspectionSpec => []ExactNamesItsCause
  BY SessionCorrect, ExactNames, PTL
-----------------------------------------------------------------------------
(* The session and its report.  A timeline is its entries arranged in the  *)
(* order of their presentation; the filters and the limit leave some of    *)
(* its places.                                                             *)

(* A finite set in a strict total order is arranged in that order: every   *)
(* member has one place.                                                   *)
LEMMA Ranking ==
  ASSUME NEW S, IsFiniteSet(S), NEW R,
         \A a \in S : <<a, a>> \notin R,
         \A a, b, c \in S : <<a, b>> \in R /\ <<b, c>> \in R => <<a, c>> \in R,
         \A a, b \in S : a # b => <<a, b>> \in R \/ <<b, a>> \in R
  PROVE  /\ Cardinality(S) \in Nat
         /\ Arranged(S, R) \in [1 .. Cardinality(S) -> S]
         /\ \A i, j \in 1 .. Cardinality(S) : i < j => <<Arranged(S, R)[i], Arranged(S, R)[j]>> \in R
         /\ \A a \in S : \E i \in 1 .. Cardinality(S) : Arranged(S, R)[i] = a
<1> DEFINE n == Cardinality(S)
           Below(m) == {b \in S : <<b, m>> \in R}
           place == [m \in S |-> Cardinality(Below(m)) + 1]
<1>1. n \in Nat
  BY FS_CardinalityType
<1>2. ASSUME NEW m \in S
      PROVE  /\ Below(m) \in SUBSET S /\ m \notin Below(m) /\ IsFiniteSet(Below(m))
             /\ Cardinality(Below(m)) \in Nat /\ Cardinality(Below(m) \cup {m}) = Cardinality(Below(m)) + 1
  <2>1. Below(m) \in SUBSET S /\ m \notin Below(m)
    OBVIOUS
  <2> HIDE DEF Below
  <2>2. IsFiniteSet(Below(m))
    BY <2>1, FS_Subset
  <2> QED
    BY <2>1, <2>2, FS_AddElement, FS_CardinalityType
<1>3. DOMAIN place = S /\ \A m \in S : place[m] = Cardinality(Below(m)) + 1
  OBVIOUS
<1>4. Arranged(S, R) = [k \in 1 .. n |-> CHOOSE m \in S : place[m] = k]
  <2> DEFINE low == [m \in S |-> Cardinality(Below(m))]
  <2>1. Arranged(S, R) = [k \in 1 .. n |-> CHOOSE m \in S : low[m] = k - 1]
    BY DEF Arranged
  <2>2. \A m \in S : low[m] \in Nat /\ place[m] = low[m] + 1
    BY <1>2
  <2> HIDE DEF low, place, n, Below
  <2>3. \A k \in 1 .. n : \A m \in S : low[m] = k - 1 <=> place[m] = k
    BY <1>1, <2>2
  <2>4. \A k \in 1 .. n : (CHOOSE m \in S : low[m] = k - 1) = (CHOOSE m \in S : place[m] = k)
    BY <2>3
  <2> QED
    BY <2>1, <2>4
<1> HIDE DEF place
<1>5. ASSUME NEW a \in S, NEW b \in S, <<a, b>> \in R PROVE place[a] < place[b]
  <2>1. Below(a) \cup {a} \in SUBSET Below(b)
    BY <1>5
  <2> HIDE DEF Below
  <2>2. Cardinality(Below(a) \cup {a}) <= Cardinality(Below(b))
    BY <1>2, <2>1, FS_Subset
  <2>3. /\ Cardinality(Below(a)) \in Nat /\ Cardinality(Below(b)) \in Nat
        /\ Cardinality(Below(a) \cup {a}) = Cardinality(Below(a)) + 1
    BY <1>2
  <2>4. place[a] = Cardinality(Below(a)) + 1 /\ place[b] = Cardinality(Below(b)) + 1
    BY <1>3
  <2> QED
    BY <2>2, <2>3, <2>4
<1>6. ASSUME NEW a \in S PROVE place[a] \in 1 .. n
  <2>1. Below(a) \cup {a} \in SUBSET S
    OBVIOUS
  <2> HIDE DEF Below
  <2>2. Cardinality(Below(a) \cup {a}) <= n
    BY <2>1, FS_Subset
  <2> HIDE DEF n
  <2> QED
    BY <1>1, <1>2, <1>3, <2>2
<1> HIDE DEF Below, n
<1>7. ASSUME NEW a \in S, NEW b \in S
      PROVE  /\ place[a] = place[b] => a = b
             /\ place[a] < place[b] => <<a, b>> \in R
  <2>1. /\ place[a] \in Int /\ place[b] \in Int
        /\ <<a, b>> \in R => place[a] < place[b]
        /\ <<b, a>> \in R => place[b] < place[a]
    BY <1>1, <1>5, <1>6
  <2> QED
    BY <2>1
<1>8. /\ \A a, b \in S : place[a] = place[b] => a = b
      /\ \A a, b \in S : place[a] < place[b] => <<a, b>> \in R
  BY <1>7
<1>9. \A k \in 1 .. n : \E m \in S : place[m] = k
  <2> DEFINE f == [m \in S |-> place[m]]
  <2>1. f \in Injection(S, 1 .. n)
    BY <1>6, <1>8 DEF Injection, IsInjective
  <2>2. IsFiniteSet(1 .. n) /\ Cardinality(1 .. n) = Cardinality(S)
    BY <1>1, FS_Interval DEF n
  <2> HIDE DEF f
  <2>3. f \in Surjection(S, 1 .. n)
    BY <2>1, <2>2, FS_Injection DEF n
  <2> QED
    BY <2>3 DEF Surjection, f
<1> DEFINE t == Arranged(S, R)
<1>10. \A k \in 1 .. n : t[k] \in S /\ place[t[k]] = k
  BY <1>4, <1>9
<1>11. t \in [1 .. n -> S]
  BY <1>4, <1>10
<1> HIDE DEF t
<1>12. \A a \in S : t[place[a]] = a
  BY <1>6, <1>8, <1>10
<1>13. \A i, j \in 1 .. n : i < j => <<t[i], t[j]>> \in R
  BY <1>8, <1>10
<1> QED
  BY <1>1, <1>6, <1>11, <1>12, <1>13 DEF t, n

(* What is picked from a sequence keeps its order.                         *)
LEMMA Picking ==
  ASSUME NEW T, NEW s \in Seq(T), NEW P \in SUBSET DOMAIN s
  PROVE  /\ Cardinality(P) \in 0 .. Len(s)
         /\ \E at \in [1 .. Cardinality(P) -> P] :
              /\ Picked(s, P) = [k \in 1 .. Cardinality(P) |-> s[at[k]]]
              /\ \A i, j \in 1 .. Cardinality(P) : i < j => at[i] < at[j]
              /\ \A p \in P : \E i \in 1 .. Cardinality(P) : at[i] = p
<1> DEFINE n == Cardinality(P)
           R == {pair \in P \X P : pair[1] < pair[2]}
           at == Arranged(P, R)
<1>1. Len(s) \in Nat /\ DOMAIN s = 1 .. Len(s)
  OBVIOUS
<1>2. IsFiniteSet(1 .. Len(s)) /\ Cardinality(1 .. Len(s)) = Len(s)
  <2>1. \A m \in Nat : IsFiniteSet(1 .. m) /\ Cardinality(1 .. m) = m
    BY FS_Interval
  <2> QED
    BY <1>1, <2>1
<1>3. IsFiniteSet(P) /\ n <= Len(s)
  BY <1>1, <1>2, FS_Subset
<1>4. P \subseteq Int
  BY <1>1
<1>5. \A a, b \in P : <<a, b>> \in R <=> a < b
  OBVIOUS
<1>6. Picked(s, P) = [k \in DOMAIN at |-> s[at[k]]]
  BY DEF Picked
<1> HIDE DEF R
<1>7. /\ \A a \in P : <<a, a>> \notin R
      /\ \A a, b, c \in P : <<a, b>> \in R /\ <<b, c>> \in R => <<a, c>> \in R
      /\ \A a, b \in P : a # b => <<a, b>> \in R \/ <<b, a>> \in R
  BY <1>4, <1>5
<1> HIDE DEF at
<1>8. /\ n \in Nat /\ at \in [1 .. n -> P]
      /\ \A i, j \in 1 .. n : i < j => <<at[i], at[j]>> \in R
      /\ \A a \in P : \E i \in 1 .. n : at[i] = a
  BY <1>3, <1>7, Ranking DEF at
<1> HIDE DEF n
<1>9. \A i, j \in 1 .. n : i < j => at[i] < at[j]
  BY <1>5, <1>8
<1>10. Picked(s, P) = [k \in 1 .. n |-> s[at[k]]]
  BY <1>6, <1>8
<1> QED
  BY <1>1, <1>3, <1>8, <1>9, <1>10 DEF n

(* A lane as the loaders return one: a tuple of records.                   *)
IsLane(lane) == \E T : lane.records \in Seq(T)

(* Its records are counted from one.                                       *)
LEMMA LaneIs ==
  ASSUME NEW lane, IsLane(lane)
  PROVE  /\ Len(lane.records) \in Nat /\ DOMAIN lane.records = 1 .. Len(lane.records)
         /\ IsFiniteSet(DOMAIN lane.records) /\ DOMAIN lane.records \subseteq Int
         /\ Cardinality(DOMAIN lane.records) = Len(lane.records)
         /\ lane.records # <<>> => Len(lane.records) > 0
<1>1. PICK T : lane.records \in Seq(T)
  BY DEF IsLane
<1> DEFINE s == lane.records
<1> HIDE DEF s
<1>2. s \in Seq(T)
  BY <1>1 DEF s
<1>3. Len(s) \in Nat /\ DOMAIN s = 1 .. Len(s) /\ (s # <<>> => Len(s) > 0)
  BY <1>2
<1>4. \A m \in Nat : IsFiniteSet(1 .. m) /\ 1 .. m \subseteq Int /\ Cardinality(1 .. m) = m
  BY FS_Interval
<1> QED
  BY <1>3, <1>4 DEF s

EntriesOf(t, a, l) == TelemetryEntries(t) \cup AlarmEntries(a, t) \cup LinkEntries(l)

(* An entry is about one record of its lane, and has its number.           *)
IsEntryOf(e, t, a, l) ==
  \/ /\ e.lane = "telemetry" /\ e.at \in DOMAIN t.records
     /\ e = IF t.records[e.at] = Garbage THEN Entry("telemetry", e.at, "telemetry_rejected", Absent)
            ELSE Entry("telemetry", e.at, "telemetry_packet", t.records[e.at].sequence)
  \/ /\ e.lane = "alarm" /\ e.at \in TransitionsIn(a.records)
     /\ e.kind = "alarm_transition" /\ e.sequence = a.records[e.at].sequence
     /\ e.correlation = Correlate(t.records, e.sequence)
  \/ /\ e.lane = "link" /\ e.at \in DOMAIN l.records
     /\ e = Entry("link", e.at, "link_event", Absent)

(* The entries are those of the records, and there is one for a record.    *)
LEMMA EntriesAre ==
  ASSUME NEW t, NEW a, NEW l
  PROVE  /\ \A e \in EntriesOf(t, a, l) : IsEntryOf(e, t, a, l)
         /\ \A d, e \in EntriesOf(t, a, l) : d.lane = e.lane /\ d.at = e.at => d = e
         /\ \A i \in Decoded(t.records) :
              Entry("telemetry", i, "telemetry_packet", t.records[i].sequence) \in EntriesOf(t, a, l)
<1> DEFINE Of(i) == [Entry("alarm", i, "alarm_transition", a.records[i].sequence) EXCEPT
                       !.code = <<a.records[i].identity, a.records[i].severity>>,
                       !.severity = a.records[i].severity,
                       !.correlation = Correlate(t.records, a.records[i].sequence)]
           Tel(i) == IF t.records[i] = Garbage THEN Entry("telemetry", i, "telemetry_rejected", Absent)
                     ELSE Entry("telemetry", i, "telemetry_packet", t.records[i].sequence)
<1>1. AlarmEntries(a, t) = {Of(i) : i \in TransitionsIn(a.records)}
  BY DEF AlarmEntries
<1>2. TelemetryEntries(t) = {Tel(i) : i \in DOMAIN t.records}
  BY DEF TelemetryEntries
<1>3. \A i : /\ Of(i).lane = "alarm" /\ Of(i).at = i /\ Of(i).kind = "alarm_transition"
             /\ Of(i).sequence = a.records[i].sequence
             /\ Of(i).correlation = Correlate(t.records, a.records[i].sequence)
  BY DEF Entry
<1>4. \A i : Tel(i).lane = "telemetry" /\ Tel(i).at = i
  BY DEF Entry
<1>5. \A e \in LinkEntries(l) : /\ e.lane = "link" /\ e.at \in DOMAIN l.records
                                /\ e = Entry("link", e.at, "link_event", Absent)
  BY DEF LinkEntries, Entry
<1> HIDE DEF Of
<1>6. \A e \in AlarmEntries(a, t) : /\ e.lane = "alarm" /\ e.at \in TransitionsIn(a.records)
                                    /\ e.kind = "alarm_transition" /\ e.sequence = a.records[e.at].sequence
                                    /\ e.correlation = Correlate(t.records, e.sequence)
                                    /\ e = Of(e.at)
  BY <1>1, <1>3
<1>7. ASSUME NEW i \in Decoded(t.records)
      PROVE  Entry("telemetry", i, "telemetry_packet", t.records[i].sequence) \in TelemetryEntries(t)
  BY <1>2 DEF Decoded
<1> HIDE DEF Tel
<1>8. \A e \in TelemetryEntries(t) : e.lane = "telemetry" /\ e.at \in DOMAIN t.records /\ e = Tel(e.at)
  BY <1>2, <1>4
<1>9. \A e \in EntriesOf(t, a, l) : IsEntryOf(e, t, a, l)
  <2>1. \A e \in TelemetryEntries(t) : IsEntryOf(e, t, a, l)
    BY <1>8 DEF IsEntryOf, Tel
  <2>2. \A e \in AlarmEntries(a, t) : IsEntryOf(e, t, a, l)
    BY <1>6 DEF IsEntryOf
  <2>3. \A e \in LinkEntries(l) : IsEntryOf(e, t, a, l)
    BY <1>5 DEF IsEntryOf
  <2> QED
    BY <2>1, <2>2, <2>3 DEF EntriesOf
<1>10. \A e \in EntriesOf(t, a, l) :
         e = IF e.lane = "telemetry" THEN Tel(e.at)
             ELSE IF e.lane = "alarm" THEN Of(e.at)
             ELSE Entry("link", e.at, "link_event", Absent)
  BY <1>5, <1>6, <1>8 DEF EntriesOf
<1>11. \A d, e \in EntriesOf(t, a, l) : d.lane = e.lane /\ d.at = e.at => d = e
  <2> SUFFICES ASSUME NEW d \in EntriesOf(t, a, l), NEW e \in EntriesOf(t, a, l),
                      d.lane = e.lane, d.at = e.at
               PROVE  d = e
    OBVIOUS
  <2> DEFINE lane == d.lane
             at == d.at
             one == IF lane = "telemetry" THEN Tel(at)
                    ELSE IF lane = "alarm" THEN Of(at)
                    ELSE Entry("link", at, "link_event", Absent)
  <2>1. d = one
    BY <1>10
  <2>2. e = one
    BY <1>10
  <2> QED
    BY <2>1, <2>2
<1> QED
  BY <1>7, <1>9, <1>11 DEF EntriesOf

(* The lanes in the order of their names in LanePrecedence.                *)
LEMMA Ranks == Rank("telemetry") = 1 /\ Rank("alarm") = 2 /\ Rank("link") = 3
<1>1. \A r \in 1 .. 3 : /\ LanePrecedence[r] = "telemetry" <=> r = 1
                        /\ LanePrecedence[r] = "alarm" <=> r = 2
                        /\ LanePrecedence[r] = "link" <=> r = 3
  BY DEF LanePrecedence
<1>2. 1 \in 1 .. 3 /\ 2 \in 1 .. 3 /\ 3 \in 1 .. 3
  OBVIOUS
<1> QED
  BY <1>1, <1>2 DEF Rank

(* The timeline is all entries, once each, in the order of their           *)
(* presentation.                                                           *)
LEMMA TimelineIs ==
  ASSUME NEW t, NEW a, NEW l, IsLane(t), IsLane(a), IsLane(l)
  PROVE  /\ Timeline(t, a, l) \in Seq(EntriesOf(t, a, l))
         /\ \A i, j \in DOMAIN Timeline(t, a, l) :
              i < j => PresentedBefore(Timeline(t, a, l)[i], Timeline(t, a, l)[j])
         /\ \A e \in EntriesOf(t, a, l) : \E i \in DOMAIN Timeline(t, a, l) : Timeline(t, a, l)[i] = e
<1> DEFINE es == EntriesOf(t, a, l)
           R == {pair \in es \X es : PresentedBefore(pair[1], pair[2])}
           lanes3 == {"telemetry", "alarm", "link"}
           places == DOMAIN t.records \cup DOMAIN a.records \cup DOMAIN l.records
           n == Cardinality(es)
<1>1. Timeline(t, a, l) = Arranged(es, R)
  BY DEF Timeline, EntriesOf
<1>2. \A d, e \in es : <<d, e>> \in R <=> PresentedBefore(d, e)
  OBVIOUS
<1>3. /\ \A e \in es : e.lane \in lanes3 /\ e.at \in places
      /\ \A d, e \in es : d.lane = e.lane /\ d.at = e.at => d = e
  BY EntriesAre DEF IsEntryOf, TransitionsIn
<1> HIDE DEF es, R
<1>4. IsFiniteSet(places) /\ places \subseteq Int
  <2>1. \A lane : IsLane(lane) => IsFiniteSet(DOMAIN lane.records) /\ DOMAIN lane.records \subseteq Int
    BY LaneIs
  <2> QED
    BY <2>1, FS_Union
<1>5. IsFiniteSet(lanes3)
  <2>1. lanes3 = ({} \cup {"telemetry"} \cup {"alarm"}) \cup {"link"}
    OBVIOUS
  <2>2. IsFiniteSet({} \cup {"telemetry"})
    BY FS_EmptySet, FS_AddElement
  <2>3. IsFiniteSet(({} \cup {"telemetry"}) \cup {"alarm"})
    BY <2>2, FS_AddElement
  <2> QED
    BY <2>1, <2>3, FS_AddElement
<1>6. IsFiniteSet(es)
  <2> DEFINE key == [e \in es |-> <<e.lane, e.at>>]
  <2>1. key \in [es -> lanes3 \X places]
    BY <1>3
  <2>2. \A d, e \in es : key[d] = key[e] => d = e
    BY <1>3
  <2> HIDE DEF key
  <2>3. key \in Injection(es, lanes3 \X places)
    BY <2>1, <2>2 DEF Injection, IsInjective
  <2>4. IsFiniteSet(lanes3 \X places)
    BY <1>4, <1>5, FS_Product
  <2> QED
    BY <2>3, <2>4, FS_Injection
<1>7. /\ \A d, e \in es : PresentedBefore(d, e) <=>
             \/ Rank(d.lane) < Rank(e.lane)
             \/ d.lane = e.lane /\ d.at < e.at
      /\ \A e \in es : Rank(e.lane) \in Int /\ e.at \in Int
      /\ \A d, e \in es : Rank(d.lane) = Rank(e.lane) => d.lane = e.lane
  BY <1>3, <1>4, Ranks DEF PresentedBefore
<1>8. /\ \A e \in es : <<e, e>> \notin R
      /\ \A c, d, e \in es : <<c, d>> \in R /\ <<d, e>> \in R => <<c, e>> \in R
      /\ \A d, e \in es : d # e => <<d, e>> \in R \/ <<e, d>> \in R
  <2>1. ASSUME NEW e \in es PROVE ~PresentedBefore(e, e)
    BY <1>7
  <2>2. ASSUME NEW c \in es, NEW d \in es, NEW e \in es, PresentedBefore(c, d), PresentedBefore(d, e)
        PROVE  PresentedBefore(c, e)
    BY <1>7, <2>2
  <2>3. ASSUME NEW d \in es, NEW e \in es, d # e
        PROVE  PresentedBefore(d, e) \/ PresentedBefore(e, d)
    BY <1>3, <1>7, <2>3
  <2> QED
    BY <1>2, <2>1, <2>2, <2>3
<1> DEFINE tl == Arranged(es, R)
<1> HIDE DEF tl
<1>9. /\ n \in Nat /\ tl \in [1 .. n -> es]
      /\ \A i, j \in 1 .. n : i < j => <<tl[i], tl[j]>> \in R
      /\ \A e \in es : \E i \in 1 .. n : tl[i] = e
  BY <1>6, <1>8, Ranking DEF tl
<1> HIDE DEF n
<1>10. tl \in Seq(es) /\ DOMAIN tl = 1 .. n
  BY <1>9
<1>11. \A i, j \in DOMAIN tl : i < j => PresentedBefore(tl[i], tl[j])
  BY <1>2, <1>9, <1>10
<1> QED
  BY <1>1, <1>9, <1>10, <1>11 DEF tl, es

(* Lanes that loaded, with the sequence numbers of packets.                *)
Loaded(t, a, l) ==
  /\ IsLane(t) /\ IsLane(a) /\ IsLane(l)
  /\ \A i \in Decoded(t.records) : t.records[i].sequence \in 0 .. SequenceModulus - 1
  /\ \A i \in TransitionsIn(a.records) : a.records[i].sequence \in 0 .. SequenceModulus - 1

(* A correlation has as many candidates as its kind says.                  *)
LEMMA CorrelationIsAccepted ==
  ASSUME NEW t, IsLane(t), NEW s
  PROVE  /\ Correlate(t.records, s).kind \in {"exact", "ambiguous", "impossible"}
         /\ DecisionAccepted(Correlate(t.records, s))
<1> DEFINE C == At(t.records, s)
           d == Correlate(t.records, s)
<1>1. IsFiniteSet(C)
  <2>1. C \in SUBSET (DOMAIN t.records)
    BY DEF At, Decoded
  <2> QED
    BY <2>1, LaneIs, FS_Subset
<1>2. /\ d.candidates = C
      /\ d.kind = IF C = {} THEN "impossible" ELSE IF \E i \in C : C = {i} THEN "exact" ELSE "ambiguous"
  BY DEF Correlate
<1> HIDE DEF d, C
<1>3. Cardinality(C) \in Nat
  BY <1>1, FS_CardinalityType
<1>4. Cardinality(C) = 0 <=> C = {}
  BY <1>1, FS_EmptySet
<1>5. Cardinality(C) = 1 <=> \E i \in C : C = {i}
  <2>1. (\E i \in C : C = {i}) <=> \E i : C = {i}
    OBVIOUS
  <2> QED
    BY <1>1, <2>1, FS_Singleton
<1>6. d.kind = "exact" => Cardinality(C) = 1
  BY <1>2, <1>5
<1>7. d.kind = "ambiguous" => Cardinality(C) >= 2
  BY <1>2, <1>3, <1>4, <1>5
<1>8. d.kind \in {"exact", "ambiguous", "impossible"} /\ (d.kind \notin {"exact", "ambiguous"} => C = {})
  BY <1>2
<1>9. d.candidates = C
  BY <1>2
<1>10. DecisionAccepted(d)
  BY <1>6, <1>7, <1>8, <1>9 DEF DecisionAccepted
<1> QED
  BY <1>8, <1>10 DEF d

(* TimelineEntry refuses no entry.                                         *)
LEMMA EntryIsAccepted ==
  ASSUME NEW t, NEW a, NEW l, Loaded(t, a, l), NEW e \in EntriesOf(t, a, l)
  PROVE  EntryAccepted(e)
<1>1. \A n \in 0 .. SequenceModulus - 1 : n # Absent
  BY ModulusAssumption DEF Absent
<1>2. IsEntryOf(e, t, a, l)
  BY EntriesAre
<1>3. CASE e.lane = "telemetry"
  <2>1. e.at \in DOMAIN t.records
    BY <1>2, <1>3 DEF IsEntryOf
  <2>2. CASE t.records[e.at] = Garbage
    <3>1. e = Entry("telemetry", e.at, "telemetry_rejected", Absent)
      BY <1>2, <1>3, <2>2 DEF IsEntryOf
    <3>2. e.kind = "telemetry_rejected" /\ e.sequence = Absent /\ e.correlation = NoDecision
      BY <3>1 DEF Entry
    <3> QED
      BY <1>3, <3>2 DEF EntryAccepted
  <2>3. CASE t.records[e.at] # Garbage
    <3>1. e = Entry("telemetry", e.at, "telemetry_packet", t.records[e.at].sequence)
      BY <1>2, <1>3, <2>3 DEF IsEntryOf
    <3>2. /\ e.kind = "telemetry_packet" /\ e.sequence = t.records[e.at].sequence
          /\ e.correlation = NoDecision
      BY <3>1 DEF Entry
    <3>3. e.sequence \in 0 .. SequenceModulus - 1
      BY <2>1, <2>3, <3>2 DEF Loaded, Decoded
    <3> QED
      BY <1>1, <1>3, <3>2, <3>3 DEF EntryAccepted
  <2> QED
    BY <2>2, <2>3
<1>4. CASE e.lane = "alarm"
  <2>1. /\ e.at \in TransitionsIn(a.records) /\ e.kind = "alarm_transition"
        /\ e.sequence = a.records[e.at].sequence /\ e.correlation = Correlate(t.records, e.sequence)
    BY <1>2, <1>4 DEF IsEntryOf
  <2>2. e.sequence \in 0 .. SequenceModulus - 1
    BY <2>1 DEF Loaded
  <2>3. e.correlation.kind \in {"exact", "ambiguous", "impossible"} /\ DecisionAccepted(e.correlation)
    BY <2>1, CorrelationIsAccepted DEF Loaded
  <2> QED
    BY <1>1, <1>4, <2>1, <2>2, <2>3 DEF EntryAccepted
<1>5. CASE e.lane = "link"
  <2>1. e = Entry("link", e.at, "link_event", Absent)
    BY <1>2, <1>5 DEF IsEntryOf
  <2>2. e.kind = "link_event" /\ e.sequence = Absent /\ e.correlation = NoDecision
    BY <2>1 DEF Entry
  <2> QED
    BY <1>5, <2>2 DEF EntryAccepted
<1> QED
  BY <1>2, <1>3, <1>4, <1>5 DEF IsEntryOf

(* The counters of events are natural numbers.                             *)
LEMMA EventsAreCounted ==
  ASSUME NEW lane, IsLane(lane)
  PROVE  /\ \A c \in DOMAIN Alarm!StatisticsFromEvents(lane.records) :
              Alarm!StatisticsFromEvents(lane.records)[c] >= 0
         /\ \A c \in DOMAIN Link!StatisticsFromEvents(lane.records) :
              Link!StatisticsFromEvents(lane.records)[c] >= 0
<1> DEFINE Of(c) == {i \in DOMAIN lane.records : lane.records[i].type = c}
<1>1. \A c : Cardinality(Of(c)) \in Nat
  <2>1. \A c : Of(c) \in SUBSET (DOMAIN lane.records)
    OBVIOUS
  <2> QED
    BY <2>1, LaneIs, FS_Subset, FS_CardinalityType
<1>2. Alarm!StatisticsFromEvents(lane.records) = [c \in Alarm!TransitionTypes |-> Cardinality(Of(c))]
  BY DEF Alarm!StatisticsFromEvents, Alarm!Cardinality, Cardinality
<1>3. Link!StatisticsFromEvents(lane.records) = [c \in Link!CountedTypes |-> Cardinality(Of(c))]
  BY DEF Link!StatisticsFromEvents, Link!Cardinality, Cardinality
<1> HIDE DEF Of
<1> QED
  BY <1>1, <1>2, <1>3

(* So are those of the telemetry recording.                                *)
LEMMA TelemetryIsCounted ==
  ASSUME NEW t, IsLane(t)
  PROVE  \A c \in DOMAIN TelemetryCounters(t.records) : TelemetryCounters(t.records)[c] >= 0
<1> DEFINE D == Decoded(t.records)
           sequences == {t.records[i].sequence : i \in D}
           counters == TelemetryCounters(t.records)
<1>1. D \in SUBSET (DOMAIN t.records) /\ Gaps(t.records) \in SUBSET (DOMAIN t.records)
  BY DEF Decoded, Gaps
<1>2. /\ IsFiniteSet(D) /\ Cardinality(D) \in Nat /\ Cardinality(D) <= Len(t.records)
      /\ Len(t.records) \in Nat /\ Cardinality(Gaps(t.records)) \in Nat
  BY <1>1, LaneIs, FS_Subset, FS_CardinalityType
<1>3. Cardinality(sequences) \in Nat /\ Cardinality(sequences) <= Cardinality(D)
  <2> DEFINE f == [i \in D |-> t.records[i].sequence]
  <2>1. f \in Surjection(D, sequences)
    BY DEF Surjection
  <2> HIDE DEF f, sequences, D
  <2> QED
    BY <1>2, <2>1, FS_Surjection, FS_CardinalityType
<1>4. counters = [packets_decoded |-> Cardinality(D), packets_rejected |-> Len(t.records) - Cardinality(D),
                  sequence_gaps |-> Cardinality(Gaps(t.records)),
                  sequence_duplicates |-> Cardinality(D) - Cardinality(sequences)]
  BY DEF TelemetryCounters
<1> HIDE DEF counters, sequences, D
<1>5. /\ counters["packets_decoded"] >= 0 /\ counters["packets_rejected"] >= 0
      /\ counters["sequence_gaps"] >= 0 /\ counters["sequence_duplicates"] >= 0
  BY <1>2, <1>3, <1>4
<1>6. DOMAIN counters = {"packets_decoded", "packets_rejected", "sequence_gaps", "sequence_duplicates"}
  BY <1>4
<1> QED
  BY <1>5, <1>6 DEF counters

(* Neither LaneSummary nor NormalizedSession refuses what was loaded.      *)
LEMMA SessionIsAccepted ==
  ASSUME NEW t, NEW a, NEW l, Loaded(t, a, l)
  PROVE  SessionAccepted(Session(t, a, l))
<1> DEFINE session == Session(t, a, l)
           tl == Timeline(t, a, l)
           first == Source("telemetry", t, FALSE, TelemetryCounters(t.records))
           second == Source("alarm", a, HasSummary(a.records), Alarm!StatisticsFromEvents(a.records))
           third == Source("link", l, HasSummary(l.records), Link!StatisticsFromEvents(l.records))
<1>1. session.sources = <<first, second, third>> /\ session.timeline = tl
  BY DEF Session
<1>2. IsLane(t) /\ IsLane(a) /\ IsLane(l)
  BY DEF Loaded
<1>3. SourceAccepted(first)
  BY <1>2, TelemetryIsCounted DEF SourceAccepted, Source
<1>4. ASSUME NEW lane, IsLane(lane), NEW name, name # "telemetry", NEW counters,
             \A c \in DOMAIN counters : counters[c] >= 0
      PROVE  SourceAccepted(Source(name, lane, HasSummary(lane.records), counters))
  <2>1. HasSummary(lane.records) => Len(lane.records) > 0
    BY <1>4, LaneIs DEF HasSummary
  <2> QED
    BY <1>4, <2>1 DEF SourceAccepted, Source
<1>5. SourceAccepted(second) /\ SourceAccepted(third)
  BY <1>2, <1>4, EventsAreCounted
<1>6. first.lane = "telemetry" /\ second.lane = "alarm" /\ third.lane = "link"
  BY DEF Source
<1> HIDE DEF first, second, third, session, tl
<1>7. [i \in 1 .. 3 |-> session.sources[i].lane] = LanePrecedence
  BY <1>1, <1>6 DEF LanePrecedence
<1>8. \A i \in 1 .. 3 : SourceAccepted(session.sources[i])
  BY <1>1, <1>3, <1>5
<1>9. /\ tl \in Seq(EntriesOf(t, a, l))
      /\ \A i, j \in DOMAIN tl : i < j => PresentedBefore(tl[i], tl[j])
  BY <1>2, TimelineIs DEF tl
<1>10. \A i \in DOMAIN tl : EntryAccepted(tl[i])
  BY <1>9, EntryIsAccepted
<1>11. InOrder(tl)
  BY <1>9 DEF InOrder
<1> QED
  BY <1>1, <1>7, <1>8, <1>10, <1>11 DEF SessionAccepted, session

(* The diagnostics with one code.                                          *)
LEMMA Noted ==
  ASSUME NEW I, IsFiniteSet(I), NEW severity, NEW code, NEW lane
  PROVE  /\ IsFiniteSet({Diagnostic(severity, code, lane, i) : i \in I})
         /\ \A d \in {Diagnostic(severity, code, lane, i) : i \in I} : d.severity = severity
<1> DEFINE f == [i \in I |-> Diagnostic(severity, code, lane, i)]
           all == {Diagnostic(severity, code, lane, i) : i \in I}
<1>1. f \in Surjection(I, all)
  BY DEF Surjection
<1>2. \A d \in all : d.severity = severity
  BY DEF Diagnostic
<1> HIDE DEF f, all
<1>3. IsFiniteSet(all)
  BY <1>1, FS_Surjection
<1> QED
  BY <1>2, <1>3 DEF all

(* Finitely many warnings and errors.                                      *)
Noticed(D) == IsFiniteSet(D) /\ \A d \in D : d.severity \in {"warning", "error"}

(* The diagnostics of a session are that, so none of them is the notice    *)
(* that the report was cut.                                                *)
LEMMA DiagnosticsAre ==
  ASSUME NEW t, NEW a, NEW l, IsLane(t), IsLane(a), IsLane(l)
  PROVE  Noticed(Session(t, a, l).diagnostics)
<1>1. \A C, D : Noticed(C) /\ Noticed(D) => Noticed(C \cup D)
  BY FS_Union DEF Noticed
<1>2. \A name, lane : Noticed(LaneDiagnostics(name, lane)) /\ Noticed(MissingSummary(name, lane))
  <2>1. \A code, lane, at : Diagnostic("warning", code, lane, at).severity = "warning"
    BY DEF Diagnostic
  <2>2. \A d : d.severity = "warning" => Noticed({d})
    BY FS_Singleton DEF Noticed
  <2>3. Noticed({})
    BY FS_EmptySet DEF Noticed
  <2> QED
    BY <2>1, <2>2, <2>3 DEF LaneDiagnostics, MissingSummary
<1>3. ASSUME NEW lane, IsLane(lane), NEW I \in SUBSET (DOMAIN lane.records),
             NEW severity \in {"warning", "error"}, NEW code, NEW name
      PROVE  Noticed({Diagnostic(severity, code, name, i) : i \in I})
  <2>1. IsFiniteSet(I)
    BY <1>3, LaneIs, FS_Subset
  <2> QED
    BY <2>1, Noted DEF Noticed
<1>4. Noticed(TelemetryDiagnostics(t))
  <2> DEFINE I == DOMAIN t.records \ Decoded(t.records)
             A == {Diagnostic("warning", "telemetry_packet_rejected", "telemetry", i) : i \in I}
             J == Repeated(t.records)
             B == {Diagnostic("warning", "telemetry_sequence_duplicate", "telemetry", i) : i \in J}
             K == Gaps(t.records)
             C == {Diagnostic("warning", "telemetry_sequence_gap", "telemetry", i) : i \in K}
  <2>1. TelemetryDiagnostics(t) = ((LaneDiagnostics("telemetry", t) \cup A) \cup B) \cup C
    BY DEF TelemetryDiagnostics
  <2>2. /\ I \in SUBSET (DOMAIN t.records) /\ J \in SUBSET (DOMAIN t.records)
        /\ K \in SUBSET (DOMAIN t.records)
    BY DEF Decoded, Repeated, Gaps
  <2> HIDE DEF I, J, K
  <2>3. ASSUME NEW M \in SUBSET (DOMAIN t.records), NEW code
        PROVE  Noticed({Diagnostic("warning", code, "telemetry", i) : i \in M})
    BY <1>3
  <2>4. Noticed(A)
    BY <2>2, <2>3
  <2>5. Noticed(B)
    BY <2>2, <2>3
  <2>6. Noticed(C)
    BY <2>2, <2>3
  <2> HIDE DEF A, B, C
  <2> QED
    BY <1>1, <1>2, <2>1, <2>4, <2>5, <2>6
<1>5. Noticed(AlarmDiagnostics(a, t))
  <2> DEFINE K(kind) == {j \in TransitionsIn(a.records) :
                           Correlate(t.records, a.records[j].sequence).kind = kind}
             A == {Diagnostic("error", "alarm_correlation_ambiguous", "alarm", i) : i \in K("ambiguous")}
             B == {Diagnostic("warning", "alarm_correlation_impossible", "alarm", i) : i \in K("impossible")}
  <2>1. \A kind : K(kind) \in SUBSET (DOMAIN a.records)
    BY DEF TransitionsIn
  <2>2. AlarmDiagnostics(a, t) =
          ((LaneDiagnostics("alarm", a) \cup MissingSummary("alarm", a)) \cup A) \cup B
    BY DEF AlarmDiagnostics
  <2> HIDE DEF K
  <2>3. Noticed(A) /\ Noticed(B)
    BY <1>3, <2>1
  <2> HIDE DEF A, B
  <2> QED
    BY <1>1, <1>2, <2>2, <2>3
<1>6. Noticed(LinkDiagnostics(l))
  <2> DEFINE I == {j \in DOMAIN l.records : l.records[j].type = "packet_corrupted"}
             A == {Diagnostic("warning", "link_corruption_observed", "link", i) : i \in I}
  <2>1. LinkDiagnostics(l) = (LaneDiagnostics("link", l) \cup MissingSummary("link", l)) \cup A
    BY DEF LinkDiagnostics
  <2>2. I \in SUBSET (DOMAIN l.records)
    OBVIOUS
  <2> HIDE DEF I
  <2>3. Noticed(A)
    BY <1>3, <2>2
  <2> HIDE DEF A
  <2> QED
    BY <1>1, <1>2, <2>1, <2>3
<1>7. Session(t, a, l).diagnostics =
        (TelemetryDiagnostics(t) \cup AlarmDiagnostics(a, t)) \cup LinkDiagnostics(l)
  BY DEF Session
<1> QED
  BY <1>1, <1>4, <1>5, <1>6, <1>7

(* What the filters and the limit leave of a timeline: its matching        *)
(* entries up to some point, in their order.                               *)
Leaves(document, timeline, f, r, at) ==
  /\ r <= document.matched
  /\ document.timeline = [k \in 1 .. r |-> timeline[at[k]]]
  /\ document.truncated <=> r < document.matched
  /\ \A i, j \in 1 .. r : i < j => at[i] < at[j]
  /\ \A i \in 1 .. r : Matches(timeline[at[i]], f)
  /\ \A p \in DOMAIN timeline : \A i \in 1 .. r :
       p < at[i] /\ Matches(timeline[p], f) => \E j \in 1 .. i - 1 : at[j] = p

(* Projected does that, and adds nothing but the notice of a cut.          *)
LEMMA Projecting ==
  ASSUME NEW T, NEW session, session.timeline \in Seq(T), NEW f, UsableFilters(f)
  PROVE  /\ Projected(session, f).session = session
         /\ Projected(session, f).diagnostics =
              session.diagnostics \cup (IF Projected(session, f).truncated THEN {TruncationNotice} ELSE {})
         /\ Projected(session, f).matched \in 0 .. Len(session.timeline)
         /\ \E r \in Nat : \E at \in [1 .. r -> DOMAIN session.timeline] :
              Leaves(Projected(session, f), session.timeline, f, r, at)
<1> DEFINE tl == session.timeline
           P == {i \in DOMAIN tl : Matches(tl[i], f)}
           m == Cardinality(P)
           matched == Picked(tl, P)
           projected == Projected(session, f)
           whole == f.limit = Absent \/ m <= f.limit
           r == IF whole THEN m ELSE f.limit
<1>1. f.limit = Absent \/ f.limit \in Nat \ {0}
  BY SelectionsAssumption DEF UsableFilters
<1>2. P \in SUBSET DOMAIN tl /\ tl \in Seq(T)
  OBVIOUS
<1>3. /\ projected.session = session
      /\ projected.diagnostics = session.diagnostics
           \cup (IF projected.truncated THEN {TruncationNotice} ELSE {})
      /\ projected.matched = Len(matched) /\ projected.truncated = Cuts(f, Len(matched))
      /\ projected.timeline = IF f.limit = Absent \/ Len(matched) <= f.limit THEN matched
                              ELSE SubSeq(matched, 1, f.limit)
  BY DEF Projected
<1>4. \A p \in P : p \in DOMAIN tl /\ Matches(tl[p], f)
  OBVIOUS
<1>5. \A p \in DOMAIN tl : Matches(tl[p], f) => p \in P
  OBVIOUS
<1> HIDE DEF P, projected
<1>6. /\ m \in 0 .. Len(tl)
      /\ \E at \in [1 .. m -> P] :
           /\ matched = [k \in 1 .. m |-> tl[at[k]]]
           /\ \A i, j \in 1 .. m : i < j => at[i] < at[j]
           /\ \A p \in P : \E i \in 1 .. m : at[i] = p
  <2> HIDE DEF tl
  <2>1. /\ Cardinality(P) \in 0 .. Len(tl)
        /\ \E at \in [1 .. Cardinality(P) -> P] :
             /\ Picked(tl, P) = [k \in 1 .. Cardinality(P) |-> tl[at[k]]]
             /\ \A i, j \in 1 .. Cardinality(P) : i < j => at[i] < at[j]
             /\ \A p \in P : \E i \in 1 .. Cardinality(P) : at[i] = p
    BY <1>2, Picking
  <2> QED
    BY <2>1
<1>7. Len(tl) \in Nat /\ DOMAIN tl = 1 .. Len(tl)
  BY <1>2
<1> HIDE DEF tl, m, matched
<1>8. PICK at \in [1 .. m -> P] :
        /\ matched = [k \in 1 .. m |-> tl[at[k]]]
        /\ \A i, j \in 1 .. m : i < j => at[i] < at[j]
        /\ \A p \in P : \E i \in 1 .. m : at[i] = p
  BY <1>6
<1>9. m \in Nat /\ m <= Len(tl)
  BY <1>6, <1>7
<1>10. Len(matched) = m
  BY <1>8, <1>9
<1>11. r \in 0 .. m /\ (Cuts(f, m) <=> r < m)
  BY <1>1, <1>9 DEF Cuts
<1>12. projected.timeline = [k \in 1 .. r |-> tl[at[k]]]
  <2>1. CASE whole
    BY <1>3, <1>8, <1>10, <2>1
  <2>2. CASE ~whole
    <3>1. r \in 1 .. m /\ projected.timeline = SubSeq(matched, 1, r)
      BY <1>1, <1>3, <1>9, <1>10, <2>2
    <3> HIDE DEF r
    <3>2. SubSeq(matched, 1, r) = [k \in 1 .. r |-> matched[k]]
      BY <1>8, <1>9, <1>10, <3>1
    <3> QED
      BY <1>8, <1>9, <3>1, <3>2
  <2> QED
    BY <2>1, <2>2
<1> HIDE DEF r, whole
<1> DEFINE shown == [k \in 1 .. r |-> at[k]]
<1>13. /\ 1 .. r \subseteq 1 .. m
       /\ \A k \in 1 .. r : shown[k] = at[k] /\ at[k] \in P /\ at[k] \in DOMAIN tl /\ at[k] \in Int
  BY <1>4, <1>7, <1>8, <1>9, <1>11
<1>14. shown \in [1 .. r -> DOMAIN tl]
  BY <1>13
<1>15. projected.timeline = [k \in 1 .. r |-> tl[shown[k]]]
  BY <1>12, <1>13
<1>16. \A i, j \in 1 .. r : i < j => shown[i] < shown[j]
  BY <1>8, <1>13
<1>17. \A i \in 1 .. r : Matches(tl[shown[i]], f)
  BY <1>4, <1>13
<1>18. ASSUME NEW p \in DOMAIN tl, NEW i \in 1 .. r, p < shown[i], Matches(tl[p], f)
       PROVE  \E j \in 1 .. i - 1 : shown[j] = p
  <2>1. PICK j \in 1 .. m : at[j] = p
    BY <1>5, <1>8, <1>18
  <2>2. i \in 1 .. m /\ at[i] = shown[i] /\ at[i] \in Int /\ p \in Int
    BY <1>7, <1>13
  <2>3. ~(i = j) /\ ~(i < j)
    BY <1>8, <1>18, <2>1, <2>2
  <2>4. j \in 1 .. i - 1 /\ j \in 1 .. r
    BY <1>9, <1>11, <2>2, <2>3
  <2> QED
    BY <1>13, <2>1, <2>4
<1> HIDE DEF shown
<1>19. projected.matched = m /\ (projected.truncated <=> r < m)
  BY <1>3, <1>10, <1>11
<1>20. Leaves(projected, tl, f, r, shown)
  BY <1>11, <1>15, <1>16, <1>17, <1>18, <1>19 DEF Leaves
<1>21. r \in Nat
  BY <1>9, <1>11
<1> QED
  BY <1>3, <1>6, <1>14, <1>19, <1>20, <1>21 DEF projected, tl

(* SessionReport refuses no projection of a session.                       *)
LEMMA ReportIsAccepted ==
  ASSUME NEW t, NEW a, NEW l, IsLane(t), IsLane(a), IsLane(l), NEW f, UsableFilters(f)
  PROVE  ReportAccepted(Projected(Session(t, a, l), f))
<1> DEFINE session == Session(t, a, l)
           tl == Timeline(t, a, l)
           document == Projected(session, f)
           D == session.diagnostics
<1>1. session.timeline = tl
  BY DEF Session
<1>2. /\ tl \in Seq(EntriesOf(t, a, l))
      /\ \A i, j \in DOMAIN tl : i < j => PresentedBefore(tl[i], tl[j])
  BY TimelineIs
<1>3. TruncationNotice \notin D
  <2>1. TruncationNotice.severity = "info"
    BY DEF TruncationNotice, Diagnostic
  <2> QED
    BY <2>1, DiagnosticsAre DEF Noticed
<1> HIDE DEF session, tl
<1>4. session.timeline \in Seq(EntriesOf(t, a, l))
  BY <1>1, <1>2
<1>5. /\ document.session = session
      /\ document.diagnostics = D \cup (IF document.truncated THEN {TruncationNotice} ELSE {})
      /\ document.matched \in 0 .. Len(tl)
      /\ \E r \in Nat : \E at \in [1 .. r -> DOMAIN tl] : Leaves(document, tl, f, r, at)
  BY <1>1, <1>4, Projecting
<1> HIDE DEF document, D
<1> PICK r \in Nat : \E at \in [1 .. r -> DOMAIN tl] : Leaves(document, tl, f, r, at)
  BY <1>5
<1>6. PICK at \in [1 .. r -> DOMAIN tl] : Leaves(document, tl, f, r, at)
  OBVIOUS
<1>7. Len(tl) \in Nat
  BY <1>2
<1>8. r <= document.matched /\ document.matched <= Len(tl) /\ document.matched \in Nat
  BY <1>5, <1>6, <1>7 DEF Leaves
<1>9. Len(document.timeline) = r /\ \A k \in 1 .. r : document.timeline[k] = tl[at[k]]
  BY <1>6 DEF Leaves
<1>10. \A i \in 1 .. r : \E j \in DOMAIN tl : document.timeline[i] = tl[j]
  BY <1>6, <1>9
<1>11. InOrder(document.timeline)
  <2>1. ASSUME NEW i \in 1 .. r - 1
        PROVE  PresentedBefore(document.timeline[i], document.timeline[i + 1])
    <3>1. i \in 1 .. r /\ i + 1 \in 1 .. r /\ i < i + 1
      BY <1>8
    <3>2. at[i] < at[i + 1] /\ at[i] \in DOMAIN tl /\ at[i + 1] \in DOMAIN tl
      BY <1>6, <3>1 DEF Leaves
    <3> QED
      BY <1>2, <1>9, <3>1, <3>2
  <2> QED
    BY <1>9, <2>1 DEF InOrder
<1>12. /\ D \subseteq document.diagnostics
       /\ document.diagnostics \ D \subseteq {TruncationNotice}
       /\ document.truncated <=> document.diagnostics # D
  <2>1. document.truncated = TRUE \/ document.truncated = FALSE
    BY DEF Projected, Cuts, document
  <2> QED
    BY <1>3, <1>5, <2>1
<1>13. ReportAccepted(document)
  BY <1>1, <1>5, <1>6, <1>8, <1>9, <1>10, <1>11, <1>12 DEF ReportAccepted, Leaves, D
<1> QED
  BY <1>13 DEF document, session

(* What the document counts is what the verdict says, however the timeline *)
(* was cut.                                                                *)
LEMMA DocumentSays ==
  ASSUME NEW t, NEW a, NEW l, IsLane(t), IsLane(a), IsLane(l), NEW f, UsableFilters(f)
  PROVE  LET session == Session(t, a, l)
             d == Document(Projected(session, f))
         IN  /\ d.compatible <=> d.counts["error"] = 0
             /\ d.complete <=> d.incomplete = 0
             /\ Verdict(session) = "incompatible" <=> d.counts["error"] > 0
             /\ Verdict(session) = "complete" <=> d.counts["error"] = 0 /\ d.incomplete = 0
<1> DEFINE session == Session(t, a, l)
           document == Projected(session, f)
           D == session.diagnostics
           E == {d \in document.diagnostics : d.severity = "error"}
           N == {i \in 1 .. 3 : session.sources[i].completeness = "incomplete"}
           d == Document(document)
<1>1. session.timeline \in Seq(EntriesOf(t, a, l))
  BY TimelineIs DEF Session
<1>2. Noticed(D)
  BY DiagnosticsAre
<1>3. DOMAIN session.sources = 1 .. 3
  BY DEF Session
<1> HIDE DEF session
<1>4. /\ document.session = session
      /\ document.diagnostics = D \cup (IF document.truncated THEN {TruncationNotice} ELSE {})
  BY <1>1, Projecting
<1> HIDE DEF document, D
<1>5. d.compatible = IsCompatible(session) /\ d.complete = IsCompleteSession(session)
  BY <1>4 DEF Document
<1>6. d.counts["error"] = Cardinality(E) /\ d.incomplete = Cardinality(N)
  BY <1>4 DEF Document
<1>7. E = {e \in D : e.severity = "error"}
  BY <1>4 DEF TruncationNotice, Diagnostic
<1> HIDE DEF d
<1>8. IsFiniteSet(E) /\ (E = {} <=> IsCompatible(session))
  <2>1. E \in SUBSET D
    BY <1>7
  <2>2. IsFiniteSet(E)
    BY <1>2, <2>1, FS_Subset DEF Noticed
  <2> HIDE DEF E
  <2> QED
    BY <1>7, <2>2 DEF IsCompatible, D
<1>9. IsFiniteSet(N) /\ (N = {} <=> IsCompleteSession(session))
  <2>1. N \in SUBSET (1 .. 3)
    OBVIOUS
  <2>2. IsFiniteSet(1 .. 3)
    <3>1. 1 \in Int /\ 3 \in Int
      OBVIOUS
    <3> QED
      BY <3>1, FS_Interval, Zenon
  <2> HIDE DEF N
  <2>3. IsFiniteSet(N)
    BY <2>1, <2>2, FS_Subset
  <2> QED
    BY <1>3, <2>3 DEF IsCompleteSession, N
<1> HIDE DEF E, N
<1>10. /\ Cardinality(E) \in Nat /\ (Cardinality(E) = 0 <=> IsCompatible(session))
       /\ Cardinality(N) \in Nat /\ (Cardinality(N) = 0 <=> IsCompleteSession(session))
  BY <1>8, <1>9, FS_EmptySet, FS_CardinalityType
<1>11. IsCompatible(session) \in BOOLEAN /\ IsCompleteSession(session) \in BOOLEAN
  BY DEF IsCompatible, IsCompleteSession
<1>12. /\ Verdict(session) = "incompatible" <=> ~IsCompatible(session)
       /\ Verdict(session) = "complete" <=> IsCompatible(session) /\ IsCompleteSession(session)
  BY DEF Verdict
<1>13. /\ d.compatible <=> d.counts["error"] = 0
       /\ d.complete <=> d.incomplete = 0
       /\ Verdict(session) = "incompatible" <=> d.counts["error"] > 0
       /\ Verdict(session) = "complete" <=> d.counts["error"] = 0 /\ d.incomplete = 0
  BY <1>5, <1>6, <1>10, <1>11, <1>12
<1> QED
  BY <1>13 DEF d, document, session

(* With no filter on alarms, what an alarm correlates with is rendered     *)
(* before it.                                                              *)
LEMMA EvidenceIsShown ==
  ASSUME NEW t, NEW a, NEW l, IsLane(t), IsLane(a), IsLane(l), NEW f, UsableFilters(f),
         f.code = "none", f.severity = "none"
  PROVE  LET shown == Projected(Session(t, a, l), f).timeline
         IN  \A i \in DOMAIN shown : \A c \in shown[i].correlation.candidates :
               \E j \in 1 .. i - 1 : shown[j].lane = "telemetry" /\ shown[j].at = c
<1> DEFINE session == Session(t, a, l)
           tl == Timeline(t, a, l)
           es == EntriesOf(t, a, l)
           shown == Projected(session, f).timeline
<1>1. session.timeline = tl
  BY DEF Session
<1>2. /\ tl \in Seq(es)
      /\ \A i, j \in DOMAIN tl : i < j => PresentedBefore(tl[i], tl[j])
      /\ \A e \in es : \E i \in DOMAIN tl : tl[i] = e
  BY TimelineIs
<1> HIDE DEF session, tl
<1>3. session.timeline \in Seq(es)
  BY <1>1, <1>2
<1> HIDE DEF es
<1> PICK r \in Nat : \E at \in [1 .. r -> DOMAIN tl] : Leaves(Projected(session, f), tl, f, r, at)
  BY <1>1, <1>3, Projecting
<1>4. PICK at \in [1 .. r -> DOMAIN tl] : Leaves(Projected(session, f), tl, f, r, at)
  OBVIOUS
<1> HIDE DEF shown
<1>5. /\ shown = [k \in 1 .. r |-> tl[at[k]]]
      /\ \A i \in 1 .. r : Matches(tl[at[i]], f)
      /\ \A p \in DOMAIN tl : \A i \in 1 .. r :
           p < at[i] /\ Matches(tl[p], f) => \E j \in 1 .. i - 1 : at[j] = p
  BY <1>4 DEF Leaves, shown
<1>6. ASSUME NEW i \in DOMAIN shown, NEW c \in shown[i].correlation.candidates
      PROVE  \E j \in 1 .. i - 1 : shown[j].lane = "telemetry" /\ shown[j].at = c
  <2> DEFINE e == tl[at[i]]
             d == Entry("telemetry", c, "telemetry_packet", t.records[c].sequence)
  <2>1. i \in 1 .. r /\ shown[i] = e /\ at[i] \in DOMAIN tl /\ Matches(e, f)
    BY <1>5
  <2>2. e \in es
    BY <1>2, <2>1
  <2> HIDE DEF e
  <2>3. c \in e.correlation.candidates
    BY <1>6, <2>1
  <2>4. e.lane = "alarm" /\ e.correlation = Correlate(t.records, e.sequence)
    <3>1. IsEntryOf(e, t, a, l)
      BY <2>2, EntriesAre DEF es
    <3>2. \A lane, p, kind, s : Entry(lane, p, kind, s).correlation.candidates = {}
      BY DEF Entry, NoDecision
    <3> QED
      BY <2>3, <3>1, <3>2 DEF IsEntryOf
  <2>5. c \in Decoded(t.records) /\ t.records[c].sequence = e.sequence
    BY <2>3, <2>4 DEF Correlate, At
  <2>6. d \in es
    BY <2>5, EntriesAre DEF es
  <2>7. d.lane = "telemetry" /\ d.at = c /\ d.sequence = e.sequence
    BY <2>5 DEF Entry
  <2> HIDE DEF d
  <2>8. PICK p \in DOMAIN tl : tl[p] = d
    BY <1>2, <2>6
  <2>9. p < at[i]
    <3>1. p \in Int /\ at[i] \in Int
      BY <1>2, <2>1
    <3>2. p # at[i]
      BY <2>4, <2>7, <2>8 DEF e
    <3>3. ~PresentedBefore(e, d)
      BY <2>4, <2>7, Ranks DEF PresentedBefore
    <3>4. ~(at[i] < p)
      BY <1>2, <2>1, <2>8, <3>3 DEF e
    <3> QED
      BY <3>1, <3>2, <3>4
  <2>10. Matches(d, f)
    BY <2>1, <2>7 DEF Matches, InWindow, IsAlarmAskedFor
  <2>11. PICK j \in 1 .. i - 1 : at[j] = p
    BY <1>5, <2>1, <2>8, <2>9, <2>10
  <2>12. j \in 1 .. r
    BY <2>1, <2>11
  <2>13. shown[j] = d
    BY <1>5, <2>8, <2>11, <2>12
  <2> QED
    BY <2>7, <2>13
<1> QED
  BY <1>6 DEF shown, session

-----------------------------------------------------------------------------
(* What the command reports.                                               *)

(* The lanes it was asked for are the lanes it has, no constructor has     *)
(* refused them, and a verdict is the one of these lanes.                  *)
ChosenInv ==
  /\ step = "telemetry" \/ TelemetryRead => selection \in Selections /\ Sensible(selection)
  /\ TelemetryRead /\ ~selection.telemetry => seenTelemetry = NotProvided
  /\ AlarmsRead /\ ~selection.alarm => seenAlarms = NotProvided
  /\ outcome # "traceback"
  /\ outcome \in Verdicts => outcome = Verdict(Inspected)

(* What was read has loaded, and carries the numbers of packets: those of  *)
(* a transition are of the record that raised it.                          *)
LEMMA LanesAreLoaded ==
  ASSUME SessionInv, ChosenInv, AlarmsRead
  PROVE  /\ Loaded(seenTelemetry, seenAlarms, selection.link)
         /\ UsableFilters(selection.filters)
<1> DEFINE numbers == 0 .. SequenceModulus - 1
<1>1. TelemetryRead /\ selection \in Selections /\ UsableFilters(selection.filters)
  BY DEF TelemetryRead, ChosenInv, Sensible
<1>2. ListenerInv /\ StoryInv /\ RecordsInv /\ SeenInv
  BY DEF SessionInv, EvidenceInv
<1>3. telemetry \in Seq(Datagrams) /\ Recorded \in Nat /\ Recorded = Len(telemetry)
  BY <1>2 DEF RecordsInv, Recorded
<1>4. \A i \in Decoded(telemetry) : telemetry[i].sequence \in numbers
  BY <1>3, ListenerAssumption DEF Decoded
<1> HIDE DEF numbers
<1>5. IsLane(NotProvided) /\ DOMAIN NotProvided.records = {}
  <2>1. NotProvided.records = <<>> /\ <<>> \in Seq({})
    BY DEF NotProvided
  <2> QED
    BY <2>1 DEF IsLane
<1>6. /\ IsLane(seenTelemetry)
      /\ \A i \in Decoded(seenTelemetry.records) : seenTelemetry.records[i].sequence \in numbers
  <2>1. CASE ~selection.telemetry
    BY <1>1, <1>5, <2>1 DEF ChosenInv, Decoded
  <2>2. CASE selection.telemetry
    <3>1. PICK r \in 0 .. Recorded : seenTelemetry = Provided(SubSeq(telemetry, 1, r))
      BY <1>1, <1>2, <2>2 DEF SeenInv
    <3> DEFINE records == SubSeq(telemetry, 1, r)
    <3>2. /\ records \in Seq(Datagrams) /\ DOMAIN records = 1 .. r
          /\ \A i \in 1 .. r : records[i] = telemetry[i] /\ i \in DOMAIN telemetry
      BY <1>3
    <3> HIDE DEF records
    <3>3. seenTelemetry.records = records
      BY <3>1 DEF Provided, records
    <3>4. IsLane(seenTelemetry)
      BY <3>2, <3>3 DEF IsLane
    <3>5. \A i \in Decoded(records) : i \in Decoded(telemetry) /\ records[i] = telemetry[i]
      BY <3>2 DEF Decoded
    <3> QED
      BY <1>4, <3>3, <3>4, <3>5
  <2> QED
    BY <2>1, <2>2
<1>7. /\ IsLane(seenAlarms)
      /\ \A i \in TransitionsIn(seenAlarms.records) : seenAlarms.records[i].sequence \in numbers
  <2>1. CASE ~selection.alarm
    BY <1>5, <2>1 DEF ChosenInv, TransitionsIn
  <2>2. CASE selection.alarm
    <3>1. seenAlarms.records = alarmLog /\ LoadAccepts(alarmLog)
      BY <1>2, <2>2 DEF SeenInv, Provided
    <3>2. alarmLog \in Seq(LogLines)
      BY <1>2 DEF ListenerInv, ListenerType
    <3>3. ASSUME NEW i \in TransitionsIn(alarmLog) PROVE alarmLog[i].sequence \in numbers
      <4>1. i \in DOMAIN alarmLog /\ alarmLog[i].type \in TransitionTypes
        BY DEF TransitionsIn, Alarm!TransitionTypes, TransitionTypes
      <4>2. RaisedBy(i) \in Decoded(telemetry) /\ telemetry[RaisedBy(i)].sequence = alarmLog[i].sequence
        BY <1>2, <3>1, <4>1, LoggedIsExplained, RaisedByOne
      <4> QED
        BY <1>4, <4>2
    <3> QED
      BY <3>1, <3>2, <3>3 DEF IsLane
  <2> QED
    BY <2>1, <2>2
<1>8. IsLane(selection.link)
  BY <1>1, SelectionsAssumption DEF IsLane
<1> QED
  BY <1>1, <1>6, <1>7, <1>8 DEF Loaded, numbers

(* Nothing was read before the command.                                    *)
LEMMA ChosenInit == InspectionInit => ChosenInv
  BY DEF InspectionInit, ChosenInv, TelemetryRead, AlarmsRead, Writing, Verdicts

(* What the verdict is about does not change when the lanes do not.        *)
LEMMA SameSession ==
  ASSUME UNCHANGED <<seenTelemetry, seenAlarms, selection>>
  PROVE  Inspected' = Inspected
  BY DEF Inspected

(* A step that reads nothing and ends in no verdict.                       *)
LEMMA ChosenStays ==
  ASSUME ChosenInv, UNCHANGED <<selection, seenTelemetry, seenAlarms>>,
         outcome' \notin Verdicts, outcome' # "traceback",
         TelemetryRead' => TelemetryRead, AlarmsRead' => AlarmsRead, step' # "telemetry"
  PROVE  ChosenInv'
  BY DEF ChosenInv, Sensible

(* Every step of the command keeps that.                                   *)
LEMMA ChosenStep == SessionInv /\ ChosenInv /\ [InspectionNext]_<<vars, command>> => ChosenInv'
<1> SUFFICES ASSUME SessionInv, ChosenInv, [InspectionNext]_<<vars, command>> PROVE ChosenInv'
  OBVIOUS
<1>1. /\ step \in Reading \cup Writing => outcome = "none"
      /\ step = "cleanup" => outcome \in {"io_error", "interrupted"}
      /\ step \in Steps
  BY DEF SessionInv, EvidenceInv, FileInv, StepInv, OutcomeInv
<1>2. CASE UNCHANGED command
  <2>1. UNCHANGED <<step, selection, seenTelemetry, seenAlarms, outcome>>
    BY <1>2 DEF command, lanes
  <2>2. Inspected' = Inspected
    BY <2>1, SameSession
  <2> QED
    BY <2>1, <2>2 DEF ChosenInv, Sensible, TelemetryRead, AlarmsRead
<1>3. CASE CommandStep
  <2> USE DEF Reading, Loading, Writing, Verdicts, TelemetryRead, AlarmsRead, lanes
  <2>1. ASSUME NEW s \in Selections, Begin(s) PROVE ChosenInv'
    BY <1>1, <2>1 DEF Begin, ChosenInv, Sensible
  <2>2. ASSUME NEW s \in Selections, Refuse(s) PROVE ChosenInv'
    BY <1>1, <2>2 DEF Refuse, ChosenInv
  <2>3. CASE LoadTelemetry
    BY <1>1, <2>3 DEF LoadTelemetry, FailReading, ChosenInv, Sensible
  <2>4. CASE LoadAlarms
    BY <1>1, <2>4 DEF LoadAlarms, FailReading, ChosenInv, Sensible
  <2>5. CASE LoadLink
    <3>1. step = "link" /\ AlarmsRead
      BY <2>5 DEF LoadLink
    <3>2. SessionAccepted(Inspected) /\ ReportAccepted(Report)
      <4>1. /\ Loaded(seenTelemetry, seenAlarms, selection.link)
            /\ UsableFilters(selection.filters)
        BY <3>1, LanesAreLoaded
      <4> QED
        BY <4>1, SessionIsAccepted, ReportIsAccepted DEF Loaded, Inspected, Report
    <3>3. /\ step' \in {"create", "ended"} /\ outcome' \in {"none", "malformed", "io_error"}
          /\ UNCHANGED <<selection, seenTelemetry, seenAlarms>>
      BY <1>1, <2>5, <3>1, <3>2 DEF LoadLink, FailReading
    <3> QED
      BY <3>1, <3>3, ChosenStays
  <2>6. CASE CreateTemporary \/ NameTemporary \/ WriteTemporary \/ Replace
    <3>1. /\ step \in Writing /\ step' \in Writing \cup {"ended", "cleanup"}
          /\ outcome' \in {"none", "io_error"}
          /\ UNCHANGED <<selection, seenTelemetry, seenAlarms>>
      BY <1>1, <2>6 DEF CreateTemporary, NameTemporary, WriteTemporary, Replace, Fail
    <3> QED
      BY <3>1, ChosenStays
  <2>7. CASE Finish
    <3>1. /\ step = "replaced" /\ step' = "ended" /\ outcome' = Verdict(Inspected)
          /\ UNCHANGED <<selection, seenTelemetry, seenAlarms>>
      BY <2>7 DEF Finish
    <3>2. Inspected' = Inspected
      BY <3>1, SameSession
    <3>3. outcome' \in {"complete", "incomplete", "incompatible"}
      BY <3>1, VerdictIsOne
    <3>4. TelemetryRead /\ AlarmsRead
      BY <3>1
    <3> QED
      BY <3>1, <3>2, <3>3, <3>4 DEF ChosenInv, Sensible
  <2>8. CASE CleanUp \/ InterruptCommand \/ InterruptCleanUp \/ KillCommand
    <3>1. /\ step \in Loading \cup Writing \cup {"cleanup"}
          /\ step' \in {"ended", "cleanup"}
          /\ outcome' \in {"io_error", "interrupted", "interrupted_cleanup", "killed"}
          /\ UNCHANGED <<selection, seenTelemetry, seenAlarms>>
      BY <1>1, <2>8 DEF CleanUp, InterruptCommand, InterruptCleanUp, KillCommand, Steps
    <3> QED
      BY <3>1, ChosenStays
  <2> QED
    BY <1>3, <2>1, <2>2, <2>3, <2>4, <2>5, <2>6, <2>7, <2>8 DEF CommandStep
<1> QED
  BY <1>2, <1>3 DEF InspectionNext, ListenerStep

(* What is chosen, read and decided agrees in every behaviour.             *)
THEOREM ChosenCorrect == InspectionSpec => [](SessionInv /\ ChosenInv)
  BY SessionCorrect, ChosenInit, ChosenStep, PTL DEF InspectionSpec

(* Evidence that loads is reported, and the document says what the exit    *)
(* code does.                                                              *)
LEMMA Reported ==
  ASSUME SessionInv, ChosenInv
  PROVE  LoadedEvidenceIsReported
<1>1. outcome # "traceback" /\ (outcome \in Verdicts => outcome = Verdict(Inspected) /\ AlarmsRead)
  BY DEF ChosenInv, AlarmsRead
<1>2. ASSUME AlarmsRead
      PROVE  LET d == Document(Report)
             IN  /\ d.compatible <=> d.counts["error"] = 0
                 /\ d.complete <=> d.incomplete = 0
                 /\ Verdict(Inspected) = "incompatible" <=> d.counts["error"] > 0
                 /\ Verdict(Inspected) = "complete" <=> d.counts["error"] = 0 /\ d.incomplete = 0
  BY <1>2, LanesAreLoaded, DocumentSays DEF Loaded, Inspected, Report
<1> QED
  BY <1>1, <1>2 DEF LoadedEvidenceIsReported

(* An alarm keeps its evidence.                                            *)
LEMMA Kept ==
  ASSUME SessionInv, ChosenInv
  PROVE  AlarmsKeepTheirEvidence
<1> SUFFICES ASSUME Decided, selection.filters.code = "none", selection.filters.severity = "none"
             PROVE  LET shown == Report.timeline
                    IN  \A i \in DOMAIN shown : \A c \in shown[i].correlation.candidates :
                          \E j \in 1 .. i - 1 : shown[j].lane = "telemetry" /\ shown[j].at = c
  BY DEF AlarmsKeepTheirEvidence
<1>1. AlarmsRead
  BY DEF Decided, AlarmsRead, Writing
<1> QED
  BY <1>1, LanesAreLoaded, EvidenceIsShown DEF Loaded, Inspected, Report

(* Whatever a listener leaves in its files, for every selection of lanes   *)
(* that load and every usable filter: no constructor of the session or of  *)
(* the report refuses them, and no filter or limit hides from the document *)
(* what the exit code says.                                                *)
THEOREM EvidenceReported == InspectionSpec => []LoadedEvidenceIsReported
  BY ChosenCorrect, Reported, PTL

(* An alarm that is rendered follows the records it correlates with,       *)
(* whatever sequence window and limit cut the timeline.                    *)
THEOREM EvidenceKept == InspectionSpec => []AlarmsKeepTheirEvidence
  BY ChosenCorrect, Kept, PTL
=============================================================================
