-------------------------- MODULE InspectionCommand -------------------------
(***************************************************************************)
(* orbitops session inspect, run once against the recordings of a listener *)
(* that may still be writing them: it reads the telemetry recording, then  *)
(* the alarm log, then the link log, decides, projects the session through *)
(* the operator's filters, and replaces the report file through a          *)
(* temporary one.  It may be interrupted or killed, and the report's file  *)
(* system may refuse any operation.                                        *)
(*                                                                         *)
(* Once the evidence is read the command looks at nothing the listener     *)
(* changes, so the listener stands still from then on.                     *)
(***************************************************************************)
EXTENDS AlarmListener

CONSTANTS
  Selections,    (* the lanes and filters an operator asks for             *)
  MaxReportEvents,
  ReportFaults   (* what may fail: "read", "create", "write", "replace",   *)
                 (* "unlink"                                               *)

INSTANCE SessionReports

ASSUME SelectionsAssumption ==
  /\ \A s \in Selections :
       /\ s.telemetry \in BOOLEAN /\ s.alarm \in BOOLEAN /\ s.link.given \in BOOLEAN
       /\ s.aliases \in BOOLEAN
       /\ s.link.records \in Seq({s.link.records[i] : i \in DOMAIN s.link.records})
  /\ MaxReportEvents \in Nat
  /\ ReportFaults \subseteq {"read", "create", "write", "replace", "unlink"}

VARIABLES
  step,          (* where the command is                                   *)
  selection,
  seenTelemetry, seenAlarms,   (* the lanes as they were read              *)
  quiet,         (* the listener had stopped when the first was read       *)
  report,        (* the report file: "old", "new" or "partial"             *)
  temp,          (* the temporary file                                     *)
  outcome        (* how the command ended: a verdict, "usage",             *)
                 (* "malformed", "io_error", "traceback", "interrupted",   *)
                 (* "interrupted_cleanup", "killed", or "none" so far      *)

lanes == <<seenTelemetry, seenAlarms, quiet>>
files == <<report, temp>>
command == <<step, selection, lanes, files, outcome>>

Verdicts == {"complete", "incomplete", "incompatible"}
Loading == {"telemetry", "alarm", "link"}
Writing == {"create", "created", "write", "replace", "replaced"}

(* No command line was given yet.                                          *)
NoFilters == [min |-> Absent, max |-> Absent, code |-> "none", severity |-> "none",
              limit |-> Absent]
Nobody == [telemetry |-> FALSE, alarm |-> FALSE, link |-> NotProvided, filters |-> NoFilters,
           aliases |-> FALSE]

EvidenceOpen == step \in {"idle", "telemetry", "alarm"}

ListenerStep == EvidenceOpen /\ Next /\ UNCHANGED command

(* The recordings exist once the listener has started.                     *)
Readable == phase # "start"

FailReading ==
  /\ step' = "ended" /\ outcome' = "io_error"
  /\ UNCHANGED <<selection, lanes, files>>

(* A lane is given, the filters can be met, and the report has a place of  *)
(* its own: s.aliases is _paths_alias of --output and a given lane.        *)
Sensible(s) ==
  (s.telemetry \/ s.alarm \/ s.link.given) /\ UsableFilters(s.filters) /\ ~s.aliases

(* parser.error: nothing was read.                                         *)
Refuse(s) ==
  /\ step = "idle" /\ ~Sensible(s)
  /\ step' = "ended" /\ outcome' = "usage"
  /\ UNCHANGED <<selection, lanes, files>>

Begin(s) ==
  /\ step = "idle" /\ Sensible(s)
  /\ step' = "telemetry"
  /\ selection' = s
  /\ quiet' = (phase \in Stopped)
  /\ UNCHANGED <<seenTelemetry, seenAlarms, files, outcome>>

LoadTelemetry ==
  /\ step = "telemetry"
  /\ \/ /\ Readable \/ ~selection.telemetry
        /\ seenTelemetry' = IF selection.telemetry THEN Provided(telemetry) ELSE NotProvided
        /\ step' = "alarm"
        /\ UNCHANGED <<selection, seenAlarms, quiet, files, outcome>>
     \/ /\ selection.telemetry /\ (~Readable \/ "read" \in ReportFaults)
        /\ FailReading

LoadAlarms ==
  /\ step = "alarm"
  /\ \/ /\ Readable \/ ~selection.alarm
        /\ seenAlarms' = IF selection.alarm THEN Provided(alarmLog) ELSE NotProvided
        /\ IF AlarmLaneLoads(seenAlarms')
           THEN step' = "link" /\ UNCHANGED outcome
           ELSE step' = "ended" /\ outcome' = "malformed"
        /\ UNCHANGED <<selection, seenTelemetry, quiet, files>>
     \/ /\ selection.alarm /\ (~Readable \/ "read" \in ReportFaults)
        /\ FailReading

Inspected == Session(seenTelemetry, seenAlarms, selection.link)
Report == Projected(Inspected, selection.filters)

(* The last lane; then the session is normalised and projected, and a      *)
(* value a constructor refuses ends the command with a traceback.          *)
LoadLink ==
  /\ step = "link"
  /\ \/ /\ IF ~LinkLaneLoads(selection.link)
           THEN step' = "ended" /\ outcome' = "malformed"
           ELSE IF SessionAccepted(Inspected) /\ ReportAccepted(Report)
           THEN step' = "create" /\ UNCHANGED outcome
           ELSE step' = "ended" /\ outcome' = "traceback"
        /\ UNCHANGED <<selection, lanes, files>>
     \/ /\ selection.link.given /\ "read" \in ReportFaults
        /\ FailReading

-----------------------------------------------------------------------------
(* _write_report_atomically.                                               *)

(* An operation of the writer fails: what has a name is cleaned up.        *)
Fail(operation) ==
  /\ operation \in ReportFaults
  /\ outcome' = "io_error"
  /\ step' = IF temp = "none" THEN "ended" ELSE "cleanup"
  /\ UNCHANGED <<selection, lanes, files>>

CreateTemporary ==
  /\ step = "create"
  /\ \/ /\ temp' = "unnamed" /\ step' = "created"
        /\ UNCHANGED <<selection, lanes, report, outcome>>
     \/ Fail("create")

NameTemporary ==
  /\ step = "created"
  /\ temp' = "named" /\ step' = "write"
  /\ UNCHANGED <<selection, lanes, report, outcome>>

(* Mutant: the destination is written itself.                              *)
WriteInPlace ==
  /\ step = "write"
  /\ \/ /\ temp' = "whole" /\ report' = "new" /\ step' = "replace"
        /\ UNCHANGED <<selection, lanes, outcome>>
     \/ /\ "write" \in ReportFaults
        /\ report' = "partial" /\ outcome' = "io_error" /\ step' = "cleanup"
        /\ UNCHANGED <<selection, lanes, temp>>

WriteTemporary ==
  /\ step = "write"
  /\ \/ /\ temp' = "whole" /\ step' = "replace"
        /\ UNCHANGED <<selection, lanes, report, outcome>>
     \/ Fail("write")

Replace ==
  /\ step = "replace"
  /\ \/ /\ report' = "new" /\ temp' = "none" /\ step' = "replaced"
        /\ UNCHANGED <<selection, lanes, outcome>>
     \/ Fail("replace")

Finish ==
  /\ step = "replaced"
  /\ step' = "ended" /\ outcome' = Verdict(Inspected)
  /\ UNCHANGED <<selection, lanes, files>>

(* The finally block: a failure to unlink is suppressed.                   *)
CleanUp ==
  /\ step = "cleanup"
  /\ \/ temp' = "none"
     \/ "unlink" \in ReportFaults /\ temp' = temp
  /\ step' = "ended"
  /\ UNCHANGED <<selection, lanes, report, outcome>>

(* Mutant: only errors of the file system clean up.                        *)
InterruptCommandWithoutCleanUp ==
  /\ step \in Loading \cup Writing
  /\ outcome' = "interrupted" /\ step' = "ended"
  /\ UNCHANGED <<selection, lanes, files>>

(* KeyboardInterrupt: a temporary file that has no name yet is forgotten.  *)
InterruptCommand ==
  /\ step \in Loading \cup Writing
  /\ outcome' = "interrupted"
  /\ step' = IF step \in {"write", "replace", "replaced"} THEN "cleanup" ELSE "ended"
  /\ UNCHANGED <<selection, lanes, files>>

(* The same while the temporary file is being removed.                     *)
InterruptCleanUp ==
  /\ step = "cleanup"
  /\ outcome' = "interrupted_cleanup" /\ step' = "ended"
  /\ UNCHANGED <<selection, lanes, files>>

KillCommand ==
  /\ step \notin {"idle", "ended"}
  /\ step' = "ended" /\ outcome' = "killed"
  /\ UNCHANGED <<selection, lanes, files>>

CommandStep ==
  \/ \E s \in Selections : Begin(s) \/ Refuse(s)
  \/ LoadTelemetry \/ LoadAlarms \/ LoadLink
  \/ CreateTemporary \/ NameTemporary \/ WriteTemporary \/ Replace \/ Finish
  \/ CleanUp \/ InterruptCommand \/ InterruptCleanUp \/ KillCommand

InspectionInit ==
  /\ Init
  /\ step = "idle" /\ selection = Nobody
  /\ seenTelemetry = NotProvided /\ seenAlarms = NotProvided /\ quiet = FALSE
  /\ report = "old" /\ temp = "none" /\ outcome = "none"

InspectionNext == ListenerStep \/ (CommandStep /\ UNCHANGED vars)

InspectionSpec == InspectionInit /\ [][InspectionNext]_<<vars, command>>

-----------------------------------------------------------------------------
(* Properties.                                                             *)

(* The evidence was read and judged.                                       *)
Decided == step = "create" \/ outcome \in Verdicts

(* The report is at every moment the old one or a whole new one; it is the *)
(* new one if the command ends with a verdict, and the old one if it ends  *)
(* with an error; and it never takes the place of a file it reports on.    *)
ReportIsOldOrNew ==
  /\ report \in {"old", "new"}
  /\ outcome \in Verdicts => report = "new"
  /\ outcome \in {"usage", "malformed", "io_error", "traceback"} => report = "old"
  /\ selection.aliases => report = "old"

(* A command that was not killed leaves no temporary file, unless it was   *)
(* interrupted before the file had a name or during its removal, or the    *)
(* file cannot be removed.                                                 *)
NothingLeftBehind ==
  step = "ended" /\ outcome \notin {"killed", "interrupted_cleanup"} =>
    \/ temp = "none"
    \/ outcome = "interrupted" /\ temp = "unnamed"
    \/ "unlink" \in ReportFaults

(* The record whose evaluation raised the transition at position i of the  *)
(* alarm log: the first one that makes the replay that long.               *)
RaisedBy(i) ==
  CHOOSE k \in DOMAIN telemetry :
    /\ Len(Replayed(SubSeq(telemetry, 1, k))) >= i - 1
    /\ Len(Replayed(SubSeq(telemetry, 1, k - 1))) < i - 1

(* Whatever a listener leaves in its files when it stops, dies or is torn  *)
(* apart, evidence that loads is evidence the session model and the report *)
(* accept, under every filter; and no filter or limit hides what the exit  *)
(* code says: the document counts an error exactly if that is              *)
(* "incompatible", and an incomplete source, or an error, if it is not     *)
(* "complete".                                                             *)
LoadedEvidenceIsReported ==
  /\ outcome # "traceback"
  /\ outcome \in Verdicts =>
       LET d == Document(Report)
       IN  /\ d.compatible <=> d.counts["error"] = 0
           /\ d.complete <=> d.incomplete = 0
           /\ outcome = "incompatible" <=> d.counts["error"] > 0
           /\ outcome = "complete" <=> d.counts["error"] = 0 /\ d.incomplete = 0

(* An alarm that is rendered is rendered with its evidence: the records it *)
(* correlates with precede it, whatever sequence window and limit cut the  *)
(* timeline.                                                               *)
AlarmsKeepTheirEvidence ==
  Decided /\ selection.filters.code = "none" /\ selection.filters.severity = "none" =>
    LET shown == Report.timeline
    IN  \A i \in DOMAIN shown : \A c \in shown[i].correlation.candidates :
          \E j \in 1 .. i - 1 : shown[j].lane = "telemetry" /\ shown[j].at = c

(* A correlation that is called exact names the very record that raised    *)
(* the alarm, when the listener had stopped or no sequence number occurs   *)
(* twice; and the inspector of a finished session misses no record.        *)
ExactNamesItsCause ==
  Decided /\ selection.telemetry /\ selection.alarm =>
    \A i \in TransitionsIn(seenAlarms.records) :
      LET c == Inspected.correlations[i]
      IN  /\ quiet => c.kind # "impossible"
          /\ c.kind = "exact" /\ (quiet \/ Repeated(telemetry) = {}) =>
               c.candidates = {RaisedBy(i)}

(* Inspector and alarm engine agree about gaps: every gap alarm that the   *)
(* recording explains is a gap diagnostic or an immediate repeat.          *)
RepeatsExplainGaps ==
  Decided /\ selection.telemetry /\ DetectGaps =>
    LET records == seenTelemetry.records
        repeats == {j \in Decoded(records) : \E i \in Decoded(records) :
                      IsNext(records, i, j) /\ records[j].sequence = records[i].sequence}
        alarms == {k \in DOMAIN Replayed(records) :
                     Replayed(records)[k][2].identity = "sequence-gap"}
    IN  Cardinality(alarms) = Cardinality(Gaps(records)) + Cardinality(repeats)

(* A log whose recorder was left between a line and its counters, and then *)
(* closed, is never taken for evidence.                                    *)
TornLogsAreRejected ==
  outcome \in Verdicts /\ selection.alarm /\ quiet => ~(Torn /\ IsComplete(alarmLog))
=============================================================================
