--------------------------- MODULE SessionReports ---------------------------
(***************************************************************************)
(* The report on an inspected session: which timeline entries the filters  *)
(* and the limit let through, what the document says of the session, and   *)
(* what the constructors of the session and of the report insist on.       *)
(*                                                                         *)
(* Filters are the record [min, max, code, severity, limit], with Absent   *)
(* or "none" for one that is not given.                                    *)
(***************************************************************************)
EXTENDS SessionInspection

CONSTANT MaxReportEvents   (* the largest limit                            *)

(* What the argument types and the validators let through.                 *)
UsableFilters(f) ==
  /\ {f.min, f.max} \subseteq (0 .. SequenceModulus - 1) \cup {Absent}
  /\ f.min # Absent /\ f.max # Absent => f.min <= f.max
  /\ f.severity \in {"none", "warning", "critical"}
  /\ f.limit \in (1 .. MaxReportEvents) \cup {Absent}

InWindow(entry, f) ==
  f.min # Absent \/ f.max # Absent =>
    /\ entry.sequence # Absent
    /\ f.min # Absent => entry.sequence >= f.min
    /\ f.max # Absent => entry.sequence <= f.max

IsAlarmAskedFor(entry, f) ==
  f.code # "none" \/ f.severity # "none" =>
    /\ entry.lane = "alarm"
    /\ f.code # "none" => entry.code = f.code
    /\ f.severity # "none" => entry.severity = f.severity

Matches(entry, f) == InWindow(entry, f) /\ IsAlarmAskedFor(entry, f)

(* Mutant: a full page is taken for a truncated one.                       *)
CutsAFullPage(f, matched) == f.limit # Absent /\ matched >= f.limit

Cuts(f, matched) == f.limit # Absent /\ matched > f.limit

TruncationNotice == Diagnostic("info", "timeline_truncated", "none", Nowhere)

(* The elements of a sequence at some of its positions, in their order.    *)
Picked(sequence, positions) ==
  LET at == Arranged(positions, {pair \in positions \X positions : pair[1] < pair[2]})
  IN  [k \in DOMAIN at |-> sequence[at[k]]]

(* project_session_report: the limit comes last, and cuts are announced.   *)
Projected(session, f) ==
  LET matched == Picked(session.timeline,
                        {i \in DOMAIN session.timeline : Matches(session.timeline[i], f)})
      cut == Cuts(f, Len(matched))
  IN  [session     |-> session,
       timeline    |-> IF f.limit = Absent \/ Len(matched) <= f.limit THEN matched
                       ELSE SubSeq(matched, 1, f.limit),
       diagnostics |-> session.diagnostics \cup (IF cut THEN {TruncationNotice} ELSE {}),
       matched     |-> Len(matched),
       truncated   |-> cut]

(* session_report_document: verdict and sources are the session's, not     *)
(* those of the entries that are rendered.                                 *)
Document(report) ==
  LET Count(severity) == Cardinality({d \in report.diagnostics : d.severity = severity})
  IN  [complete |-> IsCompleteSession(report.session),
       compatible |-> IsCompatible(report.session),
       counts |-> [s \in {"info", "warning", "error"} |-> Count(s)],
       incomplete |-> Cardinality({i \in 1..3 :
                        report.session.sources[i].completeness = "incomplete"})]

-----------------------------------------------------------------------------
(* What the constructors refuse with a ValueError, which no caller catches.*)

InOrder(timeline) ==
  \A i \in 1 .. Len(timeline) - 1 : PresentedBefore(timeline[i], timeline[i + 1])

(* CorrelationDecision.                                                    *)
DecisionAccepted(d) ==
  /\ d.kind = "exact" => Cardinality(d.candidates) = 1
  /\ d.kind = "ambiguous" => Cardinality(d.candidates) >= 2
  /\ d.kind \notin {"exact", "ambiguous"} => d.candidates = {}

(* TimelineEntry._validate_lane_shape.                                     *)
EntryAccepted(e) ==
  /\ e.sequence # Absent => e.sequence \in 0 .. SequenceModulus - 1
  /\ e.lane = "telemetry" =>
       /\ e.kind \in {"telemetry_packet", "telemetry_rejected"}
       /\ e.kind = "telemetry_packet" <=> e.sequence # Absent
       /\ e.correlation = NoDecision
  /\ e.lane = "alarm" =>
       /\ e.kind = "alarm_transition" /\ e.sequence # Absent
       /\ e.correlation.kind \in {"exact", "ambiguous", "impossible"}
       /\ DecisionAccepted(e.correlation)
  /\ e.lane = "link" =>
       e.kind = "link_event" /\ e.sequence = Absent /\ e.correlation = NoDecision

(* LaneSummary and classify_source_completeness.                           *)
SourceAccepted(s) ==
  /\ s.summarised => s.count > 0 /\ s.lane # "telemetry"
  /\ s.completeness = Completeness(s.lane, s.count, s.summarised)
  /\ \A c \in DOMAIN s.counters : s.counters[c] >= 0

(* NormalizedSession.                                                      *)
SessionAccepted(session) ==
  /\ [i \in 1..3 |-> session.sources[i].lane] = LanePrecedence
  /\ \A i \in 1..3 : SourceAccepted(session.sources[i])
  /\ \A i \in DOMAIN session.timeline : EntryAccepted(session.timeline[i])
  /\ InOrder(session.timeline)

(* SessionReport: a duplicate-free projection in order, and the notice     *)
(* exactly if matching entries were left out.                              *)
ReportAccepted(report) ==
  LET rendered == Len(report.timeline)
  IN  /\ rendered <= report.matched /\ report.matched <= Len(report.session.timeline)
      /\ \A i \in 1 .. rendered : \E j \in DOMAIN report.session.timeline :
           report.timeline[i] = report.session.timeline[j]
      /\ InOrder(report.timeline)
      /\ report.session.diagnostics \subseteq report.diagnostics
      /\ report.diagnostics \ report.session.diagnostics \subseteq {TruncationNotice}
      /\ report.truncated <=> rendered < report.matched
      /\ report.truncated <=> report.diagnostics # report.session.diagnostics
=============================================================================
