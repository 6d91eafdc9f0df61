-------------------------- MODULE SessionInspection -------------------------
(***************************************************************************)
(* What the session inspector makes of three evidence lanes: telemetry     *)
(* records, alarm events and link events.  A lane that was not selected    *)
(* has no records.  Positions are those of the TLA+ sequences, one above   *)
(* the source indices of the code.                                         *)
(*                                                                         *)
(* A diagnostic is the record [severity, code, lane, at]; at is the record *)
(* it is about, or Nowhere for one about the lane.  A timeline entry has   *)
(* its lane and position, its kind, the packet's sequence number, and for  *)
(* an alarm its code, severity and correlation.                            *)
(***************************************************************************)
EXTENDS Integers, Sequences, FiniteSets

CONSTANTS
  Garbage,          (* a datagram the decoder rejects                      *)
  SequenceModulus

Alarm == INSTANCE AlarmEvents
Link  == INSTANCE LinkEvents

Nowhere == 0
Absent == -1      (* None, where the code has a number                     *)

LanePrecedence == <<"telemetry", "alarm", "link">>

NotProvided == [given |-> FALSE, records |-> <<>>]
Provided(records) == [given |-> TRUE, records |-> records]

Diagnostic(severity, code, lane, at) ==
  [severity |-> severity, code |-> code, lane |-> lane, at |-> at]

(* The strict loaders.  The telemetry recording has neither indices nor a  *)
(* summary: its loader only parses.                                        *)
AlarmLaneLoads(lane) == Alarm!LoadAccepts(lane.records)

LinkLaneLoads(lane) ==
  /\ Link!LoadAccepts(lane.records)
  /\ lane.records # <<>> /\ lane.records[Len(lane.records)].type = "run_summary" =>
       Link!ValidateRunSummary(lane.records)

-----------------------------------------------------------------------------
(* Telemetry.                                                              *)

(* The positions of the records that decode, and which comes before which. *)
Decoded(records) == {i \in DOMAIN records : records[i] # Garbage}
IsNext(records, i, j) == i < j /\ \A k \in Decoded(records) : k <= i \/ j <= k

At(records, sequence) ==
  {i \in Decoded(records) : records[i].sequence = sequence}

(* Mutant: a repeated sequence number is a gap.                            *)
GapsAndRepeats(records) ==
  {j \in Decoded(records) : \E i \in Decoded(records) :
     /\ IsNext(records, i, j)
     /\ records[j].sequence # (records[i].sequence + 1) % SequenceModulus}

(* The decoded records that neither repeat nor follow the one before them. *)
Gaps(records) ==
  {j \in Decoded(records) : \E i \in Decoded(records) :
     /\ IsNext(records, i, j)
     /\ records[j].sequence # records[i].sequence
     /\ records[j].sequence # (records[i].sequence + 1) % SequenceModulus}

(* One diagnostic for each sequence number that occurs more than once, at  *)
(* its first record.                                                       *)
Repeated(records) ==
  {i \in Decoded(records) :
     /\ \A j \in At(records, records[i].sequence) : i <= j
     /\ At(records, records[i].sequence) # {i}}

LaneDiagnostics(name, lane) ==
  IF ~lane.given THEN {Diagnostic("warning", "source_not_provided", name, Nowhere)}
  ELSE IF lane.records = <<>> THEN {Diagnostic("warning", "source_empty", name, Nowhere)}
  ELSE {}

TelemetryDiagnostics(lane) ==
  LaneDiagnostics("telemetry", lane)
  \cup {Diagnostic("warning", "telemetry_packet_rejected", "telemetry", i) :
          i \in DOMAIN lane.records \ Decoded(lane.records)}
  \cup {Diagnostic("warning", "telemetry_sequence_duplicate", "telemetry", i) :
          i \in Repeated(lane.records)}
  \cup {Diagnostic("warning", "telemetry_sequence_gap", "telemetry", i) :
          i \in Gaps(lane.records)}

-----------------------------------------------------------------------------
(* Alarms.                                                                 *)

(* Mutant: of several records with the sequence number the last is taken.  *)
CorrelateLast(records, sequence) ==
  LET candidates == At(records, sequence)
  IN  IF candidates = {} THEN [kind |-> "impossible", candidates |-> {}]
      ELSE [kind |-> "exact",
            candidates |-> {i \in candidates : \A j \in candidates : j <= i}]

(* classify_telemetry_alarm_match: the sequence number is all there is.    *)
Correlate(records, sequence) ==
  LET candidates == At(records, sequence)
  IN  [kind |-> IF candidates = {} THEN "impossible"
                ELSE IF \E i \in candidates : candidates = {i} THEN "exact"
                ELSE "ambiguous",
       candidates |-> candidates]

TransitionsIn(events) ==
  {i \in DOMAIN events : events[i].type \in Alarm!TransitionTypes}

MissingSummary(name, lane) ==
  IF lane.records # <<>> /\ lane.records[Len(lane.records)].type # "run_summary"
  THEN {Diagnostic("warning", "source_summary_missing", name, Nowhere)} ELSE {}

AlarmDiagnostics(lane, telemetry) ==
  LET Kind(i) == Correlate(telemetry.records, lane.records[i].sequence).kind
  IN  LaneDiagnostics("alarm", lane)
      \cup MissingSummary("alarm", lane)
      \cup {Diagnostic("error", "alarm_correlation_ambiguous", "alarm", i) :
              i \in {j \in TransitionsIn(lane.records) : Kind(j) = "ambiguous"}}
      \cup {Diagnostic("warning", "alarm_correlation_impossible", "alarm", i) :
              i \in {j \in TransitionsIn(lane.records) : Kind(j) = "impossible"}}

-----------------------------------------------------------------------------
(* The link lane, which no packet field ties to the others.                *)
LinkDiagnostics(lane) ==
  LaneDiagnostics("link", lane)
  \cup MissingSummary("link", lane)
  \cup {Diagnostic("warning", "link_corruption_observed", "link", i) :
          i \in {j \in DOMAIN lane.records : lane.records[j].type = "packet_corrupted"}}

-----------------------------------------------------------------------------
(* The timeline: records in the order of their lanes, then of the source.  *)

NoDecision == [kind |-> "none", candidates |-> {}]

Entry(lane, at, kind, sequence) ==
  [lane |-> lane, at |-> at, kind |-> kind, sequence |-> sequence,
   code |-> "none", severity |-> "none", correlation |-> NoDecision]

TelemetryEntries(lane) ==
  {IF lane.records[i] = Garbage THEN Entry("telemetry", i, "telemetry_rejected", Absent)
   ELSE Entry("telemetry", i, "telemetry_packet", lane.records[i].sequence) :
     i \in DOMAIN lane.records}

(* The code of an alarm says what its identity and severity say.           *)
AlarmEntries(lane, telemetry) ==
  LET Of(i) == [Entry("alarm", i, "alarm_transition", lane.records[i].sequence) EXCEPT
                  !.code = <<lane.records[i].identity, lane.records[i].severity>>,
                  !.severity = lane.records[i].severity,
                  !.correlation = Correlate(telemetry.records, lane.records[i].sequence)]
  IN  {Of(i) : i \in TransitionsIn(lane.records)}

LinkEntries(lane) ==
  {Entry("link", i, "link_event", Absent) :
     i \in {j \in DOMAIN lane.records : lane.records[j].type \notin {"run_metadata", "run_summary"}}}

Rank(lane) == CHOOSE r \in 1..3 : LanePrecedence[r] = lane

(* Mutant: the lane that names the cause comes first.                      *)
PresentedBeforeAlarmsFirst(a, b) ==
  IF a.lane = b.lane THEN a.at < b.at
  ELSE a.lane = "alarm" \/ (b.lane # "alarm" /\ Rank(a.lane) < Rank(b.lane))

(* presentation_key: no clock is shared by two lanes.                      *)
PresentedBefore(a, b) ==
  \/ Rank(a.lane) < Rank(b.lane)
  \/ a.lane = b.lane /\ a.at < b.at

(* The members of a finite set in an order, which is a set of pairs.       *)
Arranged(members, order) ==
  LET place == [m \in members |-> Cardinality({b \in members : <<b, m>> \in order})]
  IN  [k \in 1 .. Cardinality(members) |-> CHOOSE m \in members : place[m] = k - 1]

Timeline(telemetry, alarm, link) ==
  LET entries == TelemetryEntries(telemetry) \cup AlarmEntries(alarm, telemetry) \cup LinkEntries(link)
  IN  Arranged(entries, {pair \in entries \X entries : PresentedBefore(pair[1], pair[2])})

-----------------------------------------------------------------------------
(* The lane summaries and the verdict.                                     *)

HasSummary(records) == records # <<>> /\ records[Len(records)].type = "run_summary"

(* Nothing marks the end of a telemetry recording, so it proves nothing.   *)
Completeness(lane, count, summarised) ==
  IF count = 0 THEN "incomplete"
  ELSE IF lane = "telemetry" THEN "unknown"
  ELSE IF summarised THEN "complete" ELSE "incomplete"

Source(name, lane, summarised, counters) ==
  [lane |-> name, count |-> Len(lane.records), summarised |-> summarised,
   completeness |-> Completeness(name, Len(lane.records), summarised),
   counters |-> counters]

TelemetryCounters(records) ==
  LET sequences == {records[i].sequence : i \in Decoded(records)}
      decoded == Cardinality(Decoded(records))
  IN  [packets_decoded |-> decoded, packets_rejected |-> Len(records) - decoded,
       sequence_gaps |-> Cardinality(Gaps(records)),
       sequence_duplicates |-> decoded - Cardinality(sequences)]

Session(telemetry, alarm, link) ==
  [sources      |-> <<Source("telemetry", telemetry, FALSE, TelemetryCounters(telemetry.records)),
                      Source("alarm", alarm, HasSummary(alarm.records),
                             Alarm!StatisticsFromEvents(alarm.records)),
                      Source("link", link, HasSummary(link.records),
                             Link!StatisticsFromEvents(link.records))>>,
   timeline     |-> Timeline(telemetry, alarm, link),
   correlations |-> [i \in TransitionsIn(alarm.records) |->
                       Correlate(telemetry.records, alarm.records[i].sequence)],
   diagnostics  |-> TelemetryDiagnostics(telemetry)
                      \cup AlarmDiagnostics(alarm, telemetry) \cup LinkDiagnostics(link)]

IsCompleteSession(session) ==
  \A i \in DOMAIN session.sources : session.sources[i].completeness # "incomplete"

IsCompatible(session) == \A d \in session.diagnostics : d.severity # "error"

(* _exit_code: incompatible comes before incomplete.                       *)
Verdict(session) ==
  IF ~IsCompatible(session) THEN "incompatible"
  ELSE IF ~IsCompleteSession(session) THEN "incomplete" ELSE "complete"
=============================================================================
