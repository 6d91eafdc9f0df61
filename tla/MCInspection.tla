---------------------------- MODULE MCInspection ----------------------------
(* A listener, and one inspection of its recordings.                        *)
EXTENDS InspectionCommand

Packet(sequence, temperature, battery, mode) ==
  [sequence |-> sequence, temperature |-> temperature, battery |-> battery, mode |-> mode]

(* Hot and cool packets of a counter modulo 3; the link may repeat any.     *)
FlightPackets ==
  {Packet(0, 5, 9, "NOMINAL"), Packet(1, 0, 9, "NOMINAL"), Packet(2, 5, 9, "NOMINAL")}

Noise == [sequence |-> -2]
FlightDatagrams == FlightPackets \cup {Noise}

(* Logs of the link emulator: one lost packet and its summary; the same     *)
(* before the summary; and the log a failed flush leaves, whose summary     *)
(* repeats the index of the event before it.                                *)
LinkEvent(type, packet, index) == [type |-> type, packet |-> packet, index |-> index, at |-> 0]
LinkSummary(index, counted) ==
  [type |-> "run_summary", index |-> index, at |-> 0,
   stats |-> [t \in Link!CountedTypes |-> IF t \in counted THEN 1 ELSE 0]]

PartialLink ==
  <<LinkEvent("run_metadata", -1, 0), LinkEvent("packet_received", 0, 1),
    LinkEvent("packet_dropped", 0, 2)>>
WholeLink == Append(PartialLink, LinkSummary(3, {"packet_received", "packet_dropped"}))
BrokenLink == Append(PartialLink, LinkSummary(2, {"packet_received"}))

Select(telemetryGiven, alarmGiven, link, filters) ==
  [telemetry |-> telemetryGiven, alarm |-> alarmGiven, link |-> link, filters |-> filters,
   aliases |-> FALSE]

(* The report is to be written over a file it is made of.                   *)
OverEvidence(selected) == [selected EXCEPT !.aliases = TRUE]

(* A window and a page; the alarms of one severity; a window upside down.   *)
Window   == [NoFilters EXCEPT !.min = 0, !.max = 1, !.limit = 2]
Critical == [NoFilters EXCEPT !.severity = "critical", !.limit = 1]
Inverted == [NoFilters EXCEPT !.min = 2, !.max = 1]

OperatorSelections ==
  {Select(TRUE, TRUE, Provided(WholeLink), NoFilters),
   Select(TRUE, TRUE, Provided(WholeLink), Window),
   Select(TRUE, TRUE, Provided(WholeLink), Inverted),
   Select(TRUE, TRUE, Provided(BrokenLink), NoFilters),
   Select(FALSE, TRUE, Provided(PartialLink), Critical),
   OverEvidence(Select(TRUE, TRUE, NotProvided, NoFilters)),
   Select(FALSE, FALSE, NotProvided, NoFilters)}
=============================================================================
