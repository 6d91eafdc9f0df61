----------------------------- MODULE LinkEvents -----------------------------
(***************************************************************************)
(* The event stream of one link-emulator run, and what its readers check.  *)
(*                                                                         *)
(* An event is a record: its index in the stream, the time it carries, its *)
(* type and its packet index (None for the stream header and the summary). *)
(* A reorder event also carries the packet that overtook it and a summary  *)
(* its counters; the other attributes tell no two behaviours apart.        *)
(***************************************************************************)
EXTENDS Integers, Sequences, FiniteSets

None == -1

(* The packet and delivery events, each of which has a counter; the header *)
(* and the summary have none.                                              *)
CountedTypes ==
  {"packet_received", "packet_dropped", "packet_delayed", "packet_duplicated",
   "packet_corrupted", "packet_reordered", "delivery_scheduled",
   "packet_forwarded"}

ZeroStatistics == [t \in CountedTypes |-> 0]

StatisticsFromEvents(events) ==
  [t \in CountedTypes |-> Cardinality({i \in DOMAIN events : events[i].type = t})]

(***************************************************************************)
(* load_link_events: contiguous indices, time that never goes back, one    *)
(* header and only at the front, nothing after a summary.  A log without   *)
(* a summary is accepted, and so is an empty one.  One run writes one      *)
(* session identifier and one schema version, so neither is a field here.  *)
(***************************************************************************)
LoadAccepts(events) ==
  \A i \in DOMAIN events :
    /\ events[i].index = i - 1
    /\ i > 1 => events[i].at >= events[i - 1].at
    /\ (events[i].type = "run_metadata") <=> (i = 1)
    /\ events[i].type = "run_summary" => i = Len(events)

(* validate_run_summary: a complete stream, whose counters are its events'. *)
ValidateRunSummary(events) ==
  /\ events # <<>>
  /\ events[Len(events)].type = "run_summary"
  /\ {i \in DOMAIN events : events[i].type = "run_summary"} = {Len(events)}
  /\ {i \in DOMAIN events : events[i].type = "run_metadata"} = {1}
  /\ events[Len(events)].stats = StatisticsFromEvents(events)
=============================================================================
