----------------------------- MODULE AlarmEvents ----------------------------
(***************************************************************************)
(* The alarm log of one listener session, and what its readers check.      *)
(*                                                                         *)
(* An event has its index and its type; a transition also has the sequence *)
(* number of its packet, its identity and its severity, and a summary has  *)
(* its statistics.                                                         *)
(***************************************************************************)
EXTENDS Integers, Sequences, FiniteSets

TransitionTypes == {"raised", "updated", "cleared"}

ZeroStatistics == [t \in TransitionTypes |-> 0]

WithTransition(statistics, type) == [statistics EXCEPT ![type] = @ + 1]

StatisticsFromEvents(events) ==
  [t \in TransitionTypes |-> Cardinality({i \in DOMAIN events : events[i].type = t})]

IsComplete(events) == events # <<>> /\ events[Len(events)].type = "run_summary"

(* Mutant: the counters of a summary are trusted.                          *)
LoadAcceptsUncounted(events) ==
  \A i \in DOMAIN events :
    /\ events[i].index = i - 1
    /\ (events[i].type = "run_metadata") <=> (i = 1)
    /\ events[i].type = "run_summary" => i = Len(events)

(* load_alarm_events, for one session: contiguous indices, one header in   *)
(* front, a summary only at the end and with the counters of the events.   *)
LoadAccepts(events) ==
  /\ \A i \in DOMAIN events :
       /\ events[i].index = i - 1
       /\ (events[i].type = "run_metadata") <=> (i = 1)
       /\ events[i].type = "run_summary" => i = Len(events)
  /\ IsComplete(events) => events[Len(events)].statistics = StatisticsFromEvents(events)
=============================================================================
