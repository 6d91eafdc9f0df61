# OrbitOps in TLA+

OrbitOps is a small mission-operations stack: a simulated spacecraft sends
telemetry over UDP, a link emulator damages it on the way, a ground station
records it and raises alarms, and an inspector reads the recordings back.
These modules specify the parts of it whose behaviour is hard to test, TLC
checks them on small instances, and TLAPS proves what matters most for every
value of the parameters.

Paths below are relative to `src/ground_station/orbitops/` unless they begin with `src/`.

## The system

    onboard simulator --UDP--> link emulator --UDP--> listener --> telemetry recording
                                    |                    |
                                    v                    v
                              link event log        alarm event log
                                    \                    |            /
                                     +------> session inspector <----+
                                                   |
                                                report

The processes share nothing but datagrams and files. Each one is a single
thread; what happens concurrently to it is the network, the clock, signals, and
the disk.

| Component | Source | State | Operations | What makes it correct |
|---|---|---|---|---|
| Link runtime | `link/runtime.py` | two sockets, stop event, reorder marks, counters of the run | `open`, `run`, `close`, stop handlers | accepts every index its engine gives, never blocks wrongly, ends when it should, behaves as a lossy channel that invents nothing |
| Link scheduler | `link/scheduler.py` | heap of deliveries, highest packet, `release_holds` | `enqueue`, `pop_ready`, `next_deadline_ns` | order by due time, packet, copy; a hold ends when it should |
| Link event stream | `link/statistics.py`, `link/events.py` | next index, counters, last elapsed time, the JSONL file | `emit`, `emit_summary`, recorder `write`/`close`, loader | the log loads whatever happened, and a summary counts its own events |
| Impairment engine | `link/impairments.py`, `link/decisions.py`, `link/config.py` | SplitMix64 position, packet index | `process` | decisions in bounds; one setting never shifts the decisions of another |
| Alarm engine | `alarms.py`, `alarm_policies/model.py` | last sequence, temperature severity, battery and SAFE flags | `evaluate`, `reset` | hysteresis, well-formed raise/update/clear lifecycles, exact gap detection across the wrap |
| Listener | `receiver.py`, `recorder.py`, `alarm_events.py` | alarm engine, two recordings | `listen`, recorder `write`, `write_transitions`, `close` | the two files are different ones, tell one story, and load after an interruption or a crash |
| Telemetry codec | `protocol.py`, `src/onboard/include/orbitops/telemetry.hpp` | none | `encode`, `decode_packet` | what is decoded was transmitted, field by field |
| Replay | `cli.py`, `recorder.py` | alarm engine | `replay` | the alarms of the session that was recorded, also of one that is still running |
| Session inspection | `session/inspection.py`, `session/correlation.py`, `session/models.py` | none (pure) | `inspect_session` | a correlation is called exact only if it is; lanes that contradict each other are incompatible; what loaded is accepted by the model |
| Session reporting | `session/reporting.py`, `session/cli.py` | the report file | `project_session_report`, atomic write, exit code | filters hide without changing the verdict; old report or new one, never half |
| Profiles, policies | `profiles/`, `alarm_policies/` | none (pure), but files change under them | parse, validate, resolve, fingerprint | a reference means one policy or is refused; what is accepted is what the engines were written for |
| On-board simulator | `src/onboard/src/main.cpp`, `scenario.cpp` | sequence, scenario, stop flag | transmission loop, signal | schedule of drops, fixed-width fields, an end |
| Command line | `cli.py`, `link/cli.py`, `__main__.py` | what it has opened | `listen`, `link`, `validate`, dispatch | refusals leave no trace; options win over profiles |
| Scripts | `src/scripts/` | none | demo, soak, benchmark | not part of the running system |

What is hard here is not data-parallelism; it is ordering (packets overtaking
each other through delay, jitter and holds), partial failure (a sink that
raises in the middle of one handler's events), interruption (a stop event in
one program, `KeyboardInterrupt` between any two statements in the other),
crashes between two files, re-use of an object that was closed, boundaries
(hysteresis, rates of zero and one, a counter that wraps, fields of a fixed
width), files that are changed between the calls that look at them, and progress
(tail holds of a finite run, a heap that is popped and refilled at every poll).

## Modules

| Module | Models |
|---|---|
| `LinkEvents` | the event records, `load_link_events`, `validate_run_summary` |
| `LinkScheduler` | the pure rules of the heap |
| `LinkRuntime` | the emulator: thread, event stream and file, with caller, network, clock, signals, disk |
| `LinkChannel` | abstract specification: what the emulator promises its users |
| `Impairments` | one decision from six samples |
| `ImpairmentEngine` | two engines on one seed, to compare configurations |
| `AlarmRules` | the pure rules of the alarm engine |
| `AlarmEngine` | one engine fed any stream of packets, and reset |
| `AlarmListener` | listen loop, both recordings, interruption, crash, disk errors |
| `AlarmEvents` | the records of the alarm log, `load_alarm_events`, `validate_run_summary` |
| `TelemetryReplay` | a replay beside the listener whose recording it reads |
| `SessionInspection` | the inspector's pure part: loaders' verdicts, timeline, correlation, counters, diagnostics, completeness, exit verdict |
| `SessionReports` | filters, limit and document of a report; what the constructors of session and report insist on |
| `InspectionCommand` | one `session inspect` beside a running listener: the order it reads the lanes in, and the report writer |
| `Simulator` | the on-board program: scenarios, fixed-width fields, transmission loop, signal |
| `TelemetryCodec` | the bytes of a packet: layout, checksum, the decoder's checks in their order |
| `Flight` | simulator, a link that loses, repeats, overtakes and corrupts, other senders, ground station |
| `Documents` | values of a TOML document, and the conversions and checks the parsers make of them |
| `Configurations` | policy and profile documents, options, fingerprints, the header of a log |
| `Commands` | one command from its arguments to the first line of its log, beside an operator who changes files |
| `MC...` | constants of the runs; `MCLinkRuntime` also checks that its decisions are ones `Impairments` produces |
| `LinkRuntimeProofs`, `LinkRefinementProofs`, `LinkLogProofs` | theorems about the emulator: no internal error, the channel it implements, what its log says |
| `ImpairmentProofs`, `AlarmEngineProofs` | theorems about the two engines |
| `InspectionProofs` | theorems about the listener, the replay, the inspector and the report file |
| `FlightProofs` | theorems about the simulator, the codec and the flight of a packet |
| `CommandsProofs` | theorems about resolution, settings and the outputs of a command |

`LinkRuntime` extends `LinkEvents` and `LinkScheduler`; `AlarmEngine` and
`AlarmListener` extend `AlarmRules`, the latter also `AlarmEvents`;
`LinkChannel` is instantiated by `LinkRuntime` under a refinement mapping.
`InspectionCommand` composes `AlarmListener`, whose files it reads, with
`SessionInspection`, which takes the loaders' rules from `AlarmEvents` and
`LinkEvents`: what the inspector judges is what the modelled writers leave. It
reports through `SessionReports`, which extends `SessionInspection`.
`TelemetryReplay` extends `AlarmListener` in the same way. `Flight` extends
`Simulator` and `TelemetryCodec` and takes the ground station's rules from
`AlarmRules`. `Commands` extends `Configurations`, which extends `Documents`, and
instantiates `AlarmRules` with the settings of the command, to ask whether an
accepted policy is one that module assumes.

Definitions called "Mutant" in a comment are not part of the model. Each is a
definition as a plausible bug would have it, and the property it is paired with
in `PROJECT.json` fails when it takes the definition's place; so every property
is known to depend on the code it is about.

### LinkRuntime and the code

`phase` is the program counter of the thread.

| phase | `runtime.py` |
|---|---|
| `closed` | before `open`, after `close` |
| `opened` | between `open` and the stream header |
| `loop` | top of the `while` (322) |
| `send` | inside `_send_ready` and the draining branch (269-280, 325-338) |
| `receive` | blocked in `recvfrom` (342) |
| `finally` | the `finally` block (356-363) |
| `unwind` | on the way out, to the caller's `finally` (`link/cli.py` 211-229) |

`Open` and `StartRun` are the caller; `StopSeen`, `PopReady`, `SendNext`,
`SendFails`, `DrainDone`, `DrainSleeps`, `BlockInReceive`, `ReceiveTimesOut`,
`Receive`, `Finish` are the branches of `run`; `CallerCloses` is the end.
`Arrive`, `RequestStop` and `Tick` are the network, the stop event and the
clock, and may happen between any two of these. While the loop runs, SIGINT is
a stop request. Before its handlers are installed and after they were put back it
is a `KeyboardInterrupt`: `InterruptAtHeader` leaves from the header, outside the
`try`, with the sockets open for the caller to close, and `InterruptAtSummary`
from the `finally` block, after any part of the summary's work. Interruptions and
the errors of sink and socket are switched on by the constant `Faults`.

A handler emits several events. `_emit` gives an event to the sink and only
then moves index, counters and time, so a handler is one action in which `k`
events reach the sink and, if that is not all of them, the next one raised.
Nothing else reads or writes that state meanwhile.

The sink is the recorder's `write`, and the recorder's file is a Python file
object: the event whose flush failed stays in it, and the next flush tries again. So
`text` is everything the file was ever given and `flushed` how much of it is
on disk; a flush that fails moves `flushed` anywhere up to the end, one that
succeeds moves it to the end. `refused` is the first event of the session whose flush failed.
A disk that is full and stays full keeps `flushed` at or before `refused`; that is
`DiskStaysFull`, and what the log says is claimed under it. A disk that recovers is
no less real: for that one the same claim is false, and `link_disk` is the finding.

A runtime has one recorder, given to its constructor. `open()` does not touch it, so
neither does `Open`: `begun` only remembers how much the file had been given before. The properties
speak of what this session has in the file (`Written`, `log`). That is the whole file of a
runtime that was opened once, which is all the command does. A second session adds a second
header with index 0, and the loader rejects such a file as a whole. `CallerCloses` may close the recorder
(the command does) or keep it, as another user of the class may.

`log` is what is on disk and the properties about it are invariants, so a
process that dies between two actions is covered without an action of its own.
`SendNext` joins `sendto` with the events of that datagram. A crash between them leaves what
a sink leaves that fails at that event, which is one of the outcomes of the action: the log
lags behind the network by at most one datagram.

### AlarmListener and the code

SIGINT is not turned into a stop request here, it raises between two steps, so
the steps are finer. `record` is `SessionRecorder.write`, `process` is
`process_packet`, `emit`, `written`, `flushed`, `indexed` are the statements of
`AlarmEventRecorder._write_event` and `write_transitions` (536-563), `unwind`
is the exit of both contexts. `cause` remembers why and where the loop was left.
A close whose flush fails (`failed`) raises and leaves the text to the file object, which
writes it, or some of its lines, when it goes away, or never.

### InspectionCommand and the code

`step` is where the command is. `telemetry`, `alarm` and `link` are the three
loads of `_load_session_evidence`, in the order of the code (551-565): the
listener may run, be interrupted or be killed before and between the first two.
Afterwards the command reads nothing the listener writes, so the listener stands
still, which leaves out no order of steps that matters. `quiet` remembers
whether the listener was over when the first load began. `create` to `replaced`
are the statements of `_write_report_atomically` (`session/cli.py` 159-182),
`cleanup` its `finally` block. `temp` tells a file that exists from one whose
name the code knows, since only the second is removed. An interruption after
the file was made and before its name was kept, or while it is removed, leaves it.

`SessionInspection` has one operator per function. `Session` is the normalised
session. Its timeline is the entries, as a set, arranged by `presentation_key`:
each entry at the place that as many entries precede (`Arranged`). The key ends
with lane and position, so no two entries share one, and there is one such order.
`Verdict` is the exit code. The link log is one of three: the sessions a listener and an emulator take
part in share no field, so that lane only contributes its entries and its verdict.

`SessionReports` is a function of that session and of the arguments of the
report: `Projected` picks the places that match and then cuts, `Document` is what is written,
and `SessionAccepted` and `ReportAccepted` are the conditions that
`NormalizedSession`, its parts and `SessionReport` check with an error nothing catches.

### TelemetryReplay and the code

`reader` says where the generator `iter_records` and its consumer are: between
two lines, or with a packet in hand. It takes the next record when there is one and
ends at the end of the file as it finds it, whatever the listener does afterwards.
`process_packet` is shared with the listener; the listener catches what the decoder
rejects (`receiver.py` 118-124), the replay ends there (`cli.py` 139-140).

### Simulator, TelemetryCodec, Flight and the code

`phase` goes round the loop of `main` (`src/onboard/src/main.cpp` 194-225): test,
`Make`, then `Drop` or `Transmit`, then the sleep. `Signal` may come at any moment
and only clears the flag. The scenario's curves are constants, because they are
sines of the sequence number; rounding, the mode rule, the wrap of the yaw angle
and the width checks are the code's. A datagram is a sequence of bytes and a byte a
number; the checksum is the division the loop over bits does, on sets of
exponents, with no table. The decoder's checks come in its order, because a datagram can fail several.
The link of `Flight` stands for UDP and for everything
`LinkRuntime` can do to a datagram, in any order. `flip_bit` inverts one bit of a datagram;
`Corrupt` inverts any bits of one byte. Other programs may send to the same port.

### Documents, Configurations, Commands and the code

A value of a document is a pair of its kind and its content, because the parsers
tell `true` from 1 and 1 from 1.0; -0.0, nan and infinities are kinds of their own.
Reals are whole hundredths. `Verdict` is the first check that fails, in the order the
parser runs them, since one of them may be an `OverflowError` no caller expects.

`phase` in `Commands` is where the command is. The steps of a resolution are those
of `resolve_alarm_policy`: the look at the name and the path (`InspectPath`), the
loader's own look (`CheckFile`), the reading (`ReadFile`). `listen` then compares
its destinations, binds, opens the recording, opens the log and writes the header;
`link` applies its options, opens its log, binds and writes the header. A content is a document, a
log, something no parser reads, or a document nested too deep for `tomllib`. The host of a command
can be encoded for the resolver or not (`encodable`). `Crash` is an exception that the caller of
the step does not catch; `reason` keeps which. A place is a name
after links and dots are resolved, and holds a node, so a hard link is two places
with one node. The operator removes, replaces, rewrites and links files between
any two steps, as long as `edits` lasts. `answers` collects what the reference
meant in every state of the files while it was being resolved; `settled` says what
has happened since the last edit.

### ImpairmentEngine and the code

SplitMix64 is a stream of arbitrary samples below `Unit`, which stands for 2^64;
the rates are fractions, as `float.as_integer_ratio` makes them; thresholds,
multiply-high scaling and clamping are the code's arithmetic. `drawn` is the
position in the stream.

### AlarmEngine and the code

Measurements are whole numbers of some unit, because the rules only compare
them. `packets` and `emitted` are history, to say what the state ought to be
without a second state machine.

## Runs

| Run | Instance | Shows |
|---|---|---|
| `link_faults` | 2 packets over 2 sessions, 5 decisions, socket and sink may fail anywhere, a failed flush keeps its text, interruptions, one recorder | `TypeOK`; `NoInternalError`: no index, timeout or clock the loop hands on is refused; `LogAlwaysLoads`, `SummaryIsTrue` (on a disk that stays full once it was), `ForwardLogIsTrue` (on any disk): what the log says; `ImplementsChannel` |
| `link_overtaking` | 3 packets, 2 sessions, 4 decisions, holds up to 2, delays up to 1, no faults, fairness | `ReorderEventsAreTrue`, `UnheldLeaveInOrder`: who overtakes whom; `DrainIsComplete`, `RunEnds`, `EligibleLeaves`: what a run leaves behind, and that it ends |
| `link_jitter` | 2 packets, jitter, window 0 | violation of `ZeroWindowKeepsOrder` (finding) |
| `link_disk` | as `link_faults`, one session, only the sink fails, any disk | violation of `LogLoadsOnAnyDisk` (finding) |
| `impairments` | 7 pairs of configurations, 729 streams, 2 payload sizes, 2 packets | `DecisionsInBounds`, `LossIsMonotone`, `UnrelatedChangesDoNotShift` |
| `alarms` | 4 packets of 15 kinds, counter modulo 4 | `AlarmsAreHysteresis`, `LifecyclesAreWellFormed`, `GapsAreExact` |
| `listener` | 4 datagrams, one kind rejected, every fault, a replay at any time | `AlarmLogLoads`, `InterruptWritesSummary`: what is left on disk; `LogFollowsRecording`, `ReplayAgreesWithLog`: recording, log and replay tell one story |
| `listener_torn` | 2 datagrams, interruptions only | violation of `InterruptedRunIsComplete` (finding) |
| `inspection` | 3 datagrams over a counter modulo 3, one kind rejected, four selections of lanes, one `--output` over an evidence file, every fault of the report's file system but unlinking, filters and limits | `ExactNamesItsCause`, `RepeatsExplainGaps`, `TornLogsAreRejected`: what a verdict is worth; `AlarmsKeepTheirEvidence`, `LoadedEvidenceIsReported`: what the report says; `ReportIsOldOrNew`, `NothingLeftBehind`: the report file |
| `flight` | 7 command lines, steep scenarios, a counter modulo 6, 2 faults, 2 datagrams on the air, 3 foreign datagrams | `HeardWasSent`, `GapsAreTheDrops`, `AlarmsOnlyWorsen`: what the ground station believes of the spacecraft; `ScheduleIsExact`, `FlightEnds`, `TypeOK`: the program on board |
| `references` | 684 commands over policy and profile documents with one value changed, references of every form, up to 2 changes by the operator | `ResolvesAsOfSomeMoment`, `RunsWithinAssumptions`, `ReferenceReproduces`: what a run is configured by; `RefusalsLeaveNoTrace`, `RecordingsStayApart`: what a command leaves behind; `CrashesAreExplained`: the exceptions it may end with |
| `policy_blank` | the commands of a listener whose policy has a blank name | violation of `InvalidSettingsLeaveNoTrace` (finding) |

### Bounds

- `MaxArrivals` (2 or 3, of all sessions together): two packets are needed for one to overtake another,
  three for a packet to be overtaken twice, or for a hold of 2 to end by count.
- `MaxTime` (1, or 2 in `link_jitter`): the clock runs on while a delivery is waiting, so this only bounds
  idle time. A tick is longer than the poll interval (at most one second), so a
  poll may end in any tick; nothing in the code measures less than that.
- `MaxRuns` (1 or 2): what a session leaves behind is met by the next one.
- `RunLimits`: 0 is `max_packets = None`; the other is a finite run that drains.
- Decisions: each impairment alone and the pairs that interact (duplicate with
  corrupt, with delay, with hold). `MixedAreDecisions` and its like check that
  each one is the result of some samples under a real configuration.
- `Unit = 4`: four samples, values below, at and above the thresholds of
  rates 1/3 and 1/2, and the same rounding as 64 bits. The first packet's samples
  are free; the second packet's are one row whose neighbours all decide
  differently, so that a shift of one draw shows.
- `SequenceModulus = 4`: wrap, repeat, gap and late packet within four packets.
- `MaxPackets`, `MaxDatagrams` = 4: raise, update, clear and raise again.
- Inspection: three datagrams of three packets or noise: a repeated sequence
  number, a rejected record in front of a correlated one, a gap, and a raise
  after a clear. All five ends of the command are reached (complete,
  incomplete, incompatible, malformed, error), each with the old or the new
  report. Without its condition that the listener had stopped or no sequence
  number repeats, `ExactNamesItsCause` is false: of a live listener the
  inspector may see the alarm of a repeated packet and only the first of its
  records. That is not a contradiction of the documentation, which claims
  exactness for the loaded evidence only.
- Filters and limits of the reports: each alone, both ends of a window, a code with
  a severity, limits below, at and above the number of entries that match.
- `MaxCycles = 7`, `SequenceModulus = 6` in `flight`: the counter wraps, once, with
  a packet dropped next to the wrap. The scenarios are steep, so that four packets
  pass both thresholds and the fifth leaves the range of its field; the widths
  themselves are the real ones. `MaxFaults = 2`: a loss of a repeated packet, a
  corrupted one overtaken. `Positions` has a byte of every region of the packet
  (version, sequence, mode, temperature, checksum). `MaxAir = 2`: enough to
  overtake.
- `references`: `MaxFloat`, `MaxSeed`, `MaxPrintable` stand for 2^1024, 2^64-1 and the largest
  integer Python turns into decimal digits (4300 of them), with documents below, at and above them. One key at a time is changed, removed or given each odd
  value (wrong kind, too large, negative, zero, nan, infinity, at and beside
  every threshold). Three places may be edited (the file of the reference, a file
  named like a built-in, the log), twice for a bare reference, which is looked at
  three times, and once otherwise. Four nodes: two files, two outputs.

### Fairness

`FairSpec` is `Spec` with weak fairness of the thread's steps and of `Tick`.
The operating system runs a runnable thread, the poll timeout of `recvfrom` is
at most one second so a wait ends, and the monotonic clock advances. Opening,
starting, sending, and stopping are the environment's and are not assumed.
`EligibleLeaves` therefore speaks of a run that goes on being scheduled, and
allows one that ended to discard. Both liveness properties are checked without faults of
sink and socket: a fault takes the loop to the `finally` block, from where the steps are those of a stopped run.

`FlightSpec` is weakly fair to the program's own steps, because the operating system
runs it and its sleep is bounded, and to datagrams leaving the air, where being lost is
leaving too. Signals and faults need not happen: `FlightEnds` says that a finite
count, or a signal, ends the program by itself, and an endless flight may go on.

## Proofs

Every theorem holds for any set of decisions, documents, files, arguments and
packets, any number of sessions, any faults, any width of the counters. What is
assumed is named in the modules:

- types of parameters: `OutcomesAssumption`, `BoundsAssumption`, `UnitAssumption`,
  `StreamsAssumption`, `ConfigsAssumption`, `InputAssumption`, `PacketsAssumption`,
  `ListenerAssumption`, `SelectionsAssumption`, `LinkAssumption`, `LimitsAssumption`,
  `MaxFloatAssumption`, `BundleAssumption`, `CommandsAssumption`, `ScenesAssumption`;
- `PolicyAssumption`, what the policy parser accepts. That it accepts no other policy
  is itself a theorem, `AcceptedSettingsAreSound`;
- `ModulusAssumption`: a counter has at least two values;
- `CycleAssumption` and `WidthAssumption`: what the argument parser of the simulator lets
  through, and that its counter is a `uint32` and its clock a `uint64`;
- `ScenarioAssumption`: temperatures and voltages of a scenario follow the sequence
  number, and nothing recovers. `scenario.cpp` adds to a rise of 0.72 a packet a sine of
  amplitude 1.8 over an eighth of the number, which falls by at most 0.225 a packet; it
  drains a battery by a positive rate; and a normal flight stays, at 24 plus 1.8 degrees,
  below the 60 of SAFE mode;
- `GroundAssumption`: the ground station runs under a policy the policy classes accept;
- `SlugsAssumption` and `PackagedAssumption`: no slug is empty, and the files inside the
  package are read without an overflow.

Two hypotheses stand in theorems instead, because they do not always hold.
`StandardIsPackaged`: the packaged
file `standard` means the default policy that is also written out in Python. `Harmless`, of the
datagrams of other programs: they are rejected, and still are when one of their bytes
changes, since a datagram that one byte away from a valid packet becomes it when that byte is hit.
What has the wrong length, or a checksum of its own, is harmless if it is rejected
(`MalformedIsHarmless`). Each is stated where it is needed.

### The emulator

- `LinkRuntimeProofs`. `TypeCorrect` is `[]TypeOK`. The rest comes from
  `LoopInv`: scheduler and engine count the same packets while a session runs;
  after `PopReady` everything that may leave and is still in the heap is due
  after the time the loop read; the stream remembers no time after the clock,
  nor, while a batch is sent, after that reading. None of the three is
  inductive alone: the event clock is in order across a batch only because the batch was popped
  at a time not before the last packet's, which the thread knows at the top
  of the loop and nowhere else. From it follow `EnqueueCorrect`,
  `ReceiveCorrect` and `EventClockCorrect`, together `NoInternalErrors`.
- `LinkRefinementProofs`. `ChannelImplemented` is `Spec => ImplementsChannel`:
  a refinement mapping takes `pending` and `ready` together as what is waiting,
  so that `PopReady` is a stutter, `Receive` an `Accept`, `SendNext` a
  `Deliver`, a failure, an interruption or a stop an `Interrupt`. It needs
  `ChannelInv`, which says which phases have an open socket, a batch in hand or a
  reason to end, that what is in the batch was due and released when it was popped
  (and stays so), and that a drained run has nothing left.
- `LinkLogProofs`, four invariants, each on top of the one before.
  `QueueInv` says that nothing waits behind what comes after it in the order of
  the heap, that a key names one delivery in one place, and that nothing in hand is newer
  than the newest packet or the loop's clock: `UnheldInOrder` follows.
  `StreamInv` says that while a session runs what it has given to the file is open: indices are
  positions, times ascend up to the stream's own, the counters are those of the
  events. Wherever the file ends, now or when the disk takes more of what waits (`Ends`,
  `Written`), what it holds of the session loads and its summary is true, as long as that end is not behind
  the first event whose flush failed: `LogLoads` and `SummaryCounts`, which have `DiskStaysFull` as their
  condition, as the properties do, and no other hypothesis about the disk. The lemma underneath, `EmitAppends`, follows the
  events of one handler to the sink one by one, up to the one it raises at.
  `BookInv` relates the log to the network, again wherever the file ends: the forwarded events are the datagrams
  that went out, `highestForwarded` is their newest packet, and the reorder marks are
  those that came late (`ForwardLogCorrect`, `ReorderEventsCorrect`). `ScheduleInv`
  says that what was scheduled is what waits and what went out, each once, so that
  a drained run has sent it all (`DrainCompletes`). These three hold on any disk.

### The engines

- `ImpairmentProofs`. `EngineInv` says that an engine has drawn exactly
  `DrawsPerPacket` samples for each packet it has had, so that a decision depends on the
  index and size of its packet, the configuration and the stream alone. From there two
  engines compare packet by packet: `UnrelatedDecisionsAgree`, `LossesGrow`, and
  `DecisionsAreBounded`, over any stream, for any unit. The lemmas are arithmetic: the
  thresholds `float.as_integer_ratio` gives are monotone in the rate, a rate of zero never
  hits and a rate of one always does, and multiply-high stays below its bound.
- `AlarmEngineProofs`. `TypeCorrect`; `TemperatureCorrect` and `BatteryCorrect`
  (together `HysteresisCorrect`) say for streams of any length that the severity
  is the two-threshold hysteresis of all readings since the reset. The lemma behind
  both says how "some reading entered and all since kept" grows by one reading.
  `LifecyclesCorrect` and `GapsCorrect` come from `LogInv`: the transitions of one packet
  are a sequence of four parts, each the concern of one alarm; a part continues the
  lifecycle of its own alarm and leaves the others alone, and the engine's state is where
  each lifecycle stands.

### Listener, replay, inspector

- `InspectionProofs`, in the order in which the data travels.
  `ListenerInv` says what the log, the text in the file object, the index and the
  statistics are at each statement of the recorder, including by which of them the
  counters lag: `AlarmLogCorrect`, `InterruptionCompletes`.
  `StoryInv` says that the log is what the engine emits for the recording, up to a point
  within the last record: `LogFollows`. `ReaderInv` says the same of a replay and of the
  records it has taken: `ReplayAgrees`.
  `FileInv` adds to the two properties of the report file what each step knows about the two
  files and about the outcome: a temporary file has a name in every step that
  is cleaned up after, and there is an outcome only when the command is over
  or cleaning up (`ReportCorrect`, `CleanUpCorrect`).
  `SessionInv` joins them with what the inspector has read (a beginning of the recording, and
  the log as it stays) and with `RecordsInv`: `TornLogsCorrect`, `RepeatsAgree`, `ExactCauses`.

  The inspector replays a recording with a recursive function, `Story`. Its value for
  every sequence is not needed: a recording grows by one record at a time, so what an
  induction over it would prove is kept as an invariant of the specification.
  `Settled` says that the function's values are
  those of the beginnings of the recording; `Counted`, that the gap alarms, the
  mismatches and the repetitions balance for each beginning; `Traced`, that every
  transition comes from one record and which; `Distinct`, that equal entries come
  from equal numbers. `RecordsMove` is the step.

  The rest is about what the command says, `LoadedEvidenceIsReported` and
  `AlarmsKeepTheirEvidence`. `Ranking` is the lemma underneath: in a finite set under a strict total
  order each element has a place of its own and every place is taken, by
  counting what is below and the pigeonhole principle. So `TimelineIs`: the
  timeline holds each entry once, in order. `Projecting` says the same of what a
  filter and a limit leave of it. `SessionIsAccepted` and `ReportIsAccepted` go
  through the conditions of the constructors: for lanes that loaded, none refuses.
  `EvidenceIsShown` is about the document: no filter and no limit hides a diagnostic
  or the verdict. `ChosenInv` ties the three together over a behaviour: the lanes
  that were asked for are those that were read, none was refused, and a verdict is
  that of these lanes. Hence `EvidenceReported` and `EvidenceKept`, for any
  recording, any link log that loads, any filters and limits.

### The spacecraft

- `FlightProofs`. `SimulatorTypes`, `CountHolds` and `ScheduleHolds` are about
  the simulator alone; `FlightFliesTheSimulator` shows that a flight, with any link
  and ground station, is a behaviour of the simulator, which carries them over
  (`FlightsAreScheduled`). The schedule is inductive once two things are known: the code's test of
  a number for a drop is the schedule's, a multiple of the period (`DroppedIsWithheld`), and
  the counter is the number of the cycle at hand. Then each cycle adds itself to what was
  transmitted or to what was withheld. The count of the first round adds up the multiples of the period.
  `EncodedIsDecoded` is the round trip of the codec for every record that fits its fields.
  `Begins` says of a datagram what its first bytes are; there is a lemma for each
  kind of field, that it is appended behind what was there and read back whole, and the packet is
  put together from them stage by stage. No byte is enumerated.
  `PacketsAreSpaced` says that the counter does not go all the way round between two packets: the
  packet numbered zero is never dropped. Without it a gap could be invisible, and
  `GapsAreDropped` false. That theorem needs `Followed` too: over a faultless link the air
  holds what was sent and not yet heard, and the engine has told the jumps of what was heard.
  `UncorruptedIsBelieved` needs only that what is on the air was sent or is foreign.

  `OneByteIsDetected` is about the checksum: inverting any bits of one byte, also of the checksum's own
  four, is noticed. The checksum is the remainder of a division of polynomials, computed
  by a recursive function over the bytes. It is linear, and a step of it loses
  nothing, so two registers that differ go on differing while the same
  bytes come in. That is an induction over the bytes, made without an operator parameter:
  the set of counterexamples, if there were any, would have a least element
  (`LeastNumber`, `SetInduction`).
  `StruckInv` carries it over a flight: as long as at most one byte was corrupted
  what is on the air was transmitted or will be rejected. Hence `OneCorruptionIsNoticed`,
  with any losses, repetitions and overtaking beside it.

  `AlarmsGetWorse` stands on two invariants. `MadeInv`: what is transmitted is a
  record of the scenario, and in the first round of the counter its number is the cycle that made it.
  `OrderlyInv`: in a calm flight (no packet overtaken, no second corruption, no wrap)
  what is on the air is in order behind what was heard, and the engine's severities fit the last
  record it heard. A later record of the same scenario is no better,
  so hysteresis never clears what it raised. Repeated packets keep the order and change nothing.

### Commands

- `CommandsProofs`. `CommandInvariant` says in which phases a source has been
  chosen and that what was chosen is what parsing some content gave; parsing
  accepts only what the constructors check, so what is accepted is sound
  (`AcceptedSettingsAreSound`), options included (`OptionsAreKept`).
  `ResolutionInvariant` says that until the file is opened `answers` holds what the
  reference means now, and, between the look at a bare name and the reading, that the
  name is no built-in: that is why a resolution in three calls still is one of some
  moment (`ResolutionIsOfSomeMoment`). `TraceInvariant` says in which phases nothing has
  been opened yet (`RefusalsAreClean`); `ApartInvariant` that since the comparison, and
  as long as the operator changed nothing, the place of an output still holds the
  node that was opened, and the two nodes differ (`RecordingsAreApart`).
  `SourceInvariant` says that as long as the operator changed nothing the reference still means
  what was chosen, that a crash of the resolution has its cause in the document that was read, and what an output's node
  holds: `EveryCrashIsExplained`, and under `StandardIsPackaged` `LogsAreReproducible`.

### Checked by TLC only

- Liveness under fairness (`RunEnds`, `EligibleLeaves`, `FlightEnds`): out of the prover's reach.
- `HeardWasSent` and `AlarmsOnlyWorsen` where more than one byte is corrupted. A checksum does
  not detect every such change, so with enough corrupted bytes both are false; of
  the corruptions of the run they hold. What is proved is the case of at most one corrupted byte.
- The four findings, which are counterexamples.

## Findings

1. `link_jitter`. ADR 0001 says that a zero window disables reordering. Jitter
   gives two packets different delays, the scheduler orders by due time, and the
   later packet leaves first, with a `packet_reordered` event.
2. `link_disk`. When the flush of a link event raises, its line stays in the
   file object; the summary that `run` then writes carries the same index, and
   both reach a disk that recovered. The loader rejects the file. `LogAlwaysLoads` and
   `SummaryIsTrue` hold with the condition that excludes this case, and say so.
3. `listener_torn`. `KeyboardInterrupt` between the flush of an alarm event and
   the update of index and statistics leaves a log that ends with a summary its
   own loader rejects, where ADR 0004 promises a summary or a partial log.
4. `policy_blank`. A policy file whose name is white space is accepted by the catalogue and
   refused by the header of the alarm log (`alarm_events.py:115`), when the socket is bound and
   the telemetry recording opened: an earlier recording is gone, and the command
   ends with a `ValueError` nothing catches. `src/docs/operations.md:214` says that invalid
   policies fail before such side effects.

## Known exceptions

Some properties name the cases in which the code does less than a reader may expect.

- `CrashesAreExplained`, the exceptions a command ends with because its caller does not catch them.
  An integer that no float can hold, where a real number belongs: `OverflowError`
  (`alarm_policies/parser.py:95`, `profiles/parser.py:59`). A document that is nested too deep for `tomllib`:
  `RecursionError`, which `link` catches as a `RuntimeError` and `listen` and the validate commands
  do not (`cli.py:98`, `alarm_policies/cli.py:77`, `profiles/cli.py:76`). A latency or jitter of more than 4300 decimal
  digits, which TOML can give in hexadecimal: a `ValueError` of `json.dumps`, outside the
  `try` of `profile validate` (`profiles/cli.py:83-89`) and inside that of `link`. A host that cannot be encoded for
  the resolver: `UnicodeError` from `bind`, which `listen` does not catch (`cli.py:111`). And the policy
  with a blank name of finding 4. The property is about the steps of `Commands`, from the
  arguments to the header; it says nothing of the list and show commands (`profile show` prints
  the same latency), nor of what a run does later: `link` computes
  its timeout in floats, so a latency of more than 10^308 milliseconds ends its loop with an `OverflowError`, while
  the delays of `LinkRuntime` are any natural numbers.
- `RefusalsLeaveNoTrace`: the link command truncates its event log before it binds,
  so a port that is taken, or a host that does not resolve, costs the log; the listener binds first. A
  destination that is a directory is refused when it is opened, which for the alarm log is after the recording was emptied.
- `LogAlwaysLoads`, `SummaryIsTrue`: a runtime that is opened twice writes two sessions into one file. Each
  session's part loads by itself; the file as a whole has two headers, which
  `load_link_events` rejects. The command opens its runtime once.
- `NothingLeftBehind`: an interruption between the creation of the temporary
  report and the line that keeps its name, or during the removal, leaves the file.
  `src/docs/session-inspection.md:158` names no exception ("Failures or interruptions before
  replacement remove the temporary file").
- `RecordingsStayApart`: the destinations are compared once, before they are opened.
- `ReferenceReproduces`: not for a command whose recording or log is the file its
  reference names.
- `AlarmsOnlyWorsen`: not for a packet that was overtaken, which the alarm engine evaluates as if it were new.

## Not modelled

- The text of things: JSON and TOML syntax, formatting, messages, the layout of
  reports, argparse's own conversions. A document is its values, a line its event.
- SHA-256: a fingerprint is the canonical document it is made of.
- SplitMix64's mixing: an arbitrary stream of samples.
- A line reaches the disk whole or not at all, in the link log and in the alarm
  log. A loader meets a torn last line as a parse error; that is not a state here.
- A second signal while the first one unwinds; a `KeyboardInterrupt` in a
  constructor or between two statements of the listener's imports and arguments.
- A line of a live recording that is read half written; the pauses of a replay;
  a replay or a listener under two different policies.
- A name that leads to a loop of links; an `--output` that becomes an alias of an evidence file
  after the two were compared.
- The list and show commands, a report to standard output, the fingerprint a
  profile command prints, the Python encoder (used by tests only).
- The scripts: they run the programs above and measure or draw what comes out.

## Plan

1. A flight through `LinkRuntime` itself instead of a link that may do anything.
2. Several corrupted bytes: which patterns the checksum detects at this length
   of packet (up to three bits, any burst of 32), as theorems beside `OneByteIsDetected`.
3. A report written to standard output, with a reader that closes the pipe.
