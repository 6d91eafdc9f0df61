--------------------------- MODULE TelemetryReplay --------------------------
(***************************************************************************)
(* A replay of the telemetry recording, by another process and perhaps     *)
(* while the listener is still writing it: a fresh engine under the        *)
(* default policy evaluates the packets and prints their transitions.  The *)
(* listener skips a datagram its decoder rejects; the replay ends there.   *)
(* The listener's policy is the default one here.                          *)
(***************************************************************************)
EXTENDS AlarmListener

VARIABLES
  reader,      (* where the replay is                                      *)
  taken,       (* records it has read                                      *)
  replayed,    (* its alarm engine                                         *)
  printed,     (* the transitions it printed, with their packets           *)
  length       (* history: records in the file when the replay ended       *)

readerVars == <<reader, taken, replayed, printed, length>>
replayVars == <<vars, readerVars>>

Readers == {"idle", "reading", "holding", "ended", "refused", "interrupted"}

(* There is a file once the listener has created it; else the command ends.*)
ReplayStarts ==
  /\ reader = "idle"
  /\ reader' = IF phase = "start" THEN "refused" ELSE "reading"
  /\ UNCHANGED <<vars, taken, replayed, printed, length>>

(* The next line of the file, after the time that passed between the two   *)
(* receptions; a clock that was set back is no time at all.                *)
Take ==
  /\ reader = "reading" /\ taken < Len(telemetry)
  /\ taken' = taken + 1
  /\ reader' = "holding"
  /\ UNCHANGED <<vars, replayed, printed, length>>

EndOfFile ==
  /\ reader = "reading" /\ taken = Len(telemetry)
  /\ reader' = "ended" /\ length' = Len(telemetry)
  /\ UNCHANGED <<vars, taken, replayed, printed>>

(* A datagram the decoder rejects ends the replay.                         *)
ReplayRefuses ==
  /\ reader = "holding" /\ telemetry[taken] = Garbage
  /\ reader' = "refused"
  /\ UNCHANGED <<vars, taken, replayed, printed, length>>

Lines(packet) == Stamped(packet, Transitions(replayed, packet))

(* Mutant: every packet meets a fresh engine.                              *)
ReplayPacketAfresh ==
  /\ reader = "holding" /\ telemetry[taken] # Garbage
  /\ printed' = printed \o Lines(telemetry[taken])
  /\ reader' = "reading"
  /\ UNCHANGED <<vars, taken, replayed, length>>

ReplayPacket ==
  /\ reader = "holding" /\ telemetry[taken] # Garbage
  /\ printed' = printed \o Lines(telemetry[taken])
  /\ replayed' = NextState(replayed, telemetry[taken])
  /\ reader' = "reading"
  /\ UNCHANGED <<vars, taken, length>>

(* KeyboardInterrupt, perhaps between two lines of one packet.             *)
ReplayInterrupted ==
  /\ reader \in {"reading", "holding"}
  /\ reader' = "interrupted"
  /\ IF reader = "holding" /\ telemetry[taken] # Garbage
     THEN \E k \in 0 .. Len(Lines(telemetry[taken])) :
            printed' = printed \o SubSeq(Lines(telemetry[taken]), 1, k)
     ELSE UNCHANGED printed
  /\ UNCHANGED <<vars, taken, replayed, length>>

ReplayInit ==
  /\ Init
  /\ reader = "idle" /\ taken = 0 /\ replayed = Fresh /\ printed = <<>> /\ length = 0

Replay ==
  \/ ReplayStarts \/ Take \/ EndOfFile \/ ReplayRefuses \/ ReplayPacket \/ ReplayInterrupted

ReplayNext == (Next /\ UNCHANGED readerVars) \/ Replay

ReplaySpec == ReplayInit /\ [][ReplayNext]_replayVars

-----------------------------------------------------------------------------
(* The alarms a replay prints are those of the log, in the same order, as  *)
(* far as both have come: whoever is ahead, and whatever ended either.  One*)
(* that came to the end of the recording has printed every alarm of the    *)
(* log, unless something was recorded after it looked.                     *)
ReplayAgreesWithLog ==
  /\ IsPrefix(printed, LoggedTransitions) \/ IsPrefix(LoggedTransitions, printed)
  /\ reader = "ended" /\ length = Len(telemetry) => IsPrefix(LoggedTransitions, printed)
=============================================================================
