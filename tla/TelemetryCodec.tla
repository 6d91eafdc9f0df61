--------------------------- MODULE TelemetryCodec ---------------------------
(***************************************************************************)
(* The telemetry packet on the wire: what the spacecraft encodes and what  *)
(* the ground station decodes.  A datagram is a sequence of bytes, numbers *)
(* are big-endian, and signed fields are in two's complement.  The two     *)
(* sides are written apart, as they are in the code: nothing but the       *)
(* layout makes them agree.                                                *)
(***************************************************************************)
EXTENDS Integers, Sequences, SequencesExt, FiniteSetsExt

Byte == 0 .. 255
Magic == <<79, 82, 66, 84>>              (* "ORBT"                         *)
Version == 1
PacketSize == 35
ModeCodes == [BOOT |-> 0, NOMINAL |-> 1, SAFE |-> 2]

(* The bits of a byte; and of a word, the number of a set of bits.         *)
BitsOf(byte) == {k \in 0 .. 7 : (byte \div 2 ^ k) % 2 = 1}
ByteOf(bits) ==
  LET Bit(k) == IF k \in bits THEN 2 ^ k ELSE 0
  IN  Bit(0) + Bit(1) + Bit(2) + Bit(3) + Bit(4) + Bit(5) + Bit(6) + Bit(7)
Xor(a, b) == (a \ b) \cup (b \ a)

-----------------------------------------------------------------------------
(* The spacecraft.                                                         *)

(* append_u16, append_u32 and append_u64: the most significant byte first. *)
AppendUnsigned16(out, value) == out \o <<(value \div 256) % 256, value % 256>>

AppendUnsigned32(out, value) ==
  AppendUnsigned16(AppendUnsigned16(out, value \div 65536), value)

AppendUnsigned64(out, value) ==
  AppendUnsigned32(AppendUnsigned32(out, (value \div 65536) \div 65536), value)

(* The conversion to an unsigned of the same width.                        *)
AppendSigned16(out, value) == AppendUnsigned16(out, value % 65536)

(* 0xEDB88320, and one step of the division it defines.                    *)
Polynomial == {5, 8, 9, 15, 19, 20, 21, 23, 24, 26, 27, 29, 30, 31}
Divide(crc) ==
  LET shifted == {k - 1 : k \in crc \ {0}}
  IN  IF 0 \in crc THEN Xor(shifted, Polynomial) ELSE shifted

(* Eight steps: the low byte alone decides what is added to the rest.       *)
Divided == [low \in SUBSET (0 .. 7) |->
  Divide(Divide(Divide(Divide(Divide(Divide(Divide(Divide(low))))))))]

DivideByte(crc, byte) ==
  Xor({k - 8 : k \in crc \ (0 .. 7)}, Divided[Xor(crc \cap (0 .. 7), BitsOf(byte))])

(* The reflected CRC-32, a set of the bits 0..31.                          *)
Crc32(data) ==
  LET crc[i \in 0 .. Len(data)] ==
        IF i = 0 THEN 0 .. 31 ELSE DivideByte(crc[i - 1], data[i])
  IN  (0 .. 31) \ crc[Len(data)]

AppendCrc(out) ==
  LET crc == Crc32(out)
  IN  out \o [i \in 1 .. 4 |-> ByteOf({k \in 0 .. 7 : k + 8 * (4 - i) \in crc})]

EncodeBody(telemetry) ==
  LET header  == Magic \o <<Version, 0>>
      stamped == AppendUnsigned64(AppendUnsigned32(header, telemetry.sequence),
                                  telemetry.timestamp)
      power   == AppendUnsigned16(AppendUnsigned16(Append(stamped, ModeCodes[telemetry.mode]),
                                                   telemetry.battery), telemetry.current)
      tilted  == AppendSigned16(AppendSigned16(power, telemetry.temperature), telemetry.roll)
  IN  AppendSigned16(AppendSigned16(tilted, telemetry.pitch), telemetry.yaw)

Encode(telemetry) == AppendCrc(EncodeBody(telemetry))

-----------------------------------------------------------------------------
(* The ground station.                                                     *)

Unsigned16(data, first) == 256 * data[first] + data[first + 1]
Unsigned32(data, first) == 65536 * Unsigned16(data, first) + Unsigned16(data, first + 2)
Unsigned64(data, first) ==
  65536 * (65536 * Unsigned32(data, first) + Unsigned16(data, first + 4))
    + Unsigned16(data, first + 6)

Signed16(data, first) ==
  LET value == Unsigned16(data, first) IN IF value < 32768 THEN value ELSE value - 65536

CrcMatches(data) == AppendCrc(SubSeq(data, 1, PacketSize - 4)) = data

(* Mutant: the checksum is not compared.                                   *)
RejectionWithoutCrc(data) ==
  IF Len(data) # PacketSize THEN "length"
  ELSE IF SubSeq(data, 1, 4) # Magic THEN "magic"
  ELSE IF data[5] # Version THEN "version"
  ELSE IF data[6] # 0 THEN "flags"
  ELSE IF data[19] \notin 0 .. 2 THEN "mode"
  ELSE "none"

(* The first check of decode_packet that fails.                            *)
Rejection(data) ==
  IF Len(data) # PacketSize THEN "length"
  ELSE IF SubSeq(data, 1, 4) # Magic THEN "magic"
  ELSE IF data[5] # Version THEN "version"
  ELSE IF data[6] # 0 THEN "flags"
  ELSE IF ~CrcMatches(data) THEN "crc"
  ELSE IF data[19] \notin Range(ModeCodes) THEN "mode"
  ELSE "none"

Decoded(data) ==
  [sequence    |-> Unsigned32(data, 7),
   timestamp   |-> Unsigned64(data, 11),
   mode        |-> CHOOSE mode \in DOMAIN ModeCodes : ModeCodes[mode] = data[19],
   battery     |-> Unsigned16(data, 20),
   current     |-> Unsigned16(data, 22),
   temperature |-> Signed16(data, 24),
   roll        |-> Signed16(data, 26),
   pitch       |-> Signed16(data, 28),
   yaw         |-> Signed16(data, 30)]
=============================================================================
