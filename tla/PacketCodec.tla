---------------------------- MODULE PacketCodec -----------------------------
(***************************************************************************)
(* The pure conversions of a packet at their real widths: Packet.pack and  *)
(* crc8 on the host, populate_report_from_serial on the board, and the     *)
(* checksum update of avr-libc that the interrupt calls.                   *)
(***************************************************************************)
EXTENDS Integers, Sequences

ByteValue == 0..255

Bit(word, i) == (word \div 2^i) % 2

\* Exclusive or of two bytes, digit by digit.
Xor(a, b) ==
  LET digit(i) == ((Bit(a, i) + Bit(b, i)) % 2) * 2^i
  IN  digit(0) + digit(1) + digit(2) + digit(3) + digit(4) + digit(5) + digit(6) + digit(7)

\* Faulty variant of CrcRound: the polynomial is forgotten.
CrcRoundShifts(c) == (2 * c) % 256

\* One round of the loop of crc8, and the eight of them from every value the
\* register can have.
CrcRound(c) == IF c >= 128 THEN Xor((2 * c) % 256, 7) ELSE 2 * c

CrcTable ==
  LET rounds[n \in 0..8] ==
        IF n = 0 THEN [c \in ByteValue |-> c] ELSE [c \in ByteValue |-> CrcRound(rounds[n - 1][c])]
  IN  rounds[8]

\* _crc8_ccitt_update: one byte into the checksum.
Crc8Update(c, b) == CrcTable[Xor(c, b)]

\* crc8: all the bytes of a packet.
Crc8(data) ==
  LET fold[i \in 0..Len(data)] == IF i = 0 THEN 0 ELSE Crc8Update(fold[i - 1], data[i])
  IN  fold[Len(data)]

-----------------------------------------------------------------------------
(***************************************************************************)
(* Packet.pack.  A stick axis is a signed 16-bit XInput value s, which     *)
(* PadX.axis divides by 32767; int() truncates towards zero.               *)
(***************************************************************************)
AxisMax == 32767
RawAxis == (-AxisMax - 1)..AxisMax

Truncate(num, den) == IF num >= 0 THEN num \div den ELSE -((-num) \div den)

Norm(num, den) == Truncate((num + den) * 255, 2 * den) % 256

\* The dead zone around the centre.
Rested(b) == IF b - 128 < 10 /\ 128 - b < 10 THEN 128 ELSE b

StickByte(s) == Rested(Norm(s, AxisMax))

\* Faulty variant of SdlSpan: the two halves are mixed up.
SdlSpanSwapped(v) == IF v < 0 THEN 32767 ELSE 32768

\* PadSDL.axis: what norm_sdl_axis divides by; the vertical axes are negated.
SdlSpan(v) == IF v < 0 THEN 32768 ELSE 32767
SdlByte(v) == Rested(Norm(v, SdlSpan(v)))
SdlByteY(v) == Rested(Norm(-v, SdlSpan(v)))

\* norm_sdl_trigger, and the threshold of build_packet.
SdlTrigger(v) == IF v < 0 THEN 2 * (v + 32768) > 65535 ELSE 2 * v > 32767

\* word holds the buttons, hat the d-pad, axes the four stick values.
Pack(word, hat, axes) ==
  <<word \div 256, word % 256, hat,
    StickByte(axes[1]), StickByte(axes[2]), StickByte(axes[3]), StickByte(axes[4]), 0>>

-----------------------------------------------------------------------------
(***************************************************************************)
(* populate_report_from_serial.  Buttons are numbered as in                *)
(* JoystickButtons_t; the two stick triplets pack two 12-bit values.       *)
(***************************************************************************)
ButtonsOf(word) == {i \in 0..13 : Bit(word, i) = 1}

DpadOf(hat) ==
       (IF hat \in {3, 4, 5} THEN {"down"} ELSE {})
  \cup (IF hat \in {0, 1, 7} THEN {"up"} ELSE {})
  \cup (IF hat \in {1, 2, 3} THEN {"right"} ELSE {})
  \cup (IF hat \in {5, 6, 7} THEN {"left"} ELSE {})

\* Faulty variant of StickTriplet: the low nibble of y is not shifted.
StickTripletUnshifted(xb, yb) ==
  LET x == xb * 16 + 8
      y == yb * 16 + 8
  IN  <<x % 256, ((y % 16) + (x \div 256)) % 256, y \div 16>>

StickTriplet(xb, yb) ==
  LET x == xb * 16 + 8
      y == yb * 16 + 8
  IN  <<x % 256, (y % 16) * 16 + (x \div 256), y \div 16>>

PopulateReport(in) ==
  [buttons |-> ButtonsOf(in[1] * 256 + in[2]),
   dpad |-> DpadOf(in[3]),
   analog |-> StickTriplet(in[4], in[5]) \o StickTriplet(in[6], in[7])]

\* initialize_idle_report: nothing pressed, both sticks at 0x800.
CentredTriplet == <<0, 8, 128>>
BlankReport == [buttons |-> {}, dpad |-> {}, analog |-> CentredTriplet \o CentredTriplet]

\* How the console reads a stick triplet back: two little-endian 12-bit values.
ConsoleStick(t) == <<t[1] + (t[2] % 16) * 256, (t[2] \div 16) + t[3] * 16>>
=============================================================================
