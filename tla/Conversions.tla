----------------------------- MODULE Conversions ----------------------------
(***************************************************************************)
(* A pad and a frame: what the conversions of PacketCodec make of the      *)
(* fourteen buttons (word), the d-pad (hat) and the four stick axes of one *)
(* packet, and of its frame when the byte at place arrives as value (none  *)
(* does when place is 0).  Nothing moves: a behaviour is one input.        *)
(***************************************************************************)
EXTENDS PacketCodec

VARIABLES word, hat, axes, place, value

\* The fourteen buttons of JoystickButtons_t.
WordMax == 16383

pad == <<word, hat, axes, place, value>>

PadInit ==
  /\ word \in 0..WordMax /\ hat \in 0..8 /\ axes \in [1..4 -> RawAxis]
  /\ place \in 0..9 /\ value \in ByteValue

PadSpec == PadInit /\ [][UNCHANGED pad]_pad

packet == Pack(word, hat, axes)

\* What the host writes: the packet and its checksum.
frame == Append(packet, Crc8(packet))

\* Directions of a HAT value, from the (x, y) pairs that HAT_MAP is keyed with.
HatVector == <<<<0, 1>>, <<1, 1>>, <<1, 0>>, <<1, -1>>, <<0, -1>>, <<-1, -1>>, <<-1, 0>>, <<-1, 1>>, <<0, 0>>>>
Directions(v) ==
  {d \in {"up", "down", "left", "right"} :
     CASE d = "up" -> v[2] = 1   [] d = "down" -> v[2] = -1
       [] d = "left" -> v[1] = -1 [] d = "right" -> v[1] = 1}

\* What was pressed on the host is what the console reads: all fourteen buttons,
\* the d-pad direction HAT_MAP encoded, and each stick axis in its own place at
\* the middle of the 16 values its byte stands for, none spilling into another
\* (Packet.pack, populate_report_from_serial).
ConsoleReadsWhatWasPacked ==
  LET report == PopulateReport(packet)
      left == ConsoleStick(SubSeq(report.analog, 1, 3))
      right == ConsoleStick(SubSeq(report.analog, 4, 6))
  IN  /\ \A i \in 0..13 : i \in report.buttons <=> (word % 2^(i + 1)) >= 2^i
      /\ report.dpad = Directions(HatVector[hat + 1])
      /\ left = <<16 * StickByte(axes[1]) + 8, 16 * StickByte(axes[2]) + 8>>
      /\ right = <<16 * StickByte(axes[3]) + 8, 16 * StickByte(axes[4]) + 8>>
      /\ \A i \in 1..6 : report.analog[i] \in ByteValue

\* The byte of a stick axis grows with the axis, reaches both ends of the range,
\* and rest is the centre, dead zone and 16-bit asymmetry included.
SticksAreMonotone(axis) ==
  /\ StickByte(axis) \in ByteValue
  /\ axis < AxisMax => StickByte(axis) <= StickByte(axis + 1)
  /\ StickByte(-32768) = 0 /\ StickByte(0) = 128 /\ StickByte(AxisMax) = 255

\* A stick on an SDL pad is never further from the same stick on an XInput pad than one
\* raw step, on either axis, although the two scale the halves of the range differently
\* and SDL counts downwards (PadX.axis, PadSDL.axis, norm_sdl_axis).
SdlAgreesWithXInput(axis) ==
  /\ SdlByte(axis) \in StickByte(axis)..StickByte(IF axis < AxisMax THEN axis + 1 ELSE AxisMax)
  /\ LET up == IF axis = -32768 THEN AxisMax ELSE -axis
     IN  SdlByteY(axis) \in StickByte(up - 1)..StickByte(up)

\* A trigger that is pulled is pressed once, at rest it is not and at its end it is, for
\* devices that count from 0 and for those that count from -32768 (norm_sdl_trigger).
TriggerIsPulledOnce(axis) ==
  /\ (axis < AxisMax /\ SdlTrigger(axis)) => SdlTrigger(axis + 1)
  /\ ~SdlTrigger(-32768) /\ ~SdlTrigger(0) /\ SdlTrigger(AxisMax)

\* Axes keep their order from the pad to the console: sticks of either backend, and
\* triggers, dead zones, signs and ends of the range included (Packet.norm, norm_sdl_axis,
\* norm_sdl_trigger).
AxesKeepOrder ==
  \A axis \in {axes[i] : i \in 1..4} :
    SticksAreMonotone(axis) /\ SdlAgreesWithXInput(axis) /\ TriggerIsPulledOnce(axis)

\* A frame with one altered byte, in the payload or in the checksum, never
\* passes the comparison of the interrupt.
OneAlteredByteIsRejected ==
  place # 0 =>
    LET altered == [frame EXCEPT ![place] = value]
    IN  Crc8(SubSeq(altered, 1, 8)) = altered[9] <=> altered = frame
=============================================================================
