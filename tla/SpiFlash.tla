------------------------------ MODULE SpiFlash ------------------------------
(***************************************************************************)
(* The emulated SPI flash: spi_read (EmulatedSPI.c), and the reply that    *)
(* prepare_spi_reply and prepare_uart_reply lay out in replyBuffer.  An    *)
(* OUT report asks for size bytes at an address, and the answer is kept    *)
(* until the next one.                                                     *)
(***************************************************************************)
EXTENDS Integers, Sequences

CONSTANTS
  MaxRead,    \* the largest read the console asks for
  Offset      \* where a read may begin, from one of the addresses on

JOYSTICK_EPSIZE == 64
ReportLength == 11  \* sizeof(USB_StandardReport_t)

ADDRESS_SERIAL_NUMBER == 24576           \* 0x6000
ADDRESS_FACTORY_CALIBRATION_1 == 24608   \* 0x6020
ADDRESS_FACTORY_CALIBRATION_2 == 24637   \* 0x603D
ADDRESS_CONTROLLER_COLOR == 24656        \* 0x6050
ADDRESS_FACTORY_PARAMETERS_1 == 24704    \* 0x6080
ADDRESS_FACTORY_PARAMETERS_2 == 24728    \* 0x6098
ADDRESS_STICKS_CALIBRATION == 32784      \* 0x8010
ADDRESS_IMU_CALIBRATION == 32808         \* 0x8028

Address ==
  {ADDRESS_SERIAL_NUMBER, ADDRESS_FACTORY_CALIBRATION_1, ADDRESS_FACTORY_CALIBRATION_2, ADDRESS_CONTROLLER_COLOR,
   ADDRESS_FACTORY_PARAMETERS_1, ADDRESS_FACTORY_PARAMETERS_2, ADDRESS_STICKS_CALIBRATION, ADDRESS_IMU_CALIBRATION}

controller_color == <<10, 185, 230>>
button_color == <<221, 221, 221>>
grip_color == <<170, 170, 170>>
factory_parameters_2 == <<15, 48, 97, 150, 48, 243, 212, 20, 84, 65, 21, 84, 199, 121, 156, 51, 54, 99>>
factory_parameters_1 == <<80, 253, 0, 0, 198, 15>> \o factory_parameters_2
factory_calibration_1 ==
  <<230, 255, 58, 0, 57, 0, 0, 64, 0, 64, 0, 64, 247, 255, 252, 255, 0, 0, 231, 59, 231, 59, 231, 59>>
factory_calibration_2 ==
  <<186, 21, 98, 17, 184, 127, 41, 6, 91, 255, 231, 126, 14, 54, 86, 158, 133, 96, 255, 50, 50, 50, 255, 255, 255>>
imu_calibration ==
  <<190, 255, 62, 0, 240, 1, 0, 64, 0, 64, 0, 64, 254, 255, 254, 255, 8, 0, 231, 59, 231, 59, 231, 59>>

min_size(s1, s2) == IF s1 > s2 THEN s2 ELSE s1

\* A memcpy of length bytes of data to buf[at].
Copy(at, data, length) == [at |-> at, data |-> data, length |-> length]
Clipped(data, size) == {Copy(0, data, min_size(size, Len(data)))}

\* Faulty variant of CopiesIf: the last byte of a piece is not counted.
CopiesIfShort(at, data, size) == IF size >= at + Len(data) - 1 THEN {Copy(at, data, Len(data))} ELSE {}

\* A piece is copied as a whole, if it fits.
CopiesIf(at, data, size) == IF size >= at + Len(data) THEN {Copy(at, data, Len(data))} ELSE {}

\* The switch over the address.
Copies(address, size) ==
  CASE address = ADDRESS_CONTROLLER_COLOR ->
         CopiesIf(0, controller_color, size) \cup CopiesIf(3, button_color, size)
         \cup CopiesIf(6, grip_color, size) \cup CopiesIf(9, grip_color, size)
    [] address = ADDRESS_FACTORY_PARAMETERS_1 -> Clipped(factory_parameters_1, size)
    [] address = ADDRESS_FACTORY_PARAMETERS_2 -> Clipped(factory_parameters_2, size)
    [] address = ADDRESS_FACTORY_CALIBRATION_1 -> Clipped(factory_calibration_1, size)
    [] address = ADDRESS_FACTORY_CALIBRATION_2 -> Clipped(factory_calibration_2, size)
    [] address = ADDRESS_STICKS_CALIBRATION -> CopiesIf(22, <<178>>, size) \cup CopiesIf(23, <<161>>, size)
    [] address = ADDRESS_IMU_CALIBRATION -> Clipped(imu_calibration, size)
    [] OTHER -> {}

Fill == 255

\* The bytes from buf[0] on.
spi_read(address, size) ==
  [i \in 1..size |->
     LET hit == {c \in Copies(address, size) : c.at < i /\ i <= c.at + c.length}
     IN  IF hit = {} THEN Fill ELSE LET c == CHOOSE c \in hit : TRUE IN c.data[i - c.at]]

AddressBytes(address) == <<address % 256, address \div 256>>

\* prepare_spi_reply
spi_reply(address, size) == AddressBytes(address) \o <<0, 0>> \o <<size>> \o spi_read(address, size)

\* prepare_uart_reply puts the report, an identifier, the counter, a code and the subcommand first.
Header == ReportLength + 4

\* The console asks for what a reply can hold, at an address of 16 bits.
ASSUME SpiAssumption ==
  MaxRead \in 0..JOYSTICK_EPSIZE - Header - 5 /\ Offset \subseteq 0..65535 - ADDRESS_IMU_CALIBRATION

VARIABLES
  asked,     \* the request: bytes 11, 12 and 15 of the OUT report
  used,      \* bytes of replyBuffer that the reply takes
  reply      \* its data

spiVars == <<asked, used, reply>>

SpiInit == asked = <<0, 0, 0>> /\ used = 0 /\ reply = <<>>

\* SUBCOMMAND_SPI_FLASH_READ, with no other packet waiting
SpiFlashRead(low, high, size) ==
  /\ asked' = <<low, high, size>>
  /\ reply' = spi_reply(high * 256 + low, size)
  /\ used' = Header + Len(reply')

SpiNext == \E a \in Address, offset \in Offset, size \in 0..MaxRead :
             SpiFlashRead((a + offset) % 256, (a + offset) \div 256, size)

SpiSpec == SpiInit /\ [][SpiNext]_spiVars

(***************************************************************************)
(* Properties                                                              *)
(***************************************************************************)

Answered == reply # <<>>
At == asked[2] * 256 + asked[1]
Size == asked[3]

\* The largest reply still fits into the 64 bytes of replyBuffer.
ReplyFits == used <= JOYSTICK_EPSIZE

\* No piece of data goes past the size that was asked for.
CopiesStayInside == Answered => \A c \in Copies(At, Size) : c.at + c.length <= Size /\ c.length <= Len(c.data)

\* The console can match the reply with its request: it repeats the address in the byte order
\* of the request, and the size.
ReplyRepeatsRequest == Answered => <<reply[1], reply[2], reply[5]>> = asked /\ Len(reply) = 5 + Size

\* What lies outside the data is erased flash, and a longer read begins with the bytes of a
\* shorter one; only of the colours a part is given as a whole or not at all.
LongerReadAgrees ==
  Answered =>
    \A short \in {s \in 0..Size : At = ADDRESS_CONTROLLER_COLOR => s % 3 = 0} :
      /\ \A i \in 1..short : spi_read(At, short)[i] = reply[5 + i]
      /\ At \notin Address => \A i \in 1..short : spi_read(At, short)[i] = 255

\* A console that reads the flash in any pieces sees one flash: every reply fits, repeats its
\* request, stays inside what was asked for and agrees with every shorter read of the place.
FlashReadsAgree == ReplyFits /\ CopiesStayInside /\ ReplyRepeatsRequest /\ LongerReadAgrees
=============================================================================
