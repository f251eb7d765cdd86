----------------------------- MODULE MCJoystick -----------------------------
(***************************************************************************)
(* Joystick on an instance of 2-bit bytes.  The checksum is the algorithm  *)
(* of crc8 at that width, with the polynomial x^2 + x + 1: its table maps  *)
(* 0, 1, 2, 3 to 0, 3, 1, 2.  A report is told apart by the first byte of  *)
(* its payload; its last byte is not decoded, as input[7] is not.          *)
(***************************************************************************)
EXTENDS Joystick

MCXor(a, b) == (((a \div 2) + (b \div 2)) % 2) * 2 + ((a + b) % 2)
MCCrcUpdate(c, b) == <<0, 3, 1, 2>>[MCXor(c, b) + 1]
MCIdleReport == 4
MCPopulate(p) == p[1]
=============================================================================
