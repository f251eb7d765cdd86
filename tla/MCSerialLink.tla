---------------------------- MODULE MCSerialLink ----------------------------
(***************************************************************************)
(* SerialLink on 2-bit bytes, with the checksum of MCJoystick.             *)
(***************************************************************************)
EXTENDS SerialLink

MCXor(a, b) == (((a \div 2) + (b \div 2)) % 2) * 2 + ((a + b) % 2)
MCCrcUpdate(c, b) == <<0, 3, 1, 2>>[MCXor(c, b) + 1]
MCPopulate(p) == p[1]
\* As Packet.pack leaves them: any value in front, the last byte zero.
MCHostPayload == {<<a, 0, 0>> : a \in {0, 3}}
=============================================================================
