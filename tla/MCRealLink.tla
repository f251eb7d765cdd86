----------------------------- MODULE MCRealLink -----------------------------
(***************************************************************************)
(* SerialLink at the real widths: nine-byte frames, the real commands and  *)
(* the real checksum.  The host streams the one packet it sends when       *)
(* nothing is pressed: neutral = Packet(0, 8, 0, 0, 0, 0).                 *)
(***************************************************************************)
EXTENDS SerialLink, PacketCodec

MCNeutral == Pack(0, 8, <<0, 0, 0, 0>>)
MCHostPayload == {MCNeutral}

\* "If CRC is OK, the buffer variable is updated. [...] That means if something
\* went wrong, the buffer variable is not updated" (Joystick.c:60-62): a report
\* decoded from the UART is one that the host wrote.
OnlyWrittenPacketsAreDecoded ==
  controllerReport \in {IdleReport} \cup {Populate(p) : p \in HostPayload}
=============================================================================
