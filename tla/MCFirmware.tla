----------------------------- MODULE MCFirmware -----------------------------
(***************************************************************************)
(* Firmware on packets of one 2-bit byte and a counter of two values.        *)
(***************************************************************************)
EXTENDS Firmware

MCXor(a, b) == (((a \div 2) + (b \div 2)) % 2) * 2 + ((a + b) % 2)
MCCrcUpdate(c, b) == <<0, 3, 1, 2>>[MCXor(c, b) + 1]
\* Two payloads decode to the same report, as those that differ in the byte
\* input[7] do.
MCPopulate(p) == p[1] % 2
\* Where the content of reports does not matter.
MCOneReport(p) == 0
=============================================================================
