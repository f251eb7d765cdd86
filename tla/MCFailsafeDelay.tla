-------------------------- MODULE MCFailsafeDelay ---------------------------
(***************************************************************************)
(* Joystick with a clock that never stands still: delay counts the reports *)
(* prepared since the last valid packet, also while the link is not        *)
(* synchronised, when millis is not advanced.                              *)
(***************************************************************************)
EXTENDS MCJoystick

VARIABLE delay

DelayInit == Init /\ delay = 0

DelayNext ==
  \/ \E b \in Byte, r \in Response \cup {NoResponse} :
       ISR(b, r) /\ delay' = IF r = RESP_UPDATE_ACK THEN 0 ELSE delay
  \/ /\ CALLBACK_beforeSend
     /\ delay' = IF delay * 8 > HomeEnd THEN delay ELSE delay + 1

DelaySpec == DelayInit /\ [][DelayNext]_<<vars, delay>>

\* "Delay since last valid packet from UART: 0 | Send last packet received | 120 ms
\* [...] 1 second | Send empty packet" (Joystick.c:46-48): the last packet is not
\* sent again when more than the second of the whole timeline has gone by since.
OldPacketIsNotRepeated ==
  (Shown = "packet" /\ controllerReport # IdleReport) => delay * 8 <= HomeEnd
=============================================================================
