------------------------------ MODULE Joystick ------------------------------
(***************************************************************************)
(* Firmware/Joystick.c: the receive interrupt of the USART, byte by byte,  *)
(* and CALLBACK_beforeSend, which chooses the report of every IN packet    *)
(* and runs the "connection lost" timer.                                   *)
(*                                                                         *)
(* The two run on one core: the interrupt may come between any two steps   *)
(* of the main loop except inside CALLBACK_beforeSend, which masks it, so  *)
(* each is one step here.  What a byte is, how a checksum is updated and   *)
(* what a payload decodes to are parameters.                               *)
(***************************************************************************)
EXTENDS Naturals, Sequences

CONSTANTS
  Byte,             \* values of a byte on the wire
  CmdStart,         \* COMMAND_SYNC_START
  CmdSync1,         \* COMMAND_SYNC_1
  CmdSync2,         \* COMMAND_SYNC_2
  PayloadLen,       \* bytes of a packet before its checksum (8)
  CrcZero,          \* checksum of no bytes
  CrcUpdate(_, _),  \* _crc8_ccitt_update
  IdleReport,       \* what initialize_idle_report stores
  Populate(_),      \* populate_report_from_serial, from payload to report
  PauseTicks,       \* MILLIS_UNTIL_PAUSE / 8
  HomeTicks,        \* MILLIS_UNTIL_HOME / 8
  PressedTicks      \* MILLIS_HOME_PRESSED / 8

Payload == [1..PayloadLen -> Byte]

\* The reports that can be selected, before their HOME button is considered.
Report == {IdleReport} \cup {Populate(p) : p \in Payload}

ASSUME CommandAssumption ==
  /\ {CmdStart, CmdSync1, CmdSync2} \subseteq Byte
  /\ CmdStart # CmdSync1 /\ CmdStart # CmdSync2 /\ CmdSync1 # CmdSync2

ASSUME CrcAssumption ==
  /\ CrcZero \in Byte
  /\ \A c, b \in Byte : CrcUpdate(c, b) \in Byte

ASSUME PayloadAssumption == PayloadLen \in Nat \ {0}

\* The timer counts in steps of 8 ms, all three thresholds are multiples of 8,
\* and the last one fits the uint16_t it is compared with.
ASSUME TickAssumption ==
  /\ PauseTicks \in Nat \ {0} /\ HomeTicks \in Nat /\ PressedTicks \in Nat \ {0}
  /\ PauseTicks < HomeTicks
  /\ 8 * (HomeTicks + PressedTicks) < 65536

MILLIS_UNTIL_PAUSE == 8 * PauseTicks
MILLIS_UNTIL_HOME == 8 * HomeTicks
MILLIS_HOME_PRESSED == 8 * PressedTicks
HomeEnd == MILLIS_UNTIL_HOME + MILLIS_HOME_PRESSED

SyncState == {"SYNCED", "SYNC_START", "SYNC_1", "OUT_OF_SYNC"}

\* Response_t, and the absence of a response.
RESP_UPDATE_ACK == "ACK"
RESP_UPDATE_NACK == "NACK"
RESP_SYNC_START == "RSP_ST"
RESP_SYNC_1 == "RSP1"
RESP_SYNC_OK == "RSP_OK"
NoResponse == "none"
Response == {RESP_UPDATE_ACK, RESP_UPDATE_NACK, RESP_SYNC_START, RESP_SYNC_1, RESP_SYNC_OK}

VARIABLES
  rxEnabled,         \* RXCIE1: set by the first enable_rx_isr, never before
  state,             \* the State_t
  input,             \* serialInput.input[0 .. received_bytes - 1]
  crc,               \* serialInput.crc8_ccitt
  controllerReport,  \* the last report decoded from the UART
  idleHome,          \* idleReport.button_home
  selectedReport,    \* which of the two reports the pointer designates
  millis             \* the connection-lost timer

rxVars == <<state, input, crc, controllerReport>>
vars == <<rxEnabled, state, input, crc, controllerReport, idleHome, selectedReport, millis>>

TypeOK ==
  /\ rxEnabled \in BOOLEAN
  /\ state \in SyncState
  /\ input \in Seq(Byte) /\ Len(input) <= PayloadLen
  /\ crc \in Byte
  /\ controllerReport \in Report
  /\ idleHome \in BOOLEAN
  /\ selectedReport \in {"controller", "idle"}
  /\ millis \in 0..HomeEnd

\* main() up to its loop, the statics' initial values included.  The USART is
\* initialised with its receive interrupt still masked.
Init ==
  /\ rxEnabled = FALSE
  /\ state = "OUT_OF_SYNC"
  /\ input = <<>> /\ crc = CrcZero
  /\ controllerReport = IdleReport
  /\ idleHome = FALSE
  /\ selectedReport = "idle"
  /\ millis = 0

\* The same, of a board that was running before it lost power.
PowerUp ==
  /\ rxEnabled' = FALSE
  /\ state' = "OUT_OF_SYNC"
  /\ input' = <<>> /\ crc' = CrcZero
  /\ controllerReport' = IdleReport
  /\ idleHome' = FALSE
  /\ selectedReport' = "idle"
  /\ millis' = 0

-----------------------------------------------------------------------------
(***************************************************************************)
(* ISR(USART1_RX_vect): one action per path.  b is the byte received, r    *)
(* the byte the path sends back.                                           *)
(***************************************************************************)
\* Faulty variant of ClearInput: the checksum is not reset with the buffer.
ClearInputKeepsCrc == input' = <<>> /\ UNCHANGED crc

ClearInput == input' = <<>> /\ crc' = CrcZero

KeepReports == UNCHANGED <<controllerReport, idleHome, selectedReport, millis>>

\* Still filling up the buffer.
RxFill(b, r) ==
  /\ state = "SYNCED" /\ Len(input) < PayloadLen
  /\ r = NoResponse
  /\ input' = Append(input, b)
  /\ crc' = CrcUpdate(crc, b)
  /\ UNCHANGED state /\ KeepReports

\* Faulty variant of RxAccept: the report is not selected until the next poll.
RxAcceptKeepsSelection(b, r) ==
  /\ state = "SYNCED" /\ Len(input) = PayloadLen /\ crc = b
  /\ r = RESP_UPDATE_ACK
  /\ controllerReport' = Populate(input)
  /\ millis' = 0
  /\ ClearInput
  /\ UNCHANGED <<state, idleHome, selectedReport>>

\* The ninth byte is the checksum of the eight before it.
RxAccept(b, r) ==
  /\ state = "SYNCED" /\ Len(input) = PayloadLen /\ crc = b
  /\ r = RESP_UPDATE_ACK
  /\ controllerReport' = Populate(input)
  /\ selectedReport' = "controller"
  /\ millis' = 0
  /\ ClearInput
  /\ UNCHANGED <<state, idleHome>>

\* Faulty variant of RxResync: a wrong checksum is always answered with NACK.
RxResyncRefused(b, r) ==
  /\ state = "SYNCED" /\ Len(input) = PayloadLen /\ crc # b /\ b = CmdStart
  /\ r = RESP_UPDATE_NACK
  /\ UNCHANGED state
  /\ ClearInput /\ KeepReports

\* The ninth byte is no checksum: a request to synchronise again, or an error.
RxResync(b, r) ==
  /\ state = "SYNCED" /\ Len(input) = PayloadLen /\ crc # b /\ b = CmdStart
  /\ r = RESP_SYNC_START
  /\ state' = "SYNC_START"
  /\ ClearInput /\ KeepReports

RxNack(b, r) ==
  /\ state = "SYNCED" /\ Len(input) = PayloadLen /\ crc # b /\ b # CmdStart
  /\ r = RESP_UPDATE_NACK
  /\ UNCHANGED state
  /\ ClearInput /\ KeepReports

\* The handshake.  A byte that is not the expected one falls back to
\* OUT_OF_SYNC, and in the same interrupt back to SYNC_START if it is CmdStart.
RxSync1(b, r) ==
  /\ state = "SYNC_START" /\ b = CmdSync1
  /\ r = RESP_SYNC_1
  /\ state' = "SYNC_1"
  /\ UNCHANGED <<input, crc>> /\ KeepReports

RxSync2(b, r) ==
  /\ state = "SYNC_1" /\ b = CmdSync2
  /\ r = RESP_SYNC_OK
  /\ state' = "SYNCED"
  /\ UNCHANGED <<input, crc>> /\ KeepReports

Expected(b) == \/ state = "SYNC_START" /\ b = CmdSync1
               \/ state = "SYNC_1" /\ b = CmdSync2

RxStart(b, r) ==
  /\ state # "SYNCED" /\ ~Expected(b) /\ b = CmdStart
  /\ r = RESP_SYNC_START
  /\ state' = "SYNC_START"
  /\ UNCHANGED <<input, crc>> /\ KeepReports

RxDesync(b, r) ==
  /\ state # "SYNCED" /\ ~Expected(b) /\ b # CmdStart
  /\ r = NoResponse
  /\ state' = "OUT_OF_SYNC"
  /\ UNCHANGED <<input, crc>> /\ KeepReports

ISR(b, r) ==
  /\ rxEnabled /\ UNCHANGED rxEnabled
  /\ \/ RxFill(b, r)  \/ RxAccept(b, r) \/ RxResync(b, r) \/ RxNack(b, r)
     \/ RxSync1(b, r) \/ RxSync2(b, r)  \/ RxStart(b, r)  \/ RxDesync(b, r)

-----------------------------------------------------------------------------
(***************************************************************************)
(* CALLBACK_beforeSend, called once for every IN packet.                   *)
(***************************************************************************)
AdvanceTimer == millis' = (millis + 8) % 65536

\* Faulty variant of SendFresh: one report too many, > for >=.
SendFreshTooLong ==
  /\ state = "SYNCED" /\ millis <= MILLIS_UNTIL_PAUSE
  /\ selectedReport' = "controller"
  /\ AdvanceTimer
  /\ UNCHANGED idleHome

\* Faulty variant of SendFresh: the timer is not advanced.
SendFreshStops ==
  /\ state = "SYNCED" /\ millis < MILLIS_UNTIL_PAUSE
  /\ selectedReport' = "controller"
  /\ UNCHANGED <<millis, idleHome>>

\* Not lost yet: the last controller state again.
SendFresh ==
  /\ state = "SYNCED" /\ millis < MILLIS_UNTIL_PAUSE
  /\ selectedReport' = "controller"
  /\ AdvanceTimer
  /\ UNCHANGED idleHome

\* Faulty variant of SendHome: the timer waits for the press to end.
SendHomeStops ==
  /\ state = "SYNCED" /\ millis >= MILLIS_UNTIL_PAUSE
  /\ millis >= MILLIS_UNTIL_HOME /\ millis < HomeEnd
  /\ idleHome' = TRUE
  /\ selectedReport' = "idle"
  /\ UNCHANGED millis

SendHome ==
  /\ state = "SYNCED" /\ millis >= MILLIS_UNTIL_PAUSE
  /\ millis >= MILLIS_UNTIL_HOME /\ millis < HomeEnd
  /\ idleHome' = TRUE
  /\ selectedReport' = "idle"
  /\ AdvanceTimer

\* Faulty variant of SendEmpty: the timer is not stopped at its end.
SendEmptyUnbounded ==
  /\ state = "SYNCED" /\ millis >= MILLIS_UNTIL_PAUSE
  /\ ~(millis >= MILLIS_UNTIL_HOME /\ millis < HomeEnd)
  /\ idleHome' = FALSE
  /\ selectedReport' = "idle"
  /\ AdvanceTimer

SendEmpty ==
  /\ state = "SYNCED" /\ millis >= MILLIS_UNTIL_PAUSE
  /\ ~(millis >= MILLIS_UNTIL_HOME /\ millis < HomeEnd)
  /\ idleHome' = FALSE
  /\ selectedReport' = "idle"
  /\ IF millis < HomeEnd THEN AdvanceTimer ELSE UNCHANGED millis

SendUnsynced ==
  /\ state # "SYNCED"
  /\ idleHome' = FALSE
  /\ selectedReport' = "idle"
  /\ UNCHANGED millis

CALLBACK_beforeSend ==
  /\ rxEnabled' = TRUE
  /\ UNCHANGED rxVars
  /\ SendFresh \/ SendHome \/ SendEmpty \/ SendUnsynced

-----------------------------------------------------------------------------
\* The firmware below an arbitrary stream of bytes and of IN polls.
Next ==
  \/ \E b \in Byte, r \in Response \cup {NoResponse} : ISR(b, r)
  \/ CALLBACK_beforeSend

Spec == Init /\ [][Next]_vars

\* The main loop never stops polling: HID_Task runs in an endless loop and the
\* console asks for a report every 8 ms.
FairSpec == Spec /\ WF_vars(CALLBACK_beforeSend)

-----------------------------------------------------------------------------
\* What the report the console would get says about the failsafe.
Shown ==
  IF selectedReport = "controller" THEN "packet"
  ELSE IF idleHome THEN "home" ELSE "empty"

FS == INSTANCE Failsafe WITH
        FreshReports <- PauseTicks, HomeStart <- HomeTicks, HomeLen <- PressedTicks,
        linked <- (state = "SYNCED"), age <- millis \div 8, shown <- Shown

\* Whatever bytes arrive and whenever the console polls, the reports follow the
\* timeline of the failsafe (comment at Joystick.c:46-51): the interrupt and
\* CALLBACK_beforeSend share millis, selectedReport and idleReport, and no
\* interleaving of theirs makes a report leave the timeline.
FollowsTimeline == FS!FSSpec

\* A HOME press is never left over: when the selected report has HOME down, the
\* timer is in the window that CALLBACK_beforeSend gives it, although packets,
\* lost synchronisation and new handshakes may come at any moment (the flag
\* itself survives an accepted packet, Joystick.c:88-93).
HomeOnlyInWindow ==
  Shown = "home" => millis > MILLIS_UNTIL_HOME /\ millis <= HomeEnd

\* Checksum of a sequence of bytes.
CrcOf(s) ==
  LET fold[i \in 0..Len(s)] == IF i = 0 THEN CrcZero ELSE CrcUpdate(fold[i - 1], s[i])
  IN  fold[Len(s)]

\* Every frame is checked against the checksum of exactly the bytes it would be
\* decoded from, and a handshake always ends with an empty buffer, so that the
\* first byte after RESP_SYNC_OK is the first byte of a frame.
FrameIsConsistent ==
  /\ crc = CrcOf(input)
  /\ state # "SYNCED" => input = <<>>

\* If the link stays synchronised and packets stop (the timer is never set back
\* again), the console is eventually left with no input for good: HOME does not
\* stay pressed and the last packet is not repeated for ever.
SilenceEndsInput ==
  (<>[](state = "SYNCED") /\ <>[][millis' >= millis]_vars)
    => <>[](Shown = "empty" /\ millis = HomeEnd)
=============================================================================
