------------------------------ MODULE Firmware ------------------------------
(***************************************************************************)
(* The firmware as a whole: the receive interrupt and the failsafe of      *)
(* Joystick, the main loop with HID_Task, and the response manager of      *)
(* Response.c, which answers the console's OUT reports.                    *)
(*                                                                         *)
(* The main loop is a sequence of steps (pc) and the receive interrupt may *)
(* come between any two of them.  Only CALLBACK_beforeSend masks it, so a  *)
(* report is copied into replyBuffer with interrupts on: a copy takes two  *)
(* steps here, one for each half of the report.                            *)
(***************************************************************************)
EXTENDS Joystick

CONSTANTS
  Subcommand,    \* subcommands of the console's 01 reports
  CounterSize,   \* values of the uint8_t counter (256)
  MaxBusResets   \* bound: times the console resets the bus

ASSUME CounterAssumption == CounterSize \in Nat \ {0}
ASSUME BusResetAssumption == MaxBusResets \in Nat

VARIABLES
  configured,       \* USB_DeviceState = DEVICE_STATE_Configured
  inReady,          \* the IN endpoint can take a packet
  pc,               \* next step of the main loop
  counter,          \* the packet counter
  replyBuffer,      \* the packet being built or waiting
  nextPacketReady,  \* replyBuffer holds a packet for the console
  source,           \* the report a copy in progress reads
  wire,             \* the packet sent last
  repeats,          \* packets with the controller report since it changed or a sync ended
  homes,            \* packets in a row with the failsafe's HOME, since a sync ended
  busResets

usbVars == <<configured, inReady, busResets>>
responseVars == <<counter, replyBuffer, nextPacketReady, source>>
wireVars == <<wire, repeats, homes>>
fwVars == <<vars, usbVars, pc, responseVars, wireVars>>

MainPc == {"out", "outcopy", "in", "prepare", "incopy", "wait", "usbtask"}

\* Half a report: of the controller's or of the idle one, or absent.
Half == [of : {"controller", "idle", "none"}, home : BOOLEAN, report : Report]
NoHalf == [of |-> "none", home |-> FALSE, report |-> IdleReport]
HalfOf(src) ==
  [of |-> src,
   home |-> src = "idle" /\ idleHome,
   report |-> IF src = "controller" THEN controllerReport ELSE IdleReport]

\* id is the first byte of the packet, about the subcommand it answers.
Packet(id, about, cnt, first, second) ==
  [id |-> id, about |-> about, counter |-> cnt, first |-> first, second |-> second]

NoSubcommand == "none"
CountedId == {"30", "21"}

\* prepare_8101, the first IN packet, and the other answers to 80 reports.
PlainReply == Packet("81", NoSubcommand, 0, NoHalf, NoHalf)

AnyPacket ==
  [id : {"81"} \cup CountedId, about : Subcommand \cup {NoSubcommand},
   counter : 0..(CounterSize - 1), first : Half, second : Half]

FwTypeOK ==
  /\ TypeOK
  /\ configured \in BOOLEAN /\ inReady \in BOOLEAN /\ busResets \in 0..MaxBusResets
  /\ pc \in MainPc
  /\ counter \in 0..(CounterSize - 1)
  /\ nextPacketReady \in BOOLEAN
  /\ source \in {"controller", "idle"}
  /\ replyBuffer \in AnyPacket /\ wire \in AnyPacket
  /\ repeats \in Nat /\ homes \in Nat

\* main() up to its loop: setup_response_manager prepares an 81 01 reply.
FwInit ==
  /\ Init
  /\ configured = FALSE /\ inReady = FALSE /\ busResets = 0
  /\ pc = "out"
  /\ counter = 0
  /\ replyBuffer = PlainReply /\ nextPacketReady = TRUE
  /\ source = "idle"
  /\ wire = PlainReply /\ repeats = 0 /\ homes = 0

-----------------------------------------------------------------------------
(***************************************************************************)
(* Response.c.                                                             *)
(***************************************************************************)

\* prepare_reply of a packet without a report.
PreparePlain ==
  /\ replyBuffer' = IF nextPacketReady THEN replyBuffer ELSE PlainReply
  /\ nextPacketReady' = TRUE
  /\ UNCHANGED <<counter, source>>

\* prepare_standard_report and prepare_uart_reply as far as the first half of
\* the report: the counter, the pointer, and the beginning of the memcpy.
CopyFirst(id, about) ==
  /\ counter' = (counter + 3) % CounterSize
  /\ source' = selectedReport
  /\ replyBuffer' = Packet(id, about, counter', HalfOf(selectedReport), NoHalf)
  /\ UNCHANGED nextPacketReady

\* Faulty variant of CopySecond: the pointer is read again.
CopySecondReselects ==
  /\ replyBuffer' = [replyBuffer EXCEPT !.second = HalfOf(selectedReport)]
  /\ nextPacketReady' = TRUE
  /\ UNCHANGED <<counter, source>>

\* The rest of the memcpy, and the packet is ready.
CopySecond ==
  /\ replyBuffer' = [replyBuffer EXCEPT !.second = HalfOf(source)]
  /\ nextPacketReady' = TRUE
  /\ UNCHANGED <<counter, source>>

-----------------------------------------------------------------------------
(***************************************************************************)
(* The main loop: HID_Task, then USB_USBTask.                              *)
(***************************************************************************)

\* Faulty variant of NotConfigured: HID_Task waits for the configuration.
NotConfiguredWaits ==
  /\ pc = "out" /\ ~configured
  /\ pc' = "out"
  /\ UNCHANGED <<vars, usbVars, responseVars, wireVars>>

\* Not configured: HID_Task returns at once.
NotConfigured ==
  /\ pc = "out" /\ ~configured
  /\ pc' = "usbtask"
  /\ UNCHANGED <<vars, usbVars, responseVars, wireVars>>

\* Nothing on the OUT endpoint, or a report process_OUT_report has no answer to.
NothingToAnswer ==
  /\ pc = "out" /\ configured
  /\ pc' = "in"
  /\ UNCHANGED <<vars, usbVars, responseVars, wireVars>>

\* 80 01, 80 02, 80 03 and unknown 80 reports.
AnswerPlain ==
  /\ pc = "out" /\ configured
  /\ PreparePlain
  /\ pc' = "in"
  /\ UNCHANGED <<vars, usbVars, wireVars>>

\* Faulty variant of AnswerWithReport: the counter is advanced before the early
\* return.
AnswerCountsFirst ==
  /\ pc = "out" /\ configured
  /\ IF nextPacketReady
     THEN /\ pc' = "in"
          /\ counter' = (counter + 3) % CounterSize
          /\ UNCHANGED <<replyBuffer, nextPacketReady, source>>
     ELSE /\ \/ CopyFirst("30", NoSubcommand)
             \/ \E s \in Subcommand : CopyFirst("21", s)
          /\ pc' = "outcopy"
  /\ UNCHANGED <<vars, usbVars, wireVars>>

\* 80 04, and 01 reports with their subcommand.  With a packet already waiting
\* every prepare function returns without doing anything.
AnswerWithReport ==
  /\ pc = "out" /\ configured
  /\ IF nextPacketReady
     THEN pc' = "in" /\ UNCHANGED responseVars
     ELSE /\ \/ CopyFirst("30", NoSubcommand)
             \/ \E s \in Subcommand : CopyFirst("21", s)
          /\ pc' = "outcopy"
  /\ UNCHANGED <<vars, usbVars, wireVars>>

AnswerCopied ==
  /\ pc = "outcopy"
  /\ CopySecond
  /\ pc' = "in"
  /\ UNCHANGED <<vars, usbVars, wireVars>>

NoPacketWanted ==
  /\ pc = "in" /\ ~inReady
  /\ pc' = "usbtask"
  /\ UNCHANGED <<vars, usbVars, responseVars, wireVars>>

\* send_IN_report, up to the return of before_send.
BeforeSend ==
  /\ pc = "in" /\ inReady
  /\ CALLBACK_beforeSend
  /\ pc' = "prepare"
  /\ UNCHANGED <<usbVars, responseVars, wireVars>>

\* Faulty variant of PrepareStandard: nextPacketReady is not looked at.
PrepareStandardAlways ==
  /\ pc = "prepare"
  /\ CopyFirst("30", NoSubcommand) /\ pc' = "incopy"
  /\ UNCHANGED <<vars, usbVars, wireVars>>

PrepareStandard ==
  /\ pc = "prepare"
  /\ IF nextPacketReady
     THEN pc' = "wait" /\ UNCHANGED responseVars
     ELSE CopyFirst("30", NoSubcommand) /\ pc' = "incopy"
  /\ UNCHANGED <<vars, usbVars, wireVars>>

StandardCopied ==
  /\ pc = "incopy"
  /\ CopySecond
  /\ pc' = "wait"
  /\ UNCHANGED <<vars, usbVars, wireVars>>

\* The endpoint is (still) ready: write the packet and release it.
WritePacket ==
  /\ pc = "wait" /\ inReady
  /\ wire' = replyBuffer
  /\ repeats' = IF replyBuffer.first.of = "controller" THEN repeats + 1 ELSE repeats
  /\ homes' = IF replyBuffer.first.home THEN homes + 1 ELSE 0
  /\ inReady' = FALSE
  /\ nextPacketReady' = FALSE
  /\ pc' = "usbtask"
  /\ UNCHANGED <<vars, configured, busResets, counter, replyBuffer, source>>

\* USB_USBTask serves the control endpoint; a console that enumerates the
\* device is configured here, with both endpoints free.
UsbTask ==
  /\ pc = "usbtask"
  /\ pc' = "out"
  /\ \/ UNCHANGED usbVars
     \/ /\ ~configured
        /\ configured' = TRUE /\ inReady' = TRUE /\ UNCHANGED busResets
  /\ UNCHANGED <<vars, responseVars, wireVars>>

MainLoop ==
  \/ NotConfigured \/ NothingToAnswer \/ AnswerPlain \/ AnswerWithReport \/ AnswerCopied
  \/ NoPacketWanted \/ BeforeSend \/ PrepareStandard \/ StandardCopied \/ WritePacket
  \/ UsbTask

-----------------------------------------------------------------------------
(***************************************************************************)
(* The UART interrupt, and the console's side of the bus.                  *)
(***************************************************************************)
UartInterrupt ==
  /\ \E b \in Byte, r \in Response \cup {NoResponse} :
       /\ ISR(b, r)
       /\ repeats' = IF r \in {RESP_UPDATE_ACK, RESP_SYNC_OK} THEN 0 ELSE repeats
       /\ homes' = IF r = RESP_SYNC_OK THEN 0 ELSE homes
  /\ UNCHANGED <<usbVars, pc, responseVars, wire>>

\* The console collects the packet in the IN endpoint.
ConsolePolls ==
  /\ configured /\ ~inReady
  /\ inReady' = TRUE
  /\ UNCHANGED <<vars, configured, busResets, pc, responseVars, wireVars>>

\* A bus reset disables every endpoint but the control endpoint.
BusReset ==
  /\ configured /\ busResets < MaxBusResets
  /\ busResets' = busResets + 1
  /\ configured' = FALSE /\ inReady' = FALSE
  /\ UNCHANGED <<vars, pc, responseVars, wireVars>>

FwNext == MainLoop \/ UartInterrupt \/ ConsolePolls \/ BusReset

FwSpec == FwInit /\ [][FwNext]_fwVars

\* The processor runs the main loop and the console keeps polling.
FwFairSpec == FwSpec /\ WF_fwVars(MainLoop) /\ WF_fwVars(ConsolePolls)

-----------------------------------------------------------------------------
(***************************************************************************)
(* What the firmware guarantees to the console.                            *)
(***************************************************************************)
Copying == pc \in {"outcopy", "incopy"}

\* The packet counter counts packets on the wire: every value it takes is sent,
\* although OUT reports may be answered, refused or left waiting in any order
\* between two IN packets (prepare_standard_report and prepare_uart_reply count
\* only after their early return).
NoCounterIsSkipped ==
  (~nextPacketReady /\ ~Copying /\ wire.id \in CountedId) => wire.counter = counter

\* A packet prepared for the console is never overwritten, by another answer or
\* by a standard report, before it is on the wire.
PreparedPacketIsSent ==
  [][nextPacketReady =>
       \/ nextPacketReady' /\ replyBuffer' = replyBuffer
       \/ wire' = replyBuffer /\ pc = "wait"]_fwVars

\* On the wire a controller report outlives the 120 ms of the failsafe by at most
\* two packets: the one being built when the report changed, and one answer
\* prepared from the report selected for the packet before.
RepeatsAreBounded == repeats <= PauseTicks + 2

\* HOME is never held in more packets than the failsafe's window and one late
\* answer: an answer copies the report selected for the packet before it.
HomesAreBounded == homes <= PressedTicks + 1

\* What the host no longer sends is released on the wire too: neither an input nor
\* the failsafe's own HOME outlives its time by more than the packets on their way.
StaleInputIsBounded == RepeatsAreBounded /\ HomesAreBounded

\* The two halves of a report on the wire come from the same one of the two
\* reports, and a failsafe report is never torn: the interrupt redirects
\* selectedReport during a copy but never writes idleReport.
HalvesBelongTogether ==
  /\ wire.first.of = wire.second.of
  /\ wire.first.of = "idle" => wire.first = wire.second

\* The main loop gets round to USB_USBTask again and again ("We also need to run
\* the main USB management task", Joystick.c:251).
UsbTaskKeepsRunning == []<>(pc = "usbtask")

\* A report is populated with the receive interrupt off ("Re-enable interrupt,
\* will call ISR if a transmission finished while populating the report",
\* Joystick.c:356): every report sent is one that the controller had.
ReportsAreWhole == wire.first = wire.second
=============================================================================
