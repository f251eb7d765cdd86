----------------------------- MODULE SerialLink -----------------------------
(***************************************************************************)
(* The serial link: the host's UART class and the part of its main program *)
(* that synchronises and streams (xinput2serial.py), against the receive   *)
(* interrupt of the firmware (Joystick), over two queues of bytes.         *)
(*                                                                         *)
(* The host process may be killed and started again at any moment, with    *)
(* the bytes of its last write only partly out; the board may lose power;  *)
(* the line may lose or alter bytes; replies may come after the host       *)
(* stopped waiting for them.                                               *)
(***************************************************************************)
EXTENDS Joystick

CONSTANTS
  HostPayload,  \* the payloads Packet.pack can produce
  MaxAttempts,  \* --sync-attempts
  QuietSuffices,\* TRUE: 50 ms of silence mean that the burst was answered
  TxCap,        \* bound: bytes on the way to the board while streaming
  RxCap,        \* bound: unread replies the host's driver keeps
  MaxFaults,    \* bound: bytes lost or altered per host process
  MaxRestarts,  \* bound: times the host process is started again
  MaxResets     \* bound: times the board loses power

ASSUME HostPayloadAssumption == HostPayload \subseteq Payload
ASSUME BoundAssumption ==
  /\ {MaxAttempts, TxCap, RxCap, MaxFaults, MaxRestarts, MaxResets} \subseteq Nat
  /\ MaxAttempts > 0
  /\ QuietSuffices \in BOOLEAN

VARIABLES
  toMcu,     \* bytes written by the host and not yet received
  toHost,    \* replies sent by the board and not yet read
  pc,        \* where the host is: see HostPc
  attempt,   \* of for attempt in range(1, args.sync_attempts + 1)
  sawStart,  \* RSP_ST in start_responses, so far
  clean,     \* no byte was lost or altered since this sync() began
  faults,    \* bytes lost or altered since the host process began
  restarts, resets

hostVars == <<pc, attempt, sawStart>>
faultVars == <<clean, faults, restarts, resets>>
linkVars == <<vars, toMcu, toHost, hostVars, faultVars>>

\* "sync": about to call sync(); "quiet": in read_until_quiet; "one", "ok": in
\* read_expected; "stream": in the main loop; "failed": MCU sync failed.
HostPc == {"sync", "quiet", "one", "ok", "stream", "failed"}

LinkTypeOK ==
  /\ TypeOK
  /\ toMcu \in Seq(Byte) /\ toHost \in Seq(Response) /\ Len(toHost) <= RxCap
  /\ pc \in HostPc /\ attempt \in 0..MaxAttempts /\ sawStart \in BOOLEAN
  /\ clean \in BOOLEAN /\ faults \in 0..(MaxFaults + 1)
  /\ restarts \in 0..MaxRestarts /\ resets \in 0..MaxResets

LinkInit ==
  /\ Init
  /\ toMcu = <<>> /\ toHost = <<>>
  /\ pc = "sync" /\ attempt = 0 /\ sawStart = FALSE
  /\ clean = FALSE /\ faults = 0 /\ restarts = 0 /\ resets = 0

-----------------------------------------------------------------------------
(***************************************************************************)
(* The host.                                                               *)
(***************************************************************************)

\* UART.write: a payload and its checksum, in one call.
Frame(p) == Append(p, CrcOf(p))

\* The bytes that sync() opens with: one frame's worth of CmdStart.
Burst == [i \in 1..(PayloadLen + 1) |-> CmdStart]

\* What was written has arrived and what was answered was read.  The host waits
\* a second in read_expected and a quarter of a second between two attempts, and
\* a process takes longer than that to start: those waits outlast the few bytes
\* on the line.  The 50 ms of read_until_quiet may not (QuietSuffices).
Drained == toHost = <<>> /\ toMcu = <<>>

\* reset_input_buffer and the burst.
SyncBegin ==
  /\ pc = "sync" /\ attempt < MaxAttempts /\ toMcu = <<>>
  /\ attempt' = attempt + 1
  /\ toHost' = <<>>
  /\ toMcu' = Burst
  /\ sawStart' = FALSE
  /\ pc' = "quiet"
  /\ clean' = TRUE
  /\ UNCHANGED <<vars, faults, restarts, resets>>

\* sync() returns False: the next attempt, or the end of the program.
SyncReturnsFalse ==
  /\ pc' = IF attempt < MaxAttempts THEN "sync" ELSE "failed"
  /\ UNCHANGED <<attempt, sawStart>>

\* read_until_quiet reads one more byte.
ReadStartResponse ==
  /\ pc = "quiet" /\ toHost # <<>>
  /\ sawStart' = (sawStart \/ Head(toHost) = RESP_SYNC_START)
  /\ toHost' = Tail(toHost)
  /\ UNCHANGED <<vars, toMcu, pc, attempt, faultVars>>

\* read_until_quiet returns.
QuietEnds ==
  /\ pc = "quiet" /\ (QuietSuffices => Drained)
  /\ IF sawStart
     THEN /\ toMcu' = Append(toMcu, CmdSync1)
          /\ pc' = "one"
          /\ UNCHANGED <<attempt, sawStart>>
     ELSE SyncReturnsFalse /\ UNCHANGED toMcu
  /\ UNCHANGED <<vars, toHost, faultVars>>

\* Faulty variant of ReadSync1Response: streaming without waiting for RSP_OK.
ReadSync1Streams ==
  /\ pc = "one" /\ toHost # <<>>
  /\ toHost' = Tail(toHost)
  /\ IF Head(toHost) = RESP_SYNC_1
     THEN toMcu' = Append(toMcu, CmdSync2) /\ pc' = "stream"
     ELSE UNCHANGED <<toMcu, pc>>
  /\ UNCHANGED <<vars, attempt, sawStart, faultVars>>

\* read_expected(RSP1) reads one more byte, and if it is the one goes on.
ReadSync1Response ==
  /\ pc = "one" /\ toHost # <<>>
  /\ toHost' = Tail(toHost)
  /\ IF Head(toHost) = RESP_SYNC_1
     THEN toMcu' = Append(toMcu, CmdSync2) /\ pc' = "ok"
     ELSE UNCHANGED <<toMcu, pc>>
  /\ UNCHANGED <<vars, attempt, sawStart, faultVars>>

\* read_expected(RSP_OK).
ReadSyncOk ==
  /\ pc = "ok" /\ toHost # <<>>
  /\ toHost' = Tail(toHost)
  /\ pc' = IF Head(toHost) = RESP_SYNC_OK THEN "stream" ELSE pc
  /\ UNCHANGED <<vars, toMcu, attempt, sawStart, faultVars>>

\* Faulty variant of ReadTimesOut: RSP_OK is waited for without end.
ReadTimesOutOnce ==
  /\ pc = "one" /\ Drained
  /\ SyncReturnsFalse
  /\ UNCHANGED <<vars, toMcu, toHost, faultVars>>

\* read_expected times out.
ReadTimesOut ==
  /\ pc \in {"one", "ok"} /\ Drained
  /\ SyncReturnsFalse
  /\ UNCHANGED <<vars, toMcu, toHost, faultVars>>

\* One round of the main loop.  The replies are never read.
StreamPacket(p) ==
  /\ pc = "stream" /\ Len(toMcu) + PayloadLen < TxCap
  /\ toMcu' = toMcu \o Frame(p)
  /\ UNCHANGED <<vars, toHost, hostVars, faultVars>>

\* The process ends, by itself or killed in the middle of a write, and is
\* started again: opening the port purges what was received.
RestartHost ==
  /\ restarts < MaxRestarts /\ restarts' = restarts + 1
  /\ \E k \in 0..Len(toMcu) : toMcu' = SubSeq(toMcu, 1, k)
  /\ toHost' = <<>>
  /\ pc' = "sync" /\ attempt' = 0 /\ sawStart' = FALSE
  /\ clean' = FALSE /\ faults' = 0
  /\ UNCHANGED <<vars, resets>>

-----------------------------------------------------------------------------
(***************************************************************************)
(* The board and the line.                                                 *)
(***************************************************************************)
Received(r) ==
  toHost' = IF r = NoResponse \/ Len(toHost) = RxCap THEN toHost ELSE Append(toHost, r)

ReceiveByte ==
  /\ toMcu # <<>> /\ toMcu' = Tail(toMcu)
  /\ \E r \in Response \cup {NoResponse} : ISR(Head(toMcu), r) /\ Received(r)
  /\ UNCHANGED <<hostVars, faultVars>>

PollReport == CALLBACK_beforeSend /\ UNCHANGED <<toMcu, toHost, hostVars, faultVars>>

CountFault ==
  /\ faults' = IF faults <= MaxFaults THEN faults + 1 ELSE faults
  /\ UNCHANGED <<vars, hostVars, restarts, resets>>

\* With the interrupt still masked the receiver overruns.
MissByte ==
  /\ ~rxEnabled /\ toMcu # <<>> /\ toMcu' = Tail(toMcu)
  /\ CountFault /\ clean' = FALSE /\ UNCHANGED toHost

\* A byte for the board is lost or arrives as another one.
LineFault ==
  /\ faults < MaxFaults /\ toMcu # <<>>
  /\ \/ toMcu' = Tail(toMcu)
     \/ \E b \in Byte \ {Head(toMcu)} : toMcu' = <<b>> \o Tail(toMcu)
  /\ CountFault /\ clean' = FALSE /\ UNCHANGED toHost

LoseReply ==
  /\ faults < MaxFaults /\ toHost # <<>> /\ toHost' = Tail(toHost)
  /\ CountFault /\ UNCHANGED <<toMcu, clean>>

\* The console stops powering the board and powers it again.
ResetBoard ==
  /\ resets < MaxResets /\ resets' = resets + 1
  /\ PowerUp
  /\ clean' = FALSE /\ faults' = MaxFaults + 1
  /\ UNCHANGED <<toMcu, toHost, hostVars, restarts>>

-----------------------------------------------------------------------------
HostStep ==
  \/ SyncBegin \/ ReadStartResponse \/ QuietEnds
  \/ ReadSync1Response \/ ReadSyncOk \/ ReadTimesOut
  \/ \E p \in HostPayload : StreamPacket(p)

LinkNext ==
  \/ HostStep \/ RestartHost
  \/ ReceiveByte \/ PollReport
  \/ MissByte \/ LineFault \/ LoseReply \/ ResetBoard

LinkSpec == LinkInit /\ [][LinkNext]_linkVars

\* The host runs, the board takes bytes as long as its interrupt is enabled, and
\* the console polls.
LinkFairSpec ==
  LinkSpec /\ WF_linkVars(HostStep) /\ WF_linkVars(ReceiveByte) /\ WF_linkVars(PollReport)

-----------------------------------------------------------------------------
(***************************************************************************)
(* What the link guarantees.                                               *)
(***************************************************************************)

\* A session is up from the moment sync() returned True, until something
\* happens that the protocol does not detect.
SessionUp == pc = "stream" /\ clean

\* Bytes the board has not decoded yet, and the frames they make up.
InFlight == input \o toMcu
FrameLen == PayloadLen + 1
FramesInFlight == Len(InFlight) \div FrameLen
PayloadAt(i) == SubSeq(InFlight, (i - 1) * FrameLen + 1, i * FrameLen - 1)

\* When sync() returns True the board really is synchronised, and from then on
\* the bytes on their way are whole frames from the board's point of view: stale
\* replies of earlier attempts, a frame cut off by a killed process and a burst
\* that the checksum accepts by accident never make the host believe otherwise
\* (UART.sync, lines 97-118, against the interrupt).
CleanSessionIsAligned ==
  SessionUp =>
    /\ state = "SYNCED"
    /\ Len(InFlight) % FrameLen = 0
    /\ \A i \in 1..FramesInFlight :
         /\ PayloadAt(i) \in HostPayload
         /\ InFlight[i * FrameLen] = CrcOf(PayloadAt(i))

Pipe == INSTANCE PacketPipe WITH
          PipePacket <- HostPayload, PipeReport <- Report,
          Blank <- IdleReport, Decode <- Populate,
          up <- SessionUp,
          queue <- IF SessionUp THEN [i \in 1..FramesInFlight |-> PayloadAt(i)] ELSE <<>>,
          latest <- controllerReport

\* A session delivers every packet once, unaltered and in order, and starts with
\* nothing of an earlier session in the pipe.
SessionIsAPipe == Pipe!PipeSpec

\* When no byte is lost, the host synchronises with its first or its second
\* attempt whatever state an earlier process left the board in: the burst is as
\* long as a frame, so it always ends the frame it interrupts, and if the
\* interrupted frame passes for a packet the next burst finds a buffer that
\* holds nothing but CmdStart.
SyncsWithinTwo == faults = 0 => attempt <= 2 /\ pc # "failed"

\* The default of three attempts also absorbs one byte lost or altered.
OneFaultIsAbsorbed == faults <= 1 => pc # "failed"

\* The default of attempts suffices: two from every state an earlier process left, and
\* the third for a byte or a reply that was lost.
AttemptsSuffice == LinkTypeOK /\ SyncsWithinTwo /\ OneFaultIsAbsorbed

\* sync() and the attempts around it always come to an end, whatever an earlier process
\* left behind and whichever byte or reply was lost.
SyncComesToAnEnd == pc \notin {"stream", "failed"} ~> pc \in {"stream", "failed"}
=============================================================================
