----------------------------- MODULE PacketPipe -----------------------------
(***************************************************************************)
(* What a synchronised session promises to the host: packets reach the     *)
(* controller report in the order they were written, each exactly once and *)
(* none altered.  Nothing is promised while the pipe is down, except that  *)
(* opening it leaves no packet of an earlier session in it.                *)
(***************************************************************************)
EXTENDS Sequences

CONSTANTS
  PipePacket,    \* what the host can write
  PipeReport,    \* what the report can hold
  Blank,         \* the report of a controller that was just powered up
  Decode(_)      \* from packet to report

VARIABLES up, queue, latest

pipeVars == <<up, queue, latest>>

PipeInit == up = FALSE /\ queue = <<>> /\ latest = Blank

OpenPipe == ~up /\ up' = TRUE /\ queue' = <<>> /\ UNCHANGED latest

Write(p) == up /\ queue' = Append(queue, p) /\ UNCHANGED <<up, latest>>

Deliver ==
  /\ up /\ queue # <<>>
  /\ latest' = Decode(Head(queue))
  /\ queue' = Tail(queue)
  /\ UNCHANGED up

ClosePipe ==
  /\ up /\ up' = FALSE
  /\ queue' = <<>>
  /\ latest' \in {latest, Blank}

WhileDown == ~up /\ latest' \in PipeReport /\ UNCHANGED <<up, queue>>

PipeNext ==
  \/ OpenPipe \/ Deliver \/ ClosePipe \/ WhileDown
  \/ \E p \in PipePacket : Write(p)

PipeSpec == PipeInit /\ [][PipeNext]_pipeVars
=============================================================================
