----------------------------- MODULE LineBuffer -----------------------------
(***************************************************************************)
(* xInput2Serial/xinput2serial.py: how _handle_client cuts what recv       *)
(* returns, in pieces of any size, into the lines of _handle_line.         *)
(***************************************************************************)
EXTENDS Integers, Sequences

CONSTANTS
  Byte,      \* the bytes of lines that are understood
  Bad,       \* a byte that makes the event of its line raise
  Newline,
  MaxChunk,  \* recv(4096)
  MaxSent    \* how much the peer sends

ASSUME LineAssumption == Newline \notin Byte \cup {Bad} /\ MaxChunk \in Nat

VARIABLES
  sent,    \* all that the peer has sent
  read,    \* how much of it recv has returned
  closed,  \* the peer has hung up
  buf,
  lines,   \* the lines that were handled
  linePc   \* "recv", "split", "ended" or "raised"

lineVars == <<sent, read, closed, buf, lines, linePc>>

Alphabet == Byte \cup {Bad, Newline}

LineTypeOK ==
  /\ sent \in Seq(Alphabet) /\ read \in 0..Len(sent) /\ closed \in BOOLEAN
  /\ buf \in Seq(Alphabet) /\ lines \in Seq(Seq(Byte \cup {Bad}) \ {<<>>})
  /\ linePc \in {"recv", "split", "ended", "raised"}

LineInit == sent = <<>> /\ read = 0 /\ closed = FALSE /\ buf = <<>> /\ lines = <<>> /\ linePc = "recv"

Send(b) ==
  /\ ~closed /\ Len(sent) < MaxSent /\ sent' = Append(sent, b)
  /\ UNCHANGED <<read, closed, buf, lines, linePc>>
Close == ~closed /\ closed' = TRUE /\ UNCHANGED <<sent, read, buf, lines, linePc>>

Recv ==
  /\ linePc = "recv" /\ \E n \in 1..MaxChunk :
       /\ read + n <= Len(sent)
       /\ read' = read + n /\ buf' = buf \o SubSeq(sent, read + 1, read + n)
  /\ linePc' = "split"
  /\ UNCHANGED <<sent, closed, lines>>

End ==
  /\ linePc = "recv" /\ closed /\ read = Len(sent) /\ linePc' = "ended"
  /\ UNCHANGED <<sent, read, closed, buf, lines>>

\* Faulty variant of Rest: what follows the line is dropped.
RestDropped(at) == <<>>

\* split(b"\n", 1): what follows the first newline
Rest(at) == SubSeq(buf, at + 1, Len(buf))

SplitDone == \A i \in 1..Len(buf) : buf[i] # Newline

\* _handle_line: an empty line is not an event.
Handle(line) == IF line = <<>> THEN lines ELSE Append(lines, line)

\* The event of a line with a bad byte raises.
HasBad(line) == \E i \in 1..Len(line) : line[i] = Bad

\* One round of the inner loop.
SplitLine ==
  /\ linePc = "split" /\ ~SplitDone
  /\ LET at == CHOOSE i \in 1..Len(buf) : buf[i] = Newline /\ \A j \in 1..i - 1 : buf[j] # Newline
         line == SubSeq(buf, 1, at - 1)
     IN  /\ buf' = Rest(at)
         /\ lines' = Handle(line)
         /\ linePc' = IF HasBad(line) THEN "raised" ELSE "split"
  /\ UNCHANGED <<sent, read, closed>>
NoLineLeft ==
  /\ linePc = "split" /\ SplitDone
  /\ linePc' = "recv"
  /\ UNCHANGED <<sent, read, closed, buf, lines>>

LineNext == (\E b \in Alphabet : Send(b)) \/ Close \/ Recv \/ End \/ SplitLine \/ NoLineLeft

LineSpec == LineInit /\ [][LineNext]_lineVars

(***************************************************************************)
(* Properties                                                              *)
(***************************************************************************)

\* Reading one byte at a time: the complete lines that are not empty, and the bytes of the
\* line that is not complete.
NothingRead == [lines |-> <<>>, part |-> <<>>]
ReadByte(c, b) ==
  IF b # Newline THEN [lines |-> c.lines, part |-> Append(c.part, b)]
  ELSE [lines |-> IF c.part = <<>> THEN c.lines ELSE Append(c.lines, c.part), part |-> <<>>]
ReadAll(s) ==
  LET r[i \in 0..Len(s)] == IF i = 0 THEN NothingRead ELSE ReadByte(r[i - 1], s[i])
  IN  r[Len(s)]
WholeLines(s) == ReadAll(s).lines

Begins(p, s) == \E n \in 0..Len(s) : p = SubSeq(s, 1, n)

\* Wherever the stream is cut, what was handled is what was sent: a prefix of the whole
\* lines, each one once and in order, and none is held back when recv is called again.
LinesInOrder ==
  /\ Begins(lines, WholeLines(sent))
  /\ linePc = "recv" => lines = WholeLines(SubSeq(sent, 1, read))

\* When a peer hangs up, every whole line it sent was handled, unless one of them raised:
\* then that is the last one.
NothingLost ==
  /\ linePc = "ended" => lines = WholeLines(sent)
  /\ linePc = "raised" => lines # <<>> /\ HasBad(lines[Len(lines)])

\* The lines survive the stream: handled once and in order however recv cuts them, and all of
\* them before the peer's hang-up is.
LinesAreKept == LineTypeOK /\ LinesInOrder /\ NothingLost
=============================================================================
