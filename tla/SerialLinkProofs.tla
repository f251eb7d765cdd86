-------------------------- MODULE SerialLinkProofs --------------------------
(***************************************************************************)
(* Proofs about SerialLink: a session that sync() opened carries whole     *)
(* frames, and it is a pipe of packets.  They hold for every alphabet,     *)
(* frame length, checksum and set of payloads, for any number of restarts, *)
(* faults and resets, and with replies as late as they like                *)
(* (QuietSuffices is not assumed).                                         *)
(***************************************************************************)
EXTENDS SerialLink, JoystickProofs

-----------------------------------------------------------------------------
(***************************************************************************)
(* Bytes that are frames.                                                  *)
(***************************************************************************)

\* n frames are a whole number of frames, n of them.
LEMMA FramesDivide ==
  ASSUME NEW m \in Nat \ {0}, NEW n \in Nat
  PROVE  n * m \in Nat /\ (n * m) % m = 0 /\ (n * m) \div m = n /\ (n + 1) * m = n * m + m
  OBVIOUS

\* Fewer frames are no longer.
LEMMA FramesGrow ==
  ASSUME NEW m \in Nat \ {0}, NEW n \in Nat, NEW i \in 0..n
  PROVE  i * m <= n * m
  OBVIOUS

\* The place of the last byte of frame i.
End(i) == i * FrameLen

\* The bytes s are the frames of the payloads q, one after the other.
Framed(s, q) ==
  /\ Len(s) = End(Len(q))
  /\ \A i \in 1..Len(q) :
       /\ \A j \in 1..PayloadLen : s[End(i - 1) + j] = q[i][j]
       /\ s[End(i)] = CrcOf(q[i])

\* The length of a frame, and what a payload of the host is.
LEMMA FrameFacts ==
  /\ PayloadLen \in Nat /\ PayloadLen > 0
  /\ FrameLen \in Nat \ {0} /\ FrameLen = PayloadLen + 1
  /\ \A p \in HostPayload : p \in Seq(Byte) /\ Len(p) = PayloadLen /\ CrcOf(p) \in Byte
<1>1. PayloadLen \in Nat /\ PayloadLen > 0 /\ FrameLen \in Nat \ {0} /\ FrameLen = PayloadLen + 1
  BY PayloadAssumption DEF FrameLen
<1>2. ASSUME NEW p \in HostPayload PROVE p \in Seq(Byte) /\ Len(p) = PayloadLen /\ CrcOf(p) \in Byte
  <2>1. p \in [1..PayloadLen -> Byte]
    BY HostPayloadAssumption DEF Payload
  <2>2. p \in Seq(Byte) /\ Len(p) = PayloadLen
    BY <1>1, <2>1
  <2>. QED
    BY <2>2, CrcOfSteps
<1>. QED
  BY <1>1, <1>2

\* Where frames end.
LEMMA EndFacts ==
  /\ End(0) = 0
  /\ \A n \in Nat : End(n) \in Nat /\ End(n + 1) = End(n) + FrameLen
  /\ \A n \in Nat : \A i \in 0..n : End(i) <= End(n)
<1>1. FrameLen \in Nat \ {0}
  BY FrameFacts
<1>2. End(0) = 0
  BY <1>1 DEF End
<1>3. ASSUME NEW n \in Nat PROVE End(n) \in Nat /\ End(n + 1) = End(n) + FrameLen
  BY <1>1, FramesDivide, Zenon DEF End
<1>4. ASSUME NEW n \in Nat, NEW i \in 0..n PROVE End(i) <= End(n)
  BY <1>1, FramesGrow, Zenon DEF End
<1>. QED
  BY <1>2, <1>3, <1>4

\* The places of frame i among n.
LEMMA FramePlaces ==
  ASSUME NEW n \in Nat, NEW i \in 1..n
  PROVE  /\ End(i - 1) \in Nat /\ End(i) = End(i - 1) + FrameLen
         /\ \A j \in 1..FrameLen : End(i - 1) + j \in 1..End(n)
<1>1. i \in 0..n /\ i - 1 \in Nat /\ (i - 1) + 1 = i
  OBVIOUS
<1>2. End(i - 1) \in Nat /\ End(i) = End(i - 1) + FrameLen /\ End(i) <= End(n) /\ End(n) \in Nat
  BY <1>1, EndFacts
<1>. QED
  BY <1>2, FrameFacts

\* A frame is a payload and its checksum.
LEMMA FrameBytes ==
  ASSUME NEW p \in HostPayload
  PROVE  /\ Frame(p) \in Seq(Byte) /\ Len(Frame(p)) = FrameLen
         /\ \A j \in 1..PayloadLen : Frame(p)[j] = p[j]
         /\ Frame(p)[FrameLen] = CrcOf(p)
  BY FrameFacts DEF Frame

\* Framed bytes are what the invariant of a session says of them.
LEMMA FramedIsAligned ==
  ASSUME NEW s \in Seq(Byte), NEW q \in Seq(HostPayload), Framed(s, q)
  PROVE  /\ Len(s) % FrameLen = 0 /\ Len(s) \div FrameLen = Len(q)
         /\ \A i \in 1..Len(q) :
              /\ SubSeq(s, (i - 1) * FrameLen + 1, i * FrameLen - 1) = q[i]
              /\ s[i * FrameLen] = CrcOf(q[i])
<1>1. Len(s) % FrameLen = 0 /\ Len(s) \div FrameLen = Len(q)
  <2>1. FrameLen \in Nat \ {0} /\ Len(q) \in Nat /\ Len(s) = Len(q) * FrameLen
    BY FrameFacts DEF Framed, End
  <2>2. (Len(q) * FrameLen) % FrameLen = 0 /\ (Len(q) * FrameLen) \div FrameLen = Len(q)
    BY <2>1, FramesDivide, Zenon
  <2>. QED
    BY <2>1, <2>2, Zenon
<1>2. ASSUME NEW i \in 1..Len(q)
      PROVE  SubSeq(s, (i - 1) * FrameLen + 1, i * FrameLen - 1) = q[i]
  <2>. DEFINE a == End(i - 1)
              u == SubSeq(s, a + 1, a + PayloadLen)
  <2>1. a \in Nat /\ End(i) - 1 = a + PayloadLen /\ a + PayloadLen <= Len(s)
    <3>1. FrameLen \in 1..FrameLen
      BY FrameFacts
    <3>2. a \in Nat /\ End(i) = a + FrameLen /\ a + FrameLen \in 1..Len(s)
      BY <3>1, FramePlaces DEF Framed
    <3>. QED
      BY <3>2, FrameFacts
  <2>2. \A j \in 1..PayloadLen : s[a + j] = q[i][j]
    BY DEF Framed
  <2>3. q[i] \in Seq(Byte) /\ Len(q[i]) = PayloadLen
    BY FrameFacts
  <2>. HIDE DEF a
  <2>4. u \in Seq(Byte) /\ Len(u) = PayloadLen /\ \A j \in 1..PayloadLen : u[j] = s[a + j]
    BY <2>1, PayloadAssumption
  <2>. HIDE DEF u
  <2>5. u = q[i]
    BY <2>2, <2>3, <2>4
  <2>. QED
    BY <2>1, <2>5 DEF a, u, End
<1>. QED
  BY <1>1, <1>2 DEF Framed, End

\* One more frame at the end.
LEMMA FramedAppend ==
  ASSUME NEW s \in Seq(Byte), NEW q \in Seq(HostPayload), Framed(s, q), NEW p \in HostPayload
  PROVE  Append(q, p) \in Seq(HostPayload) /\ Framed(s \o Frame(p), Append(q, p))
<1>. DEFINE r == Append(q, p)
            t == s \o Frame(p)
            n == Len(q)
<1>1. r \in Seq(HostPayload) /\ n \in Nat /\ Len(r) = n + 1 /\ r[n + 1] = p /\ \A i \in 1..n : r[i] = q[i]
  OBVIOUS
<1>2. Len(s) = End(n) /\ Len(s) \in Nat /\ End(n + 1) = Len(s) + FrameLen /\ End((n + 1) - 1) = Len(s)
  BY EndFacts DEF Framed
<1>3. /\ Len(t) = Len(s) + FrameLen
      /\ \A k \in 1..Len(s) : t[k] = s[k]
      /\ \A k \in 1..FrameLen : t[Len(s) + k] = Frame(p)[k]
  <2>1. Frame(p) \in Seq(Byte) /\ Len(Frame(p)) = FrameLen /\ FrameLen \in Nat
    BY FrameBytes, FrameFacts
  <2>2. /\ Len(t) = Len(s) + Len(Frame(p))
        /\ \A k \in 1..(Len(s) + Len(Frame(p))) :
             t[k] = IF k <= Len(s) THEN s[k] ELSE Frame(p)[k - Len(s)]
    BY <2>1
  <2>3. ASSUME NEW k \in 1..FrameLen PROVE t[Len(s) + k] = Frame(p)[k]
    <3>1. Len(s) + k \in 1..(Len(s) + FrameLen) /\ ~(Len(s) + k <= Len(s)) /\ (Len(s) + k) - Len(s) = k
      BY <2>1
    <3>. QED
      BY <2>1, <2>2, <3>1
  <2>. QED
    BY <2>1, <2>2, <2>3
<1>. HIDE DEF r, t
<1>4. Len(t) = End(Len(r))
  BY <1>1, <1>2, <1>3
<1>5. ASSUME NEW i \in 1..n
      PROVE  /\ \A j \in 1..PayloadLen : t[End(i - 1) + j] = r[i][j]
             /\ t[End(i)] = CrcOf(r[i])
  <2>1. /\ \A j \in 1..FrameLen : End(i - 1) + j \in 1..Len(s)
        /\ End(i) = End(i - 1) + FrameLen
    BY <1>1, <1>2, FramePlaces
  <2>2. (\A j \in 1..PayloadLen : j \in 1..FrameLen) /\ FrameLen \in 1..FrameLen
    BY FrameFacts
  <2>3. End(i) \in 1..Len(s) /\ \A j \in 1..PayloadLen : End(i - 1) + j \in 1..Len(s)
    BY <2>1, <2>2
  <2>. QED
    BY <1>1, <1>3, <2>3 DEF Framed
<1>6. /\ \A j \in 1..PayloadLen : t[End((n + 1) - 1) + j] = r[n + 1][j]
      /\ t[End(n + 1)] = CrcOf(r[n + 1])
  <2>1. (\A j \in 1..PayloadLen : j \in 1..FrameLen) /\ FrameLen \in 1..FrameLen
    BY FrameFacts
  <2>. QED
    BY <1>1, <1>2, <1>3, <2>1, FrameBytes
<1>7. \A i \in 1..Len(r) : i \in 1..n \/ i = n + 1
  BY <1>1
<1>8. Framed(t, r)
  BY <1>4, <1>5, <1>6, <1>7 DEF Framed
<1>. QED
  BY <1>1, <1>8 DEF r, t

\* The first frame has been taken off.
LEMMA FramedTail ==
  ASSUME NEW s \in Seq(Byte), NEW q \in Seq(HostPayload), Framed(s, q), s # <<>>
  PROVE  /\ q # <<>> /\ Head(q) \in HostPayload /\ Tail(q) \in Seq(HostPayload)
         /\ Len(s) >= FrameLen
         /\ \A j \in 1..PayloadLen : s[j] = Head(q)[j]
         /\ s[FrameLen] = CrcOf(Head(q))
         /\ \A t \in Seq(Byte) :
              /\ Len(t) = Len(s) - FrameLen
              /\ \A k \in 1..Len(t) : t[k] = s[FrameLen + k]
              => Framed(t, Tail(q))
<1>. DEFINE n == Len(q)
            r == Tail(q)
<1>1. n \in Nat /\ Len(s) = End(n)
  BY DEF Framed
<1>2. n # 0
  BY <1>1, EndFacts
<1>3. /\ q # <<>> /\ Head(q) = q[1] /\ Head(q) \in HostPayload /\ r \in Seq(HostPayload)
      /\ Len(r) = n - 1 /\ \A i \in 1..(n - 1) : r[i] = q[i + 1]
  BY <1>1, <1>2
<1>4. n - 1 \in Nat /\ End(n) = End(n - 1) + FrameLen /\ End(n - 1) \in Nat
  BY <1>1, <1>2, FramePlaces
<1>5. (\A j \in 1..PayloadLen : s[j] = q[1][j]) /\ s[FrameLen] = CrcOf(q[1])
  <2>1. 1 \in 1..n /\ End(1) = FrameLen /\ \A j \in 1..PayloadLen : End(1 - 1) + j = j
    <3>1. 0 \in Nat /\ 0 + 1 = 1 /\ 1 - 1 = 0 /\ 1 \in 1..n
      BY <1>1, <1>2
    <3>2. End(0) = 0 /\ End(1) = 0 + FrameLen
      BY <3>1, EndFacts
    <3>. QED
      BY <3>1, <3>2, FrameFacts
  <2>. QED
    BY <2>1 DEF Framed
<1>. HIDE DEF r
<1>6. ASSUME NEW t \in Seq(Byte), Len(t) = Len(s) - FrameLen, \A k \in 1..Len(t) : t[k] = s[FrameLen + k]
      PROVE  Framed(t, r)
  <2>1. Len(t) = End(n - 1) /\ Len(r) = n - 1
    BY <1>1, <1>3, <1>4, <1>6, FrameFacts
  <2>2. ASSUME NEW i \in 1..(n - 1)
        PROVE  /\ \A j \in 1..PayloadLen : t[End(i - 1) + j] = r[i][j]
               /\ t[End(i)] = CrcOf(r[i])
    <3>1. /\ \A j \in 1..FrameLen : End(i - 1) + j \in 1..Len(t)
          /\ End(i) = End(i - 1) + FrameLen
          /\ End(i - 1) \in Nat
      BY <1>4, <2>1, FramePlaces
    <3>2. i + 1 \in 1..n /\ (i + 1) - 1 = i /\ End(i + 1) = FrameLen + End(i)
      <4>1. i \in Nat /\ i + 1 \in 1..n /\ (i + 1) - 1 = i
        BY <1>1
      <4>2. End(i) \in Nat /\ End(i + 1) = End(i) + FrameLen
        BY <4>1, EndFacts
      <4>. QED
        BY <4>1, <4>2, FrameFacts
    <3>3. ASSUME NEW j \in 1..PayloadLen PROVE t[End(i - 1) + j] = r[i][j]
      <4>1. j \in 1..FrameLen /\ FrameLen + (End(i - 1) + j) = End(i) + j
        BY <3>1, FrameFacts
      <4>2. s[End(i) + j] = q[i + 1][j]
        BY <3>2 DEF Framed
      <4>. QED
        BY <1>3, <1>6, <3>1, <4>1, <4>2
    <3>4. t[End(i)] = CrcOf(r[i])
      <4>1. FrameLen \in 1..FrameLen
        BY FrameFacts
      <4>2. s[End(i + 1)] = CrcOf(q[i + 1])
        BY <3>2 DEF Framed
      <4>. QED
        BY <1>3, <1>6, <3>1, <3>2, <4>1, <4>2
    <3>. QED
      BY <3>3, <3>4
  <2>. QED
    BY <2>1, <2>2 DEF Framed
<1>. QED
  BY <1>1, <1>3, <1>4, <1>5, <1>6, FrameFacts DEF r
-----------------------------------------------------------------------------
(***************************************************************************)
(* The invariant: what a handshake in which no byte was lost or altered    *)
(* has put on the line, phase by phase.                                    *)
(***************************************************************************)

\* None of the elements of s is in R.
Without(s, R) == \A i \in 1..Len(s) : s[i] \notin R

\* read_until_quiet: only CmdStart goes out, and nothing that a later phase waits
\* for comes back.
BurstGoesOut ==
  /\ Without(toMcu, Byte \ {CmdStart})
  /\ Without(toHost, {RESP_SYNC_1, RESP_SYNC_OK})

\* read_expected(RSP1): the byte is still behind what is left of the burst, or it
\* has arrived and RSP1 comes only from a board that entered SYNC_1.
Sync1GoesOut ==
  /\ Without(toHost, {RESP_SYNC_OK})
  /\ \/ /\ \E s \in Seq(Byte) : toMcu = Append(s, CmdSync1) /\ Without(s, Byte \ {CmdStart})
        /\ Without(toHost, {RESP_SYNC_1})
     \/ toMcu = <<>> /\ (state = "SYNC_1" \/ Without(toHost, {RESP_SYNC_1}))

\* read_expected(RSP_OK): the board is in SYNC_1 with the last byte of the handshake
\* before it, or it is synchronised with an empty buffer.
Sync2GoesOut ==
  \/ toMcu = <<CmdSync2>> /\ state = "SYNC_1" /\ Without(toHost, {RESP_SYNC_OK})
  \/ toMcu = <<>> /\ state = "SYNCED" /\ input = <<>>

\* Streaming: whole frames.
FramesGoOut == state = "SYNCED" /\ \E q \in Seq(HostPayload) : Framed(InFlight, q)

Phases ==
  /\ pc = "quiet" => BurstGoesOut
  /\ pc = "one" => Sync1GoesOut
  /\ pc = "ok" => Sync2GoesOut
  /\ pc = "stream" => FramesGoOut

LinkInv == LinkTypeOK /\ IInv /\ (clean => Phases)

\* Taking an element off, and adding one that is not in R.
LEMMA WithoutSteps ==
  ASSUME NEW S, NEW s \in Seq(S), NEW R
  PROVE  /\ Without(<<>>, R)
         /\ s # <<>> /\ Without(s, R) =>
              Head(s) \in S \ R /\ Tail(s) \in Seq(S) /\ Without(Tail(s), R)
         /\ \A r \in S \ R : Without(s, R) => Without(Append(s, r), R)
<1>1. Without(<<>>, R)
  BY DEF Without
<1>2. ASSUME s # <<>>, Without(s, R)
      PROVE  Head(s) \in S \ R /\ Tail(s) \in Seq(S) /\ Without(Tail(s), R)
  <2>1. /\ Tail(s) \in Seq(S) /\ Len(Tail(s)) = Len(s) - 1 /\ Head(s) = s[1] /\ Head(s) \in S
        /\ Len(s) \in Nat /\ Len(s) > 0 /\ \A i \in 1..(Len(s) - 1) : Tail(s)[i] = s[i + 1]
    BY <1>2
  <2>. QED
    BY <1>2, <2>1 DEF Without
<1>3. ASSUME NEW r \in S \ R, Without(s, R) PROVE Without(Append(s, r), R)
  <2>1. /\ Len(Append(s, r)) = Len(s) + 1 /\ Len(s) \in Nat /\ Append(s, r)[Len(s) + 1] = r
        /\ \A i \in 1..Len(s) : Append(s, r)[i] = s[i]
    OBVIOUS
  <2>. QED
    BY <1>3, <2>1 DEF Without
<1>. QED
  BY <1>1, <1>2, <1>3

\* Powering the board up establishes the firmware's invariant.
LEMMA PowerUpEstablishes == PowerUp => IInv'
<1>. SUFFICES ASSUME PowerUp PROVE IInv'
  OBVIOUS
<1>1. (input \in Seq(Byte) /\ Len(input) <= PayloadLen)'
  BY EmptyBuffer DEF PowerUp
<1>2. (millis \in 0..HomeEnd /\ millis % 8 = 0)'
  BY TickAssumption DEF PowerUp, HomeEnd, MILLIS_UNTIL_HOME, MILLIS_HOME_PRESSED
<1>3. HomeOnlyInWindow'
  BY DEF PowerUp, HomeOnlyInWindow, Shown
<1>. QED
  BY <1>1, <1>2, <1>3, CrcAssumption, CrcOfSteps
  DEF PowerUp, IInv, TypeOK, SyncState, Report, FrameIsConsistent

\* Nothing happens to the board but what Joystick describes.
LEMMA BoardPreserves == LinkInv /\ [LinkNext]_linkVars => IInv'
<1>. SUFFICES ASSUME LinkInv, [LinkNext]_linkVars PROVE IInv'
  OBVIOUS
<1>1. CASE UNCHANGED vars
  BY <1>1, NextPreserves DEF LinkInv
<1>2. CASE PollReport
  BY <1>2, BeforeSendPreserves DEF LinkInv, PollReport
<1>3. CASE ReceiveByte
  <2>1. Head(toMcu) \in Byte
    BY <1>3 DEF LinkInv, LinkTypeOK, ReceiveByte
  <2>. QED
    BY <1>3, <2>1, ISRPreserves DEF LinkInv, ReceiveByte
<1>4. CASE ResetBoard
  BY <1>4, PowerUpEstablishes DEF ResetBoard
<1>. QED
  BY <1>1, <1>2, <1>3, <1>4
  DEF LinkNext, linkVars, HostStep, SyncBegin, ReadStartResponse, QuietEnds, ReadSync1Response,
      ReadSyncOk, ReadTimesOut, StreamPacket, RestartHost, MissByte, LineFault, LoseReply, CountFault

\* What the host writes are bytes.
LEMMA WrittenBytes ==
  /\ Burst \in Seq(Byte) /\ Without(Burst, Byte \ {CmdStart})
  /\ CmdSync1 \in Byte /\ CmdSync2 \in Byte /\ CmdStart \in Byte
<1>1. CmdSync1 \in Byte /\ CmdSync2 \in Byte /\ CmdStart \in Byte /\ PayloadLen + 1 \in Nat
  BY CommandAssumption, PayloadAssumption
<1>2. Burst \in Seq(Byte) /\ Len(Burst) = PayloadLen + 1 /\ \A i \in 1..(PayloadLen + 1) : Burst[i] = CmdStart
  BY <1>1 DEF Burst
<1>. QED
  BY <1>1, <1>2 DEF Without

\* The two queues keep their types.
LEMMA QueueTypes ==
  ASSUME LinkTypeOK, [LinkNext]_linkVars
  PROVE  toMcu' \in Seq(Byte) /\ toHost' \in Seq(Response) /\ Len(toHost') <= RxCap
<1>0. /\ toMcu \in Seq(Byte) /\ toHost \in Seq(Response) /\ Len(toHost) <= RxCap
      /\ RxCap \in Nat /\ <<>> \in Seq(Response) /\ Len(<<>>) = 0
  BY BoundAssumption DEF LinkTypeOK
<1>1. CASE toMcu' = toMcu /\ toHost' = toHost
  BY <1>0, <1>1
<1>2. CASE SyncBegin
  BY <1>0, <1>2, WrittenBytes DEF SyncBegin
<1>3. CASE ReadStartResponse \/ ReadSyncOk \/ LoseReply
  <2>1. toHost # <<>> /\ toHost' = Tail(toHost) /\ toMcu' = toMcu
    BY <1>3 DEF ReadStartResponse, ReadSyncOk, LoseReply
  <2>. QED
    BY <1>0, <2>1
<1>4. CASE QuietEnds
  <2>1. toHost' = toHost /\ (toMcu' = toMcu \/ toMcu' = Append(toMcu, CmdSync1))
    BY <1>4 DEF QuietEnds
  <2>2. CmdSync1 \in Byte
    BY WrittenBytes
  <2>. QED
    BY <1>0, <2>1, <2>2
<1>5. CASE ReadSync1Response
  <2>1. toHost # <<>> /\ toHost' = Tail(toHost) /\ (toMcu' = toMcu \/ toMcu' = Append(toMcu, CmdSync2))
    BY <1>5 DEF ReadSync1Response
  <2>2. CmdSync2 \in Byte
    BY WrittenBytes
  <2>. QED
    BY <1>0, <2>1, <2>2
<1>6. ASSUME NEW p \in HostPayload, StreamPacket(p)
      PROVE  toMcu' \in Seq(Byte) /\ toHost' \in Seq(Response) /\ Len(toHost') <= RxCap
  <2>1. toMcu' = toMcu \o Frame(p) /\ toHost' = toHost
    BY <1>6 DEF StreamPacket
  <2>. QED
    BY <1>0, <2>1, FrameBytes
<1>7. CASE RestartHost
  <2>1. PICK k \in 0..Len(toMcu) : toMcu' = SubSeq(toMcu, 1, k)
    BY <1>7 DEF RestartHost
  <2>2. SubSeq(toMcu, 1, k) \in Seq(Byte)
    BY <1>0
  <2>. QED
    BY <1>0, <1>7, <2>1, <2>2 DEF RestartHost
<1>8. CASE ReceiveByte
  <2>1. toMcu # <<>> /\ toMcu' = Tail(toMcu)
    BY <1>8 DEF ReceiveByte
  <2>2. toMcu' \in Seq(Byte)
    BY <1>0, <2>1
  <2>3. PICK r \in Response \cup {NoResponse} : Received(r)
    BY <1>8 DEF ReceiveByte
  <2>4. toHost' \in Seq(Response) /\ Len(toHost') <= RxCap
    BY <1>0, <2>3 DEF Received
  <2>. QED
    BY <2>2, <2>4
<1>9. CASE MissByte \/ LineFault
  <2>1. toMcu # <<>> /\ toHost' = toHost
    BY <1>9 DEF MissByte, LineFault
  <2>2. toMcu' = Tail(toMcu) \/ \E b \in Byte : toMcu' = <<b>> \o Tail(toMcu)
    BY <1>9 DEF MissByte, LineFault
  <2>3. Tail(toMcu) \in Seq(Byte) /\ \A b \in Byte : <<b>> \o Tail(toMcu) \in Seq(Byte)
    BY <1>0, <2>1
  <2>. QED
    BY <1>0, <2>1, <2>2, <2>3
<1>. QED
  BY <1>1, <1>2, <1>3, <1>4, <1>5, <1>6, <1>7, <1>8, <1>9
  DEF LinkNext, linkVars, HostStep, ReadTimesOut, PollReport, ResetBoard

\* Type correctness is preserved.
LEMMA LinkTypePreserved == LinkInv /\ [LinkNext]_linkVars => LinkTypeOK'
<1>. SUFFICES ASSUME LinkInv, [LinkNext]_linkVars PROVE LinkTypeOK'
  OBVIOUS
<1>1. TypeOK'
  BY BoardPreserves DEF IInv
<1>2. toMcu' \in Seq(Byte) /\ toHost' \in Seq(Response) /\ Len(toHost') <= RxCap
  BY QueueTypes DEF LinkInv
<1>3. (pc \in HostPc /\ sawStart \in BOOLEAN /\ clean \in BOOLEAN)'
  <2>1. pc \in HostPc /\ sawStart \in BOOLEAN /\ clean \in BOOLEAN
    BY DEF LinkInv, LinkTypeOK
  <2>2. CASE HostStep
    BY <2>1, <2>2
    DEF HostStep, SyncBegin, ReadStartResponse, QuietEnds, ReadSync1Response, ReadSyncOk, ReadTimesOut,
        StreamPacket, SyncReturnsFalse, hostVars, faultVars, HostPc
  <2>3. CASE ~HostStep
    BY <2>1, <2>3
    DEF LinkNext, linkVars, RestartHost, ReceiveByte, PollReport, MissByte, LineFault, LoseReply, CountFault,
        ResetBoard, hostVars, faultVars, HostPc
  <2>. QED
    BY <2>2, <2>3
<1>4. (attempt \in 0..MaxAttempts /\ faults \in 0..(MaxFaults + 1) /\ restarts \in 0..MaxRestarts /\ resets \in 0..MaxResets)'
  <2>1. /\ attempt \in 0..MaxAttempts /\ faults \in 0..(MaxFaults + 1)
        /\ restarts \in 0..MaxRestarts /\ resets \in 0..MaxResets
        /\ MaxAttempts \in Nat /\ MaxFaults \in Nat /\ MaxRestarts \in Nat /\ MaxResets \in Nat
    BY BoundAssumption DEF LinkInv, LinkTypeOK
  <2>2. CASE SyncBegin
    BY <2>1, <2>2 DEF SyncBegin
  <2>3. CASE RestartHost
    BY <2>1, <2>3 DEF RestartHost
  <2>4. CASE MissByte \/ LineFault \/ LoseReply
    <3>1. UNCHANGED <<attempt, restarts, resets>> /\ faults' = IF faults <= MaxFaults THEN faults + 1 ELSE faults
      BY <2>4 DEF MissByte, LineFault, LoseReply, CountFault, hostVars
    <3>. QED
      BY <2>1, <3>1
  <2>5. CASE ResetBoard
    <3>1. UNCHANGED <<attempt, restarts>> /\ faults' = MaxFaults + 1 /\ resets < MaxResets /\ resets' = resets + 1
      BY <2>5 DEF ResetBoard, hostVars
    <3>. QED
      BY <2>1, <3>1
  <2>6. CASE UNCHANGED <<attempt, faultVars>>
    BY <2>1, <2>6 DEF faultVars
  <2>. QED
    BY <2>2, <2>3, <2>4, <2>5, <2>6
    DEF LinkNext, linkVars, HostStep, ReadStartResponse, QuietEnds, ReadSync1Response, ReadSyncOk, ReadTimesOut,
        SyncReturnsFalse, StreamPacket, ReceiveByte, PollReport, hostVars
<1>. QED
  BY <1>1, <1>2, <1>3, <1>4 DEF LinkTypeOK
\* A reply that is read or lost, or nothing, while the bytes and the board stay put.
LEMMA FewerReplies ==
  ASSUME LinkInv, Phases, UNCHANGED <<toMcu, state, input, pc>>,
         toHost' = toHost \/ (toHost # <<>> /\ toHost' = Tail(toHost))
  PROVE  Phases'
<1>1. toHost \in Seq(Response)
  BY DEF LinkInv, LinkTypeOK
<1>2. ASSUME NEW R, Without(toHost, R) PROVE Without(toHost', R)
  <2>1. CASE toHost' = toHost
    BY <1>2, <2>1
  <2>2. CASE toHost # <<>> /\ toHost' = Tail(toHost)
    BY <1>1, <1>2, <2>2, WithoutSteps
  <2>. QED
    BY <2>1, <2>2
<1>3. InFlight' = InFlight
  BY DEF InFlight
<1>. QED
  BY <1>2, <1>3 DEF Phases, BurstGoesOut, Sync1GoesOut, Sync2GoesOut, FramesGoOut

LEMMA NoBytes ==
  ASSUME NEW s \in Seq(Byte), Len(s) = 0
  PROVE  s = <<>>
OBVIOUS

LEMMA RegroupBytes ==
  ASSUME NEW a \in Seq(Byte), NEW b \in Seq(Byte), NEW c \in Seq(Byte)
  PROVE  a \o (b \o c) = (a \o b) \o c
OBVIOUS

\* Whole frames stay whole when one is written.
LEMMA WriteFrame ==
  ASSUME LinkInv, NEW p \in HostPayload, StreamPacket(p), NEW q \in Seq(HostPayload), Framed(InFlight, q)
  PROVE  Append(q, p) \in Seq(HostPayload) /\ Framed(InFlight', Append(q, p))
<1>1. input \in Seq(Byte) /\ toMcu \in Seq(Byte) /\ Frame(p) \in Seq(Byte) /\ InFlight \in Seq(Byte)
  BY FrameBytes DEF LinkInv, LinkTypeOK, TypeOK, InFlight
<1>2. InFlight' = input \o (toMcu \o Frame(p))
  BY DEF StreamPacket, vars, InFlight
<1>3. InFlight' = InFlight \o Frame(p)
  <2>1. input \o (toMcu \o Frame(p)) = (input \o toMcu) \o Frame(p)
    BY <1>1, RegroupBytes
  <2>. QED
    BY <1>2, <2>1 DEF InFlight
<1>. QED
  BY <1>1, <1>3, FramedAppend

\* The steps of the host keep the phases.
LEMMA HostPhases ==
  ASSUME LinkInv, HostStep, clean'
  PROVE  Phases'
<1>0. toMcu \in Seq(Byte) /\ toHost \in Seq(Response)
  BY DEF LinkInv, LinkTypeOK
<1>1. CASE SyncBegin
  BY <1>1, WrittenBytes, WithoutSteps DEF SyncBegin, Phases, BurstGoesOut
<1>c. CASE ~SyncBegin
  <2>0. Phases /\ UNCHANGED vars
    BY <1>c DEF LinkInv, HostStep, ReadStartResponse, QuietEnds, ReadSync1Response, ReadSyncOk, ReadTimesOut,
                StreamPacket, faultVars
  <2>1. UNCHANGED <<state, input>>
    BY <2>0 DEF vars
  <2>2. CASE ReadStartResponse
    BY <2>0, <2>1, <2>2, FewerReplies DEF ReadStartResponse
  <2>3. CASE QuietEnds
    <3>1. CASE sawStart
      <4>1. pc' = "one" /\ toMcu' = Append(toMcu, CmdSync1) /\ toHost' = toHost /\ BurstGoesOut
        BY <2>0, <2>3, <3>1 DEF QuietEnds, Phases
      <4>. QED
        BY <1>0, <4>1 DEF Phases, BurstGoesOut, Sync1GoesOut, Without
    <3>2. CASE ~sawStart
      BY <2>3, <3>2 DEF QuietEnds, SyncReturnsFalse, Phases
    <3>. QED
      BY <3>1, <3>2
  <2>4. CASE ReadSync1Response
    <3>1. CASE Head(toHost) = RESP_SYNC_1
      <4>1. pc = "one" /\ toHost # <<>> /\ toHost' = Tail(toHost) /\ toMcu' = Append(toMcu, CmdSync2) /\ pc' = "ok"
        BY <2>4, <3>1 DEF ReadSync1Response
      <4>2. ~Without(toHost, {RESP_SYNC_1})
        BY <1>0, <3>1, <4>1, WithoutSteps
      <4>3. toMcu = <<>> /\ state = "SYNC_1" /\ Without(toHost, {RESP_SYNC_OK})
        BY <2>0, <4>1, <4>2 DEF Phases, Sync1GoesOut
      <4>4. toMcu' = <<CmdSync2>> /\ Without(toHost', {RESP_SYNC_OK})
        BY <1>0, <4>1, <4>3, WithoutSteps
      <4>. QED
        BY <2>1, <4>1, <4>3, <4>4 DEF Phases, Sync2GoesOut
    <3>2. CASE Head(toHost) # RESP_SYNC_1
      BY <2>0, <2>1, <2>4, <3>2, FewerReplies DEF ReadSync1Response
    <3>. QED
      BY <3>1, <3>2
  <2>5. CASE ReadSyncOk
    <3>1. CASE Head(toHost) = RESP_SYNC_OK
      <4>1. pc = "ok" /\ toHost # <<>> /\ toMcu' = toMcu /\ pc' = "stream"
        BY <2>5, <3>1 DEF ReadSyncOk
      <4>2. ~Without(toHost, {RESP_SYNC_OK})
        BY <1>0, <3>1, <4>1, WithoutSteps
      <4>3. toMcu = <<>> /\ state = "SYNCED" /\ input = <<>>
        BY <2>0, <4>1, <4>2 DEF Phases, Sync2GoesOut
      <4>4. InFlight' = <<>> \o <<>>
        BY <2>1, <4>1, <4>3 DEF InFlight
      <4>5. <<>> \in Seq(HostPayload) /\ Len(<<>>) = 0 /\ <<>> \o <<>> = <<>>
        OBVIOUS
      <4>6. Framed(<<>>, <<>>)
        BY <4>5, EndFacts DEF Framed
      <4>. QED
        BY <2>1, <4>1, <4>3, <4>4, <4>5, <4>6 DEF Phases, FramesGoOut
    <3>2. CASE Head(toHost) # RESP_SYNC_OK
      BY <2>0, <2>1, <2>5, <3>2, FewerReplies DEF ReadSyncOk
    <3>. QED
      BY <3>1, <3>2
  <2>6. CASE ReadTimesOut
    BY <2>6 DEF ReadTimesOut, SyncReturnsFalse, Phases
  <2>7. ASSUME NEW p \in HostPayload, StreamPacket(p) PROVE Phases'
    <3>1. pc = "stream" /\ pc' = "stream"
      BY <2>7 DEF StreamPacket, hostVars
    <3>2. PICK q \in Seq(HostPayload) : Framed(InFlight, q)
      BY <2>0, <3>1 DEF Phases, FramesGoOut
    <3>3. Append(q, p) \in Seq(HostPayload) /\ Framed(InFlight', Append(q, p))
      BY <2>7, <3>2, WriteFrame
    <3>. QED
      BY <2>0, <2>1, <3>1, <3>3 DEF Phases, FramesGoOut
  <2>. QED
    BY <1>c, <2>2, <2>3, <2>4, <2>5, <2>6, <2>7 DEF HostStep
<1>. QED
  BY <1>1, <1>c

\* The interrupt takes a byte of the frames: it fills its buffer, or it accepts the
\* first frame and decodes it.
LEMMA ReceiveFrame ==
  ASSUME LinkInv, ReceiveByte, state = "SYNCED", NEW q \in Seq(HostPayload), Framed(InFlight, q)
  PROVE  /\ state' = "SYNCED"
         /\ \/ InFlight' = InFlight /\ UNCHANGED controllerReport
            \/ /\ q # <<>> /\ Head(q) \in HostPayload /\ controllerReport' = Populate(Head(q))
               /\ Tail(q) \in Seq(HostPayload) /\ Framed(InFlight', Tail(q))
<1>. DEFINE b == Head(toMcu)
            n == Len(input)
<1>1. /\ input \in Seq(Byte) /\ n \in Nat /\ n <= PayloadLen
      /\ toMcu \in Seq(Byte) /\ toMcu # <<>> /\ b \in Byte /\ toMcu' = Tail(toMcu)
      /\ Tail(toMcu) \in Seq(Byte) /\ crc = CrcOf(input)
  BY DEF LinkInv, LinkTypeOK, TypeOK, IInv, FrameIsConsistent, ReceiveByte
<1>2. PICK r \in Response \cup {NoResponse} : ISR(b, r)
  BY DEF ReceiveByte
<1>3. /\ InFlight \in Seq(Byte) /\ Len(InFlight) = n + Len(toMcu) /\ Len(toMcu) \in Nat /\ Len(toMcu) > 0
      /\ \A k \in 1..(n + Len(toMcu)) : InFlight[k] = IF k <= n THEN input[k] ELSE toMcu[k - n]
  BY <1>1 DEF InFlight
<1>4. InFlight # <<>>
  BY <1>1, <1>3
<1>5. /\ q # <<>> /\ Head(q) \in HostPayload /\ Tail(q) \in Seq(HostPayload)
      /\ Len(InFlight) >= FrameLen
      /\ \A j \in 1..PayloadLen : InFlight[j] = Head(q)[j]
      /\ InFlight[FrameLen] = CrcOf(Head(q))
  BY <1>3, <1>4, FramedTail
<1>6. CASE n < PayloadLen
  <2>1. RxFill(b, r)
    BY <1>1, <1>2, <1>6 DEF ISR, RxFill, RxAccept, RxResync, RxNack, RxSync1, RxSync2, RxStart, RxDesync, Expected
  <2>2. input' = Append(input, b) /\ state' = "SYNCED" /\ UNCHANGED controllerReport
    BY <2>1 DEF RxFill, KeepReports
  <2>3. Append(input, b) \o Tail(toMcu) = input \o toMcu
    BY <1>1
  <2>. QED
    BY <1>1, <2>2, <2>3 DEF InFlight
<1>7. CASE n = PayloadLen
  <2>1. input = Head(q)
    <3>1. Head(q) \in Seq(Byte) /\ Len(Head(q)) = PayloadLen
      BY <1>5, FrameFacts
    <3>2. \A j \in 1..PayloadLen : input[j] = Head(q)[j]
      BY <1>1, <1>3, <1>5, <1>7
    <3>. QED
      BY <1>1, <1>7, <3>1, <3>2
  <2>2. b = InFlight[FrameLen]
    <3>1. FrameLen = n + 1 /\ FrameLen \in 1..(n + Len(toMcu)) /\ ~(FrameLen <= n) /\ FrameLen - n = 1
      BY <1>1, <1>3, <1>7, FrameFacts
    <3>2. b = toMcu[1]
      BY <1>1
    <3>. QED
      BY <1>3, <3>1, <3>2
  <2>3. b = crc
    BY <1>1, <1>5, <2>1, <2>2
  <2>4. RxAccept(b, r)
    BY <1>1, <1>2, <1>7, <2>3 DEF ISR, RxFill, RxAccept, RxResync, RxNack, RxSync1, RxSync2, RxStart, RxDesync, Expected
  <2>5. input' = <<>> /\ state' = "SYNCED" /\ controllerReport' = Populate(Head(q))
    BY <2>1, <2>4 DEF RxAccept, ClearInput
  <2>6. InFlight' = Tail(toMcu)
    BY <1>1, <2>5 DEF InFlight
  <2>7. /\ Len(Tail(toMcu)) = Len(InFlight) - FrameLen
        /\ \A k \in 1..Len(Tail(toMcu)) : Tail(toMcu)[k] = InFlight[FrameLen + k]
    <3>1. FrameLen = n + 1 /\ Len(Tail(toMcu)) = Len(toMcu) - 1 /\ \A k \in 1..(Len(toMcu) - 1) : Tail(toMcu)[k] = toMcu[k + 1]
      BY <1>1, <1>7, FrameFacts
    <3>2. ASSUME NEW k \in 1..(Len(toMcu) - 1) PROVE toMcu[k + 1] = InFlight[FrameLen + k]
      <4>1. FrameLen + k \in 1..(n + Len(toMcu)) /\ ~(FrameLen + k <= n) /\ (FrameLen + k) - n = k + 1
        BY <1>1, <1>3, <3>1
      <4>. QED
        BY <1>3, <4>1
    <3>. QED
      BY <1>1, <1>3, <3>1, <3>2
  <2>8. Framed(InFlight', Tail(q))
    BY <1>1, <1>3, <1>4, <2>6, <2>7, FramedTail
  <2>. QED
    BY <1>5, <2>5, <2>8
<1>8. n < PayloadLen \/ n = PayloadLen
  BY <1>1, FrameFacts
<1>. QED
  BY <1>6, <1>7, <1>8

\* The answers that the host waits for come only from the steps of the handshake.
LEMMA AnswersOfISR ==
  ASSUME IInv, NEW b \in Byte, NEW r, ISR(b, r)
  PROVE  /\ r = RESP_SYNC_1 => b = CmdSync1 /\ state' = "SYNC_1"
         /\ r = RESP_SYNC_OK => b = CmdSync2
         /\ state = "SYNC_1" /\ b = CmdSync2 => state' = "SYNCED" /\ UNCHANGED input
  BY CommandAssumption
  DEF ISR, RxFill, RxAccept, RxResync, RxNack, RxSync1, RxSync2, RxStart, RxDesync, Expected,
      NoResponse, RESP_UPDATE_ACK, RESP_UPDATE_NACK, RESP_SYNC_START, RESP_SYNC_1, RESP_SYNC_OK

\* The board's bytes keep the phases.
LEMMA ReceivePhases ==
  ASSUME LinkInv, clean, ReceiveByte
  PROVE  Phases'
<1>. DEFINE b == Head(toMcu)
<1>0. /\ toMcu \in Seq(Byte) /\ toMcu # <<>> /\ b \in Byte /\ toMcu' = Tail(toMcu)
      /\ toHost \in Seq(Response) /\ pc' = pc /\ IInv /\ Phases
  BY DEF LinkInv, LinkTypeOK, ReceiveByte, hostVars
<1>1. PICK r \in Response \cup {NoResponse} : ISR(b, r) /\ Received(r)
  BY DEF ReceiveByte
<1>2. toHost' = toHost \/ (toHost' = Append(toHost, r) /\ r \in Response)
  BY <1>1 DEF Received
<1>3. ASSUME NEW R, Without(toHost, R), r \notin R PROVE Without(toHost', R)
  <2>1. CASE toHost' = toHost
    BY <1>3, <2>1
  <2>2. CASE toHost' = Append(toHost, r) /\ r \in Response
    BY <1>0, <1>3, <2>2, WithoutSteps
  <2>. QED
    BY <1>2, <2>1, <2>2
<1>4. CmdStart # CmdSync1 /\ CmdStart # CmdSync2 /\ CmdSync1 # CmdSync2 /\ CmdSync1 \in Byte
  BY CommandAssumption
<1>5. CASE pc = "quiet"
  <2>1. Without(toMcu, Byte \ {CmdStart}) /\ Without(toHost, {RESP_SYNC_1, RESP_SYNC_OK})
    BY <1>0, <1>5 DEF Phases, BurstGoesOut
  <2>2. b = CmdStart /\ Without(toMcu', Byte \ {CmdStart})
    BY <1>0, <2>1, WithoutSteps
  <2>3. r \notin {RESP_SYNC_1, RESP_SYNC_OK}
    BY <1>0, <1>1, <1>4, <2>2, AnswersOfISR
  <2>. QED
    BY <1>0, <1>3, <1>5, <2>1, <2>2, <2>3 DEF Phases, BurstGoesOut
<1>6. CASE pc = "one"
  <2>1. Without(toHost, {RESP_SYNC_OK}) /\ Without(toHost, {RESP_SYNC_1})
    BY <1>0, <1>6 DEF Phases, Sync1GoesOut
  <2>2. PICK s \in Seq(Byte) : toMcu = Append(s, CmdSync1) /\ Without(s, Byte \ {CmdStart})
    BY <1>0, <1>6 DEF Phases, Sync1GoesOut
  <2>3. CASE s = <<>>
    <3>1. b = CmdSync1 /\ toMcu' = <<>>
      BY <1>0, <1>4, <2>2, <2>3
    <3>2. r # RESP_SYNC_OK /\ (r = RESP_SYNC_1 => state' = "SYNC_1")
      BY <1>0, <1>1, <1>4, <3>1, AnswersOfISR
    <3>3. Without(toHost', {RESP_SYNC_OK}) /\ (r # RESP_SYNC_1 => Without(toHost', {RESP_SYNC_1}))
      BY <1>3, <2>1, <3>2
    <3>. QED
      BY <1>0, <1>6, <3>1, <3>2, <3>3 DEF Phases, Sync1GoesOut
  <2>4. CASE s # <<>>
    <3>1. Head(s) \in Byte \ (Byte \ {CmdStart}) /\ Tail(s) \in Seq(Byte) /\ Without(Tail(s), Byte \ {CmdStart})
      BY <2>2, <2>4, WithoutSteps
    <3>2. b = Head(s) /\ toMcu' = Append(Tail(s), CmdSync1)
      BY <1>0, <1>4, <2>2, <2>4
    <3>3. b = CmdStart
      BY <3>1, <3>2
    <3>4. r # RESP_SYNC_OK /\ r # RESP_SYNC_1
      BY <1>0, <1>1, <1>4, <3>3, AnswersOfISR
    <3>5. Without(toHost', {RESP_SYNC_OK}) /\ Without(toHost', {RESP_SYNC_1})
      BY <1>3, <2>1, <3>4
    <3>. QED
      BY <1>0, <1>6, <3>1, <3>2, <3>5 DEF Phases, Sync1GoesOut
  <2>. QED
    BY <2>3, <2>4
<1>7. CASE pc = "ok"
  <2>1. toMcu = <<CmdSync2>> /\ state = "SYNC_1"
    BY <1>0, <1>7 DEF Phases, Sync2GoesOut
  <2>2. b = CmdSync2 /\ toMcu' = <<>>
    BY <1>0, <2>1
  <2>3. state' = "SYNCED" /\ input' = input
    BY <1>0, <1>1, <2>1, <2>2, AnswersOfISR
  <2>4. input = <<>>
    BY <1>0, <2>1 DEF IInv, FrameIsConsistent
  <2>. QED
    BY <1>0, <1>7, <2>2, <2>3, <2>4 DEF Phases, Sync2GoesOut
<1>8. CASE pc = "stream"
  <2>1. state = "SYNCED" /\ \E q \in Seq(HostPayload) : Framed(InFlight, q)
    BY <1>0, <1>8 DEF Phases, FramesGoOut
  <2>2. state' = "SYNCED" /\ \E q \in Seq(HostPayload) : Framed(InFlight', q)
    BY <2>1, ReceiveFrame
  <2>. QED
    BY <1>0, <1>8, <2>2 DEF Phases, FramesGoOut
<1>. QED
  BY <1>0, <1>5, <1>6, <1>7, <1>8 DEF Phases

\* Every step preserves the invariant.
LEMMA LinkNextPreserves == LinkInv /\ [LinkNext]_linkVars => LinkInv'
<1>. SUFFICES ASSUME LinkInv, [LinkNext]_linkVars PROVE LinkInv'
  OBVIOUS
<1>1. IInv' /\ LinkTypeOK'
  BY BoardPreserves, LinkTypePreserved
<1>2. ASSUME clean' PROVE Phases'
  <2>1. CASE HostStep
    BY <1>2, <2>1, HostPhases
  <2>2. CASE ReceiveByte
    BY <1>2, <2>2, ReceivePhases DEF ReceiveByte, faultVars
  <2>3. CASE PollReport \/ LoseReply \/ UNCHANGED linkVars
    BY <1>2, <2>3, FewerReplies
    DEF LinkInv, PollReport, CALLBACK_beforeSend, LoseReply, CountFault, linkVars, hostVars, faultVars, vars, rxVars
  <2>4. CASE RestartHost \/ MissByte \/ LineFault \/ ResetBoard
    BY <1>2, <2>4 DEF RestartHost, MissByte, LineFault, ResetBoard
  <2>. QED
    BY <2>1, <2>2, <2>3, <2>4 DEF LinkNext
<1>. QED
  BY <1>1, <1>2 DEF LinkInv

\* It holds when the host process starts and the board has just been powered.
LEMMA LinkInitEstablishes == LinkInit => LinkInv
<1>. SUFFICES ASSUME LinkInit PROVE LinkInv
  OBVIOUS
<1>1. IInv /\ ~clean
  BY InitEstablishes DEF LinkInit
<1>2. toMcu \in Seq(Byte) /\ toHost \in Seq(Response) /\ Len(toHost) <= RxCap
  BY BoundAssumption DEF LinkInit
<1>3. /\ attempt \in 0..MaxAttempts /\ faults \in 0..(MaxFaults + 1)
      /\ restarts \in 0..MaxRestarts /\ resets \in 0..MaxResets
  BY BoundAssumption DEF LinkInit
<1>4. pc \in HostPc /\ sawStart \in BOOLEAN /\ clean \in BOOLEAN
  BY DEF LinkInit, HostPc
<1>. QED
  BY <1>1, <1>2, <1>3, <1>4 DEF LinkInv, LinkTypeOK, IInv

\* The invariant of the link holds in every reachable state.
THEOREM LinkInvariance == LinkSpec => []LinkInv
  BY LinkInitEstablishes, LinkNextPreserves, PTL DEF LinkSpec

\* The link's types, with any number of restarts, faults and resets; in particular the
\* firmware's buffer never holds more than a payload (input[received_bytes]).
THEOREM LinkTypeCorrectness == LinkSpec => []LinkTypeOK
  BY LinkInvariance, PTL DEF LinkInv

\* The frames of a session, as the invariant that the runs check states them.
LEMMA SessionFrames ==
  ASSUME LinkInv, SessionUp
  PROVE  \E q \in Seq(HostPayload) :
           /\ state = "SYNCED" /\ Framed(InFlight, q)
           /\ Len(InFlight) % FrameLen = 0 /\ FramesInFlight = Len(q)
           /\ \A i \in 1..Len(q) : PayloadAt(i) = q[i] /\ InFlight[i * FrameLen] = CrcOf(q[i])
<1>1. PICK q \in Seq(HostPayload) : state = "SYNCED" /\ Framed(InFlight, q)
  BY DEF LinkInv, SessionUp, Phases, FramesGoOut
<1>2. InFlight \in Seq(Byte)
  BY DEF LinkInv, LinkTypeOK, TypeOK, InFlight
<1>3. /\ Len(InFlight) % FrameLen = 0 /\ FramesInFlight = Len(q)
      /\ \A i \in 1..Len(q) : PayloadAt(i) = q[i] /\ InFlight[i * FrameLen] = CrcOf(q[i])
  BY <1>1, <1>2, FramedIsAligned, Zenon DEF FramesInFlight, PayloadAt
<1>. QED
  BY <1>1, <1>3

\* When sync() has returned True and no byte was lost or altered since it began, the
\* board is synchronised and the bytes under way are whole frames with the right
\* checksums, whatever replies, bursts and cut frames earlier attempts and earlier
\* processes left behind.
THEOREM SessionsAreAligned == LinkSpec => []CleanSessionIsAligned
<1>1. LinkInv => CleanSessionIsAligned
  <2>. SUFFICES ASSUME LinkInv, SessionUp
                PROVE  /\ state = "SYNCED"
                       /\ Len(InFlight) % FrameLen = 0
                       /\ \A i \in 1..FramesInFlight :
                            /\ PayloadAt(i) \in HostPayload
                            /\ InFlight[i * FrameLen] = CrcOf(PayloadAt(i))
    BY DEF CleanSessionIsAligned
  <2>1. PICK q \in Seq(HostPayload) :
           /\ state = "SYNCED"
           /\ Len(InFlight) % FrameLen = 0 /\ FramesInFlight = Len(q)
           /\ \A i \in 1..Len(q) : PayloadAt(i) = q[i] /\ InFlight[i * FrameLen] = CrcOf(q[i])
    BY SessionFrames, Zenon
  <2>2. \A i \in 1..Len(q) : q[i] \in HostPayload
    OBVIOUS
  <2>. QED
    BY <2>1, <2>2, Zenon
<1>. QED
  BY <1>1, LinkInvariance, PTL
-----------------------------------------------------------------------------
(***************************************************************************)
(* A session implements PacketPipe.                                        *)
(***************************************************************************)

\* The queue of the pipe: SessionIsAPipe's refinement mapping.
PipeQueue == IF SessionUp THEN [i \in 1..FramesInFlight |-> PayloadAt(i)] ELSE <<>>

\* Cutting framed bytes at the frames' ends gives the payloads back.
LEMMA QueueOfFrames ==
  ASSUME NEW s \in Seq(Byte), NEW q \in Seq(HostPayload), Framed(s, q)
  PROVE  [i \in 1..(Len(s) \div FrameLen) |-> SubSeq(s, (i - 1) * FrameLen + 1, i * FrameLen - 1)] = q
<1>1. /\ Len(s) \div FrameLen = Len(q)
      /\ \A i \in 1..Len(q) : SubSeq(s, (i - 1) * FrameLen + 1, i * FrameLen - 1) = q[i]
  BY FramedIsAligned
<1>2. q = [i \in 1..Len(q) |-> q[i]]
  OBVIOUS
<1>. QED
  BY <1>1, <1>2, Zenon

\* While a session is up the queue is the payloads of the frames under way, before a
\* step and after it.
LEMMA QueueIsFramed ==
  ASSUME LinkInv, SessionUp, NEW q \in Seq(HostPayload), Framed(InFlight, q)
  PROVE  PipeQueue = q
<1>1. InFlight \in Seq(Byte)
  BY DEF LinkInv, LinkTypeOK, TypeOK, InFlight
<1>. QED
  BY <1>1, QueueOfFrames DEF PipeQueue, FramesInFlight, PayloadAt

LEMMA QueueIsFramedNext ==
  ASSUME LinkInv', SessionUp', NEW q \in Seq(HostPayload), Framed(InFlight', q)
  PROVE  PipeQueue' = q
<1>1. InFlight' \in Seq(Byte)
  BY DEF LinkInv, LinkTypeOK, TypeOK, InFlight
<1>. QED
  BY <1>1, QueueOfFrames DEF PipeQueue, FramesInFlight, PayloadAt

\* Only RSP_OK opens a session, and it finds nothing under way.
LEMMA SessionOpens ==
  ASSUME LinkInv, LinkInv', [LinkNext]_linkVars, ~SessionUp, SessionUp'
  PROVE  PipeQueue' = <<>> /\ UNCHANGED controllerReport
<1>1. ReadSyncOk /\ pc' = "stream" /\ clean
  <2>1. pc' = "stream" /\ clean' /\ (pc # "stream" \/ ~clean)
    BY DEF SessionUp
  <2>. QED
    BY <2>1
    DEF LinkNext, linkVars, hostVars, faultVars, HostStep, SyncBegin, ReadStartResponse, QuietEnds,
        ReadSync1Response, ReadSyncOk, ReadTimesOut, SyncReturnsFalse, StreamPacket, RestartHost,
        ReceiveByte, PollReport, MissByte, LineFault, LoseReply, CountFault, ResetBoard
<1>2. pc = "ok" /\ toHost # <<>> /\ Head(toHost) = RESP_SYNC_OK /\ toMcu' = toMcu /\ UNCHANGED vars
  BY <1>1 DEF ReadSyncOk
<1>3. ~Without(toHost, {RESP_SYNC_OK})
  BY <1>2, WithoutSteps DEF LinkInv, LinkTypeOK
<1>4. toMcu = <<>> /\ input = <<>>
  BY <1>1, <1>2, <1>3 DEF LinkInv, Phases, Sync2GoesOut
<1>5. InFlight' = <<>> \o <<>> /\ UNCHANGED controllerReport
  BY <1>2, <1>4 DEF InFlight, vars
<1>6. <<>> \in Seq(HostPayload) /\ Len(<<>>) = 0 /\ <<>> \o <<>> = <<>>
  OBVIOUS
<1>7. Framed(InFlight', <<>>)
  BY <1>5, <1>6, EndFacts DEF Framed
<1>. QED
  BY <1>5, <1>6, <1>7, QueueIsFramedNext

\* What can happen to a session that is up: it ends with the report kept or blank, or
\* the bytes under way change by one of the steps that the pipe knows.
LEMMA SessionSteps ==
  ASSUME LinkInv, [LinkNext]_linkVars, SessionUp
  PROVE  \/ ~SessionUp' /\ controllerReport' \in {controllerReport, IdleReport}
         \/ SessionUp' /\ \E p \in HostPayload : StreamPacket(p)
         \/ SessionUp' /\ ReceiveByte
         \/ SessionUp' /\ InFlight' = InFlight /\ UNCHANGED controllerReport
<1>0. pc = "stream" /\ clean
  BY DEF SessionUp
<1>1. CASE HostStep
  <2>1. PICK p \in HostPayload : StreamPacket(p)
    BY <1>0, <1>1
    DEF HostStep, SyncBegin, ReadStartResponse, QuietEnds, ReadSync1Response, ReadSyncOk, ReadTimesOut
  <2>. QED
    BY <1>0, <2>1 DEF StreamPacket, SessionUp, hostVars, faultVars
<1>2. CASE ReceiveByte
  BY <1>0, <1>2 DEF ReceiveByte, SessionUp, hostVars, faultVars
<1>3. CASE PollReport \/ LoseReply \/ UNCHANGED linkVars
  BY <1>0, <1>3
  DEF PollReport, CALLBACK_beforeSend, LoseReply, CountFault, linkVars, hostVars, faultVars, vars, rxVars,
      SessionUp, InFlight
<1>4. CASE RestartHost \/ MissByte \/ LineFault
  BY <1>4 DEF RestartHost, MissByte, LineFault, CountFault, vars, SessionUp
<1>5. CASE ResetBoard
  BY <1>5 DEF ResetBoard, PowerUp, SessionUp
<1>. QED
  BY <1>1, <1>2, <1>3, <1>4, <1>5 DEF LinkNext

\* Every step of the link is a step of the pipe, or invisible to it.
LEMMA PipeStep ==
  ASSUME LinkInv, LinkInv', [LinkNext]_linkVars
  PROVE  [Pipe!PipeNext]_(Pipe!pipeVars)
<1>. USE DEF Pipe!PipeNext, Pipe!pipeVars
<1>1. CASE ~SessionUp /\ ~SessionUp'
  <2>1. PipeQueue = <<>> /\ PipeQueue' = <<>>
    BY <1>1 DEF PipeQueue
  <2>2. SessionUp = FALSE /\ SessionUp' = FALSE
    BY <1>1 DEF SessionUp, LinkInv, LinkTypeOK
  <2>3. controllerReport' \in Report
    BY DEF LinkInv, IInv, TypeOK
  <2>4. Pipe!WhileDown
    BY <1>1, <2>1, <2>2, <2>3 DEF Pipe!WhileDown, PipeQueue
  <2>. QED
    BY <2>4
<1>2. CASE ~SessionUp /\ SessionUp'
  <2>1. PipeQueue' = <<>> /\ UNCHANGED controllerReport
    BY <1>2, SessionOpens
  <2>2. SessionUp' = TRUE
    BY <1>2 DEF SessionUp, LinkInv, LinkTypeOK
  <2>3. Pipe!OpenPipe
    BY <1>2, <2>1, <2>2 DEF Pipe!OpenPipe, PipeQueue
  <2>. QED
    BY <2>3
<1>3. CASE SessionUp /\ ~SessionUp'
  <2>1. controllerReport' \in {controllerReport, IdleReport}
    BY <1>3, SessionSteps
  <2>2. PipeQueue' = <<>> /\ SessionUp' = FALSE
    BY <1>3 DEF PipeQueue, SessionUp, LinkInv, LinkTypeOK
  <2>3. Pipe!ClosePipe
    BY <1>3, <2>1, <2>2 DEF Pipe!ClosePipe, PipeQueue
  <2>. QED
    BY <2>3
<1>4. CASE SessionUp /\ SessionUp'
  <2>0. (SessionUp' = SessionUp) /\ state = "SYNCED"
    BY <1>4, SessionFrames DEF SessionUp, LinkInv, LinkTypeOK
  <2>1. PICK q \in Seq(HostPayload) : Framed(InFlight, q)
    BY <1>4, SessionFrames
  <2>2. PipeQueue = q
    BY <1>4, <2>1, QueueIsFramed
  <2>3. CASE InFlight' = InFlight /\ UNCHANGED controllerReport
    <3>1. PipeQueue' = q
      BY <1>4, <2>1, <2>3, QueueIsFramedNext
    <3>. QED
      BY <2>0, <2>2, <2>3, <3>1 DEF PipeQueue
  <2>4. ASSUME NEW p \in HostPayload, StreamPacket(p) PROVE Pipe!Write(p)
    <3>1. PipeQueue' = Append(q, p)
      BY <1>4, <2>1, <2>4, WriteFrame, QueueIsFramedNext
    <3>2. UNCHANGED controllerReport
      BY <2>4 DEF StreamPacket, vars
    <3>. QED
      BY <1>4, <2>0, <2>2, <3>1, <3>2 DEF Pipe!Write, PipeQueue
  <2>5. CASE ReceiveByte /\ ~(InFlight' = InFlight /\ UNCHANGED controllerReport)
    <3>1. /\ q # <<>> /\ controllerReport' = Populate(Head(q))
          /\ Tail(q) \in Seq(HostPayload) /\ Framed(InFlight', Tail(q))
      BY <2>0, <2>1, <2>5, ReceiveFrame
    <3>2. PipeQueue' = Tail(q)
      BY <1>4, <3>1, QueueIsFramedNext
    <3>3. Pipe!Deliver
      BY <1>4, <2>0, <2>2, <3>1, <3>2 DEF Pipe!Deliver, PipeQueue
    <3>. QED
      BY <3>3
  <2>. QED
    BY <1>4, <2>3, <2>4, <2>5, SessionSteps
<1>. QED
  BY <1>1, <1>2, <1>3, <1>4

\* A session delivers every packet once, unaltered and in the order written, and starts
\* with nothing of an earlier session in the pipe.
THEOREM SessionsArePipes == LinkSpec => SessionIsAPipe
<1>1. LinkInit => Pipe!PipeInit
  BY DEF LinkInit, Init, Pipe!PipeInit, SessionUp
<1>2. LinkInv /\ LinkInv' /\ [LinkNext]_linkVars => [Pipe!PipeNext]_(Pipe!pipeVars)
  BY PipeStep
<1>. QED
  BY <1>1, <1>2, LinkInvariance, PTL DEF LinkSpec, SessionIsAPipe, Pipe!PipeSpec
-----------------------------------------------------------------------------
(***************************************************************************)
(* The attempts suffice, on a link that is quick enough.                   *)
(***************************************************************************)

\* What the argument needs of the link: the host reads all answers to the burst before
\* it goes on and its driver keeps them, there are the default three attempts, and a
\* frame of nothing but CmdStart is not a packet (with the code's 8 bytes 0xFF the
\* checksum is 0xD7).
PromptLink ==
  /\ QuietSuffices /\ RxCap >= FrameLen
  /\ MaxAttempts >= 3 /\ MaxFaults > 0
  /\ CrcOf([i \in 1..PayloadLen |-> CmdStart]) # CmdStart

OnlyStart(s) == Without(s, Byte \ {CmdStart})
Seen == sawStart \/ ~Without(toHost, {RESP_SYNC_START})

\* A board from which a burst that nothing disturbs leads to RSP_ST: a buffer of
\* nothing but CmdStart does not complete to a packet.
Ready == state # "SYNCED" \/ OnlyStart(input)

\* An attempt that may fail, but leaves the board ready.  In the burst at most the
\* next byte is not CmdStart, and either the buffer holds nothing else or the frame it
\* belongs to is still going to end.
BurstSettles ==
  \/ state # "SYNCED" /\ OnlyStart(toMcu)
  \/ state # "SYNCED" /\ toMcu # <<>> /\ OnlyStart(Tail(toMcu)) /\ (state = "SYNC_1" => ~Seen)
  \/ /\ state = "SYNCED" /\ ~Seen /\ OnlyStart(toMcu)
     /\ OnlyStart(input) \/ Len(input) + Len(toMcu) >= FrameLen
  \/ /\ state = "SYNCED" /\ ~Seen /\ toMcu # <<>> /\ OnlyStart(Tail(toMcu))
     /\ OnlyStart(input) /\ Len(input) + Len(toMcu) >= FrameLen

Sync1Settles ==
  /\ Ready
  /\ \/ toMcu = <<>> /\ (state = "SYNCED" => Without(toHost, {RESP_SYNC_1}))
     \/ Len(toMcu) = 1 /\ state # "SYNCED" /\ Without(toHost, {RESP_SYNC_1})

Sync2Settles == Ready /\ (toMcu = <<>> \/ (Len(toMcu) = 1 /\ state # "SYNCED"))

Settles ==
  /\ pc = "quiet" => BurstSettles
  /\ pc = "one" => Sync1Settles
  /\ pc = "ok" => Sync2Settles

\* An attempt that succeeds unless it is disturbed.
BurstSucceeds ==
  /\ OnlyStart(toMcu) /\ Len(toHost) + Len(toMcu) <= FrameLen
  /\ \/ state = "SYNCED" /\ ~Seen /\ OnlyStart(input) /\ Len(input) + Len(toMcu) >= FrameLen
     \/ state # "SYNCED" /\ ~Seen /\ toMcu # <<>>
     \/ state = "SYNC_START" /\ Seen

Sync1Succeeds ==
  \/ toMcu = <<CmdSync1>> /\ toHost = <<>> /\ state = "SYNC_START"
  \/ toMcu = <<>> /\ toHost = <<RESP_SYNC_1>> /\ state = "SYNC_1"

Sync2Succeeds ==
  \/ toMcu = <<CmdSync2>> /\ toHost = <<>> /\ state = "SYNC_1"
  \/ toMcu = <<>> /\ toHost = <<RESP_SYNC_OK>> /\ state = "SYNCED" /\ input = <<>>

Succeeds ==
  /\ pc = "quiet" => BurstSucceeds
  /\ pc = "one" => Sync1Succeeds
  /\ pc = "ok" => Sync2Succeeds

\* Which attempts may fail: the first one, from a board in any state; the one in which
\* the fault happens; and the one after a fault in the first.
AttemptInv ==
  /\ faults = 0 => attempt <= 2
  /\ pc = "failed" => faults >= 2
  /\ pc = "sync" => /\ attempt > 0 => toMcu = <<>> /\ toHost = <<>>
                    /\ faults = 0 => attempt = 0 \/ (attempt = 1 /\ Ready)
                    /\ faults = 1 => attempt <= 1 \/ (attempt = 2 /\ Ready)
  /\ pc \in {"quiet", "one", "ok"} =>
       /\ attempt > 0
       /\ faults = 0 => (attempt = 1 /\ Settles) \/ (attempt = 2 /\ Succeeds)
       /\ faults = 1 => attempt = 1 \/ (attempt = 2 /\ Settles) \/ (attempt = 3 /\ Succeeds)

\* The empty sequence is without anything.
LEMMA WithoutEmpty == \A R : Without(<<>>, R)
  BY DEF Without

\* The element at the end of a sequence is in it, and one at its front.
LEMMA WithoutEnds ==
  ASSUME NEW S, NEW s \in Seq(S), NEW R
  PROVE  /\ \A r \in S \cap R : ~Without(Append(s, r), R)
         /\ s # <<>> => (Without(s, R) <=> Head(s) \notin R /\ Without(Tail(s), R))
<1>1. ASSUME NEW r \in S \cap R PROVE ~Without(Append(s, r), R)
  <2>1. Len(Append(s, r)) = Len(s) + 1 /\ Len(s) \in Nat /\ Append(s, r)[Len(s) + 1] = r
    OBVIOUS
  <2>2. Len(s) + 1 \in 1..Len(Append(s, r))
    BY <2>1
  <2>. QED
    BY <1>1, <2>1, <2>2 DEF Without
<1>2. ASSUME s # <<>>, Head(s) \notin R, Without(Tail(s), R) PROVE Without(s, R)
  <2>1. /\ Len(Tail(s)) = Len(s) - 1 /\ Head(s) = s[1] /\ Len(s) \in Nat
        /\ \A i \in 1..(Len(s) - 1) : Tail(s)[i] = s[i + 1]
    BY <1>2
  <2>2. ASSUME NEW i \in 1..Len(s), i # 1 PROVE s[i] \notin R
    <3>1. i - 1 \in 1..(Len(s) - 1) /\ (i - 1) + 1 = i
      BY <2>1, <2>2
    <3>2. Tail(s)[i - 1] = s[i] /\ Tail(s)[i - 1] \notin R
      BY <1>2, <2>1, <3>1 DEF Without
    <3>. QED
      BY <3>2
  <2>. QED
    BY <1>2, <2>1, <2>2 DEF Without
<1>. QED
  BY <1>1, <1>2, WithoutSteps

\* A full buffer of nothing but CmdStart: the next CmdStart is not its checksum.
LEMMA StartsAreNoPacket ==
  ASSUME PromptLink, IInv, OnlyStart(input), Len(input) = PayloadLen
  PROVE  crc # CmdStart
<1>1. input \in Seq(Byte) /\ crc = CrcOf(input) /\ PayloadLen \in Nat
  BY PayloadAssumption DEF IInv, TypeOK, FrameIsConsistent
<1>2. \A i \in 1..PayloadLen : input[i] = CmdStart
  BY <1>1 DEF OnlyStart, Without
<1>3. input = [i \in 1..PayloadLen |-> CmdStart]
  BY <1>1, <1>2
<1>. QED
  BY <1>1, <1>3 DEF PromptLink

\* What the interrupt does with any byte, as far as the attempts are concerned.
LEMMA BytesOfISR ==
  ASSUME IInv, NEW b \in Byte, NEW r, ISR(b, r)
  PROVE  /\ state # "SYNCED" =>
              /\ input = <<>> /\ input' = <<>>
              /\ b = CmdStart => state' = "SYNC_START" /\ r = RESP_SYNC_START
              /\ state' = "SYNCED" => state = "SYNC_1" /\ r = RESP_SYNC_OK
              /\ r = RESP_SYNC_START => state' = "SYNC_START"
         /\ state = "SYNCED" /\ Len(input) < PayloadLen =>
              state' = "SYNCED" /\ input' = Append(input, b) /\ r = NoResponse
         /\ state = "SYNCED" /\ Len(input) = PayloadLen =>
              /\ input' = <<>>
              /\ state' = "SYNCED" => r # RESP_SYNC_START /\ (b = CmdStart => crc = CmdStart)
              /\ state' # "SYNCED" => state' = "SYNC_START" /\ r = RESP_SYNC_START
         /\ state = "SYNC_START" /\ b = CmdSync1 => state' = "SYNC_1" /\ r = RESP_SYNC_1
         /\ state = "SYNC_1" /\ b = CmdSync2 => state' = "SYNCED" /\ r = RESP_SYNC_OK
<1>1. Len(input) \in Nat /\ Len(input) <= PayloadLen /\ (state # "SYNCED" => input = <<>>)
  BY DEF IInv, TypeOK, FrameIsConsistent
<1>2. CASE state = "SYNCED"
  BY <1>1, <1>2, PayloadAssumption
  DEF ISR, RxFill, RxAccept, RxResync, RxNack, RxSync1, RxSync2, RxStart, RxDesync, ClearInput,
      NoResponse, RESP_UPDATE_ACK, RESP_UPDATE_NACK, RESP_SYNC_START, RESP_SYNC_1, RESP_SYNC_OK
<1>3. CASE state # "SYNCED"
  BY <1>1, <1>3, CommandAssumption
  DEF ISR, RxFill, RxAccept, RxResync, RxNack, RxSync1, RxSync2, RxStart, RxDesync, Expected,
      NoResponse, RESP_UPDATE_ACK, RESP_UPDATE_NACK, RESP_SYNC_START, RESP_SYNC_1, RESP_SYNC_OK
<1>. QED
  BY <1>2, <1>3

\* What an attempt that succeeds has in common with one that settles.
LEMMA SucceedsSettles ==
  ASSUME LinkInv, Succeeds
  PROVE  Settles
<1>1. BurstSucceeds => BurstSettles
  BY DEF BurstSucceeds, BurstSettles
<1>2. Sync1Succeeds => Sync1Settles
  <2>1. ASSUME toMcu = <<CmdSync1>>, toHost = <<>>, state = "SYNC_START" PROVE Sync1Settles
    BY <2>1, WithoutEmpty DEF Sync1Settles, Ready
  <2>2. ASSUME toMcu = <<>>, toHost = <<RESP_SYNC_1>>, state = "SYNC_1" PROVE Sync1Settles
    BY <2>2 DEF Sync1Settles, Ready
  <2>. QED
    BY <2>1, <2>2 DEF Sync1Succeeds
<1>3. Sync2Succeeds => Sync2Settles
  BY WithoutEmpty DEF Sync2Succeeds, Sync2Settles, Ready, OnlyStart
<1>. QED
  BY <1>1, <1>2, <1>3 DEF Succeeds, Settles
\* What a received byte does to the queues.
LEMMA QueuesOfReceive ==
  ASSUME LinkInv, ReceiveByte
  PROVE  \E r \in Response \cup {NoResponse} :
           /\ toMcu \in Seq(Byte) /\ toMcu # <<>> /\ Head(toMcu) \in Byte /\ ISR(Head(toMcu), r)
           /\ toMcu' = Tail(toMcu) /\ toMcu' \in Seq(Byte) /\ Len(toMcu') = Len(toMcu) - 1 /\ Len(toMcu) \in Nat
           /\ toHost \in Seq(Response) /\ Len(toHost) \in Nat /\ Len(toHost') \in Nat /\ Len(toHost') <= Len(toHost) + 1
           /\ \A R : Without(toHost, R) /\ r \notin R => Without(toHost', R)
           /\ ~Seen /\ r # RESP_SYNC_START => ~Seen'
           /\ r \in Response /\ Len(toHost) < RxCap => toHost' = Append(toHost, r)
           /\ Seen => Seen'
           /\ r = RESP_SYNC_START /\ Len(toHost) < RxCap => Seen'
<1>0. /\ toMcu \in Seq(Byte) /\ toMcu # <<>> /\ toMcu' = Tail(toMcu) /\ toHost \in Seq(Response) /\ sawStart' = sawStart
      /\ Len(toHost) \in Nat /\ sawStart \in BOOLEAN
  BY DEF LinkInv, LinkTypeOK, ReceiveByte, hostVars
<1>1. Head(toMcu) \in Byte /\ toMcu' \in Seq(Byte) /\ Len(toMcu') = Len(toMcu) - 1 /\ Len(toMcu) \in Nat
  BY <1>0
<1>2. PICK r \in Response \cup {NoResponse} : ISR(Head(toMcu), r) /\ Received(r)
  BY DEF ReceiveByte
<1>3. NoResponse \notin Response /\ RESP_SYNC_START \in Response
  BY DEF NoResponse, Response, RESP_UPDATE_ACK, RESP_UPDATE_NACK, RESP_SYNC_START, RESP_SYNC_1, RESP_SYNC_OK
<1>4. /\ toHost' = toHost \/ (r \in Response /\ toHost' = Append(toHost, r))
      /\ r \in Response /\ Len(toHost) < RxCap => toHost' = Append(toHost, r)
  BY <1>0, <1>2, <1>3, BoundAssumption DEF Received
<1>5. Len(toHost') \in Nat /\ Len(toHost') <= Len(toHost) + 1
  BY <1>0, <1>4
<1>6. ASSUME NEW R, Without(toHost, R), r \notin R PROVE Without(toHost', R)
  <2>1. CASE toHost' = toHost
    BY <1>6, <2>1
  <2>2. CASE r \in Response /\ toHost' = Append(toHost, r)
    BY <1>0, <1>6, <2>2, WithoutSteps
  <2>. QED
    BY <1>4, <2>1, <2>2
<1>7. ASSUME ~Seen, r # RESP_SYNC_START PROVE ~Seen'
  BY <1>0, <1>6, <1>7 DEF Seen
<1>8. ASSUME Seen PROVE Seen'
  <2>1. CASE toHost' = toHost
    BY <1>0, <1>8, <2>1 DEF Seen
  <2>2. CASE r \in Response /\ toHost' = Append(toHost, r)
    <3>1. /\ Len(toHost') = Len(toHost) + 1 /\ Len(toHost) \in Nat
          /\ \A i \in 1..Len(toHost) : toHost'[i] = toHost[i]
      BY <1>0, <2>2
    <3>2. Without(toHost', {RESP_SYNC_START}) => Without(toHost, {RESP_SYNC_START})
      BY <3>1 DEF Without
    <3>. QED
      BY <1>0, <1>8, <3>2 DEF Seen
  <2>. QED
    BY <1>4, <2>1, <2>2
<1>9. ASSUME r = RESP_SYNC_START, Len(toHost) < RxCap PROVE Seen'
  <2>1. toHost' = Append(toHost, RESP_SYNC_START) /\ RESP_SYNC_START \in Response \cap {RESP_SYNC_START}
    BY <1>3, <1>4, <1>9
  <2>2. ~Without(toHost', {RESP_SYNC_START})
    BY <1>0, <2>1, WithoutEnds
  <2>. QED
    BY <2>2 DEF Seen
<1>. QED
  BY <1>0, <1>1, <1>2, <1>4, <1>5, <1>6, <1>7, <1>8, <1>9

\* The interrupt keeps an attempt going that settles.
LEMMA ReceiveSettles ==
  ASSUME LinkInv, ReceiveByte, Settles
  PROVE  Settles'
<1>. DEFINE b == Head(toMcu)
            k == Len(toMcu)
            n == Len(input)
<1>0. IInv /\ IInv' /\ pc' = pc /\ n \in Nat /\ n <= PayloadLen /\ input \in Seq(Byte) /\ PayloadLen \in Nat
  BY BoardPreserves, PayloadAssumption DEF LinkInv, LinkNext, IInv, TypeOK, ReceiveByte, hostVars
<1>1. PICK r \in Response \cup {NoResponse} :
         /\ toMcu \in Seq(Byte) /\ toMcu # <<>> /\ b \in Byte /\ ISR(b, r)
         /\ toMcu' = Tail(toMcu) /\ toMcu' \in Seq(Byte) /\ Len(toMcu') = k - 1 /\ k \in Nat
         /\ \A R : Without(toHost, R) /\ r \notin R => Without(toHost', R)
         /\ ~Seen /\ r # RESP_SYNC_START => ~Seen'
  BY QueuesOfReceive
<1>2. /\ state # "SYNCED" =>
           /\ input = <<>> /\ input' = <<>>
           /\ b = CmdStart => state' = "SYNC_START" /\ r = RESP_SYNC_START
           /\ state' = "SYNCED" => state = "SYNC_1" /\ r = RESP_SYNC_OK
      /\ state = "SYNCED" /\ n < PayloadLen =>
           state' = "SYNCED" /\ input' = Append(input, b) /\ r = NoResponse
      /\ state = "SYNCED" /\ n = PayloadLen =>
           input' = <<>> /\ (state' = "SYNCED" => r # RESP_SYNC_START)
  BY <1>0, <1>1, BytesOfISR
<1>3. /\ OnlyStart(<<>>) /\ NoResponse # RESP_SYNC_START /\ RESP_SYNC_OK # RESP_SYNC_START
      /\ OnlyStart(toMcu) => b = CmdStart /\ OnlyStart(toMcu')
      /\ OnlyStart(input) /\ b = CmdStart => OnlyStart(Append(input, b))
  <2>1. OnlyStart(<<>>)
    BY WithoutEmpty DEF OnlyStart
  <2>2. OnlyStart(toMcu) => b = CmdStart /\ OnlyStart(toMcu')
    BY <1>1, WithoutSteps DEF OnlyStart
  <2>3. OnlyStart(input) /\ b = CmdStart => OnlyStart(Append(input, b))
    BY <1>0, <1>1, WithoutSteps DEF OnlyStart
  <2>. QED
    BY <2>1, <2>2, <2>3 DEF NoResponse, RESP_SYNC_START, RESP_SYNC_OK
<1>4. FrameLen = PayloadLen + 1 /\ Len(<<>>) = 0 /\ (state = "SYNCED" /\ n < PayloadLen => Len(input') = n + 1)
  BY <1>0, <1>1, <1>2 DEF FrameLen
<1>5. CASE pc = "quiet"
  <2>0. BurstSettles
    BY <1>5 DEF Settles
  <2>1. CASE state # "SYNCED" /\ OnlyStart(toMcu)
    BY <1>0, <1>2, <1>3, <1>5, <2>1 DEF Settles, BurstSettles
  <2>2. CASE state # "SYNCED" /\ OnlyStart(Tail(toMcu)) /\ (state = "SYNC_1" => ~Seen)
    <3>1. OnlyStart(toMcu')
      BY <1>1, <2>2
    <3>2. CASE state' = "SYNCED"
      BY <1>0, <1>1, <1>2, <1>3, <1>5, <2>2, <3>1, <3>2 DEF Settles, BurstSettles
    <3>3. CASE state' # "SYNCED"
      BY <1>0, <1>5, <3>1, <3>3 DEF Settles, BurstSettles
    <3>. QED
      BY <3>2, <3>3
  <2>3. CASE state = "SYNCED" /\ ~Seen /\ OnlyStart(toMcu) /\ (OnlyStart(input) \/ n + k >= FrameLen)
    <3>1. b = CmdStart /\ OnlyStart(toMcu')
      BY <1>3, <2>3
    <3>2. CASE n < PayloadLen
      <4>1. state' = "SYNCED" /\ ~Seen'
        BY <1>1, <1>2, <1>3, <2>3, <3>2
      <4>2. OnlyStart(input') \/ Len(input') + Len(toMcu') >= FrameLen
        <5>1. OnlyStart(input) => OnlyStart(input')
          BY <1>2, <1>3, <2>3, <3>1, <3>2
        <5>2. n + k >= FrameLen => Len(input') + Len(toMcu') >= FrameLen
          BY <1>0, <1>1, <1>4, <2>3, <3>2
        <5>. QED
          BY <2>3, <5>1, <5>2
      <4>. QED
        BY <1>0, <1>5, <3>1, <4>1, <4>2 DEF Settles, BurstSettles
    <3>3. CASE n = PayloadLen
      BY <1>0, <1>1, <1>2, <1>3, <1>5, <2>3, <3>1, <3>3 DEF Settles, BurstSettles
    <3>. QED
      BY <1>0, <3>2, <3>3
  <2>4. CASE /\ state = "SYNCED" /\ ~Seen /\ OnlyStart(Tail(toMcu))
             /\ OnlyStart(input) /\ n + k >= FrameLen
    <3>1. OnlyStart(toMcu')
      BY <1>1, <2>4
    <3>2. CASE n < PayloadLen
      <4>1. state' = "SYNCED" /\ ~Seen'
        BY <1>1, <1>2, <1>3, <2>4, <3>2
      <4>2. Len(input') + Len(toMcu') >= FrameLen
        BY <1>0, <1>1, <1>4, <2>4, <3>2
      <4>. QED
        BY <1>0, <1>5, <3>1, <4>1, <4>2 DEF Settles, BurstSettles
    <3>3. CASE n = PayloadLen
      BY <1>0, <1>1, <1>2, <1>3, <1>5, <2>4, <3>1, <3>3 DEF Settles, BurstSettles
    <3>. QED
      BY <1>0, <3>2, <3>3
  <2>. QED
    BY <2>0, <2>1, <2>2, <2>3, <2>4 DEF BurstSettles
<1>6. CASE pc \in {"one", "ok"}
  <2>1. k = 1 /\ state # "SYNCED" /\ (pc = "one" => Without(toHost, {RESP_SYNC_1}))
    BY <1>1, <1>6 DEF Settles, Sync1Settles, Sync2Settles
  <2>2. toMcu' = <<>>
    BY <1>1, <2>1
  <2>3. Ready'
    BY <1>2, <1>3, <2>1 DEF Ready
  <2>4. RESP_SYNC_OK \notin {RESP_SYNC_1}
    BY DEF RESP_SYNC_OK, RESP_SYNC_1
  <2>5. pc = "one" /\ state' = "SYNCED" => Without(toHost', {RESP_SYNC_1})
    BY <1>1, <1>2, <2>1, <2>4
  <2>. QED
    BY <1>0, <1>6, <2>2, <2>3, <2>5 DEF Settles, Sync1Settles, Sync2Settles
<1>. QED
  BY <1>0, <1>5, <1>6 DEF Settles
\* The interrupt keeps an attempt going that succeeds.
LEMMA ReceiveSucceeds ==
  ASSUME PromptLink, LinkInv, ReceiveByte, Succeeds
  PROVE  Succeeds'
<1>. DEFINE b == Head(toMcu)
            k == Len(toMcu)
            n == Len(input)
<1>0. /\ IInv /\ pc' = pc /\ n \in Nat /\ n <= PayloadLen /\ input \in Seq(Byte) /\ PayloadLen \in Nat
      /\ FrameLen = PayloadLen + 1 /\ RxCap >= FrameLen /\ RxCap \in Nat
  BY PayloadAssumption, BoundAssumption DEF LinkInv, IInv, TypeOK, ReceiveByte, hostVars, FrameLen, PromptLink
<1>1. PICK r \in Response \cup {NoResponse} :
         /\ toMcu \in Seq(Byte) /\ toMcu # <<>> /\ b \in Byte /\ ISR(b, r)
         /\ toMcu' = Tail(toMcu) /\ toMcu' \in Seq(Byte) /\ Len(toMcu') = k - 1 /\ k \in Nat
         /\ toHost \in Seq(Response) /\ Len(toHost) \in Nat /\ Len(toHost') \in Nat /\ Len(toHost') <= Len(toHost) + 1
         /\ ~Seen /\ r # RESP_SYNC_START => ~Seen'
         /\ r \in Response /\ Len(toHost) < RxCap => toHost' = Append(toHost, r)
         /\ Seen => Seen'
         /\ r = RESP_SYNC_START /\ Len(toHost) < RxCap => Seen'
  BY QueuesOfReceive
<1>2. /\ state # "SYNCED" /\ b = CmdStart => state' = "SYNC_START" /\ r = RESP_SYNC_START
      /\ state = "SYNCED" /\ n < PayloadLen =>
           state' = "SYNCED" /\ input' = Append(input, b) /\ r = NoResponse
      /\ state = "SYNCED" /\ n = PayloadLen =>
           /\ state' = "SYNCED" => (b = CmdStart => crc = CmdStart)
           /\ state' # "SYNCED" => state' = "SYNC_START" /\ r = RESP_SYNC_START
      /\ state = "SYNC_START" /\ b = CmdSync1 => state' = "SYNC_1" /\ r = RESP_SYNC_1
      /\ state = "SYNC_1" => input' = <<>>
      /\ state = "SYNC_1" /\ b = CmdSync2 => state' = "SYNCED" /\ r = RESP_SYNC_OK
  BY <1>0, <1>1, BytesOfISR
<1>3. CASE pc = "quiet"
  <2>1. BurstSucceeds
    BY <1>3 DEF Succeeds
  <2>2. b = CmdStart /\ OnlyStart(toMcu')
    BY <1>1, <2>1, WithoutSteps DEF BurstSucceeds, OnlyStart
  <2>3. Len(toHost') + Len(toMcu') <= FrameLen /\ Len(toHost) < RxCap
    <3>1. Len(toHost) + k <= FrameLen /\ k > 0
      BY <1>1, <2>1 DEF BurstSucceeds
    <3>. QED
      BY <1>0, <1>1, <3>1
  <2>4. CASE state # "SYNCED"
    <3>1. state' = "SYNC_START" /\ Seen'
      BY <1>1, <1>2, <2>2, <2>3, <2>4
    <3>. QED
      BY <1>0, <1>3, <2>2, <2>3, <3>1 DEF Succeeds, BurstSucceeds
  <2>5. CASE state = "SYNCED"
    <3>1. ~Seen /\ OnlyStart(input) /\ n + k >= FrameLen
      BY <2>1, <2>5 DEF BurstSucceeds
    <3>2. CASE n < PayloadLen
      <4>1. state' = "SYNCED" /\ input' = Append(input, CmdStart) /\ ~Seen'
        BY <1>1, <1>2, <2>2, <2>5, <3>1, <3>2 DEF NoResponse, RESP_SYNC_START
      <4>2. OnlyStart(input')
        BY <1>0, <1>1, <2>2, <3>1, <4>1, WithoutSteps DEF OnlyStart
      <4>3. Len(input') + Len(toMcu') >= FrameLen
        <5>1. Len(input') = n + 1
          BY <1>0, <4>1
        <5>. QED
          BY <1>0, <1>1, <3>1, <5>1
      <4>. QED
        BY <1>0, <1>3, <2>2, <2>3, <4>1, <4>2, <4>3 DEF Succeeds, BurstSucceeds
    <3>3. CASE n = PayloadLen
      <4>1. crc # CmdStart
        BY <1>0, <3>1, <3>3, StartsAreNoPacket
      <4>2. state' = "SYNC_START" /\ Seen'
        BY <1>1, <1>2, <2>2, <2>3, <2>5, <3>3, <4>1
      <4>. QED
        BY <1>0, <1>3, <2>2, <2>3, <4>2 DEF Succeeds, BurstSucceeds
    <3>. QED
      BY <1>0, <3>2, <3>3
  <2>. QED
    BY <2>4, <2>5
<1>4. CASE pc = "one"
  <2>1. toMcu = <<CmdSync1>> /\ toHost = <<>> /\ state = "SYNC_START"
    BY <1>1, <1>4 DEF Succeeds, Sync1Succeeds
  <2>2. b = CmdSync1 /\ toMcu' = <<>> /\ Len(toHost) < RxCap
    BY <1>0, <1>1, <2>1
  <2>3. state' = "SYNC_1" /\ toHost' = Append(<<>>, RESP_SYNC_1)
    BY <1>1, <1>2, <2>1, <2>2 DEF Response
  <2>. QED
    BY <1>0, <1>4, <2>2, <2>3 DEF Succeeds, Sync1Succeeds
<1>5. CASE pc = "ok"
  <2>1. toMcu = <<CmdSync2>> /\ toHost = <<>> /\ state = "SYNC_1"
    BY <1>1, <1>5 DEF Succeeds, Sync2Succeeds
  <2>2. b = CmdSync2 /\ toMcu' = <<>> /\ Len(toHost) < RxCap
    BY <1>0, <1>1, <2>1
  <2>3. state' = "SYNCED" /\ input' = <<>> /\ toHost' = Append(<<>>, RESP_SYNC_OK)
    BY <1>1, <1>2, <2>1, <2>2 DEF Response
  <2>. QED
    BY <1>0, <1>5, <2>2, <2>3 DEF Succeeds, Sync2Succeeds
<1>. QED
  BY <1>0, <1>3, <1>4, <1>5 DEF Succeeds

\* A fault in an attempt that would have succeeded still leaves the board ready.
LEMMA FaultSettles ==
  ASSUME LinkInv, MissByte \/ LineFault \/ LoseReply, Succeeds
  PROVE  Settles'
<1>0. /\ toMcu \in Seq(Byte) /\ toHost \in Seq(Response) /\ Settles /\ pc' = pc
      /\ state' = state /\ input' = input /\ sawStart' = sawStart /\ input \in Seq(Byte)
  BY SucceedsSettles DEF LinkInv, LinkTypeOK, TypeOK, MissByte, LineFault, LoseReply, CountFault, hostVars, vars
<1>r. Ready' <=> Ready
  BY <1>0 DEF Ready
<1>1. CASE LoseReply
  <2>1. toHost # <<>> /\ toHost' = Tail(toHost) /\ toMcu' = toMcu
    BY <1>1 DEF LoseReply
  <2>2. ASSUME NEW R, Without(toHost, R) PROVE Without(toHost', R)
    BY <1>0, <2>1, <2>2, WithoutSteps
  <2>3. Seen' => Seen
    BY <1>0, <2>2 DEF Seen
  <2>. QED
    BY <1>0, <1>r, <2>1, <2>2, <2>3 DEF Settles, BurstSettles, Sync1Settles, Sync2Settles
<1>2. CASE MissByte \/ LineFault
  <2>1. toMcu # <<>> /\ toHost' = toHost /\ (Seen' <=> Seen)
    BY <1>0, <1>2 DEF MissByte, LineFault, Seen
  <2>2. toMcu' = Tail(toMcu) \/ \E b \in Byte : toMcu' = <<b>> \o Tail(toMcu)
    BY <1>2 DEF MissByte, LineFault
  <2>3. CASE pc = "quiet"
    <3>0. BurstSucceeds
      BY <2>3 DEF Succeeds
    <3>1. OnlyStart(Tail(toMcu)) /\ (state = "SYNC_1" => ~Seen)
      BY <1>0, <2>1, <3>0, WithoutSteps DEF BurstSucceeds, OnlyStart
    <3>2. CASE toMcu' = Tail(toMcu)
      BY <1>0, <2>1, <2>3, <3>0, <3>1, <3>2 DEF Settles, BurstSettles, BurstSucceeds
    <3>3. ASSUME NEW b \in Byte, toMcu' = <<b>> \o Tail(toMcu) PROVE Settles'
      <4>1. toMcu' # <<>> /\ Tail(toMcu') = Tail(toMcu) /\ Len(toMcu') = Len(toMcu)
        BY <1>0, <2>1, <3>3
      <4>. QED
        BY <1>0, <2>1, <2>3, <3>0, <3>1, <4>1 DEF Settles, BurstSettles, BurstSucceeds
    <3>. QED
      BY <2>2, <3>2, <3>3
  <2>4. CASE pc \in {"one", "ok"}
    <3>1. Len(toMcu) = 1 /\ state # "SYNCED" /\ (pc = "one" => Without(toHost, {RESP_SYNC_1}))
      BY <1>0, <2>1, <2>4 DEF Settles, Sync1Settles, Sync2Settles
    <3>2. toMcu' = <<>> \/ Len(toMcu') = 1
      <4>1. Tail(toMcu) \in Seq(Byte) /\ Len(Tail(toMcu)) = 0
        BY <1>0, <2>1, <3>1
      <4>2. Tail(toMcu) = <<>>
        BY <4>1, NoBytes
      <4>3. \A b \in Byte : Len(<<b>> \o <<>>) = 1
        OBVIOUS
      <4>. QED
        BY <2>2, <4>2, <4>3
    <3>3. Ready'
      BY <1>0, <3>1 DEF Ready
    <3>. QED
      BY <1>0, <2>1, <2>4, <3>1, <3>2, <3>3 DEF Settles, Sync1Settles, Sync2Settles
  <2>. QED
    BY <1>0, <2>3, <2>4 DEF Settles
<1>. QED
  BY <1>1, <1>2
InAttempt == pc \in {"quiet", "one", "ok"}

\* What the host does in an attempt: one that settles goes on, opens the session or is
\* over with the board ready and nothing under way; one that succeeds goes on or opens
\* the session.
LEMMA HostAttempt ==
  ASSUME PromptLink, LinkInv, HostStep, InAttempt
  PROVE  /\ UNCHANGED <<attempt, faults>> /\ (pc' = "failed" => attempt = MaxAttempts)
         /\ pc' \in {"sync", "failed"} => toMcu' = <<>> /\ toHost' = <<>>
         /\ Settles => \/ InAttempt' /\ Settles'
                       \/ pc' = "stream"
                       \/ pc' \in {"sync", "failed"} /\ Ready'
         /\ Succeeds => (InAttempt' /\ Succeeds') \/ pc' = "stream"
<1>0. /\ toMcu \in Seq(Byte) /\ toHost \in Seq(Response) /\ sawStart \in BOOLEAN /\ QuietSuffices
      /\ attempt \in Nat /\ MaxAttempts \in Nat /\ attempt <= MaxAttempts
      /\ Len(input) \in Nat /\ Len(input) <= PayloadLen /\ PayloadLen \in Nat /\ FrameLen = PayloadLen + 1
  BY BoundAssumption, PayloadAssumption DEF LinkInv, LinkTypeOK, TypeOK, PromptLink, FrameLen
<1>1. ~SyncBegin /\ \A p \in HostPayload : ~StreamPacket(p)
  BY DEF InAttempt, SyncBegin, StreamPacket
<1>2. UNCHANGED <<attempt, faults, state, input>>
  BY <1>1 DEF HostStep, ReadStartResponse, QuietEnds, ReadSync1Response, ReadSyncOk, ReadTimesOut,
              SyncReturnsFalse, faultVars, vars
<1>r. Ready' <=> Ready
  BY <1>2 DEF Ready
<1>3. CASE ReadStartResponse
  <2>1. /\ pc = "quiet" /\ pc' = "quiet" /\ toHost # <<>> /\ toHost' = Tail(toHost) /\ toMcu' = toMcu
        /\ sawStart' = (sawStart \/ Head(toHost) = RESP_SYNC_START)
    BY <1>3 DEF ReadStartResponse
  <2>2. Seen' <=> Seen
    <3>1. Without(toHost, {RESP_SYNC_START}) <=> Head(toHost) # RESP_SYNC_START /\ Without(toHost', {RESP_SYNC_START})
      BY <1>0, <2>1, WithoutEnds
    <3>. QED
      BY <1>0, <2>1, <3>1 DEF Seen
  <2>3. Len(toHost') <= Len(toHost) /\ Len(toHost') \in Nat /\ Len(toHost) \in Nat /\ Len(toMcu) \in Nat
    BY <1>0, <2>1
  <2>4. Settles => Settles'
    BY <1>2, <2>1, <2>2 DEF Settles, BurstSettles
  <2>5. Len(toHost) + Len(toMcu) <= FrameLen => Len(toHost') + Len(toMcu') <= FrameLen
    BY <1>0, <2>1, <2>3
  <2>6. Succeeds => Succeeds'
    BY <1>2, <2>1, <2>2, <2>5 DEF Succeeds, BurstSucceeds
  <2>. QED
    BY <1>2, <2>1, <2>4, <2>6 DEF InAttempt
<1>4. CASE QuietEnds
  <2>1. pc = "quiet" /\ toMcu = <<>> /\ toHost = <<>> /\ toHost' = <<>>
    BY <1>0, <1>4 DEF QuietEnds, Drained
  <2>2. Seen <=> sawStart
    BY <2>1, WithoutEmpty DEF Seen
  <2>3. Len(toMcu) = 0 /\ OnlyStart(toMcu) /\ Len(input) + Len(toMcu) < FrameLen
    BY <1>0, <2>1, WithoutEmpty DEF OnlyStart
  <2>4. Settles => Ready /\ (sawStart => state # "SYNCED")
    BY <1>0, <2>1, <2>2, <2>3 DEF Settles, BurstSettles, Ready
  <2>5. Succeeds => state = "SYNC_START" /\ sawStart
    BY <1>0, <2>1, <2>2, <2>3 DEF Succeeds, BurstSucceeds
  <2>6. CASE sawStart
    <3>1. pc' = "one" /\ toMcu' = <<CmdSync1>> /\ Without(toHost', {RESP_SYNC_1})
      BY <1>4, <2>1, <2>6, WithoutEmpty DEF QuietEnds
    <3>2. Settles => Settles'
      BY <1>2, <1>r, <2>4, <2>6, <3>1 DEF Settles, Sync1Settles
    <3>3. Succeeds => Succeeds'
      BY <1>2, <2>1, <2>5, <3>1 DEF Succeeds, Sync1Succeeds
    <3>. QED
      BY <1>2, <3>1, <3>2, <3>3 DEF InAttempt
  <2>7. CASE ~sawStart
    <3>1. pc' \in {"sync", "failed"} /\ (pc' = "failed" => attempt = MaxAttempts) /\ toMcu' = toMcu
      BY <1>0, <1>4, <2>7 DEF QuietEnds, SyncReturnsFalse
    <3>. QED
      BY <1>2, <1>r, <2>1, <2>4, <2>5, <2>7, <3>1
  <2>. QED
    BY <2>6, <2>7
<1>5. CASE ReadSync1Response
  <2>1. pc = "one" /\ toHost # <<>> /\ toHost' = Tail(toHost)
    BY <1>5 DEF ReadSync1Response
  <2>2. \A R : Without(toHost, R) => Head(toHost) \notin R /\ Without(toHost', R)
    BY <1>0, <2>1, WithoutSteps
  <2>3. CASE Head(toHost) = RESP_SYNC_1
    <3>1. pc' = "ok" /\ toMcu' = Append(toMcu, CmdSync2)
      BY <1>5, <2>3 DEF ReadSync1Response
    <3>2. ~Without(toHost, {RESP_SYNC_1})
      BY <2>2, <2>3
    <3>3. Settles => Settles'
      <4>1. Settles => toMcu = <<>> /\ state # "SYNCED" /\ Ready
        BY <2>1, <3>2 DEF Settles, Sync1Settles
      <4>2. toMcu = <<>> => Len(toMcu') = 1
        BY <3>1
      <4>. QED
        BY <1>2, <1>r, <3>1, <4>1, <4>2 DEF Settles, Sync2Settles
    <3>4. Succeeds => Succeeds'
      <4>1. Succeeds => toMcu = <<>> /\ toHost = <<RESP_SYNC_1>> /\ state = "SYNC_1"
        BY <2>1 DEF Succeeds, Sync1Succeeds
      <4>2. Succeeds => toMcu' = Append(<<>>, CmdSync2) /\ toHost' = Tail(<<RESP_SYNC_1>>)
        BY <2>1, <3>1, <4>1
      <4>3. Append(<<>>, CmdSync2) = <<CmdSync2>> /\ Tail(<<RESP_SYNC_1>>) = <<>>
        OBVIOUS
      <4>. QED
        BY <1>2, <3>1, <4>1, <4>2, <4>3 DEF Succeeds, Sync2Succeeds
    <3>. QED
      BY <1>2, <3>1, <3>3, <3>4 DEF InAttempt
  <2>4. CASE Head(toHost) # RESP_SYNC_1
    <3>1. pc' = "one" /\ toMcu' = toMcu
      BY <1>5, <2>1, <2>4 DEF ReadSync1Response
    <3>2. Settles => Settles'
      BY <1>2, <1>r, <2>1, <2>2, <3>1 DEF Settles, Sync1Settles
    <3>3. ~Succeeds
      BY <2>1, <2>4 DEF Succeeds, Sync1Succeeds
    <3>. QED
      BY <1>2, <3>1, <3>2, <3>3 DEF InAttempt
  <2>. QED
    BY <2>3, <2>4
<1>6. CASE ReadSyncOk
  <2>1. pc = "ok" /\ toHost # <<>> /\ toMcu' = toMcu /\ pc' = IF Head(toHost) = RESP_SYNC_OK THEN "stream" ELSE "ok"
    BY <1>6 DEF ReadSyncOk
  <2>2. Settles /\ pc' = "ok" => Settles'
    BY <1>r, <1>2, <2>1 DEF Settles, Sync2Settles
  <2>3. Succeeds => pc' = "stream"
    BY <2>1 DEF Succeeds, Sync2Succeeds
  <2>. QED
    BY <1>2, <2>1, <2>2, <2>3 DEF InAttempt
<1>7. CASE ReadTimesOut
  <2>1. pc \in {"one", "ok"} /\ toMcu = <<>> /\ toHost = <<>> /\ toMcu' = <<>> /\ toHost' = <<>>
    BY <1>7 DEF ReadTimesOut, Drained
  <2>2. pc' \in {"sync", "failed"} /\ (pc' = "failed" => attempt = MaxAttempts)
    BY <1>0, <1>7 DEF ReadTimesOut, SyncReturnsFalse
  <2>3. (Settles => Ready) /\ ~Succeeds
    BY <2>1 DEF Settles, Sync1Settles, Sync2Settles, Succeeds, Sync1Succeeds, Sync2Succeeds
  <2>. QED
    BY <1>2, <1>r, <2>1, <2>2, <2>3
<1>. QED
  BY <1>1, <1>3, <1>4, <1>5, <1>6, <1>7 DEF HostStep

\* A new attempt settles, and from a board that is ready it succeeds.
LEMMA BeginAttempt ==
  ASSUME LinkInv, SyncBegin
  PROVE  Settles' /\ (Ready => Succeeds')
<1>1. /\ pc' = "quiet" /\ toHost' = <<>> /\ toMcu' = Burst /\ sawStart' = FALSE
      /\ state' = state /\ input' = input /\ Len(input) \in Nat
  BY DEF SyncBegin, vars, LinkInv, LinkTypeOK, TypeOK
<1>2. Burst \in Seq(Byte) /\ OnlyStart(Burst) /\ Len(Burst) = FrameLen /\ FrameLen \in Nat \ {0} /\ Burst # <<>>
  BY WrittenBytes, PayloadAssumption DEF OnlyStart, Burst, FrameLen
<1>3. ~Seen'
  BY <1>1, WithoutEmpty DEF Seen
<1>4. Len(input') + Len(toMcu') >= FrameLen /\ Len(toHost') + Len(toMcu') <= FrameLen
  BY <1>1, <1>2
<1>. QED
  BY <1>1, <1>2, <1>3, <1>4 DEF Settles, Succeeds, BurstSettles, BurstSucceeds, Ready
\* Every step keeps the account of the attempts.
LEMMA AttemptNext ==
  ASSUME PromptLink, LinkInv, AttemptInv, [LinkNext]_linkVars
  PROVE  AttemptInv'
<1>0. /\ attempt \in Nat /\ faults \in Nat /\ MaxAttempts \in Nat /\ MaxAttempts >= 3 /\ MaxFaults \in Nat /\ MaxFaults > 0
      /\ pc \in HostPc
  BY BoundAssumption DEF LinkInv, LinkTypeOK, PromptLink
<1>1. CASE SyncBegin
  <2>1. pc = "sync" /\ attempt' = attempt + 1 /\ pc' = "quiet" /\ faults' = faults
    BY <1>1 DEF SyncBegin
  <2>2. Settles' /\ (Ready => Succeeds')
    BY <1>1, BeginAttempt
  <2>. QED
    BY <1>0, <2>1, <2>2 DEF AttemptInv
<1>2. CASE HostStep /\ ~SyncBegin
  <2>1. CASE InAttempt
    <3>1. /\ attempt' = attempt /\ faults' = faults /\ (pc' = "failed" => attempt = MaxAttempts)
          /\ pc' \in {"sync", "failed"} => toMcu' = <<>> /\ toHost' = <<>>
          /\ Settles => \/ InAttempt' /\ Settles'
                        \/ pc' = "stream"
                        \/ pc' \in {"sync", "failed"} /\ Ready'
          /\ Succeeds => (InAttempt' /\ Succeeds') \/ pc' = "stream"
      BY <1>2, <2>1, HostAttempt
    <3>2. /\ attempt > 0 /\ (faults = 0 => attempt <= 2)
          /\ faults = 0 => (attempt = 1 /\ Settles) \/ (attempt = 2 /\ Succeeds)
          /\ faults = 1 => attempt = 1 \/ (attempt = 2 /\ Settles) \/ (attempt = 3 /\ Succeeds)
      BY <2>1 DEF AttemptInv, InAttempt
    <3>. QED
      BY <1>0, <3>1, <3>2 DEF AttemptInv, InAttempt
  <2>2. CASE ~InAttempt
    <3>1. \E p \in HostPayload : StreamPacket(p)
      BY <1>2, <2>2
      DEF InAttempt, HostStep, ReadStartResponse, QuietEnds, ReadSync1Response, ReadSyncOk, ReadTimesOut
    <3>2. pc = "stream" /\ UNCHANGED <<pc, attempt, faults>>
      BY <3>1 DEF StreamPacket, hostVars, faultVars
    <3>. QED
      BY <3>2 DEF AttemptInv
  <2>. QED
    BY <2>1, <2>2
<1>3. CASE ReceiveByte
  <2>1. UNCHANGED <<pc, attempt, faults>> /\ toMcu # <<>>
    BY <1>3 DEF ReceiveByte, hostVars, faultVars
  <2>2. (Settles => Settles') /\ (Succeeds => Succeeds')
    BY <1>3, ReceiveSettles, ReceiveSucceeds
  <2>. QED
    BY <1>0, <2>1, <2>2 DEF AttemptInv
<1>4. CASE PollReport \/ UNCHANGED linkVars
  <2>1. UNCHANGED <<pc, attempt, faults, sawStart, toMcu, toHost, state, input>>
    BY <1>4 DEF PollReport, CALLBACK_beforeSend, rxVars, linkVars, vars, hostVars, faultVars
  <2>2. (Settles' <=> Settles) /\ (Succeeds' <=> Succeeds) /\ (Ready' <=> Ready)
    BY <2>1 DEF Settles, BurstSettles, Sync1Settles, Sync2Settles, Succeeds, BurstSucceeds, Sync1Succeeds,
                Sync2Succeeds, Ready, Seen
  <2>. QED
    BY <2>1, <2>2 DEF AttemptInv
<1>5. CASE MissByte \/ LineFault \/ LoseReply
  <2>1. UNCHANGED <<pc, attempt>> /\ (toMcu # <<>> \/ toHost # <<>>) /\ faults' = IF faults <= MaxFaults THEN faults + 1 ELSE faults
    BY <1>5 DEF MissByte, LineFault, LoseReply, CountFault, hostVars
  <2>2. Succeeds => Settles'
    BY <1>5, FaultSettles
  <2>3. faults' \in Nat /\ faults' # 0 /\ (faults' = 1 => faults = 0) /\ (faults >= 2 => faults' >= 2)
    BY <1>0, <2>1
  <2>. QED
    BY <1>0, <2>1, <2>2, <2>3 DEF AttemptInv
<1>6. CASE RestartHost
  BY <1>6 DEF RestartHost, AttemptInv
<1>7. CASE ResetBoard
  <2>1. UNCHANGED <<pc, attempt, toMcu, toHost>> /\ faults' = MaxFaults + 1
    BY <1>7 DEF ResetBoard, hostVars
  <2>2. faults' # 0 /\ faults' # 1 /\ faults' >= 2
    BY <1>0, <2>1
  <2>. QED
    BY <2>1, <2>2 DEF AttemptInv
<1>. QED
  BY <1>1, <1>2, <1>3, <1>4, <1>5, <1>6, <1>7 DEF LinkNext

\* Two attempts synchronise whatever state an earlier process left the board in, and the
\* default of three also absorbs a byte or a reply that was lost or altered.
THEOREM AttemptsAreEnough == PromptLink => (LinkSpec => []AttemptsSuffice)
<1>. SUFFICES ASSUME PromptLink PROVE LinkSpec => []AttemptsSuffice
  OBVIOUS
<1>1. LinkInit => AttemptInv
  BY DEF LinkInit, AttemptInv
<1>2. LinkInv /\ AttemptInv /\ [LinkNext]_linkVars => AttemptInv'
  BY AttemptNext
<1>3. LinkInv /\ AttemptInv => AttemptsSuffice
  BY DEF LinkInv, LinkTypeOK, AttemptInv, AttemptsSuffice, SyncsWithinTwo, OneFaultIsAbsorbed
<1>. QED
  BY <1>1, <1>2, <1>3, LinkInvariance, PTL DEF LinkSpec
=============================================================================
