--------------------------- MODULE JoystickProofs ---------------------------
(***************************************************************************)
(* Proofs about Joystick, for every byte alphabet, frame length, checksum  *)
(* and thresholds that satisfy its assumptions.                            *)
(***************************************************************************)
EXTENDS Joystick, Integers, WellFoundedInduction, TLAPS

-----------------------------------------------------------------------------
(***************************************************************************)
(* Induction over sets of numbers, for what a recursive function computes: *)
(* the library's theorems on induction take an operator.                   *)
(***************************************************************************)

\* A set of numbers that is not empty has a least one.
LEMMA LeastNumber ==
  ASSUME NEW S \in SUBSET Nat, S # {}
  PROVE  \E m \in S : \A k \in S : m <= k
<1>. DEFINE Less == {p \in Nat \X Nat : p[1] < p[2]}
<1>1. IsWellFoundedOn(Less, Nat)
  BY NatLessThanWellFounded DEF OpToRel
<1>2. PICK m \in S : \A k \in S : <<k, m>> \notin Less
  <2>. HIDE DEF Less
  <2>. QED
    BY <1>1, WFMin
<1>3. ASSUME NEW k \in S PROVE m <= k
  <2>1. k \in Nat /\ m \in Nat /\ <<k, m>> \notin Less
    BY <1>2
  <2>. QED
    BY <2>1
<1>. QED
  BY <1>3

\* A set of numbers that has 0 and with a number the next one has them all.
LEMMA NatSetInduction ==
  ASSUME NEW S \in SUBSET Nat, 0 \in S, \A n \in S : n + 1 \in S
  PROVE  S = Nat
<1>. SUFFICES ASSUME Nat \ S # {} PROVE FALSE
  OBVIOUS
<1>1. PICK x \in Nat \ S : \A y \in Nat \ S : x <= y
  BY LeastNumber
<1>2. x - 1 \in Nat /\ (x - 1) + 1 = x /\ ~(x <= x - 1)
  BY <1>1
<1>3. x - 1 \in Nat \ S
  BY <1>1, <1>2
<1>. QED
  BY <1>1, <1>2, <1>3

\* f is the function that recursion on i with step defines from base.
Recursion(f, n, base, step) == f = [i \in 0..n |-> IF i = 0 THEN base ELSE step[i][f[i - 1]]]

\* Such a function exists.
LEMMA RecursionExists ==
  ASSUME NEW S, NEW base \in S, NEW n \in Nat, NEW step \in [1..n -> [S -> S]]
  PROVE  \E f : Recursion(f, n, base, step)
<1>. DEFINE Has == {k \in Nat : k <= n =>
                      \E f \in [0..k -> S] : Recursion(f, k, base, step)}
<1>1. 0 \in Has
  <2>. DEFINE f == [i \in 0..0 |-> base]
  <2>1. f \in [0..0 -> S] /\ Recursion(f, 0, base, step)
    BY DEF Recursion
  <2>. QED
    BY <2>1
<1>2. ASSUME NEW k \in Has PROVE k + 1 \in Has
  <2>. SUFFICES ASSUME k + 1 <= n
                PROVE  \E f \in [0..k + 1 -> S] : Recursion(f, k + 1, base, step)
    OBVIOUS
  <2>1. k \in Nat /\ k <= n
    OBVIOUS
  <2>2. PICK g \in [0..k -> S] : Recursion(g, k, base, step)
    BY <2>1
  <2>. DEFINE f == [i \in 0..k + 1 |-> IF i <= k THEN g[i] ELSE step[k + 1][g[k]]]
  <2>3. f \in [0..k + 1 -> S]
    <3>1. g[k] \in S /\ k + 1 \in 1..n
      BY <2>1
    <3>2. step[k + 1][g[k]] \in S
      BY <3>1
    <3>. QED
      BY <2>1, <3>2
  <2>4. ASSUME NEW i \in 0..k + 1 PROVE f[i] = IF i = 0 THEN base ELSE step[i][f[i - 1]]
    <3>1. CASE i = k + 1
      <4>1. i # 0 /\ i - 1 = k /\ k \in 0..k + 1 /\ ~(k + 1 <= k) /\ k <= k
        BY <2>1, <3>1
      <4>. QED
        BY <3>1, <4>1
    <3>2. CASE i # k + 1
      <4>1. i \in 0..k /\ i <= k
        BY <2>1, <3>2
      <4>2. i # 0 => i - 1 \in 0..k + 1 /\ i - 1 <= k
        BY <2>1, <4>1
      <4>. QED
        BY <2>2, <4>1, <4>2 DEF Recursion
    <3>. QED
      BY <3>1, <3>2
  <2>5. Recursion(f, k + 1, base, step)
    BY <2>4 DEF Recursion
  <2>. QED
    BY <2>3, <2>5
<1>3. Has = Nat
  <2>1. Has \in SUBSET Nat
    OBVIOUS
  <2>. HIDE DEF Has
  <2>. QED
    BY <1>1, <1>2, <2>1, NatSetInduction
<1>. QED
  BY <1>3

\* Its values are of the type of base and step.
LEMMA RecursionType ==
  ASSUME NEW S, NEW base \in S, NEW n \in Nat, NEW step \in [1..n -> [S -> S]],
         NEW f, Recursion(f, n, base, step)
  PROVE  f \in [0..n -> S]
<1>. DEFINE Typed == {k \in Nat : k <= n => f[k] \in S}
<1>1. 0 \in Typed
  BY DEF Recursion
<1>2. ASSUME NEW k \in Typed PROVE k + 1 \in Typed
  <2>. SUFFICES ASSUME k + 1 <= n PROVE f[k + 1] \in S
    OBVIOUS
  <2>1. k \in Nat /\ k + 1 \in 0..n /\ k + 1 \in 1..n /\ k + 1 # 0 /\ (k + 1) - 1 = k /\ f[k] \in S
    OBVIOUS
  <2>2. f[k + 1] = step[k + 1][f[k]]
    BY <2>1 DEF Recursion
  <2>. QED
    BY <2>1, <2>2
<1>3. Typed = Nat
  <2>1. Typed \in SUBSET Nat
    OBVIOUS
  <2>. HIDE DEF Typed
  <2>. QED
    BY <1>1, <1>2, <2>1, NatSetInduction
<1>4. \A k \in 0..n : f[k] \in S
  BY <1>3
<1>. QED
  BY <1>4 DEF Recursion

-----------------------------------------------------------------------------
(***************************************************************************)
(* The checksum of a sequence is what the interrupt computes byte by byte. *)
(***************************************************************************)

\* f is the checksum after each of the first Len(s) bytes of s.
CrcRun(f, s) == f = [i \in 0..Len(s) |-> IF i = 0 THEN CrcZero ELSE CrcUpdate(f[i - 1], s[i])]

\* Two runs over sequences that begin alike agree as far as these do.
LEMMA CrcRunsAgree ==
  ASSUME NEW s \in Seq(Byte), NEW t \in Seq(Byte), NEW f, NEW g, CrcRun(f, s), CrcRun(g, t),
         Len(s) <= Len(t), \A i \in 1..Len(s) : s[i] = t[i]
  PROVE  \A i \in 0..Len(s) : f[i] = g[i]
<1>. DEFINE Same == {n \in Nat : n <= Len(s) => f[n] = g[n]}
<1>1. 0 \in Same
  BY DEF CrcRun
<1>2. ASSUME NEW n \in Same PROVE n + 1 \in Same
  <2>. SUFFICES ASSUME n + 1 <= Len(s) PROVE f[n + 1] = g[n + 1]
    OBVIOUS
  <2>1. n \in Nat /\ n + 1 \in 0..Len(s) /\ n + 1 \in 0..Len(t) /\ n + 1 # 0 /\ (n + 1) - 1 = n
    OBVIOUS
  <2>2. f[n] = g[n] /\ s[n + 1] = t[n + 1]
    BY <2>1
  <2>3. f[n + 1] = CrcUpdate(f[n], s[n + 1]) /\ g[n + 1] = CrcUpdate(g[n], t[n + 1])
    BY <2>1 DEF CrcRun
  <2>. QED
    BY <2>2, <2>3
<1>3. Same = Nat
  <2>1. Same \in SUBSET Nat
    OBVIOUS
  <2>. HIDE DEF Same
  <2>. QED
    BY <1>1, <1>2, <2>1, NatSetInduction
<1>. QED
  BY <1>3

\* Every sequence has a run, of bytes.
LEMMA CrcRunExists ==
  ASSUME NEW s \in Seq(Byte)
  PROVE  \E f \in [0..Len(s) -> Byte] : CrcRun(f, s)
<1>. DEFINE n == Len(s)
            step == [i \in 1..n |-> [c \in Byte |-> CrcUpdate(c, s[i])]]
<1>1. n \in Nat /\ CrcZero \in Byte /\ step \in [1..n -> [Byte -> Byte]]
  <2>1. \A i \in 1..n : s[i] \in Byte
    OBVIOUS
  <2>. QED
    BY <2>1, CrcAssumption
<1>2. PICK f \in [0..n -> Byte] : Recursion(f, n, CrcZero, step)
  <2>. HIDE DEF n, step
  <2>. QED
    BY <1>1, RecursionExists, RecursionType
<1>3. ASSUME NEW i \in 0..n PROVE f[i] = IF i = 0 THEN CrcZero ELSE CrcUpdate(f[i - 1], s[i])
  <2>1. f[i] = IF i = 0 THEN CrcZero ELSE step[i][f[i - 1]]
    <3>. HIDE DEF n, step
    <3>. QED
      BY <1>2 DEF Recursion
  <2>2. i # 0 => i \in 1..n /\ i - 1 \in 0..n /\ f[i - 1] \in Byte
    BY <1>1, <1>2
  <2>. QED
    BY <2>1, <2>2
<1>4. CrcRun(f, s)
  <2>. HIDE DEF step
  <2>. QED
    BY <1>2, <1>3 DEF CrcRun
<1>. QED
  BY <1>4

\* The checksum is the end of any run.
LEMMA CrcOfRun ==
  ASSUME NEW s \in Seq(Byte), NEW f, CrcRun(f, s)
  PROVE  CrcOf(s) = f[Len(s)]
<1>. DEFINE g == CHOOSE h : CrcRun(h, s)
<1>1. CrcRun(g, s)
  BY CrcRunExists
<1>2. CrcOf(s) = g[Len(s)]
  BY DEF CrcOf, CrcRun
<1>. HIDE DEF g
<1>3. Len(s) \in 0..Len(s)
  OBVIOUS
<1>. QED
  BY <1>1, <1>2, <1>3, CrcRunsAgree

\* What a checksum is: of no bytes, and with one byte more.
LEMMA CrcOfSteps ==
  /\ CrcOf(<<>>) = CrcZero
  /\ \A s \in Seq(Byte) : CrcOf(s) \in Byte
  /\ \A s \in Seq(Byte), b \in Byte : CrcOf(Append(s, b)) = CrcUpdate(CrcOf(s), b)
<1>1. CrcOf(<<>>) = CrcZero
  <2>1. <<>> \in Seq(Byte) /\ Len(<<>>) = 0
    OBVIOUS
  <2>2. PICK f \in [0..0 -> Byte] : CrcRun(f, <<>>)
    BY <2>1, CrcRunExists
  <2>3. f[0] = CrcZero
    BY <2>1, <2>2 DEF CrcRun
  <2>. QED
    BY <2>1, <2>2, <2>3, CrcOfRun
<1>2. ASSUME NEW s \in Seq(Byte) PROVE CrcOf(s) \in Byte
  <2>1. PICK f \in [0..Len(s) -> Byte] : CrcRun(f, s)
    BY CrcRunExists
  <2>2. Len(s) \in 0..Len(s)
    OBVIOUS
  <2>. QED
    BY <2>1, <2>2, CrcOfRun
<1>3. ASSUME NEW s \in Seq(Byte), NEW b \in Byte PROVE CrcOf(Append(s, b)) = CrcUpdate(CrcOf(s), b)
  <2>. DEFINE t == Append(s, b)
  <2>1. t \in Seq(Byte) /\ Len(t) = Len(s) + 1 /\ t[Len(s) + 1] = b /\ \A i \in 1..Len(s) : s[i] = t[i]
    OBVIOUS
  <2>2. PICK f \in [0..Len(s) -> Byte] : CrcRun(f, s)
    BY CrcRunExists
  <2>3. PICK g \in [0..Len(t) -> Byte] : CrcRun(g, t)
    BY <2>1, CrcRunExists
  <2>. HIDE DEF t
  <2>4. Len(s) \in 0..Len(s) /\ Len(s) + 1 \in 0..Len(t) /\ Len(s) + 1 # 0 /\ (Len(s) + 1) - 1 = Len(s)
    BY <2>1
  <2>5. f[Len(s)] = g[Len(s)]
    BY <2>1, <2>2, <2>3, <2>4, CrcRunsAgree
  <2>6. g[Len(s) + 1] = CrcUpdate(g[Len(s)], b)
    BY <2>1, <2>3, <2>4 DEF CrcRun
  <2>7. CrcOf(s) = f[Len(s)] /\ CrcOf(t) = g[Len(s) + 1]
    BY <2>1, <2>2, <2>3, CrcOfRun
  <2>. QED
    BY <2>5, <2>6, <2>7 DEF t
<1>. QED
  BY <1>1, <1>2, <1>3

-----------------------------------------------------------------------------
\* The timer is a whole number of reports, the failsafe's HOME press is confined
\* to its window, the checksum is that of the buffer, and no partial frame survives
\* a handshake.
IInv ==
  /\ TypeOK
  /\ millis % 8 = 0
  /\ HomeOnlyInWindow
  /\ FrameIsConsistent

\* An empty buffer has the type of the buffer.
LEMMA EmptyBuffer == <<>> \in Seq(Byte) /\ Len(<<>>) <= PayloadLen
  BY PayloadAssumption

\* main() establishes the invariant.
LEMMA InitEstablishes == Init => IInv
<1>. SUFFICES ASSUME Init PROVE IInv
  OBVIOUS
<1>1. input \in Seq(Byte) /\ Len(input) <= PayloadLen
  BY EmptyBuffer DEF Init
<1>2. millis \in 0..HomeEnd /\ millis % 8 = 0
  BY TickAssumption DEF Init, HomeEnd, MILLIS_UNTIL_HOME, MILLIS_HOME_PRESSED
<1>3. HomeOnlyInWindow
  BY DEF Init, HomeOnlyInWindow, Shown
<1>. QED
  BY <1>1, <1>2, <1>3, CrcAssumption, CrcOfSteps
  DEF Init, IInv, TypeOK, SyncState, Report, FrameIsConsistent

\* A full buffer is a payload, so that decoding it gives a report.
LEMMA FullBufferIsPayload ==
  ASSUME TypeOK, Len(input) = PayloadLen
  PROVE  Populate(input) \in Report
<1>1. input \in [1..PayloadLen -> Byte]
  BY DEF TypeOK
<1>. QED
  BY <1>1 DEF Payload, Report

\* The timer after one more report: it stays in range, so the uint16_t never
\* wraps, and it stays a multiple of 8.
LEMMA TimerStep ==
  ASSUME TypeOK, millis % 8 = 0, millis < HomeEnd, AdvanceTimer
  PROVE  /\ millis' = millis + 8
         /\ millis' \in 0..HomeEnd
         /\ millis' % 8 = 0
  BY TickAssumption
  DEF TypeOK, AdvanceTimer, HomeEnd, MILLIS_UNTIL_HOME, MILLIS_HOME_PRESSED

\* Every path of the receive interrupt preserves the invariant.
LEMMA ISRPreserves ==
  ASSUME IInv, NEW b \in Byte, NEW r, ISR(b, r)
  PROVE  IInv'
<1>. USE DEF IInv
<1>1. CASE RxFill(b, r)
  <2>1. input' \in Seq(Byte) /\ Len(input') <= PayloadLen
    BY <1>1, PayloadAssumption DEF RxFill, TypeOK
  <2>2. crc' \in Byte
    BY <1>1, CrcAssumption DEF RxFill, TypeOK
  <2>3. FrameIsConsistent'
    BY <1>1, CrcOfSteps DEF RxFill, TypeOK, FrameIsConsistent
  <2>. QED
    BY <1>1, <2>1, <2>2, <2>3 DEF ISR, RxFill, KeepReports, TypeOK, HomeOnlyInWindow, Shown
<1>2. CASE RxAccept(b, r)
  <2>1. controllerReport' \in Report
    BY <1>2, FullBufferIsPayload DEF RxAccept
  <2>2. millis' \in 0..HomeEnd
    BY <1>2, TickAssumption DEF RxAccept, HomeEnd, MILLIS_UNTIL_HOME, MILLIS_HOME_PRESSED
  <2>3. input' \in Seq(Byte) /\ Len(input') <= PayloadLen /\ crc' \in Byte
    BY <1>2, CrcAssumption, EmptyBuffer DEF RxAccept, ClearInput
  <2>4. HomeOnlyInWindow'
    BY <1>2 DEF RxAccept, HomeOnlyInWindow, Shown
  <2>5. FrameIsConsistent'
    BY <1>2, CrcOfSteps DEF RxAccept, ClearInput, FrameIsConsistent
  <2>. QED
    BY <1>2, <2>1, <2>2, <2>3, <2>4, <2>5 DEF ISR, RxAccept, ClearInput, TypeOK
<1>3. CASE RxResync(b, r) \/ RxNack(b, r)
  <2>1. input' \in Seq(Byte) /\ Len(input') <= PayloadLen /\ crc' \in Byte
    BY <1>3, CrcAssumption, EmptyBuffer DEF RxResync, RxNack, ClearInput
  <2>2. FrameIsConsistent'
    BY <1>3, CrcOfSteps DEF RxResync, RxNack, ClearInput, FrameIsConsistent
  <2>. QED
    BY <1>3, <2>1, <2>2
    DEF ISR, RxResync, RxNack, ClearInput, KeepReports, TypeOK, SyncState, HomeOnlyInWindow, Shown
<1>4. CASE RxSync1(b, r) \/ RxSync2(b, r) \/ RxStart(b, r) \/ RxDesync(b, r)
  BY <1>4
  DEF ISR, RxSync1, RxSync2, RxStart, RxDesync, KeepReports, TypeOK, SyncState,
      HomeOnlyInWindow, Shown, FrameIsConsistent
<1>. QED
  BY <1>1, <1>2, <1>3, <1>4 DEF ISR

\* CALLBACK_beforeSend preserves the invariant.
LEMMA BeforeSendPreserves ==
  ASSUME IInv, CALLBACK_beforeSend
  PROVE  IInv'
<1>. USE DEF IInv
<1>0. FrameIsConsistent'
  BY DEF CALLBACK_beforeSend, rxVars, FrameIsConsistent
<1>1. CASE SendFresh
  <2>1. millis < HomeEnd
    BY <1>1, TickAssumption
    DEF SendFresh, HomeEnd, MILLIS_UNTIL_PAUSE, MILLIS_UNTIL_HOME, MILLIS_HOME_PRESSED, TypeOK
  <2>2. millis' \in 0..HomeEnd /\ millis' % 8 = 0
    BY <1>1, <2>1, TimerStep DEF SendFresh
  <2>. QED
    BY <1>0, <1>1, <2>2 DEF CALLBACK_beforeSend, SendFresh, rxVars, TypeOK, HomeOnlyInWindow, Shown
<1>2. CASE SendHome
  <2>1. millis' = millis + 8 /\ millis' \in 0..HomeEnd /\ millis' % 8 = 0
    BY <1>2, TimerStep DEF SendHome
  <2>2. millis' > MILLIS_UNTIL_HOME
    BY <1>2, <2>1, TickAssumption DEF SendHome, MILLIS_UNTIL_HOME, TypeOK
  <2>. QED
    BY <1>0, <1>2, <2>1, <2>2, TickAssumption
    DEF CALLBACK_beforeSend, SendHome, rxVars, TypeOK, HomeOnlyInWindow, Shown,
        HomeEnd, MILLIS_UNTIL_HOME, MILLIS_HOME_PRESSED
<1>3. CASE SendEmpty
  <2>1. millis' \in 0..HomeEnd /\ millis' % 8 = 0
    BY <1>3, TimerStep DEF SendEmpty, TypeOK
  <2>. QED
    BY <1>0, <1>3, <2>1 DEF CALLBACK_beforeSend, SendEmpty, rxVars, TypeOK, HomeOnlyInWindow, Shown
<1>4. CASE SendUnsynced
  BY <1>0, <1>4 DEF CALLBACK_beforeSend, SendUnsynced, rxVars, TypeOK, HomeOnlyInWindow, Shown
<1>. QED
  BY <1>1, <1>2, <1>3, <1>4 DEF CALLBACK_beforeSend

\* So does every step.
LEMMA NextPreserves == IInv /\ [Next]_vars => IInv'
<1>. SUFFICES ASSUME IInv, [Next]_vars PROVE IInv'
  OBVIOUS
<1>1. CASE CALLBACK_beforeSend
  BY <1>1, BeforeSendPreserves
<1>2. CASE \E b \in Byte, r \in Response \cup {NoResponse} : ISR(b, r)
  BY <1>2, ISRPreserves
<1>3. CASE UNCHANGED vars
  BY <1>3 DEF vars, IInv, TypeOK, HomeOnlyInWindow, Shown, FrameIsConsistent
<1>. QED
  BY <1>1, <1>2, <1>3 DEF Next

\* The invariant holds in every reachable state.
THEOREM Invariance == Spec => []IInv
  BY InitEstablishes, NextPreserves, PTL DEF Spec

\* Type correctness; in particular millis stays within HomeEnd, so the uint16_t
\* addition of CALLBACK_beforeSend never wraps.
THEOREM TypeCorrectness == Spec => []TypeOK
  BY Invariance, PTL DEF IInv

\* HOME is down in the selected report only inside the failsafe's window,
\* whatever bytes the UART delivers.
THEOREM HomeConfined == Spec => []HomeOnlyInWindow
  BY Invariance, PTL DEF IInv

\* Every frame is judged by the checksum of exactly the bytes it is decoded from,
\* and the first byte after a handshake is the first byte of a frame, whatever
\* sequence of bytes came before.
THEOREM FramesAreConsistent == Spec => []FrameIsConsistent
  BY Invariance, PTL DEF IInv

-----------------------------------------------------------------------------
(***************************************************************************)
(* Joystick implements the failsafe timeline.                              *)
(***************************************************************************)

\* The initial state is an initial state of the timeline.
LEMMA TimelineInit == Init => FS!FSInit
  BY DEF Init, FS!FSInit, Shown

\* A path of the interrupt is a packet, a change of the link, or invisible.
LEMMA TimelineISR ==
  ASSUME IInv, NEW b \in Byte, NEW r, ISR(b, r)
  PROVE  [FS!FSNext]_FS!fsVars
<1>. USE DEF FS!FSNext, FS!fsVars
<1>1. CASE RxFill(b, r) \/ RxNack(b, r)
  BY <1>1 DEF RxFill, RxNack, KeepReports, Shown
<1>2. CASE RxAccept(b, r)
  BY <1>2 DEF RxAccept, Shown, FS!Packet
<1>3. CASE RxResync(b, r)
  BY <1>3 DEF RxResync, KeepReports, Shown, FS!ChangeLink
<1>4. CASE RxSync2(b, r)
  BY <1>4 DEF RxSync2, KeepReports, Shown, FS!ChangeLink
<1>5. CASE RxSync1(b, r) \/ RxStart(b, r) \/ RxDesync(b, r)
  BY <1>5 DEF RxSync1, RxStart, RxDesync, KeepReports, Shown
<1>. QED
  BY <1>1, <1>2, <1>3, <1>4, <1>5 DEF ISR

\* CALLBACK_beforeSend is one report on the timeline.
LEMMA TimelineBeforeSend ==
  ASSUME IInv, CALLBACK_beforeSend
  PROVE  FS!FSNext
<1>. DEFINE age == millis \div 8
<1>0. /\ millis \in Nat /\ age \in Nat /\ millis = 8 * age
      /\ PauseTicks \in Nat /\ HomeTicks \in Nat /\ PressedTicks \in Nat
      /\ PauseTicks < HomeTicks
  BY TickAssumption DEF IInv, TypeOK
<1>u. UNCHANGED state
  BY DEF CALLBACK_beforeSend, rxVars
<1>1. CASE SendUnsynced
  BY <1>1, <1>u DEF SendUnsynced, Shown, FS!FSNext, FS!SendUnlinked
<1>2. ASSUME state = "SYNCED", millis < HomeEnd, AdvanceTimer
      PROVE  age < HomeTicks + PressedTicks /\ (millis \div 8)' = age + 1
  <2>1. millis' = millis + 8
    BY <1>2, TimerStep DEF IInv
  <2>. QED
    BY <1>0, <1>2, <2>1 DEF HomeEnd, MILLIS_UNTIL_HOME, MILLIS_HOME_PRESSED
<1>3. CASE SendFresh
  <2>1. age < PauseTicks /\ millis < HomeEnd
    BY <1>0, <1>3 DEF SendFresh, MILLIS_UNTIL_PAUSE, MILLIS_UNTIL_HOME, MILLIS_HOME_PRESSED, HomeEnd
  <2>2. FS!Timeline(age) = "packet"
    BY <2>1, <1>0 DEF FS!Timeline
  <2>3. Shown' = "packet"
    BY <1>3 DEF SendFresh, Shown
  <2>. QED
    BY <1>2, <1>3, <1>u, <2>1, <2>2, <2>3 DEF SendFresh, FS!FSNext, FS!SendReport
<1>4. CASE SendHome
  <2>1. age >= HomeTicks /\ age < HomeTicks + PressedTicks
    BY <1>0, <1>4 DEF SendHome, MILLIS_UNTIL_HOME, MILLIS_HOME_PRESSED, HomeEnd
  <2>2. FS!Timeline(age) = "home"
    BY <2>1, <1>0 DEF FS!Timeline
  <2>3. Shown' = "home"
    BY <1>4 DEF SendHome, Shown
  <2>. QED
    BY <1>2, <1>4, <1>u, <2>1, <2>2, <2>3 DEF SendHome, FS!FSNext, FS!SendReport
<1>5. CASE SendEmpty
  <2>1. /\ ~(age < PauseTicks)
        /\ ~(age >= HomeTicks /\ age < HomeTicks + PressedTicks)
    BY <1>0, <1>5
    DEF SendEmpty, MILLIS_UNTIL_PAUSE, MILLIS_UNTIL_HOME, MILLIS_HOME_PRESSED, HomeEnd
  <2>2. FS!Timeline(age) = "empty"
    BY <2>1, <1>0 DEF FS!Timeline
  <2>3. Shown' = "empty"
    BY <1>5 DEF SendEmpty, Shown
  <2>4. CASE millis < HomeEnd
    BY <1>2, <1>5, <1>u, <2>2, <2>3, <2>4 DEF SendEmpty, FS!FSNext, FS!SendReport
  <2>5. CASE ~(millis < HomeEnd)
    <3>1. ~(age < HomeTicks + PressedTicks)
      BY <1>0, <2>5 DEF MILLIS_UNTIL_HOME, MILLIS_HOME_PRESSED, HomeEnd
    <3>. QED
      BY <1>5, <1>u, <2>2, <2>3, <2>5, <3>1 DEF SendEmpty, FS!FSNext, FS!SendReport
  <2>. QED
    BY <2>4, <2>5
<1>. QED
  BY <1>1, <1>3, <1>4, <1>5 DEF CALLBACK_beforeSend

\* For every stream of bytes and polls and for every threshold, the reports
\* follow the timeline that the comment at Joystick.c:46-51 draws.
THEOREM TimelineImplemented == Spec => FollowsTimeline
<1>1. IInv /\ [Next]_vars => [FS!FSNext]_FS!fsVars
  <2>. SUFFICES ASSUME IInv, [Next]_vars PROVE [FS!FSNext]_FS!fsVars
    OBVIOUS
  <2>1. CASE CALLBACK_beforeSend
    BY <2>1, TimelineBeforeSend
  <2>2. CASE \E b \in Byte, r \in Response \cup {NoResponse} : ISR(b, r)
    BY <2>2, TimelineISR
  <2>3. CASE UNCHANGED vars
    BY <2>3 DEF vars, FS!fsVars, Shown
  <2>. QED
    BY <2>1, <2>2, <2>3 DEF Next
<1>. QED
  BY TimelineInit, Invariance, <1>1, PTL DEF Spec, FollowsTimeline, FS!FSSpec
=============================================================================
