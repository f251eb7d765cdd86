--------------------------- MODULE FirmwareProofs ---------------------------
(***************************************************************************)
(* Proofs about the firmware of the board: its main loop with the USB reports *)
(* and the failsafe (Firmware) and the flash it answers from (SpiFlash).   *)
(***************************************************************************)
EXTENDS Firmware, SpiFlash, JoystickProofs

-----------------------------------------------------------------------------
(***************************************************************************)
(* The main loop and the response manager, for any set of subcommands, any *)
(* width of the counter and any number of bus resets.                      *)
(***************************************************************************)

\* Both halves of a packet come from the same report, and agree if it is the
\* idle one.
Matching(p) ==
  /\ p.first.of = p.second.of
  /\ p.first.of = "idle" => p.first = p.second

\* What the variables of the response manager say at each point of the loop: a
\* copy is made only while no packet waits, send_IN_report writes only a packet
\* that is ready, and the counter is that of the last packet prepared.
Prepared ==
  /\ Copying => /\ ~nextPacketReady
                /\ replyBuffer.counter = counter
                /\ replyBuffer.first.of = source
                /\ source = "idle" => replyBuffer.first = HalfOf("idle")
  /\ pc = "wait" => nextPacketReady
  /\ nextPacketReady =>
       /\ replyBuffer.id \in CountedId => replyBuffer.counter = counter
       /\ Matching(replyBuffer)

FInv ==
  /\ IInv /\ FwTypeOK
  /\ Prepared
  /\ NoCounterIsSkipped
  /\ HalvesBelongTogether

-----------------------------------------------------------------------------
(***************************************************************************)
(* Firmware is Joystick with more variables.                               *)
(***************************************************************************)

\* A step of the firmware is a step of its interrupt or of its failsafe, or
\* leaves their variables alone.
LEMMA FwStepIsJoystickStep == [FwNext]_fwVars => [Next]_vars
<1>. SUFFICES ASSUME [FwNext]_fwVars PROVE [Next]_vars
  OBVIOUS
<1>1. CASE BeforeSend
  BY <1>1 DEF BeforeSend, Next
<1>2. CASE UartInterrupt
  BY <1>2 DEF UartInterrupt, Next
<1>3. CASE ConsolePolls \/ BusReset \/ UNCHANGED fwVars
  BY <1>3 DEF ConsolePolls, BusReset, fwVars
<1>4. CASE MainLoop /\ ~BeforeSend
  BY <1>4
  DEF MainLoop, NotConfigured, NothingToAnswer, AnswerPlain, AnswerWithReport, AnswerCopied,
      NoPacketWanted, PrepareStandard, StandardCopied, WritePacket, UsbTask
<1>. QED
  BY <1>1, <1>2, <1>3, <1>4 DEF FwNext

\* The firmware implements the specification of its interrupt and failsafe.
THEOREM FwImplementsJoystick == FwSpec => Spec
<1>1. FwInit => Init
  BY DEF FwInit
<1>. QED
  BY <1>1, FwStepIsJoystickStep, PTL DEF FwSpec, Spec

-----------------------------------------------------------------------------
(***************************************************************************)
(* Packets.                                                                *)
(***************************************************************************)

\* Half of a report that exists.
LEMMA HalfOfType ==
  ASSUME TypeOK, NEW src \in {"controller", "idle"}
  PROVE  HalfOf(src) \in Half
  BY DEF TypeOK, HalfOf, Half, Report

LEMMA PlainReplyType ==
  /\ PlainReply \in AnyPacket
  /\ PlainReply.id \notin CountedId
  /\ Matching(PlainReply)
<1>1. NoHalf \in Half
  BY DEF NoHalf, Half, Report
<1>2. 0 \in 0..(CounterSize - 1)
  BY CounterAssumption
<1>. QED
  BY <1>1, <1>2 DEF PlainReply, Packet, AnyPacket, CountedId, Matching, NoHalf

\* The uint8_t addition stays within the counter.
LEMMA CounterStep == \A c \in 0..(CounterSize - 1) : (c + 3) % CounterSize \in 0..(CounterSize - 1)
  BY CounterAssumption

\* What the first half of a copy leaves behind.
LEMMA CopyFirstFacts ==
  ASSUME FwTypeOK, NEW id \in CountedId, NEW about \in Subcommand \cup {NoSubcommand},
         CopyFirst(id, about)
  PROVE  /\ counter' \in 0..(CounterSize - 1)
         /\ source' \in {"controller", "idle"}
         /\ replyBuffer' \in AnyPacket
         /\ replyBuffer'.counter = counter'
         /\ replyBuffer'.first.of = source'
         /\ source' = "idle" => replyBuffer'.first = HalfOf("idle")
         /\ nextPacketReady' = nextPacketReady
<1>1. counter' \in 0..(CounterSize - 1)
  BY CounterStep DEF CopyFirst, FwTypeOK
<1>2. selectedReport \in {"controller", "idle"}
  BY DEF FwTypeOK, TypeOK
<1>3. HalfOf(selectedReport) \in Half /\ HalfOf(selectedReport).of = selectedReport
  BY <1>2, HalfOfType DEF FwTypeOK, HalfOf
<1>4. NoHalf \in Half
  BY DEF NoHalf, Half, Report
<1>5. replyBuffer' = Packet(id, about, counter', HalfOf(selectedReport), NoHalf)
  BY DEF CopyFirst
<1>. QED
  BY <1>1, <1>2, <1>3, <1>4, <1>5 DEF CopyFirst, Packet, AnyPacket

\* What the second half of a copy completes.
LEMMA CopySecondFacts ==
  ASSUME FwTypeOK, Prepared, Copying, CopySecond
  PROVE  /\ replyBuffer' \in AnyPacket
         /\ replyBuffer'.counter = counter
         /\ Matching(replyBuffer')
         /\ nextPacketReady' = TRUE
         /\ UNCHANGED <<counter, source>>
<1>1. HalfOf(source) \in Half /\ HalfOf(source).of = source
  BY HalfOfType DEF FwTypeOK, HalfOf
<1>2. replyBuffer' = [replyBuffer EXCEPT !.second = HalfOf(source)] /\ replyBuffer \in AnyPacket
  BY DEF CopySecond, FwTypeOK
<1>3. /\ replyBuffer' \in AnyPacket
      /\ replyBuffer'.counter = replyBuffer.counter
      /\ replyBuffer'.first = replyBuffer.first
      /\ replyBuffer'.second = HalfOf(source)
  BY <1>1, <1>2 DEF AnyPacket
<1>. QED
  BY <1>1, <1>3 DEF CopySecond, Prepared, Matching

-----------------------------------------------------------------------------
(***************************************************************************)
(* The inductive invariant.                                                *)
(***************************************************************************)

\* main() establishes the invariant.
LEMMA FwInitEstablishes == FwInit => FInv
<1>. SUFFICES ASSUME FwInit PROVE FInv
  OBVIOUS
<1>1. IInv
  BY InitEstablishes DEF FwInit
<1>2. FwTypeOK
  <2>1. replyBuffer \in AnyPacket /\ wire \in AnyPacket
    BY PlainReplyType DEF FwInit
  <2>2. counter \in 0..(CounterSize - 1) /\ busResets \in 0..MaxBusResets
    BY CounterAssumption, BusResetAssumption DEF FwInit
  <2>. QED
    BY <1>1, <2>1, <2>2 DEF FwInit, FwTypeOK, IInv, MainPc
<1>3. Prepared
  BY PlainReplyType DEF FwInit, Prepared, Copying
<1>4. NoCounterIsSkipped /\ HalvesBelongTogether
  BY PlainReplyType DEF FwInit, NoCounterIsSkipped, HalvesBelongTogether, Matching
<1>. QED
  BY <1>1, <1>2, <1>3, <1>4 DEF FInv

\* Steps that leave the response manager and the wire alone, and do not go to a
\* point of the loop about which Prepared says something.
LEMMA QuietStepPreserves ==
  ASSUME FInv, IInv',
         UNCHANGED <<responseVars, wire>>,
         repeats' \in Nat, homes' \in Nat,
         configured' \in BOOLEAN, inReady' \in BOOLEAN, busResets' \in 0..MaxBusResets,
         pc' \in MainPc,
         pc' = "wait" => nextPacketReady,
         pc' # pc => ~Copying /\ ~Copying',
         Copying => idleHome' = idleHome
  PROVE  FInv'
<1>. USE DEF FInv, responseVars
<1>1. FwTypeOK'
  BY DEF FwTypeOK, IInv
<1>2. Copying' = Copying
  BY DEF Copying
<1>3. Prepared'
  <2>1. Copying => HalfOf("idle")' = HalfOf("idle")
    BY DEF HalfOf
  <2>. QED
    BY <1>2, <2>1 DEF Prepared, Matching
<1>4. NoCounterIsSkipped'
  BY <1>2 DEF NoCounterIsSkipped
<1>5. HalvesBelongTogether'
  BY DEF HalvesBelongTogether
<1>. QED
  BY <1>1, <1>3, <1>4, <1>5

\* A copy begins.
LEMMA CopyBeginsPreserves ==
  ASSUME FInv, IInv', ~nextPacketReady,
         NEW id \in CountedId, NEW about \in Subcommand \cup {NoSubcommand},
         CopyFirst(id, about),
         pc' \in {"outcopy", "incopy"},
         UNCHANGED <<vars, usbVars, wireVars>>
  PROVE  FInv'
<1>. USE DEF FInv
<1>1. /\ counter' \in 0..(CounterSize - 1)
      /\ source' \in {"controller", "idle"}
      /\ replyBuffer' \in AnyPacket
      /\ replyBuffer'.counter = counter'
      /\ replyBuffer'.first.of = source'
      /\ source' = "idle" => replyBuffer'.first = HalfOf("idle")
      /\ nextPacketReady' = nextPacketReady
  BY CopyFirstFacts
<1>2. FwTypeOK'
  BY <1>1 DEF FwTypeOK, IInv, MainPc, usbVars, wireVars
<1>3. HalfOf("idle")' = HalfOf("idle")
  BY DEF HalfOf, vars
<1>4. Prepared'
  BY <1>1, <1>3 DEF Prepared, Copying
<1>5. NoCounterIsSkipped' /\ HalvesBelongTogether'
  BY DEF NoCounterIsSkipped, Copying, HalvesBelongTogether, wireVars
<1>. QED
  BY <1>2, <1>4, <1>5

\* A copy ends.
LEMMA CopyEndsPreserves ==
  ASSUME FInv, IInv', Copying, CopySecond,
         pc' \in {"in", "wait"},
         UNCHANGED <<vars, usbVars, wireVars>>
  PROVE  FInv'
<1>. USE DEF FInv
<1>1. /\ replyBuffer' \in AnyPacket
      /\ replyBuffer'.counter = counter
      /\ Matching(replyBuffer')
      /\ nextPacketReady' = TRUE
      /\ UNCHANGED <<counter, source>>
  BY CopySecondFacts
<1>2. FwTypeOK'
  BY <1>1 DEF FwTypeOK, IInv, MainPc, usbVars, wireVars
<1>3. Prepared'
  BY <1>1 DEF Prepared, Copying, Matching
<1>4. NoCounterIsSkipped' /\ HalvesBelongTogether'
  BY <1>1 DEF NoCounterIsSkipped, HalvesBelongTogether, wireVars
<1>. QED
  BY <1>2, <1>3, <1>4

\* A packet without a report is prepared.
LEMMA PlainPreserves ==
  ASSUME FInv, IInv', AnswerPlain
  PROVE  FInv'
<1>. USE DEF FInv, AnswerPlain, PreparePlain
<1>1. FwTypeOK'
  <2>1. replyBuffer' \in AnyPacket
    BY PlainReplyType DEF FwTypeOK
  <2>. QED
    BY <2>1 DEF FwTypeOK, IInv, MainPc, usbVars, wireVars
<1>2. Prepared'
  BY PlainReplyType DEF Prepared, Copying, Matching
<1>3. NoCounterIsSkipped' /\ HalvesBelongTogether'
  BY DEF NoCounterIsSkipped, HalvesBelongTogether, wireVars
<1>. QED
  BY <1>1, <1>2, <1>3

\* The packet that is ready goes out.
LEMMA WritePreserves ==
  ASSUME FInv, IInv', WritePacket
  PROVE  FInv'
<1>. USE DEF FInv, WritePacket
<1>1. FwTypeOK'
  <2>1. repeats' \in Nat /\ homes' \in Nat
    BY DEF FwTypeOK
  <2>2. TypeOK' /\ pc' \in MainPc
    BY DEF IInv, MainPc
  <2>. QED
    BY <2>1, <2>2 DEF FwTypeOK
<1>2. Prepared'
  BY DEF Prepared, Copying
<1>3. NoCounterIsSkipped'
  BY DEF NoCounterIsSkipped, Prepared
<1>4. HalvesBelongTogether'
  BY DEF HalvesBelongTogether, Prepared, Matching
<1>. QED
  BY <1>1, <1>2, <1>3, <1>4

\* Every step preserves the invariant.
LEMMA FwNextPreserves == FInv /\ [FwNext]_fwVars => FInv'
<1>. SUFFICES ASSUME FInv, [FwNext]_fwVars PROVE FInv'
  OBVIOUS
<1>0. IInv'
  BY FwStepIsJoystickStep, NextPreserves DEF FInv
<1>t. /\ repeats \in Nat /\ homes \in Nat /\ configured \in BOOLEAN /\ inReady \in BOOLEAN
      /\ busResets \in 0..MaxBusResets /\ pc \in MainPc
      /\ pc = "wait" => nextPacketReady
  BY DEF FInv, FwTypeOK, Prepared
<1>1. CASE NotConfigured \/ NothingToAnswer \/ NoPacketWanted \/ UsbTask
  BY <1>0, <1>1, <1>t, QuietStepPreserves
  DEF NotConfigured, NothingToAnswer, NoPacketWanted, UsbTask, Copying, MainPc,
      vars, usbVars, wireVars
<1>2. CASE BeforeSend
  BY <1>0, <1>2, <1>t, QuietStepPreserves DEF BeforeSend, Copying, MainPc, usbVars, wireVars
<1>3. CASE AnswerPlain
  BY <1>0, <1>3, PlainPreserves
<1>4. CASE AnswerWithReport
  <2>1. CASE nextPacketReady
    BY <1>0, <1>4, <1>t, <2>1, QuietStepPreserves
    DEF AnswerWithReport, Copying, MainPc, vars, usbVars, wireVars
  <2>2. CASE ~nextPacketReady
    <3>1. \E id \in CountedId, about \in Subcommand \cup {NoSubcommand} : CopyFirst(id, about)
      BY <1>4, <2>2 DEF AnswerWithReport, CountedId
    <3>. QED
      BY <1>0, <1>4, <2>2, <3>1, CopyBeginsPreserves DEF AnswerWithReport
  <2>. QED
    BY <2>1, <2>2
<1>5. CASE PrepareStandard
  <2>1. CASE nextPacketReady
    BY <1>0, <1>5, <1>t, <2>1, QuietStepPreserves
    DEF PrepareStandard, Copying, MainPc, vars, usbVars, wireVars
  <2>2. CASE ~nextPacketReady
    <3>1. "30" \in CountedId /\ CopyFirst("30", NoSubcommand)
      BY <1>5, <2>2 DEF PrepareStandard, CountedId
    <3>. QED
      BY <1>0, <1>5, <2>2, <3>1, CopyBeginsPreserves DEF PrepareStandard
  <2>. QED
    BY <2>1, <2>2
<1>6. CASE AnswerCopied \/ StandardCopied
  BY <1>0, <1>6, CopyEndsPreserves DEF AnswerCopied, StandardCopied, Copying
<1>7. CASE WritePacket
  BY <1>0, <1>7, WritePreserves
<1>8. CASE UartInterrupt
  <2>1. idleHome' = idleHome
    BY <1>8
    DEF UartInterrupt, ISR, RxFill, RxAccept, RxResync, RxNack, RxSync1, RxSync2, RxStart,
        RxDesync, KeepReports
  <2>2. repeats' \in Nat /\ homes' \in Nat
    BY <1>8, <1>t DEF UartInterrupt
  <2>. QED
    BY <1>0, <1>8, <1>t, <2>1, <2>2, QuietStepPreserves DEF UartInterrupt, usbVars, wireVars
<1>9. CASE ConsolePolls \/ BusReset
  <2>1. configured' \in BOOLEAN /\ inReady' \in BOOLEAN
    BY <1>9, <1>t DEF ConsolePolls, BusReset
  <2>2. busResets' \in 0..MaxBusResets
    <3>1. busResets' = busResets \/ (busResets < MaxBusResets /\ busResets' = busResets + 1)
      BY <1>9 DEF ConsolePolls, BusReset
    <3>. QED
      BY <1>t, <3>1, BusResetAssumption
  <2>3. UNCHANGED <<idleHome, pc, responseVars, wire, repeats, homes>>
    BY <1>9 DEF ConsolePolls, BusReset, vars, wireVars
  <2>. QED
    BY <1>0, <1>t, <2>1, <2>2, <2>3, QuietStepPreserves
<1>10. CASE UNCHANGED fwVars
  BY <1>0, <1>10, <1>t, QuietStepPreserves DEF fwVars, vars, usbVars, wireVars
<1>. QED
  BY <1>1, <1>2, <1>3, <1>4, <1>5, <1>6, <1>7, <1>8, <1>9, <1>10 DEF FwNext, MainLoop

\* The invariant holds in every reachable state.
THEOREM FwInvariance == FwSpec => []FInv
  BY FwInitEstablishes, FwNextPreserves, PTL DEF FwSpec

\* Type correctness; in particular the counter stays within its width.
THEOREM FwTypeCorrectness == FwSpec => []FwTypeOK
  BY FwInvariance, PTL DEF FInv

\* The reports that send_IN_report has to choose from follow the timeline of the
\* failsafe in the whole firmware, OUT reports and bus resets included.
THEOREM FwFollowsTimeline == FwSpec => FollowsTimeline
  BY FwImplementsJoystick, TimelineImplemented, PTL

\* The packet counter names the packets on the wire without a gap, however OUT
\* reports and IN packets interleave and whatever the counter's width.
THEOREM CounterCounts == FwSpec => []NoCounterIsSkipped
  BY FwInvariance, PTL DEF FInv

\* The interrupt may redirect selectedReport in the middle of a memcpy, and still
\* no packet mixes the idle report with the controller's, and none has half of a
\* failsafe report.
THEOREM HalvesMatch == FwSpec => []HalvesBelongTogether
  BY FwInvariance, PTL DEF FInv

\* A packet that was prepared stays in replyBuffer until send_IN_report has
\* written it.
THEOREM PreparedIsSent == FwSpec => PreparedPacketIsSent
<1>. DEFINE Kept == nextPacketReady =>
                      \/ nextPacketReady' /\ replyBuffer' = replyBuffer
                      \/ wire' = replyBuffer /\ pc = "wait"
<1>1. FInv /\ [FwNext]_fwVars => [Kept]_fwVars
  <2>. SUFFICES ASSUME FInv, FwNext, nextPacketReady
                PROVE  \/ nextPacketReady' /\ replyBuffer' = replyBuffer
                       \/ wire' = replyBuffer /\ pc = "wait"
    OBVIOUS
  <2>1. ~Copying
    BY DEF FInv, Prepared
  <2>2. CASE WritePacket
    BY <2>2 DEF WritePacket
  <2>3. CASE AnswerPlain
    BY <2>3 DEF AnswerPlain, PreparePlain
  <2>4. CASE MainLoop /\ ~WritePacket /\ ~AnswerPlain
    BY <2>1, <2>4
    DEF MainLoop, NotConfigured, NothingToAnswer, AnswerWithReport, AnswerCopied, NoPacketWanted,
        BeforeSend, PrepareStandard, StandardCopied, UsbTask, Copying, responseVars
  <2>5. CASE UartInterrupt \/ ConsolePolls \/ BusReset
    BY <2>5 DEF UartInterrupt, ConsolePolls, BusReset, responseVars
  <2>. QED
    BY <2>2, <2>3, <2>4, <2>5 DEF FwNext
<1>. QED
  BY FwInvariance, <1>1, PTL DEF FwSpec, PreparedPacketIsSent

-----------------------------------------------------------------------------
(***************************************************************************)
(* How long an input stays on the wire.  Every packet has one call of      *)
(* before_send, which advances the timer, so packets can be counted        *)
(* against its age; what is selected, and what is already copied into      *)
(* replyBuffer, says how many more of a kind may follow.                   *)
(***************************************************************************)
Age == millis \div 8

\* before_send was called for the packet that goes out next.
Chosen == pc \in {"prepare", "incopy", "wait"}

\* The packet built or waiting has the controller's report, or HOME.
Held == (nextPacketReady \/ Copying) /\ replyBuffer.first.of = "controller"
HomeHeld == (nextPacketReady \/ Copying) /\ replyBuffer.first.home

\* While the controller's report is selected there is a packet of it for each tick
\* of the timer, and one.  Once it is not, at most a copy made before is left, and
\* a link that synchronised again in time starts from nothing.
RepeatsLeft ==
  /\ (selectedReport = "controller" /\ Chosen) => (repeats <= Age /\ repeats <= PauseTicks)
  /\ (selectedReport = "controller" /\ ~Chosen) =>
       (repeats <= Age + 1 /\ repeats <= PauseTicks + 1)
  /\ selectedReport = "idle" =>
       /\ repeats <= PauseTicks + 2
       /\ Held => (Chosen /\ repeats <= PauseTicks + 1)
       /\ (state = "SYNCED" /\ Age < PauseTicks) =>
            (repeats <= 1 /\ (Held => repeats = 0))

InWindow == state = "SYNCED" /\ HomeTicks <= Age /\ Age < HomeTicks + PressedTicks

\* The same for HOME, whose packets are counted from the beginning of its window.
HomesLeft ==
  /\ Shown = "home" => homes + HomeTicks <= Age
  /\ (Shown = "home" /\ Chosen) => homes + HomeTicks + 1 <= Age
  /\ Shown # "home" =>
       /\ homes <= PressedTicks + 1
       /\ HomeHeld => (homes <= PressedTicks /\ Age # HomeTicks /\ (~Chosen => Age = 0))
       /\ (InWindow /\ ~Chosen) => homes + HomeTicks <= Age
       /\ (InWindow /\ Chosen /\ HomeHeld) => homes + HomeTicks + 1 <= Age

StaleInv == RepeatsLeft /\ HomesLeft

\* The timer in ticks, and its thresholds.
LEMMA AgeFacts ==
  ASSUME IInv
  PROVE  /\ Age \in Nat /\ Age <= HomeTicks + PressedTicks
         /\ millis < MILLIS_UNTIL_PAUSE <=> Age < PauseTicks
         /\ millis < MILLIS_UNTIL_HOME <=> Age < HomeTicks
         /\ millis > MILLIS_UNTIL_HOME <=> Age > HomeTicks
         /\ millis < HomeEnd <=> Age < HomeTicks + PressedTicks
  BY TickAssumption
  DEF IInv, TypeOK, Age, MILLIS_UNTIL_PAUSE, MILLIS_UNTIL_HOME, MILLIS_HOME_PRESSED, HomeEnd

\* A call of before_send advances the age by one while the timer runs.
LEMMA AgeStep ==
  ASSUME IInv
  PROVE  /\ (AdvanceTimer /\ millis < HomeEnd) => Age' = Age + 1
         /\ millis' = millis => Age' = Age
         /\ millis' = 0 => Age' = 0
<1>1. millis' = millis => Age' = Age
  BY DEF Age
<1>2. millis' = 0 => Age' = 0
  BY DEF Age
<1>3. (AdvanceTimer /\ millis < HomeEnd) => Age' = Age + 1
  <2>1. (AdvanceTimer /\ millis < HomeEnd) => millis' = millis + 8
    BY TickAssumption
    DEF IInv, TypeOK, AdvanceTimer, MILLIS_UNTIL_HOME, MILLIS_HOME_PRESSED, HomeEnd
  <2>2. millis \in Nat /\ millis % 8 = 0
    BY TickAssumption DEF IInv, TypeOK, MILLIS_UNTIL_HOME, MILLIS_HOME_PRESSED, HomeEnd
  <2>. QED
    BY <2>1, <2>2 DEF Age
<1>. QED
  BY <1>1, <1>2, <1>3

LEMMA StaleInit == FwInit => StaleInv
<1>. SUFFICES ASSUME FwInit PROVE StaleInv
  OBVIOUS
<1>1. Age = 0 /\ ~Chosen /\ ~Held /\ ~HomeHeld
  BY DEF FwInit, Init, Age, Chosen, Held, HomeHeld, PlainReply, Packet, NoHalf
<1>2. selectedReport = "idle" /\ Shown = "empty" /\ state # "SYNCED" /\ repeats = 0 /\ homes = 0
  BY DEF FwInit, Init, Shown
<1>. QED
  BY <1>1, <1>2, TickAssumption DEF StaleInv, RepeatsLeft, HomesLeft, InWindow

\* Steps that select nothing and send nothing, and either leave the packet or begin
\* one: a copy of the selected report, or a packet without any.
LEMMA StaleQuiet ==
  ASSUME FInv, StaleInv,
         UNCHANGED <<vars, repeats, homes>>, Chosen' = Chosen,
         Held' => (Held \/ selectedReport = "controller"),
         HomeHeld' => (HomeHeld \/ Shown = "home")
  PROVE  StaleInv'
<1>1. Age' = Age /\ Shown' = Shown /\ InWindow' = InWindow
  BY DEF vars, Age, Shown, InWindow
<1>2. RepeatsLeft'
  BY <1>1 DEF StaleInv, RepeatsLeft, vars
<1>3. HomesLeft'
  BY <1>1 DEF StaleInv, HomesLeft, vars
<1>. QED
  BY <1>2, <1>3 DEF StaleInv

\* The halves that CopyFirst and CopySecond store.
LEMMA StaleCopyFirst ==
  ASSUME FInv, ~nextPacketReady, NEW id, NEW about, CopyFirst(id, about), Copying'
  PROVE  (Held' => selectedReport = "controller") /\ (HomeHeld' => Shown = "home")
<1>1. replyBuffer'.first = HalfOf(selectedReport)
  BY DEF CopyFirst, Packet
<1>2. HalfOf(selectedReport).of = "controller" => selectedReport = "controller"
  BY DEF HalfOf
<1>3. HalfOf(selectedReport).home => (selectedReport = "idle" /\ idleHome)
  BY DEF HalfOf
<1>4. HalfOf(selectedReport).home => Shown = "home"
  BY <1>3 DEF Shown
<1>. QED
  BY <1>1, <1>2, <1>4 DEF Held, HomeHeld

LEMMA StaleCopySecond ==
  ASSUME FInv, Copying, CopySecond
  PROVE  Held' = Held /\ HomeHeld' = HomeHeld
<1>1. replyBuffer'.first = replyBuffer.first
  BY DEF CopySecond, FInv, FwTypeOK, AnyPacket
<1>2. nextPacketReady' = TRUE
  BY DEF CopySecond
<1>. QED
  BY <1>1, <1>2 DEF Held, HomeHeld

\* before_send: the age advances, or the controller's report is given up.
LEMMA StaleBeforeSend ==
  ASSUME FInv, StaleInv, BeforeSend
  PROVE  StaleInv'
<1>a. /\ Age \in Nat /\ Age <= HomeTicks + PressedTicks
      /\ millis < MILLIS_UNTIL_PAUSE <=> Age < PauseTicks
      /\ millis < MILLIS_UNTIL_HOME <=> Age < HomeTicks
      /\ millis > MILLIS_UNTIL_HOME <=> Age > HomeTicks
      /\ millis < HomeEnd <=> Age < HomeTicks + PressedTicks
  BY AgeFacts DEF FInv
<1>b. millis \in Nat /\ repeats \in Nat /\ homes \in Nat
      /\ MILLIS_UNTIL_PAUSE \in Nat /\ MILLIS_UNTIL_HOME \in Nat /\ HomeEnd \in Nat
  BY TickAssumption
  DEF FInv, IInv, TypeOK, FwTypeOK, MILLIS_UNTIL_PAUSE, MILLIS_UNTIL_HOME, MILLIS_HOME_PRESSED, HomeEnd
<1>c. ~Chosen /\ Chosen' /\ Held' = Held /\ HomeHeld' = HomeHeld
      /\ UNCHANGED <<state, repeats, homes>>
  BY DEF BeforeSend, CALLBACK_beforeSend, Chosen, Held, HomeHeld, Copying, responseVars, wireVars, rxVars
<1>d. selectedReport \in {"controller", "idle"} /\ (Shown = "home" => Age > HomeTicks)
      /\ (Shown = "home" => selectedReport = "idle")
  BY <1>a DEF FInv, IInv, TypeOK, HomeOnlyInWindow, Shown
<1>1. CASE SendFresh
  <2>1. Age < PauseTicks /\ Age' = Age + 1 /\ state = "SYNCED"
    BY <1>1, <1>a, AgeStep, TickAssumption DEF SendFresh, FInv
  <2>2. selectedReport' = "controller" /\ Shown' # "home"
    BY <1>1 DEF SendFresh, Shown
  <2>3. RepeatsLeft'
    BY <1>a, <1>b, <1>c, <1>d, <2>1, <2>2, TickAssumption DEF StaleInv, RepeatsLeft
  <2>4. HomesLeft'
    <3>1. Shown # "home"
      BY <1>a, <1>d, <2>1, TickAssumption
    <3>. QED
      BY <3>1, <1>a, <1>b, <1>c, <2>1, <2>2, TickAssumption DEF StaleInv, HomesLeft, InWindow
  <2>. QED
    BY <2>3, <2>4 DEF StaleInv
<1>2. CASE SendHome
  <2>1. Age >= HomeTicks /\ Age < HomeTicks + PressedTicks /\ Age' = Age + 1 /\ state = "SYNCED"
    BY <1>2, <1>a, <1>b, AgeStep, TickAssumption DEF SendHome, FInv
  <2>2. selectedReport' = "idle" /\ Shown' = "home"
    BY <1>2 DEF SendHome, Shown
  <2>3. RepeatsLeft'
    BY <1>a, <1>b, <1>c, <1>d, <2>1, <2>2, TickAssumption DEF StaleInv, RepeatsLeft
  <2>4. HomesLeft'
    BY <1>a, <1>b, <1>c, <2>1, <2>2, TickAssumption DEF StaleInv, HomesLeft, InWindow
  <2>. QED
    BY <2>3, <2>4 DEF StaleInv
<1>3. CASE SendEmpty
  <2>1. /\ Age >= PauseTicks /\ state = "SYNCED"
        /\ Age < HomeTicks \/ Age = HomeTicks + PressedTicks
        /\ Age < HomeTicks => Age' = Age + 1
        /\ Age = HomeTicks + PressedTicks => Age' = Age
    BY <1>3, <1>a, <1>b, AgeStep, TickAssumption DEF SendEmpty, FInv
  <2>2. selectedReport' = "idle" /\ Shown' = "empty"
    BY <1>3 DEF SendEmpty, Shown
  <2>3. RepeatsLeft'
    BY <1>a, <1>b, <1>c, <1>d, <2>1, <2>2, TickAssumption DEF StaleInv, RepeatsLeft
  <2>4. HomesLeft'
    BY <1>a, <1>b, <1>c, <1>d, <2>1, <2>2, TickAssumption DEF StaleInv, HomesLeft, InWindow
  <2>. QED
    BY <2>3, <2>4 DEF StaleInv
<1>4. CASE SendUnsynced
  <2>1. Age' = Age /\ state # "SYNCED"
    BY <1>4, AgeStep DEF SendUnsynced, FInv
  <2>2. selectedReport' = "idle" /\ Shown' = "empty"
    BY <1>4 DEF SendUnsynced, Shown
  <2>3. RepeatsLeft'
    BY <1>a, <1>b, <1>c, <1>d, <2>1, <2>2, TickAssumption DEF StaleInv, RepeatsLeft
  <2>4. HomesLeft'
    BY <1>a, <1>b, <1>c, <1>d, <2>1, <2>2, TickAssumption DEF StaleInv, HomesLeft, InWindow
  <2>. QED
    BY <2>3, <2>4 DEF StaleInv
<1>. QED
  BY <1>1, <1>2, <1>3, <1>4 DEF BeforeSend, CALLBACK_beforeSend

\* A packet goes out.
LEMMA StaleWrite ==
  ASSUME FInv, StaleInv, WritePacket
  PROVE  StaleInv'
<1>a. repeats \in Nat /\ homes \in Nat /\ Age \in Nat /\ Age <= HomeTicks + PressedTicks
      /\ selectedReport \in {"controller", "idle"}
  BY AgeFacts DEF FInv, IInv, TypeOK, FwTypeOK
<1>b. UNCHANGED <<Age, Shown, InWindow, selectedReport, state>>
  BY DEF WritePacket, vars, Age, Shown, InWindow
<1>c. Chosen /\ ~Chosen' /\ ~Held' /\ ~HomeHeld'
  BY DEF WritePacket, Chosen, Held, HomeHeld, Copying
<1>d. (Held /\ repeats' = repeats + 1) \/ (~Held /\ repeats' = repeats)
  BY DEF WritePacket, Held, FInv, Prepared
<1>e. (HomeHeld /\ homes' = homes + 1) \/ (~HomeHeld /\ homes' = 0)
  BY DEF WritePacket, HomeHeld, FInv, Prepared
<1>1. RepeatsLeft'
  BY <1>a, <1>b, <1>c, <1>d, TickAssumption DEF StaleInv, RepeatsLeft
<1>2. HomesLeft'
  BY <1>a, <1>b, <1>c, <1>e, TickAssumption DEF StaleInv, HomesLeft, InWindow
<1>. QED
  BY <1>1, <1>2 DEF StaleInv

\* The interrupt: a packet accepted, a handshake finished, or neither.
LEMMA StaleInterrupt ==
  ASSUME FInv, StaleInv, UartInterrupt
  PROVE  StaleInv'
<1>a. repeats \in Nat /\ homes \in Nat /\ Age \in Nat /\ Age <= HomeTicks + PressedTicks
      /\ selectedReport \in {"controller", "idle"}
      /\ (Shown = "home" => Age > HomeTicks)
  BY AgeFacts DEF FInv, IInv, TypeOK, FwTypeOK, HomeOnlyInWindow
<1>b. Chosen' = Chosen /\ Held' = Held /\ HomeHeld' = HomeHeld
  BY DEF UartInterrupt, Chosen, Held, HomeHeld, Copying, responseVars
<1>c. PICK b \in Byte, r \in Response \cup {NoResponse} :
        /\ ISR(b, r)
        /\ repeats' = IF r \in {RESP_UPDATE_ACK, RESP_SYNC_OK} THEN 0 ELSE repeats
        /\ homes' = IF r = RESP_SYNC_OK THEN 0 ELSE homes
  BY DEF UartInterrupt
<1>1. CASE RxAccept(b, r)
  <2>1. repeats' = 0 /\ homes' = homes
    BY <1>1, <1>c DEF RxAccept, RESP_UPDATE_ACK, RESP_SYNC_OK
  <2>2. Age' = 0 /\ selectedReport' = "controller" /\ Shown' = "packet"
    BY <1>1, AgeStep DEF RxAccept, Shown, FInv
  <2>3. RepeatsLeft'
    BY <2>1, <2>2, TickAssumption DEF RepeatsLeft
  <2>4. HomesLeft'
    BY <1>a, <1>b, <2>1, <2>2, TickAssumption DEF StaleInv, HomesLeft, InWindow
  <2>. QED
    BY <2>3, <2>4 DEF StaleInv
<1>2. CASE RxSync2(b, r)
  <2>1. repeats' = 0 /\ homes' = 0
    BY <1>2, <1>c DEF RxSync2, RESP_SYNC_OK
  <2>2. UNCHANGED <<Age, selectedReport, Shown>>
    BY <1>2 DEF RxSync2, KeepReports, Shown, Age
  <2>3. RepeatsLeft'
    BY <1>a, <1>b, <2>1, <2>2, TickAssumption DEF StaleInv, RepeatsLeft
  <2>4. HomesLeft'
    BY <1>a, <1>b, <2>1, <2>2, TickAssumption DEF StaleInv, HomesLeft, InWindow
  <2>. QED
    BY <2>3, <2>4 DEF StaleInv
<1>3. CASE ~RxAccept(b, r) /\ ~RxSync2(b, r)
  <2>1. r \notin {RESP_UPDATE_ACK, RESP_SYNC_OK} /\ KeepReports /\ (state' = "SYNCED" => state = "SYNCED")
    BY <1>3, <1>c
    DEF ISR, RxFill, RxResync, RxNack, RxSync1, RxStart, RxDesync, RESP_UPDATE_ACK, RESP_UPDATE_NACK,
        RESP_SYNC_START, RESP_SYNC_1, RESP_SYNC_OK, NoResponse
  <2>2. UNCHANGED <<repeats, homes>>
    BY <2>1, <1>c
  <2>3. UNCHANGED <<Age, selectedReport, Shown>>
    BY <2>1 DEF KeepReports, Shown, Age
  <2>4. RepeatsLeft'
    BY <1>b, <2>1, <2>2, <2>3 DEF StaleInv, RepeatsLeft
  <2>5. HomesLeft'
    BY <1>b, <2>1, <2>2, <2>3 DEF StaleInv, HomesLeft, InWindow
  <2>. QED
    BY <2>4, <2>5 DEF StaleInv
<1>. QED
  BY <1>1, <1>2, <1>3

LEMMA StaleNext == FInv /\ StaleInv /\ [FwNext]_fwVars => StaleInv'
<1>. SUFFICES ASSUME FInv, StaleInv, [FwNext]_fwVars PROVE StaleInv'
  OBVIOUS
<1>1. CASE NotConfigured \/ NothingToAnswer \/ NoPacketWanted \/ UsbTask
  BY <1>1, StaleQuiet
  DEF NotConfigured, NothingToAnswer, NoPacketWanted, UsbTask, Chosen, Held, HomeHeld, Copying,
      responseVars, wireVars
<1>2. CASE BeforeSend
  BY <1>2, StaleBeforeSend
<1>3. CASE AnswerPlain
  <2>1. /\ Held' => Held
        /\ HomeHeld' => HomeHeld
    BY <1>3 DEF AnswerPlain, PreparePlain, Held, HomeHeld, Copying, PlainReply, Packet, NoHalf
  <2>. QED
    BY <1>3, <2>1, StaleQuiet DEF AnswerPlain, Chosen, wireVars
<1>4. CASE AnswerWithReport
  <2>1. CASE nextPacketReady
    BY <1>4, <2>1, StaleQuiet
    DEF AnswerWithReport, Chosen, Held, HomeHeld, Copying, responseVars, wireVars
  <2>2. CASE ~nextPacketReady
    <3>1. PICK id \in CountedId, about \in Subcommand \cup {NoSubcommand} : CopyFirst(id, about)
      BY <1>4, <2>2 DEF AnswerWithReport, CountedId
    <3>2. Copying' /\ Chosen' = Chosen
      BY <1>4, <2>2 DEF AnswerWithReport, Copying, Chosen
    <3>. QED
      BY <1>4, <2>2, <3>1, <3>2, StaleCopyFirst, StaleQuiet DEF AnswerWithReport, wireVars
  <2>. QED
    BY <2>1, <2>2
<1>5. CASE PrepareStandard
  <2>1. CASE nextPacketReady
    BY <1>5, <2>1, StaleQuiet
    DEF PrepareStandard, Chosen, Held, HomeHeld, Copying, responseVars, wireVars
  <2>2. CASE ~nextPacketReady
    <3>1. CopyFirst("30", NoSubcommand)
      BY <1>5, <2>2 DEF PrepareStandard
    <3>2. Copying' /\ Chosen' = Chosen
      BY <1>5, <2>2 DEF PrepareStandard, Copying, Chosen
    <3>. QED
      BY <1>5, <2>2, <3>1, <3>2, StaleCopyFirst, StaleQuiet DEF PrepareStandard, wireVars
  <2>. QED
    BY <2>1, <2>2
<1>6. CASE AnswerCopied \/ StandardCopied
  <2>1. Copying /\ CopySecond
    BY <1>6 DEF AnswerCopied, StandardCopied, Copying
  <2>2. Held' = Held /\ HomeHeld' = HomeHeld
    BY <2>1, StaleCopySecond
  <2>. QED
    BY <1>6, <2>2, StaleQuiet DEF AnswerCopied, StandardCopied, Chosen, wireVars
<1>7. CASE WritePacket
  BY <1>7, StaleWrite
<1>8. CASE UartInterrupt
  BY <1>8, StaleInterrupt
<1>9. CASE ConsolePolls \/ BusReset \/ UNCHANGED fwVars
  BY <1>9, StaleQuiet
  DEF ConsolePolls, BusReset, fwVars, Chosen, Held, HomeHeld, Copying, responseVars, wireVars
<1>. QED
  BY <1>1, <1>2, <1>3, <1>4, <1>5, <1>6, <1>7, <1>8, <1>9 DEF FwNext, MainLoop

\* However interrupts, OUT reports, polls and bus resets interleave, a controller
\* report outlives the failsafe's 120 ms by at most two packets, and HOME its window
\* by at most one, for every setting of the three delays.
THEOREM StaleInputEnds == FwSpec => []StaleInputIsBounded
<1>1. FInv /\ StaleInv => StaleInputIsBounded
  <2>. SUFFICES ASSUME FInv, StaleInv PROVE StaleInputIsBounded
    OBVIOUS
  <2>1. repeats \in Nat /\ homes \in Nat /\ Age \in Nat /\ Age <= HomeTicks + PressedTicks
        /\ selectedReport \in {"controller", "idle"}
    BY AgeFacts DEF FInv, IInv, TypeOK, FwTypeOK
  <2>2. RepeatsAreBounded
    BY <2>1, TickAssumption DEF StaleInv, RepeatsLeft, RepeatsAreBounded
  <2>3. HomesAreBounded
    BY <2>1, TickAssumption DEF StaleInv, HomesLeft, HomesAreBounded
  <2>. QED
    BY <2>2, <2>3 DEF StaleInputIsBounded
<1>. QED
  BY FwInvariance, StaleInit, StaleNext, <1>1, PTL DEF FwSpec

-----------------------------------------------------------------------------
(***************************************************************************)
(* The SPI flash, for any distance from an address, up to the largest read. *)
(***************************************************************************)

\* The data of the reads that are cut off at the size.
ClippedData(address) ==
  CASE address = ADDRESS_FACTORY_PARAMETERS_1 -> factory_parameters_1
    [] address = ADDRESS_FACTORY_PARAMETERS_2 -> factory_parameters_2
    [] address = ADDRESS_FACTORY_CALIBRATION_1 -> factory_calibration_1
    [] address = ADDRESS_FACTORY_CALIBRATION_2 -> factory_calibration_2
    [] address = ADDRESS_IMU_CALIBRATION -> imu_calibration
ClippedAddress ==
  {ADDRESS_FACTORY_PARAMETERS_1, ADDRESS_FACTORY_PARAMETERS_2, ADDRESS_FACTORY_CALIBRATION_1,
   ADDRESS_FACTORY_CALIBRATION_2, ADDRESS_IMU_CALIBRATION}
Whole == {ADDRESS_CONTROLLER_COLOR, ADDRESS_STICKS_CALIBRATION}

\* The i-th byte from an address on, of a flash that can be read without an end.
FlashByte(address, i) ==
  IF address \in ClippedAddress /\ i <= Len(ClippedData(address)) THEN ClippedData(address)[i]
  ELSE IF address = ADDRESS_CONTROLLER_COLOR /\ i <= 3 THEN controller_color[i]
  ELSE IF address = ADDRESS_CONTROLLER_COLOR /\ i <= 6 THEN button_color[i - 3]
  ELSE IF address = ADDRESS_CONTROLLER_COLOR /\ i <= 9 THEN grip_color[i - 6]
  ELSE IF address = ADDRESS_CONTROLLER_COLOR /\ i <= 12 THEN grip_color[i - 9]
  ELSE IF address = ADDRESS_STICKS_CALIBRATION /\ i = 23 THEN 178
  ELSE IF address = ADDRESS_STICKS_CALIBRATION /\ i = 24 THEN 161
  ELSE Fill

\* The addresses are told apart.
LEMMA AddressesDiffer ==
  /\ ADDRESS_SERIAL_NUMBER = 24576 /\ ADDRESS_FACTORY_CALIBRATION_1 = 24608 /\ ADDRESS_FACTORY_CALIBRATION_2 = 24637
  /\ ADDRESS_CONTROLLER_COLOR = 24656 /\ ADDRESS_FACTORY_PARAMETERS_1 = 24704
  /\ ADDRESS_FACTORY_PARAMETERS_2 = 24728 /\ ADDRESS_STICKS_CALIBRATION = 32784 /\ ADDRESS_IMU_CALIBRATION = 32808
BY DEF ADDRESS_SERIAL_NUMBER, ADDRESS_FACTORY_CALIBRATION_1, ADDRESS_FACTORY_CALIBRATION_2, ADDRESS_CONTROLLER_COLOR,
       ADDRESS_FACTORY_PARAMETERS_1, ADDRESS_FACTORY_PARAMETERS_2, ADDRESS_STICKS_CALIBRATION, ADDRESS_IMU_CALIBRATION

LEMMA ClippedCopies ==
  ASSUME NEW a \in ClippedAddress, NEW n
  PROVE  Copies(a, n) = {Copy(0, ClippedData(a), min_size(n, Len(ClippedData(a))))}
BY AddressesDiffer DEF ClippedAddress, ClippedData, Copies, Clipped

LEMMA ColorCopies ==
  ASSUME NEW n
  PROVE  Copies(ADDRESS_CONTROLLER_COLOR, n)
           = CopiesIf(0, controller_color, n) \cup CopiesIf(3, button_color, n)
             \cup CopiesIf(6, grip_color, n) \cup CopiesIf(9, grip_color, n)
BY AddressesDiffer DEF Copies

LEMMA SticksCopies ==
  ASSUME NEW n
  PROVE  Copies(ADDRESS_STICKS_CALIBRATION, n) = CopiesIf(22, <<178>>, n) \cup CopiesIf(23, <<161>>, n)
BY AddressesDiffer DEF Copies

LEMMA NoCopies ==
  ASSUME NEW a \in Nat, a \notin ClippedAddress \cup Whole, NEW n
  PROVE  Copies(a, n) = {}
BY DEF ClippedAddress, Whole, Copies

LEMMA DataLengths ==
  /\ Len(controller_color) = 3 /\ Len(button_color) = 3 /\ Len(grip_color) = 3 /\ Len(<<178>>) = 1 /\ Len(<<161>>) = 1
  /\ \A a \in ClippedAddress : Len(ClippedData(a)) \in Nat
<1>1. Len(controller_color) = 3 /\ Len(button_color) = 3 /\ Len(grip_color) = 3 /\ Len(<<178>>) = 1 /\ Len(<<161>>) = 1
  BY DEF controller_color, button_color, grip_color
<1>2. /\ factory_parameters_2 \in Seq(Nat) /\ factory_calibration_1 \in Seq(Nat)
      /\ factory_calibration_2 \in Seq(Nat) /\ imu_calibration \in Seq(Nat)
  BY DEF factory_parameters_2, factory_calibration_1, factory_calibration_2, imu_calibration
<1>3. factory_parameters_1 \in Seq(Nat)
  <2>1. <<80, 253, 0, 0, 198, 15>> \in Seq(Nat)
    OBVIOUS
  <2>. QED
    BY <1>2, <2>1 DEF factory_parameters_1
<1>4. ASSUME NEW a \in ClippedAddress PROVE ClippedData(a) \in Seq(Nat)
  BY <1>2, <1>3, AddressesDiffer DEF ClippedAddress, ClippedData
<1>. QED
  BY <1>1, <1>4

\* A byte that one piece is copied over, and no other.
LEMMA ReadCopied ==
  ASSUME NEW a, NEW n \in Nat, NEW i \in 1..n, NEW at \in Nat, NEW data, NEW length \in Nat,
         Copy(at, data, length) \in Copies(a, n), at < i, i <= at + length,
         \A c \in Copies(a, n) : c.at < i /\ i <= c.at + c.length => c = Copy(at, data, length)
  PROVE  spi_read(a, n)[i] = data[i - at]
<1>. DEFINE piece == Copy(at, data, length)
            hit == {c \in Copies(a, n) : c.at < i /\ i <= c.at + c.length}
<1>1. piece.at = at /\ piece.data = data /\ piece.length = length
  BY DEF Copy
<1>. HIDE DEF piece
<1>2. hit = {piece}
  BY <1>1 DEF piece
<1>. HIDE DEF hit
<1>3. (CHOOSE c \in hit : TRUE) = piece /\ hit # {}
  BY <1>2
<1>4. spi_read(a, n)[i] = IF hit = {} THEN Fill ELSE (CHOOSE c \in hit : TRUE).data[i - (CHOOSE c \in hit : TRUE).at]
  BY DEF spi_read, hit
<1>. QED
  BY <1>1, <1>3, <1>4

\* A byte that nothing is copied over.
LEMMA ReadErased ==
  ASSUME NEW a, NEW n \in Nat, NEW i \in 1..n,
         \A c \in Copies(a, n) : ~(c.at < i /\ i <= c.at + c.length)
  PROVE  spi_read(a, n)[i] = Fill
<1>1. {c \in Copies(a, n) : c.at < i /\ i <= c.at + c.length} = {}
  OBVIOUS
<1>. QED
  BY <1>1 DEF spi_read

LEMMA ClippedBytes ==
  ASSUME NEW a \in ClippedAddress, NEW n \in Nat, NEW i \in 1..n
  PROVE  spi_read(a, n)[i] = FlashByte(a, i)
<1>. DEFINE data == ClippedData(a)
            length == min_size(n, Len(data))
            piece == Copy(0, data, length)
<1>1. Len(data) \in Nat
  BY DataLengths
<1>2. length \in Nat /\ (i <= length <=> i <= Len(data))
  BY <1>1 DEF min_size
<1>3. Copies(a, n) = {piece} /\ piece.at = 0 /\ piece.length = length
  BY ClippedCopies DEF Copy
<1>4. ASSUME i <= Len(data) PROVE spi_read(a, n)[i] = data[i]
  <2>. HIDE DEF data, length
  <2>1. spi_read(a, n)[i] = data[i - 0]
    BY <1>2, <1>3, <1>4, ReadCopied
  <2>. QED
    BY <2>1
<1>5. ASSUME ~(i <= Len(data)) PROVE spi_read(a, n)[i] = Fill
  <2>. HIDE DEF piece
  <2>. QED
    BY <1>2, <1>3, <1>5, ReadErased
<1>6. a # ADDRESS_CONTROLLER_COLOR /\ a # ADDRESS_STICKS_CALIBRATION
  BY AddressesDiffer DEF ClippedAddress
<1>. QED
  BY <1>4, <1>5, <1>6 DEF FlashByte

LEMMA ColorBytes ==
  ASSUME NEW n \in Nat, NEW i \in 1..n, NEW m \in Nat, i <= 3 * m, 3 * m <= n
  PROVE  spi_read(ADDRESS_CONTROLLER_COLOR, n)[i] = FlashByte(ADDRESS_CONTROLLER_COLOR, i)
<1>. DEFINE C == Copies(ADDRESS_CONTROLLER_COLOR, n)
            p0 == Copy(0, controller_color, 3)
            p3 == Copy(3, button_color, 3)
            p6 == Copy(6, grip_color, 3)
            p9 == Copy(9, grip_color, 3)
<1>1. C \subseteq {p0, p3, p6, p9}
  BY ColorCopies, DataLengths DEF CopiesIf
<1>2. (n >= 3 => p0 \in C) /\ (n >= 6 => p3 \in C) /\ (n >= 9 => p6 \in C) /\ (n >= 12 => p9 \in C)
  BY ColorCopies, DataLengths DEF CopiesIf
<1>3. /\ p0.at = 0 /\ p0.length = 3 /\ p3.at = 3 /\ p3.length = 3
      /\ p6.at = 6 /\ p6.length = 3 /\ p9.at = 9 /\ p9.length = 3
  BY DEF Copy
<1>4. ADDRESS_CONTROLLER_COLOR \notin ClippedAddress /\ ADDRESS_CONTROLLER_COLOR # ADDRESS_STICKS_CALIBRATION
  BY AddressesDiffer DEF ClippedAddress
<1>5. \A c \in C : c \in {p0, p3, p6, p9}
  BY <1>1
<1>6. CASE i <= 3
  <2>1. p0 \in C /\ \A c \in C : c.at < i /\ i <= c.at + c.length => c = p0
    <3>. HIDE DEF C, p0, p3, p6, p9
    <3>. QED
      BY <1>2, <1>3, <1>5, <1>6
  <2>2. spi_read(ADDRESS_CONTROLLER_COLOR, n)[i] = controller_color[i - 0]
    BY <1>6, <2>1, ReadCopied
  <2>. QED
    BY <1>4, <1>6, <2>2 DEF FlashByte
<1>7. CASE 3 < i /\ i <= 6
  <2>1. p3 \in C /\ \A c \in C : c.at < i /\ i <= c.at + c.length => c = p3
    <3>. HIDE DEF C, p0, p3, p6, p9
    <3>. QED
      BY <1>2, <1>3, <1>5, <1>7
  <2>2. spi_read(ADDRESS_CONTROLLER_COLOR, n)[i] = button_color[i - 3]
    BY <1>7, <2>1, ReadCopied
  <2>. QED
    BY <1>4, <1>7, <2>2 DEF FlashByte
<1>8. CASE 6 < i /\ i <= 9
  <2>1. p6 \in C /\ \A c \in C : c.at < i /\ i <= c.at + c.length => c = p6
    <3>. HIDE DEF C, p0, p3, p6, p9
    <3>. QED
      BY <1>2, <1>3, <1>5, <1>8
  <2>2. spi_read(ADDRESS_CONTROLLER_COLOR, n)[i] = grip_color[i - 6]
    BY <1>8, <2>1, ReadCopied
  <2>. QED
    BY <1>4, <1>8, <2>2 DEF FlashByte
<1>9. CASE 9 < i /\ i <= 12
  <2>1. p9 \in C /\ \A c \in C : c.at < i /\ i <= c.at + c.length => c = p9
    <3>. HIDE DEF C, p0, p3, p6, p9
    <3>. QED
      BY <1>2, <1>3, <1>5, <1>9
  <2>2. spi_read(ADDRESS_CONTROLLER_COLOR, n)[i] = grip_color[i - 9]
    BY <1>9, <2>1, ReadCopied
  <2>. QED
    BY <1>4, <1>9, <2>2 DEF FlashByte
<1>10. CASE 12 < i
  <2>1. \A c \in C : ~(c.at < i /\ i <= c.at + c.length)
    <3>. HIDE DEF C, p0, p3, p6, p9
    <3>. QED
      BY <1>3, <1>5, <1>10
  <2>2. spi_read(ADDRESS_CONTROLLER_COLOR, n)[i] = Fill
    BY <2>1, ReadErased
  <2>. QED
    BY <1>4, <1>10, <2>2 DEF FlashByte
<1>. QED
  BY <1>6, <1>7, <1>8, <1>9, <1>10

LEMMA SticksBytes ==
  ASSUME NEW n \in Nat, NEW i \in 1..n
  PROVE  spi_read(ADDRESS_STICKS_CALIBRATION, n)[i] = FlashByte(ADDRESS_STICKS_CALIBRATION, i)
<1>. DEFINE C == Copies(ADDRESS_STICKS_CALIBRATION, n)
            p == Copy(22, <<178>>, 1)
            q == Copy(23, <<161>>, 1)
<1>1. \A c \in C : c \in {p, q}
  BY SticksCopies, DataLengths DEF CopiesIf
<1>2. (n >= 23 => p \in C) /\ (n >= 24 => q \in C)
  BY SticksCopies, DataLengths DEF CopiesIf
<1>3. p.at = 22 /\ p.length = 1 /\ q.at = 23 /\ q.length = 1
  BY DEF Copy
<1>4. ADDRESS_STICKS_CALIBRATION \notin ClippedAddress /\ ADDRESS_CONTROLLER_COLOR # ADDRESS_STICKS_CALIBRATION
  BY AddressesDiffer DEF ClippedAddress
<1>5. CASE i = 23
  <2>1. p \in C /\ \A c \in C : c.at < i /\ i <= c.at + c.length => c = p
    <3>. HIDE DEF C, p, q
    <3>. QED
      BY <1>1, <1>2, <1>3, <1>5
  <2>2. spi_read(ADDRESS_STICKS_CALIBRATION, n)[i] = <<178>>[i - 22]
    BY <1>5, <2>1, ReadCopied
  <2>. QED
    BY <1>4, <1>5, <2>2 DEF FlashByte
<1>6. CASE i = 24
  <2>1. q \in C /\ \A c \in C : c.at < i /\ i <= c.at + c.length => c = q
    <3>. HIDE DEF C, p, q
    <3>. QED
      BY <1>1, <1>2, <1>3, <1>6
  <2>2. spi_read(ADDRESS_STICKS_CALIBRATION, n)[i] = <<161>>[i - 23]
    BY <1>6, <2>1, ReadCopied
  <2>. QED
    BY <1>4, <1>6, <2>2 DEF FlashByte
<1>7. CASE i # 23 /\ i # 24
  <2>1. \A c \in C : ~(c.at < i /\ i <= c.at + c.length)
    <3>. HIDE DEF C, p, q
    <3>. QED
      BY <1>1, <1>3, <1>7
  <2>2. spi_read(ADDRESS_STICKS_CALIBRATION, n)[i] = Fill
    BY <2>1, ReadErased
  <2>. QED
    BY <1>4, <1>7, <2>2 DEF FlashByte
<1>. QED
  BY <1>5, <1>6, <1>7

\* Every read shows the one flash; of the colours, every part that it has room for.
LEMMA OneFlash ==
  ASSUME NEW a \in Nat, NEW n \in Nat, NEW i \in 1..n,
         a = ADDRESS_CONTROLLER_COLOR => \E m \in Nat : i <= 3 * m /\ 3 * m <= n
  PROVE  spi_read(a, n)[i] = FlashByte(a, i)
<1>1. CASE a \notin ClippedAddress \cup Whole
  <2>1. spi_read(a, n)[i] = Fill
    BY <1>1, NoCopies, ReadErased
  <2>. QED
    BY <1>1, <2>1 DEF FlashByte, Whole
<1>. QED
  BY <1>1, ClippedBytes, ColorBytes, SticksBytes DEF Whole

\* Nothing is copied past the size, nor from past the end of the data.
LEMMA CopiesInside ==
  ASSUME NEW a \in Nat, NEW n \in Nat, NEW c \in Copies(a, n)
  PROVE  c.at + c.length <= n /\ c.length <= Len(c.data)
<1>1. CASE a \in ClippedAddress
  <2>1. c = Copy(0, ClippedData(a), min_size(n, Len(ClippedData(a)))) /\ Len(ClippedData(a)) \in Nat
    BY <1>1, ClippedCopies, DataLengths
  <2>. QED
    BY <2>1 DEF Copy, min_size
<1>2. ASSUME NEW at \in Nat, NEW data, Len(data) \in Nat, c \in CopiesIf(at, data, n)
      PROVE  c.at + c.length <= n /\ c.length <= Len(c.data)
  <2>1. n >= at + Len(data) /\ c = Copy(at, data, Len(data))
    BY <1>2 DEF CopiesIf
  <2>. QED
    BY <1>2, <2>1 DEF Copy
<1>3. CASE a = ADDRESS_CONTROLLER_COLOR
  BY <1>2, <1>3, ColorCopies, DataLengths
<1>4. CASE a = ADDRESS_STICKS_CALIBRATION
  BY <1>2, <1>4, SticksCopies, DataLengths
<1>. QED
  BY <1>1, <1>3, <1>4, NoCopies DEF Whole

\* Where the parts of four joined sequences are.
LEMMA FourParts ==
  ASSUME NEW S, NEW p \in S, NEW q \in S, NEW z \in S, NEW n \in S, NEW t \in Seq(S)
  PROVE  LET r == <<p, q>> \o <<z, z>> \o <<n>> \o t
         IN  Len(r) = 5 + Len(t) /\ r[1] = p /\ r[2] = q /\ r[5] = n /\ \A i \in 1..Len(t) : r[5 + i] = t[i]
<1>. DEFINE a == <<p, q>>
            b == <<z, z>>
            c == <<n>>
            d == a \o b
            e == d \o c
            Parts(s, u) == /\ Len(s \o u) = Len(s) + Len(u)
                           /\ \A i \in 1..Len(s) : (s \o u)[i] = s[i]
                           /\ \A i \in 1..Len(u) : (s \o u)[Len(s) + i] = u[i]
<1>0. ASSUME NEW s \in Seq(S), NEW u \in Seq(S) PROVE s \o u \in Seq(S) /\ Parts(s, u)
  OBVIOUS
<1>1. a \in Seq(S) /\ b \in Seq(S) /\ c \in Seq(S)
  OBVIOUS
<1>2. Len(a) = 2 /\ a[1] = p /\ a[2] = q /\ Len(b) = 2 /\ Len(c) = 1 /\ c[1] = n
  OBVIOUS
<1>. HIDE DEF a, b, c, d, e, Parts
<1>3. d \in Seq(S) /\ Parts(a, b) /\ e \in Seq(S) /\ Parts(d, c) /\ Parts(e, t) /\ Len(t) \in Nat
  <2>1. d \in Seq(S) /\ Parts(a, b)
    BY <1>0, <1>1 DEF d
  <2>2. e \in Seq(S) /\ Parts(d, c)
    BY <1>0, <1>1, <2>1 DEF e
  <2>. QED
    BY <1>0, <2>1, <2>2
<1>4. Len(d) = 4 /\ d[1] = p /\ d[2] = q
  BY <1>2, <1>3 DEF d, Parts
<1>5. Len(e) = 5 /\ e[1] = p /\ e[2] = q /\ e[5] = n
  <2>1. Len(e) = Len(d) + Len(c) /\ e[1] = d[1] /\ e[2] = d[2]
    BY <1>2, <1>3, <1>4 DEF e, Parts
  <2>2. e[4 + 1] = c[1]
    BY <1>2, <1>3, <1>4 DEF e, Parts
  <2>. QED
    BY <1>2, <1>4, <2>1, <2>2
<1>6. Len(e \o t) = 5 + Len(t) /\ (e \o t)[1] = p /\ (e \o t)[2] = q /\ (e \o t)[5] = n
  BY <1>3, <1>5 DEF Parts
<1>7. \A i \in 1..Len(t) : (e \o t)[5 + i] = t[i]
  BY <1>3, <1>5 DEF Parts
<1>. QED
  BY <1>6, <1>7 DEF a, b, c, d, e

\* Where the parts of a reply are.
ReplyTo(a, n, r) ==
  /\ Len(r) = 5 + n /\ r[1] = a % 256 /\ r[2] = a \div 256 /\ r[5] = n
  /\ \A i \in 1..n : r[5 + i] = spi_read(a, n)[i]

LEMMA ReplyLayout == ASSUME NEW a \in Nat, NEW n \in Nat PROVE ReplyTo(a, n, spi_reply(a, n))
<1>. DEFINE bytes == spi_read(a, n)
            S == Int \cup {bytes[i] : i \in 1..n}
            low == a % 256
            high == a \div 256
<1>1. bytes \in Seq(S) /\ Len(bytes) = n
  <2>1. bytes \in [1..n -> S]
    BY DEF spi_read
  <2>. HIDE DEF bytes, S
  <2>. QED
    BY <2>1
<1>2. low \in S /\ high \in S /\ 0 \in S /\ n \in S
  <2>1. low \in Int /\ high \in Int /\ 0 \in Int /\ n \in Int
    OBVIOUS
  <2>. QED
    BY <2>1
<1>3. spi_reply(a, n) = <<low, high>> \o <<0, 0>> \o <<n>> \o bytes
  BY DEF spi_reply, AddressBytes
<1>. HIDE DEF bytes, S, low, high
<1>4. LET r == <<low, high>> \o <<0, 0>> \o <<n>> \o bytes
      IN  Len(r) = 5 + Len(bytes) /\ r[1] = low /\ r[2] = high /\ r[5] = n /\ \A i \in 1..Len(bytes) : r[5 + i] = bytes[i]
  BY <1>1, <1>2, FourParts
<1>. DEFINE r == <<low, high>> \o <<0, 0>> \o <<n>> \o bytes
<1>5. Len(r) = 5 + Len(bytes) /\ r[1] = low /\ r[2] = high /\ r[5] = n /\ \A i \in 1..Len(bytes) : r[5 + i] = bytes[i]
  BY <1>4
<1>. HIDE DEF r
<1>6. spi_reply(a, n) = r
  BY <1>3 DEF r
<1>. QED
  BY <1>1, <1>5, <1>6 DEF ReplyTo, bytes, low, high

(***************************************************************************)
(* The requests of the console.                                            *)
(***************************************************************************)

\* The reply is that of the last request.
SpiInv ==
  \/ asked = <<0, 0, 0>> /\ used = 0 /\ reply = <<>>
  \/ \E a \in Nat, n \in 0..MaxRead :
       asked = <<a % 256, a \div 256, n>> /\ reply = spi_reply(a, n) /\ used = Header + (5 + n)

LEMMA SpiBounds ==
  /\ MaxRead \in Nat /\ MaxRead <= 44
  /\ \A a \in Address, offset \in Offset : a + offset \in Nat
<1>1. JOYSTICK_EPSIZE - Header - 5 = 44
  BY DEF JOYSTICK_EPSIZE, Header, ReportLength
<1>2. MaxRead \in 0..44
  BY <1>1, SpiAssumption
<1>3. 65535 - ADDRESS_IMU_CALIBRATION \in Nat
  BY DEF ADDRESS_IMU_CALIBRATION
<1>4. Offset \subseteq Nat
  BY <1>3, SpiAssumption
<1>5. Address \subseteq Nat
  BY AddressesDiffer DEF Address
<1>. QED
  BY <1>2, <1>4, <1>5

LEMMA SpiStep == ASSUME SpiInv, [SpiNext]_spiVars PROVE SpiInv'
<1>1. CASE UNCHANGED spiVars
  BY <1>1 DEF spiVars, SpiInv
<1>2. ASSUME NEW address \in Address, NEW offset \in Offset, NEW size \in 0..MaxRead,
             SpiFlashRead((address + offset) % 256, (address + offset) \div 256, size)
      PROVE  SpiInv'
  <2>. DEFINE a == address + offset
  <2>1. a \in Nat /\ size \in Nat
    BY SpiBounds
  <2>. HIDE DEF a
  <2>2. (a \div 256) * 256 + (a % 256) = a
    BY <2>1
  <2>3. asked' = <<a % 256, a \div 256, size>> /\ reply' = spi_reply(a, size) /\ used' = Header + Len(reply')
    BY <1>2, <2>2 DEF SpiFlashRead, a
  <2>4. ReplyTo(a, size, spi_reply(a, size))
    BY <2>1, ReplyLayout
  <2>5. Len(spi_reply(a, size)) = 5 + size
    BY <2>4 DEF ReplyTo
  <2>. QED
    BY <2>1, <2>3, <2>5 DEF SpiInv
<1>. QED
  BY <1>1, <1>2 DEF SpiNext

\* One flash: every read of up to 44 bytes, at one of the addresses or at any distance from
\* it, fits into the reply, repeats its request, stays inside what was asked for and agrees
\* with every shorter read of the place.
THEOREM SpiReadsOneFlash == SpiSpec => []FlashReadsAgree
<1>1. SpiInv => FlashReadsAgree
  <2>1. CASE asked = <<0, 0, 0>> /\ used = 0 /\ reply = <<>>
    BY <2>1 DEF FlashReadsAgree, ReplyFits, JOYSTICK_EPSIZE, CopiesStayInside, ReplyRepeatsRequest, LongerReadAgrees,
                Answered
  <2>2. ASSUME NEW a \in Nat, NEW n \in 0..MaxRead,
               asked = <<a % 256, a \div 256, n>>, reply = spi_reply(a, n), used = Header + (5 + n)
        PROVE  FlashReadsAgree
    <3>0. n \in Nat /\ n <= 44
      BY SpiBounds
    <3>a. ReplyTo(a, n, spi_reply(a, n))
      BY <3>0, ReplyLayout
    <3>b. ReplyTo(a, n, reply)
      BY <2>2, <3>a
    <3>1. At = a /\ Size = n
      <4>1. At = (a \div 256) * 256 + (a % 256) /\ Size = n
        BY <2>2 DEF At, Size
      <4>. QED
        BY <4>1
    <3>2. ReplyFits
      BY <2>2, <3>0 DEF ReplyFits, JOYSTICK_EPSIZE, Header, ReportLength
    <3>3. CopiesStayInside
      BY <3>0, <3>1, CopiesInside DEF CopiesStayInside
    <3>4. ReplyRepeatsRequest
      BY <2>2, <3>1, <3>b DEF ReplyTo, ReplyRepeatsRequest
    <3>5. LongerReadAgrees
      <4>. SUFFICES ASSUME NEW short \in 0..Size, At = ADDRESS_CONTROLLER_COLOR => short % 3 = 0, NEW i \in 1..short
                    PROVE  spi_read(At, short)[i] = reply[5 + i]
                           /\ (At \notin Address => spi_read(At, short)[i] = 255)
        BY DEF LongerReadAgrees
      <4>1. short \in Nat /\ short <= n /\ i \in 1..n
        BY <3>0, <3>1
      <4>2. ASSUME a = ADDRESS_CONTROLLER_COLOR PROVE \E m \in Nat : i <= 3 * m /\ 3 * m <= short /\ 3 * m <= n
        <5>1. short \div 3 \in Nat /\ short = 3 * (short \div 3)
          BY <3>1, <4>1, <4>2
        <5>. QED
          BY <4>1, <5>1
      <4>3. spi_read(a, short)[i] = FlashByte(a, i)
        BY <4>1, <4>2, OneFlash
      <4>4. spi_read(a, n)[i] = FlashByte(a, i)
        BY <3>0, <4>1, <4>2, OneFlash
      <4>5. reply[5 + i] = spi_read(a, n)[i]
        BY <3>b, <4>1 DEF ReplyTo
      <4>6. a \notin Address => FlashByte(a, i) = 255
        BY DEF Address, FlashByte, ClippedAddress, Fill
      <4>. QED
        BY <3>1, <4>3, <4>4, <4>5, <4>6
    <3>. QED
      BY <3>2, <3>3, <3>4, <3>5 DEF FlashReadsAgree
  <2>. QED
    BY <2>1, <2>2 DEF SpiInv
<1>2. SpiInit => SpiInv
  BY DEF SpiInit, SpiInv
<1>. QED
  BY <1>1, <1>2, SpiStep, PTL DEF SpiSpec
=============================================================================
