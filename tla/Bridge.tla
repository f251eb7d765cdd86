------------------------------- MODULE Bridge -------------------------------
(***************************************************************************)
(* xInput2Serial/xinput2serial.py: the main loop of the bridge, composed   *)
(* with what the board does with its packets (Failsafe).                   *)
(*                                                                         *)
(* Time is counted in IN reports (8 ms).  A deadline of the code           *)
(* (x_until, compared with time.time()) is the time left until it.  A      *)
(* sleep lasts at least what was asked for and at most MaxLate longer.     *)
(* The board is synchronised before the loop is entered (SerialLink) and   *)
(* not again: one that was reset ignores the packets, and nobody notices.  *)
(***************************************************************************)
EXTENDS Integers

CONSTANTS
  SEND, RETRY,                  \* the two sleeps of the loop
  HomeDuration, HomeCooldown,   \* --home-duration, --home-cooldown
  InactiveAction,               \* --inactive-action
  DisconnectAction,             \* --disconnect-action
  MayBeNone,                    \* create_controller can return None: a gamepad
  HasChord,                     \* --exit-chord-signal-file with a gamepad
  MaxLate,                      \* how much longer a sleep may last
  FreshReports, HomeStart, HomeLen

Action == {"neutral", "home", "none"}

ASSUME BridgeAssumption ==
  /\ SEND \in Nat \ {0} /\ RETRY \in Nat \ {0} /\ MaxLate \in Nat
  /\ HomeDuration \in Nat \ {0} /\ HomeCooldown \in Nat
  /\ InactiveAction \in Action /\ DisconnectAction \in Action
  /\ MayBeNone \in BOOLEAN /\ HasChord \in BOOLEAN
  /\ FreshReports \in Nat \ {0} /\ HomeStart \in Nat /\ HomeLen \in Nat \ {0}
  /\ FreshReports < HomeStart

\* 10 ms, 500 ms and the 800 ms after which the firmware presses HOME; the 10 ms
\* are never missed by as much as the 120 ms for which it repeats a packet.
ASSUME GapAssumption ==
  SEND + MaxLate <= FreshReports /\ FreshReports < RETRY /\ RETRY + 2 * MaxLate < HomeStart

VARIABLES
  attached,             \* what pad.ok() would say
  focused,              \* what focus_ok(args.window) would say
  pc,                   \* where the loop is
  wake,                 \* time left to sleep
  was_focused,
  inactiveLeft,         \* inactive_home_until - now
  disconnectLeft,       \* disconnect_home_until - now
  cooldownLeft,         \* last_disconnect_home + home_cooldown - now
  chordLeft,            \* end - now, in the pulse of the exit chord
  signal,               \* the exit signal file was written
  last,                 \* the packet written last
  linked, age, shown,   \* the board: see Failsafe
  homeRun               \* consecutive reports with a HOME no player pressed

surroundings == <<attached, focused>>
timers == <<inactiveLeft, disconnectLeft, cooldownLeft, chordLeft>>
board == <<last, linked, age, shown>>
bridgeVars == <<attached, focused, pc, wake, was_focused, timers, signal, board, homeRun>>

Board == INSTANCE Failsafe

Over == {"ended", "crashed"}
Running == {"loop", "retry", "nopad", "chord"}

BridgeTypeOK ==
  /\ attached \in BOOLEAN /\ focused \in BOOLEAN /\ was_focused \in BOOLEAN
  /\ pc \in Running \cup Over
  /\ wake \in Int /\ -MaxLate <= wake /\ wake <= RETRY
  /\ inactiveLeft \in 0..HomeDuration /\ disconnectLeft \in 0..HomeDuration
  /\ cooldownLeft \in 0..HomeCooldown /\ chordLeft \in 0..HomeDuration
  /\ signal \in BOOLEAN
  /\ last \in {"neutral", "home", "input"}
  /\ linked \in BOOLEAN /\ age \in 0..(HomeStart + HomeLen)
  /\ shown \in {"packet", "home", "empty"}
  /\ homeRun \in Nat

\* The pad is there when the loop is entered; the first packet is on its way.
BridgeInit ==
  /\ attached = TRUE /\ focused \in BOOLEAN /\ was_focused = TRUE
  /\ pc = "loop" /\ wake = 0
  /\ inactiveLeft = 0 /\ disconnectLeft = 0 /\ cooldownLeft = 0 /\ chordLeft = 0
  /\ signal = FALSE
  /\ last = "neutral" /\ linked = TRUE /\ age = 0 /\ shown = "packet"
  /\ homeRun = 0

write(p) == last' = p /\ IF linked THEN Board!Packet ELSE UNCHANGED <<linked, age, shown>>

\* Faulty variant of Answer: a pulse is not ended by its deadline.
AnswerUntilReset(left, action) ==
  IF left > 0 \/ last = "home" THEN write("home")
  ELSE IF action # "none" THEN write("neutral") ELSE UNCHANGED board

\* Answer to a lost pad or a lost focus: HOME until the deadline, then neutral.
Answer(left, action) ==
  IF left > 0 THEN write("home")
  ELSE IF action # "none" THEN write("neutral") ELSE UNCHANGED board

AtTop == pc = "loop" /\ wake <= 0

PadLost ==
  /\ AtTop /\ ~attached
  /\ LET pulse == DisconnectAction = "home" /\ cooldownLeft = 0
         left == IF pulse THEN HomeDuration ELSE disconnectLeft
     IN  /\ disconnectLeft' = left
         /\ cooldownLeft' = IF pulse THEN HomeCooldown ELSE cooldownLeft
         /\ Answer(left, DisconnectAction)
  /\ pc' = "retry" /\ wake' = RETRY
  /\ UNCHANGED <<surroundings, was_focused, inactiveLeft, chordLeft, signal, homeRun>>

\* Faulty variant of RecreatePad: a second sleep before every new attempt.
RecreatePadSlowly ==
  /\ pc = "retry" /\ wake <= 0
  /\ pc' = (IF attached \/ ~MayBeNone THEN "loop" ELSE "nopad") /\ wake' = RETRY
  /\ UNCHANGED <<surroundings, was_focused, timers, signal, board, homeRun>>

\* PadK, or create_controller, which looks for a gamepad and finds none.
RecreatePad ==
  /\ pc = "retry" /\ wake <= 0
  /\ IF attached \/ ~MayBeNone THEN pc' = "loop" /\ wake' = 0
                               ELSE pc' = "nopad" /\ wake' = RETRY
  /\ UNCHANGED <<surroundings, was_focused, timers, signal, board, homeRun>>

\* Back at the top of the loop with pad = None: None has no ok().
NoPadToAsk ==
  /\ pc = "nopad" /\ wake <= 0
  /\ pc' = "crashed"
  /\ UNCHANGED <<surroundings, wake, was_focused, timers, signal, board, homeRun>>

Unfocused ==
  /\ AtTop /\ attached /\ ~focused
  /\ inactiveLeft' = IF was_focused /\ InactiveAction = "home" THEN HomeDuration ELSE inactiveLeft
  /\ Answer(inactiveLeft', InactiveAction)
  /\ was_focused' = FALSE /\ wake' = SEND
  /\ UNCHANGED <<surroundings, pc, disconnectLeft, cooldownLeft, chordLeft, signal, homeRun>>

\* Faulty variant of Stream: packets are written by a thread that is not stopped.
StreamDetached ==
  /\ pc \in {"loop", "ended"} /\ wake <= 0 /\ attached /\ focused
  /\ write("input")
  /\ was_focused' = TRUE /\ wake' = SEND
  /\ UNCHANGED <<surroundings, pc, timers, signal, homeRun>>

Stream ==
  /\ AtTop /\ attached /\ focused
  /\ write("input")
  /\ was_focused' = TRUE /\ wake' = SEND
  /\ UNCHANGED <<surroundings, pc, timers, signal, homeRun>>

ChordPressed ==
  /\ AtTop /\ attached /\ focused /\ HasChord
  /\ chordLeft' = HomeDuration
  /\ was_focused' = TRUE /\ pc' = "chord"
  /\ UNCHANGED <<surroundings, wake, inactiveLeft, disconnectLeft, cooldownLeft, signal, board, homeRun>>

ChordPulse ==
  /\ pc = "chord" /\ wake <= 0 /\ chordLeft > 0
  /\ write("home") /\ wake' = SEND
  /\ UNCHANGED <<surroundings, pc, was_focused, timers, signal, homeRun>>

\* Faulty variant of PulseOver: one packet is taken for the pulse.
PulseOverAtOnce == last = "home"

PulseOver == chordLeft = 0

\* HOME is released, then the signal file is written or the failure logged.
ChordEnds ==
  /\ pc = "chord" /\ wake <= 0 /\ PulseOver
  /\ write("neutral")
  /\ signal' \in BOOLEAN
  /\ pc' = "ended"
  /\ UNCHANGED <<surroundings, wake, was_focused, timers, homeRun>>

\* An interrupt from the keyboard, a serial error, or the end of the process.
Stop ==
  /\ pc \in Running
  /\ pc' = "ended"
  /\ UNCHANGED <<surroundings, wake, was_focused, timers, signal, board, homeRun>>

PadChanges == attached' = ~attached /\ UNCHANGED <<focused, pc, wake, was_focused, timers, signal, board, homeRun>>
FocusChanges == focused' = ~focused /\ UNCHANGED <<attached, pc, wake, was_focused, timers, signal, board, homeRun>>

\* The board loses power for a moment.
BoardReset ==
  /\ linked' = FALSE /\ age' = 0 /\ shown' = "empty"
  /\ UNCHANGED <<surroundings, pc, wake, was_focused, timers, signal, last, homeRun>>

HomeSeen == shown = "home" \/ (shown = "packet" /\ last = "home")

Before(left) == IF left > 0 THEN left - 1 ELSE 0

\* One report later.
Tick ==
  /\ pc \in Over \/ wake > -MaxLate
  /\ wake' = IF wake > -MaxLate THEN wake - 1 ELSE wake
  /\ inactiveLeft' = Before(inactiveLeft) /\ disconnectLeft' = Before(disconnectLeft)
  /\ cooldownLeft' = Before(cooldownLeft) /\ chordLeft' = Before(chordLeft)
  /\ (Board!SendReport \/ Board!SendUnlinked) /\ UNCHANGED last
  /\ homeRun' = IF HomeSeen' THEN homeRun + 1 ELSE 0
  /\ UNCHANGED <<surroundings, pc, was_focused, signal>>

LoopStep == PadLost \/ RecreatePad \/ NoPadToAsk \/ Unfocused \/ Stream
            \/ ChordPressed \/ ChordPulse \/ ChordEnds

BridgeNext == LoopStep \/ Stop \/ PadChanges \/ FocusChanges \/ BoardReset \/ Tick

BridgeSpec == BridgeInit /\ [][BridgeNext]_bridgeVars

\* The process is scheduled and the console goes on polling.
BridgeFairSpec == BridgeSpec /\ WF_bridgeVars(LoopStep) /\ WF_bridgeVars(Tick)

-----------------------------------------------------------------------------
\* "Sends controller or neutral packets continuously to prevent the firmware
\* failsafe from closing the input" (xInput2Serial/README.md:9-10): while the loop
\* runs and still has a pad to ask, whatever pads and windows do and however the
\* sleeps of the two branches alternate, the firmware does not press HOME; unless
\* an action is "none", which asks for silence.
FailsafeStaysQuiet ==
  ("none" \notin {InactiveAction, DisconnectAction} /\ pc \in Running \ {"nopad"})
    => shown # "home"

\* A HOME that no player pressed is let go again.  The pulses of a lost pad, of a
\* lost focus and of the exit chord have a deadline each, which outlives the branch
\* that set it, and the board repeats the last packet of a pulse; the longest HOME
\* the console can see is a focus pulse, the chord's pulse and one repetition.
HomeIsReleased ==
  homeRun <= 2 * HomeDuration + SEND + MaxLate + FreshReports

\* The exit signal makes the session host tear the session down; by then the
\* console has been shown HOME for the whole pulse (less what the first packet was
\* late), and the packet that releases it has been written (xinput2serial.py:845-850).
SignalFollowsPulse ==
  [][signal' # signal /\ linked => homeRun >= HomeDuration - MaxLate /\ last' = "neutral"]_bridgeVars

\* "If the controller disconnects, or the serial link breaks, the Switch will pause
\* or return to the HOME menu" (xInput2Serial/README.md:15): when the bridge ends for
\* whatever reason, at whatever point of a pulse or a sleep, the board presses HOME,
\* at the earliest when the loop has no pad left to ask, and then lets the console
\* alone.
BoardTakesOver ==
  /\ (<>(pc \in Over) /\ []linked) => <>(pc \in Over \cup {"nopad"} /\ shown = "home")
  /\ pc \in Over ~> [](shown = "empty")

\* Once the pad and the window stay, input reaches the console again, however many
\* times they were lost before; unless the loop has ended or the board was reset.
StreamingResumes ==
  (<>[](attached /\ focused) /\ []linked) => <>[](pc \in Over \cup {"chord"} \/ (last = "input" /\ shown = "packet"))

\* The console is not left with what the bridge last sent: the board takes over when the
\* bridge ends, and the bridge streams again when pad and window are back.
BridgeLives == BoardTakesOver /\ StreamingResumes
=============================================================================
