------------------------------ MODULE GamePad ------------------------------
(***************************************************************************)
(* xInput2Serial/xinput2serial.py: PadX, PadSDL and create_controller, and *)
(* the packets that build_packet makes of a gamepad.                       *)
(*                                                                         *)
(* PadX.ok() copies the state of its slot, and the reads that follow are   *)
(* made of the copy.  PadSDL asks the device again at every read.  A       *)
(* device is <<"x", slot>> or <<"sdl", number>>; SDL counts the devices    *)
(* that are there.  A control is the number of a button, ten more than     *)
(* the number of the axis of a trigger, or a direction of the pad.         *)
(***************************************************************************)
EXTENDS PadTables, FiniteSets, Sequences

CONSTANTS
  Backend,   \* --backend: "xinput", "pygame" or "auto"
  Selected,  \* {n} for --controller n, {} for --auto
  Number,    \* the numbers of the devices of either kind
  Control,   \* the controls that are pressed and released
  Firm       \* those that are held down all the time

LT == 12
RT == 15
UP == 20
DOWN == 21
LEFT == 22
RIGHT == 23

VARIABLES
  connected,   \* the devices that are there
  live,        \* what is pressed on the device that is in use
  pad,         \* that device
  st,          \* the copy that PadX.ok() took
  gpPc,        \* the main thread: asleep, reading, at the end of the frame, or without a pad
  next,        \* its next read
  got,         \* the reads that found their control pressed
  hat,         \* what pad.hat() returned
  ever, kept,  \* what was pressed at some time, and all the time, since ok()
  dropped      \* the pad has been away since ok() found it

gpFrame == <<st, gpPc, next, got, hat>>
gpHistory == <<ever, kept, dropped>>
gamepadVars == <<connected, live, pad, gpFrame, gpHistory>>

\* The reads of a frame: exit_chord_pressed, then build_packet with the buttons of
\* BTN_MAP, those that make HOME, the triggers and the pad.
Plan == <<4, 5, 6, LT, RT,   0, 1, 2, 3, 4, 5, 6, 7, 9, 10,   6, 7, 8,   LT, RT>>

ChordReads == 1..5
After(n) == {m \in n + 1..Len(Plan) : Plan[m] \in Control \cup Firm}
ReadAfter(n) == IF After(n) = {} THEN Len(Plan) + 1 ELSE CHOOSE m \in After(n) : \A k \in After(n) : m <= k

HatOf(s) ==
  LET one(c) == IF c \in s THEN 1 ELSE 0
  IN  <<one(RIGHT) - one(LEFT), one(UP) - one(DOWN)>>

\* Faulty variant of View: the slot is asked again at every read.
ViewLive == live

\* What a read sees.
View == IF pad[1] = "x" THEN st ELSE live

Bit(n) == CASE n \in 6..15 -> {BTN_MAP[Plan[n]]} [] n = 19 -> {"ZL"} [] n = 20 -> {"ZR"} [] OTHER -> {}

HomeBit == IF {16, 17} \subseteq got \/ 18 \in got THEN {"HOME"} ELSE {}

\* build_packet: the buttons of the packet.
Packet == (UNION {Bit(n) : n \in got}) \cup HomeBit

\* create_controller, detect_controller_slot and detect_sdl_controller_index
Of(kind) == {d \in connected : d[1] = kind}
Index(d) == Cardinality({e \in Of(d[1]) : e[2] < d[2]})
XChoice == {d \in Of("x") : IF Selected = {} THEN Index(d) = 0 ELSE d[2] \in Selected}
SdlChoice == {d \in Of("sdl") : Index(d) \in IF Selected = {} THEN {0} ELSE Selected}
create_controller ==
  IF Backend \in {"xinput", "auto"} /\ XChoice # {} THEN XChoice
  ELSE IF Backend \in {"pygame", "auto"} THEN SdlChoice ELSE {}

GamePadTypeOK ==
  /\ connected \subseteq {"x", "sdl"} \X Number /\ pad \in {"x", "sdl"} \X Number
  /\ live \subseteq Control \cup Firm /\ st \subseteq Control \cup Firm
  /\ ever \subseteq Control \cup Firm /\ kept \subseteq ever
  /\ gpPc \in {"asleep", "reading", "write", "chord", "lost", "none"}
  /\ next \in 0..Len(Plan) + 1 /\ got \subseteq 1..Len(Plan) /\ hat \in {-1, 0, 1} \X {-1, 0, 1}

GamePadInit ==
  /\ connected \in SUBSET ({"x", "sdl"} \X Number) /\ pad \in create_controller
  /\ live = Firm /\ st = {} /\ gpPc = "asleep" /\ next = 0 /\ got = {} /\ hat = <<0, 0>>
  /\ ever = {} /\ kept = {} /\ dropped = FALSE

\* What ok() would say.  The handle of SDL stays dead when its device comes back.
Attached == pad \in connected /\ (pad[1] = "x" \/ ~dropped)

\* The players: a control is pressed or released, a device comes or goes.
Turn(c) ==
  /\ Attached
  /\ live' = IF c \in live THEN live \ {c} ELSE live \cup {c}
  /\ IF gpPc = "reading" THEN ever' = ever \cup live' /\ kept' = kept \cap live' ELSE UNCHANGED <<ever, kept>>
  /\ UNCHANGED <<connected, pad, gpFrame, dropped>>
Plug(d) ==
  /\ connected' = connected \cup {d}
  /\ live' = IF d = pad /\ d[1] = "x" /\ d \notin connected THEN Firm ELSE live
  /\ UNCHANGED <<pad, gpFrame, gpHistory>>
Unplug(d) ==
  /\ connected' = connected \ {d} /\ dropped' = (dropped \/ d = pad)
  /\ IF d = pad THEN live' = {} /\ kept' = {} ELSE UNCHANGED <<live, kept>>
  /\ UNCHANGED <<pad, gpFrame, ever>>

\* pad.ok() at the top of the loop
Ok ==
  /\ gpPc = "asleep" /\ Attached
  /\ st' = (IF pad[1] = "x" THEN live ELSE {})
  /\ gpPc' = "reading" /\ next' = ReadAfter(0) /\ got' = {}
  /\ ever' = live /\ kept' = live /\ dropped' = FALSE
  /\ UNCHANGED <<connected, live, pad, hat>>
NotOk ==
  /\ gpPc = "asleep" /\ ~Attached
  /\ gpPc' = "lost"
  /\ UNCHANGED <<connected, live, pad, st, next, got, hat, gpHistory>>

ReadControl ==
  /\ gpPc = "reading" /\ next <= Len(Plan)
  /\ LET now == IF Plan[next] \in View THEN got \cup {next} ELSE got
     IN  /\ gpPc' = IF ChordReads \subseteq now THEN "chord" ELSE "reading"
         /\ got' = IF ReadAfter(next) \in ChordReads THEN now ELSE now \ ChordReads
  /\ next' = ReadAfter(next)
  /\ UNCHANGED <<connected, live, pad, st, hat, gpHistory>>
ReadHat ==
  /\ gpPc = "reading" /\ next = Len(Plan) + 1
  /\ hat' = HatOf(View) /\ gpPc' = "write"
  /\ UNCHANGED <<connected, live, pad, st, next, got, gpHistory>>

\* The packet is written, and the main thread sleeps.
WriteGamePad ==
  /\ gpPc = "write" /\ gpPc' = "asleep"
  /\ next' = 0 /\ got' = {} /\ hat' = <<0, 0>> /\ st' = {}
  /\ ever' = {} /\ kept' = {}
  /\ UNCHANGED <<connected, live, pad, dropped>>

\* What is pressed on a device when it gets into use.
Fresh(d) == IF d = pad /\ d[1] = "x" THEN live ELSE Firm

\* After the answer to the lost pad (Bridge), another one is looked for.
Recreate ==
  /\ gpPc = "lost"
  /\ \/ create_controller = {} /\ gpPc' = "none" /\ UNCHANGED <<pad, live, dropped>>
     \/ \E d \in create_controller :
          pad' = d /\ live' = Fresh(d) /\ gpPc' = "asleep" /\ dropped' = FALSE
  /\ UNCHANGED <<connected, st, next, got, hat, ever, kept>>

GamePadNext ==
  \/ \E c \in Control : Turn(c)
  \/ \E d \in {"x", "sdl"} \X Number : Plug(d) \/ Unplug(d)
  \/ Ok \/ NotOk \/ ReadControl \/ ReadHat \/ WriteGamePad \/ Recreate

GamePadSpec == GamePadInit /\ [][GamePadNext]_gamepadVars

(***************************************************************************)
(* Properties                                                              *)
(***************************************************************************)

\* What a packet should say of the controls in s.
Meaning(s) ==
  {BTN_MAP[i] : i \in DOMAIN BTN_MAP \cap s} \cup (IF {6, 7} \subseteq s \/ 8 \in s THEN {"HOME"} ELSE {})
    \cup (IF LT \in s THEN {"ZL"} ELSE {}) \cup (IF RT \in s THEN {"ZR"} ELSE {})

\* No invented chords: a packet from XInput is what the pad was at one moment, the call of
\* ok(), however the player changed it while the packet was being built.
PacketIsOneMoment == (gpPc = "write" /\ pad[1] = "x") => (Packet = Meaning(st) /\ hat = HatOf(st))

\* A packet from either backend shows all that was held throughout and nothing that was
\* not pressed at all.
PacketIsTrue == gpPc = "write" => (Meaning(kept) \subseteq Packet /\ Packet \subseteq Meaning(ever))

\* A chord that is held ends the session instead of being streamed, and one of which a
\* part was never pressed does not.
ChordEndsStream ==
  LET chord == {4, 5, 6, LT, RT}
  IN  (gpPc = "chord" => chord \subseteq ever) /\ (gpPc = "write" => ~(chord \subseteq kept))

\* Another pad takes over only after the one in use was away.
NoTakeover == [][pad' # pad => dropped]_gamepadVars

\* The bridge sends what the pad was: packets that invent and omit nothing, the exit chord
\* ending the stream when it is held and only then, and always the pad that was chosen.
PadIsTrue == [](GamePadTypeOK /\ PacketIsOneMoment /\ PacketIsTrue /\ ChordEndsStream) /\ NoTakeover
=============================================================================
