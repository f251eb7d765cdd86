---------------------------- MODULE KeyboardPad ----------------------------
(***************************************************************************)
(* xInput2Serial/xinput2serial.py: PadK, the keyboard and the mouse, and   *)
(* the packets that build_packet makes of them.  The cursor is counted     *)
(* from the centre of the window.  A deflection of the stick is the        *)
(* distance before it is divided by SENS and clamped, which keeps its      *)
(* sign.                                                                   *)
(***************************************************************************)
EXTENDS PadTables

CONSTANTS
  Key,   \* the keys that may be pressed
  Reach  \* how far the mouse may be moved

ASSUME KeyboardAssumption == Reach \in Nat

VARIABLES
  keys,                  \* the keys held down
  cursor,                \* <<x, y>>
  prev,                  \* <<prev_x, prev_y>>
  kbdPc,                 \* the main thread: asleep, or before the next read of build_packet
  buttons, left, right,  \* the packet that is being built
  slept,                 \* how the mouse was moved during the last sleep
  jolted                 \* the mouse was moved while the packet was being built

kbdVars == <<keys, cursor, prev, kbdPc, buttons, left, right, slept, jolted>>

Span == -Reach..Reach
Where == Span \X Span

KeyboardTypeOK ==
  /\ keys \subseteq Key /\ cursor \in Where /\ prev \in Where
  /\ kbdPc \in {"asleep", "axis3", "axis4", "written"}
  /\ left \in {-1, 0, 1} \X {-1, 0, 1} /\ right \in (-2 * Reach..2 * Reach) \X (-2 * Reach..2 * Reach)
  /\ slept \in (-2 * Reach..2 * Reach) \X (-2 * Reach..2 * Reach) /\ jolted \in BOOLEAN

\* PadK(center) moves the cursor to the centre.
KeyboardInit ==
  /\ keys = {} /\ cursor = <<0, 0>> /\ prev = <<0, 0>> /\ kbdPc = "asleep"
  /\ buttons = {} /\ left = <<0, 0>> /\ right = <<0, 0>> /\ slept = <<0, 0>> /\ jolted = FALSE

\* The player, at any time.
Press == keys' \in SUBSET Key /\ UNCHANGED <<cursor, prev, kbdPc, buttons, left, right, slept, jolted>>
Move ==
  /\ cursor' \in Where
  /\ IF kbdPc = "asleep"
     THEN slept' = <<slept[1] + cursor'[1] - cursor[1], slept[2] + cursor'[2] - cursor[2]>> /\ UNCHANGED jolted
     ELSE jolted' = TRUE /\ UNCHANGED slept
  /\ UNCHANGED <<keys, prev, kbdPc, buttons, left, right>>

\* btn for every button of BTN_MAP, then the keys that only a keyboard has
Held == {BTN_MAP[i] : i \in {j \in DOMAIN BTN_MAP : KEY_MAPPING[j] \in keys}}
Special == {b \in {"HOME", "CAPTURE", "ZL", "ZR"} :
              [HOME |-> "h", CAPTURE |-> "c", ZL |-> "shift", ZR |-> "ctrl"][b] \in keys}
Axis(pos, neg) == IF pos \in keys THEN 1 ELSE IF neg \in keys THEN -1 ELSE 0

BuildButtons ==
  /\ kbdPc = "asleep"
  /\ buttons' = Held \cup Special /\ left' = <<Axis("d", "a"), Axis("w", "s")>>
  /\ kbdPc' = "axis3" /\ jolted' = FALSE
  /\ UNCHANGED <<keys, cursor, prev, right, slept>>

\* Faulty variant of Recentre: the position before the move is remembered.
RecentreLate == cursor' = <<0, 0>> /\ prev' = cursor

Recentre == cursor' = <<0, 0>> /\ prev' = <<0, 0>>

Delta(i) == cursor[i] - prev[i]

\* axis(3), axis(4): each measures both directions, recentres and returns one of them.
ReadAxis3 ==
  /\ kbdPc = "axis3" /\ kbdPc' = "axis4"
  /\ right' = <<Delta(1), right[2]>>
  /\ Recentre
  /\ UNCHANGED <<keys, buttons, left, slept, jolted>>
ReadAxis4 ==
  /\ kbdPc = "axis4" /\ kbdPc' = "written"
  /\ right' = <<right[1], -Delta(2)>>
  /\ Recentre
  /\ UNCHANGED <<keys, buttons, left, slept, jolted>>

\* The packet is written, and the main thread sleeps.
WriteKeys ==
  /\ kbdPc = "written" /\ kbdPc' = "asleep"
  /\ buttons' = {} /\ left' = <<0, 0>> /\ right' = <<0, 0>>
  /\ slept' = cursor /\ jolted' = FALSE
  /\ UNCHANGED <<keys, cursor, prev>>

KeyboardNext == Press \/ Move \/ BuildButtons \/ ReadAxis3 \/ ReadAxis4 \/ WriteKeys

KeyboardSpec == KeyboardInit /\ [][KeyboardNext]_kbdVars

(***************************************************************************)
(* Properties                                                              *)
(***************************************************************************)

\* The layout in the head of xinput2serial.py.
Layout ==
  [space |-> "A", ctrl |-> "B", r |-> "Y", e |-> "X", q |-> "L", f |-> "R", tab |-> "MINUS",
   enter |-> "PLUS", v |-> "LCLICK", x |-> "RCLICK", h |-> "HOME", c |-> "CAPTURE"]

\* Every key of the documented layout presses its button: when the keys are read, the
\* packet gets the button of every key that is down, and none whose keys are all up.
KeysFollowLayout ==
  [][(kbdPc = "asleep" /\ kbdPc' = "axis3") => \A k \in DOMAIN Layout : Layout[k] \in buttons' <=> k \in keys]_kbdVars

\* The stick does not drift: a mouse that was still since the last packet leaves the right
\* stick centred, whatever was lost between two reads before.
StillMouseIsCentred == (kbdPc = "written" /\ slept = <<0, 0>> /\ ~jolted) => right = <<0, 0>>

\* What the mouse moved sideways during the sleep is what the packet says.
SidewaysIsSent == (kbdPc = "written" /\ ~jolted) => right[1] = slept[1]

\* The packets follow keyboard and mouse: the keys by the documented layout, the right stick
\* by the mouse, back at its centre when the mouse rests.
KeyboardFollows == [](KeyboardTypeOK /\ StillMouseIsCentred /\ SidewaysIsSent) /\ KeysFollowLayout
=============================================================================
