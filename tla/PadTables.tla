----------------------------- MODULE PadTables -----------------------------
(***************************************************************************)
(* The tables of xinput2serial.py.  A bit of the packet is named by the    *)
(* button it stands for in Firmware/datatypes.h, a direction of the pad    *)
(* by its pair (x, y).                                                     *)
(***************************************************************************)
EXTENDS Integers, TLC

\* The number of a button of a gamepad.  There is no button 8 here.
BTN_MAP ==
  [i \in 0..7 \cup {9, 10} |->
     <<"B", "A", "Y", "X", "L", "R", "MINUS", "PLUS", "", "LCLICK", "RCLICK">>[i + 1]]

SOCKET_BUTTONS ==
  [b |-> 0, a |-> 1, y |-> 2, x |-> 3, l |-> 4, r |-> 5, minus |-> 6, select |-> 6, back |-> 6,
   plus |-> 7, start |-> 7, lclick |-> 9, ls |-> 9, rclick |-> 10, rs |-> 10]

SOCKET_EXTRA_BITS == [home |-> "HOME", capture |-> "CAPTURE", screenshot |-> "CAPTURE"]

SOCKET_TRIGGER_AXES == [zl |-> 2, lt |-> 2, zr |-> 5, rt |-> 5]

SOCKET_DPAD ==
  [up |-> <<0, 1>>, u |-> <<0, 1>>, down |-> <<0, -1>>, d |-> <<0, -1>>,
   right |-> <<1, 0>>, r |-> <<1, 0>>, left |-> <<-1, 0>>, l |-> <<-1, 0>>,
   upright |-> <<1, 1>>, ur |-> <<1, 1>>, upleft |-> <<-1, 1>>, ul |-> <<-1, 1>>,
   downright |-> <<1, -1>>, dr |-> <<1, -1>>, downleft |-> <<-1, -1>>, dl |-> <<-1, -1>>]
  @@ ("up-right" :> <<1, 1>>) @@ ("up-left" :> <<-1, 1>>)
  @@ ("down-right" :> <<1, -1>>) @@ ("down-left" :> <<-1, -1>>)

\* Which key of the keyboard stands for which button of a gamepad.
KEY_MAPPING ==
  [i \in 0..7 \cup {9, 10} |->
     <<"ctrl", "space", "r", "e", "q", "f", "tab", "enter", "", "v", "x">>[i + 1]]

\* discord_input_bot.py: what a word of a chat message is relayed as.
COMMAND_ALIASES ==
  [a |-> "a", b |-> "b", x |-> "x", y |-> "y", up |-> "up", u |-> "up", down |-> "down",
   d |-> "down", left |-> "left", l |-> "left", right |-> "right", r |-> "right",
   l1 |-> "l", lb |-> "l", r1 |-> "r", rb |-> "r", zl |-> "zl", lt |-> "zl", zr |-> "zr",
   rt |-> "zr", plus |-> "plus", start |-> "plus", minus |-> "minus", select |-> "minus",
   home |-> "home", capture |-> "capture", screenshot |-> "capture"]
=============================================================================
