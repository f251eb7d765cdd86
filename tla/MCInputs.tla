------------------------------ MODULE MCInputs ------------------------------
(***************************************************************************)
(* Where the input comes from: the three kinds of pad of the bridge, the   *)
(* lines of a socket client and the Discord bot.  They share no variable   *)
(* and no property is about two of them, so a behaviour of this module is  *)
(* one of a single part while the others stay in an initial state.         *)
(***************************************************************************)
EXTENDS SocketPad, KeyboardPad, GamePad, LineBuffer, DiscordBot

VARIABLE part

\* A direction with one of the buttons that only a socket client can press, and another
\* such button.  The clients differ in nothing but their names.
Words == {{"home", "up"}, {"capture"}}
ClientSymmetry == Permutations(Client)

Init ==
  /\ part \in {"socket", "keyboard", "gamepad", "line", "bot"}
  /\ SocketPadInit /\ KeyboardInit /\ GamePadInit /\ LineInit /\ BotInit
  /\ part # "gamepad" => connected = {<<"x", 0>>}
  /\ part # "bot" => \A m \in Message : user[m] = CHOOSE u \in User : TRUE
  /\ part # "bot" => \A m \in Message : word[m] = CHOOSE w \in Word : TRUE

\* Nothing is left to happen: the main thread or the thread of a client has ended, or all
\* messages were dealt with when the bot was no longer watched.
Ended ==
  \/ part = "socket" /\ padPc = "crashed"
  \/ part = "line" /\ closed /\ linePc \in {"ended", "raised"}
  \/ part = "bot" /\ clock = MaxTime /\ \A m \in Message : phase[m] \in Over

Next ==
  /\ UNCHANGED part
  /\ \/ part = "socket" /\ SocketPadNext /\ UNCHANGED <<kbdVars, gamepadVars, lineVars, botVars>>
     \/ part = "keyboard" /\ KeyboardNext /\ UNCHANGED <<padVars, gamepadVars, lineVars, botVars>>
     \/ part = "gamepad" /\ GamePadNext /\ UNCHANGED <<padVars, kbdVars, lineVars, botVars>>
     \/ part = "line" /\ LineNext /\ UNCHANGED <<padVars, kbdVars, gamepadVars, botVars>>
     \/ part = "bot" /\ BotNext /\ UNCHANGED <<padVars, kbdVars, gamepadVars, lineVars>>
     \/ Ended /\ UNCHANGED <<padVars, kbdVars, gamepadVars, lineVars, botVars>>

Spec == Init /\ [][Next]_<<part, padVars, kbdVars, gamepadVars, lineVars, botVars>>
=============================================================================
