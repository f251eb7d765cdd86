------------------------------ MODULE Failsafe ------------------------------
(***************************************************************************)
(* What the console is promised when packets stop, as the timeline in the  *)
(* comment above MILLIS_UNTIL_PAUSE draws it, counted in IN reports:       *)
(*                                                                         *)
(*   0 .. FreshReports          the last packet again                      *)
(*     .. HomeStart             no input                                   *)
(*     .. HomeStart + HomeLen   HOME held down                             *)
(*     .. the next packet       no input                                   *)
(*                                                                         *)
(* The timeline stands still while the link is not synchronised; such      *)
(* reports carry no input.                                                 *)
(***************************************************************************)
EXTENDS Naturals

CONSTANTS FreshReports, HomeStart, HomeLen

VARIABLES
  linked,  \* the UART is synchronised
  age,     \* reports sent on the timeline since the last packet
  shown    \* what the report selected for the console says

fsVars == <<linked, age, shown>>

Timeline(n) ==
  CASE n < FreshReports -> "packet"
    [] n >= HomeStart /\ n < HomeStart + HomeLen -> "home"
    [] OTHER -> "empty"

FSInit == linked = FALSE /\ age = 0 /\ shown = "empty"

Packet ==
  /\ linked
  /\ age' = 0 /\ shown' = "packet"
  /\ UNCHANGED linked

SendReport ==
  /\ linked
  /\ shown' = Timeline(age)
  /\ age' = IF age < HomeStart + HomeLen THEN age + 1 ELSE age
  /\ UNCHANGED linked

SendUnlinked ==
  /\ ~linked
  /\ shown' = "empty"
  /\ UNCHANGED <<linked, age>>

ChangeLink == linked' = ~linked /\ UNCHANGED <<age, shown>>

FSNext == Packet \/ SendReport \/ SendUnlinked \/ ChangeLink

FSSpec == FSInit /\ [][FSNext]_fsVars
=============================================================================
