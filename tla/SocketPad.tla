----------------------------- MODULE SocketPad -----------------------------
(***************************************************************************)
(* xInput2Serial/xinput2serial.py: PadSocket, the inputs that the threads  *)
(* of its clients set and the packets that the main thread builds of them. *)
(*                                                                         *)
(* An event is a set of words.  A word is a command, or it is "left-stick" *)
(* or "right-stick" for an event that moves a stick.  The dictionaries     *)
(* button_until, extra_until and axis_until are one function, held.  A     *)
(* deadline is the time left until it, and a sleep lasts at most MaxLate   *)
(* longer than asked for, the work before the next one included.           *)
(***************************************************************************)
EXTENDS PadTables, FiniteSets

CONSTANTS
  Client,    \* threads that run _handle_client
  Event,     \* the events they may receive: sets of words
  Duration,  \* the durations of these, between 0.01 s and 5 s
  SEND, MaxLate

ASSUME SocketPadAssumption ==
  /\ SEND \in Nat \ {0} /\ MaxLate \in Nat
  /\ Duration \subseteq Nat \ {0} /\ \E d \in Duration : \A e \in Duration : e <= d

VARIABLES
  held,      \* the entries of the dictionaries: key -> time left
  hat_value, hat_until,
  pending,   \* client -> the event whose until is computed and that waits for the lock
  padPc,     \* the main thread: asleep, at a read of build_packet, or ended by an error
  wake,      \* time left to sleep
  todo,      \* the inputs that build_packet has yet to read
  iterated,  \* the keys of extra_until when its iteration began
  pkt,       \* what build_packet has found pressed
  shown,     \* the packet written last
  asked,     \* input -> time left of the latest command for it
  watch      \* one event, watched from its command on

dicts == <<held, hat_value, hat_until>>
padFrame == <<padPc, wake, todo, iterated, pkt, shown>>
padHistory == <<asked, watch>>
padVars == <<dicts, pending, padFrame, padHistory>>

None == [words |-> {}, left |-> 0, waited |-> 0]
Unwatched == [words |-> {}, left |-> 0, seen |-> TRUE]

\* _apply_command and the sticks of apply_event: the inputs that a word sets.
Target(word) ==
  CASE word \in DOMAIN SOCKET_DPAD         -> {<<"hat", SOCKET_DPAD[word]>>}
    [] word \in DOMAIN SOCKET_BUTTONS \ DOMAIN SOCKET_DPAD -> {<<"button", SOCKET_BUTTONS[word]>>}
    [] word \in DOMAIN SOCKET_EXTRA_BITS   -> {<<"extra", SOCKET_EXTRA_BITS[word]>>}
    [] word \in DOMAIN SOCKET_TRIGGER_AXES -> {<<"axis", SOCKET_TRIGGER_AXES[word]>>}
    [] word = "left-stick"                 -> {<<"axis", 0>>, <<"axis", 1>>}
    [] word = "right-stick"                -> {<<"axis", 3>>, <<"axis", 4>>}
    [] OTHER                               -> {}

Targets(words) == UNION {Target(w) : w \in words}
Input == Targets(UNION Event)
IsHat(k) == k[1] = "hat"

\* Faulty variant of Extras: all the extra buttons there are, set by a client or not.
ExtrasOfTable(h) == {k \in Input : k[1] = "extra"}

\* extra_until
Extras(h) == {k \in DOMAIN h : k[1] = "extra"}

\* When build_packet reads an input: the buttons, the extra buttons, the pad, the sticks.
Rank(k) == CASE k[1] = "button" -> k[2] [] k[1] = "extra" -> 11 [] IsHat(k) -> 12 [] k[1] = "axis" -> 13 + k[2]
\* Faulty variant of Read: only the buttons are asked for.
ReadButtons == {k \in Input : k[1] = "button"}

\* The triggers are not read: build_packet asks only a gamepad for axes 2 and 5.
Read == {k \in Input : k \notin {<<"axis", 2>>, <<"axis", 5>>}}

\* What the firmware is told about an input.
Says(k) ==
  CASE k[1] = "button" -> <<"button", BTN_MAP[k[2]]>> [] k[1] = "extra" -> <<"button", k[2]>> [] OTHER -> k

\* What the README of the Discord adapter and the names of the commands promise.
Promise(word) ==
  CASE word = "l"  -> {<<"button", "L">>}  [] word = "r"  -> {<<"button", "R">>}
    [] word = "zl" -> {<<"button", "ZL">>} [] word = "zr" -> {<<"button", "ZR">>}
    [] OTHER -> {Says(k) : k \in Target(word)}

Lowest == -(SEND + 2 * MaxLate + 1)
Longest == CHOOSE d \in Duration : \A e \in Duration : e <= d
\* Long enough for a whole packet to be built of it, however late everybody is.
Long == SEND + 3 * MaxLate + 1

SocketPadTypeOK ==
  /\ DOMAIN held \subseteq Input /\ \A k \in DOMAIN held : held[k] \in 0..Longest
  /\ hat_value \in {<<0, 0>>} \cup {SOCKET_DPAD[w] : w \in DOMAIN SOCKET_DPAD} /\ hat_until \in 0..Longest
  /\ pending \in [Client -> [words : Event \cup {{}}, left : 0..Longest, waited : 0..MaxLate]]
  /\ padPc \in {"asleep", "building", "iterating", "crashed"} /\ wake \in -MaxLate..SEND
  /\ todo \subseteq Read /\ iterated \subseteq Input /\ pkt \subseteq Input /\ shown \subseteq Input
  /\ asked \in [Input -> Lowest..Longest]

SocketPadInit ==
  /\ held = [k \in {} |-> 0] /\ hat_value = <<0, 0>> /\ hat_until = 0
  /\ pending = [c \in Client |-> None]
  /\ padPc = "asleep" /\ wake = 0 /\ todo = {} /\ iterated = {} /\ pkt = {} /\ shown = {}
  /\ asked = [k \in Input |-> Lowest] /\ watch = Unwatched

\* A line has come: apply_event computes until.
Receive(c) ==
  /\ padPc # "crashed" /\ pending[c] = None
  /\ \E ev \in Event, d \in Duration :
       pending' = [pending EXCEPT ![c] = [words |-> ev, left |-> d, waited |-> 0]]
  /\ UNCHANGED <<dicts, padFrame, padHistory>>

\* apply_event, with the lock: a word overwrites the deadline of its inputs.
Apply(c) ==
  LET ev == pending[c]
      new == Targets(ev.words)
      hats == {k \in new : IsHat(k)}
      old == {k \in Input : IsHat(k) /\ hats # {}} \ new
  IN  /\ padPc # "crashed" /\ ev # None
      /\ held' = [k \in DOMAIN held \cup (new \ hats) |-> IF k \in new THEN ev.left ELSE held[k]]
      /\ \E h \in IF hats = {} THEN {<<hat_value, hat_until>>} ELSE {<<k[2], ev.left>> : k \in hats} :
           hat_value' = h[1] /\ hat_until' = h[2]
      /\ pending' = [pending EXCEPT ![c] = None]
      /\ asked' = [k \in Input |-> IF k \in new THEN ev.left
                                   ELSE IF k \in old /\ asked[k] > 0 THEN 0 ELSE asked[k]]
      /\ watch' \in {IF Targets(watch.words) \cap (new \cup old) = {} THEN watch ELSE Unwatched}
           \cup (IF watch = Unwatched /\ ev.left + ev.waited >= Long
                 THEN {[words |-> ev.words, left |-> ev.left, seen |-> FALSE]} ELSE {})
      /\ UNCHANGED padFrame

\* The main thread: build_packet is called after the sleep.
StartFrame ==
  /\ padPc = "asleep" /\ wake <= 0
  /\ padPc' = "building" /\ todo' = Read /\ pkt' = {}
  /\ UNCHANGED <<dicts, pending, wake, iterated, shown, padHistory>>

\* _expire
Unexpired == [k \in {j \in DOMAIN held : held[j] > 0} |-> held[k]]
Expire ==
  /\ held' = Unexpired
  /\ hat_value' = IF hat_until > 0 THEN hat_value ELSE <<0, 0>>
  /\ UNCHANGED hat_until

\* btn, axis and hat
Pressed(k) == IF IsHat(k) THEN hat_value = k[2] /\ hat_until > 0 ELSE k \in DOMAIN Unexpired

IsNext(k) == k \in todo /\ \A j \in todo : Rank(k) <= Rank(j)
ReadInput(k) ==
  /\ padPc = "building" /\ IsNext(k) /\ k[1] # "extra"
  /\ Expire
  /\ pkt' = IF Pressed(k) THEN pkt \cup {k} ELSE pkt
  /\ todo' = todo \ {k}
  /\ UNCHANGED <<pending, padPc, wake, iterated, shown, padHistory>>

\* extra_buttons: what _expire leaves is iterated over, without the lock.
BeginExtras ==
  /\ padPc = "building" /\ \E k \in todo : IsNext(k) /\ k[1] = "extra"
  /\ Expire
  /\ iterated' = Extras(Unexpired)
  /\ todo' = (todo \ Extras([k \in Input |-> 0])) \cup iterated'
  /\ padPc' = IF iterated' = {} THEN "building" ELSE "iterating"
  /\ UNCHANGED <<pending, wake, pkt, shown, padHistory>>

\* One round of the loop.  A dictionary that has grown since is an error.
Iterate ==
  /\ padPc = "iterating"
  /\ \E k \in iterated : k \in todo /\ pkt' = pkt \cup {k} /\ todo' = todo \ {k}
  /\ UNCHANGED <<dicts, pending, padPc, wake, iterated, shown, padHistory>>

Grown == Extras(held) # iterated
EndExtras ==
  /\ padPc = "iterating" /\ iterated \cap pkt # {}
  /\ \/ Grown /\ padPc' = "crashed"
     \/ ~Grown /\ iterated \cap todo = {} /\ padPc' = "building"
  /\ UNCHANGED <<dicts, pending, wake, todo, iterated, pkt, shown, padHistory>>

\* The packet is written, and the main thread sleeps.
WritePacket ==
  /\ padPc = "building" /\ todo = {}
  /\ shown' = pkt /\ pkt' = {} /\ iterated' = {} /\ padPc' = "asleep" /\ wake' = SEND
  /\ watch' = [watch EXCEPT !.seen = @ \/ UNION {Promise(w) : w \in watch.words} \subseteq {Says(k) : k \in pkt}]
  /\ UNCHANGED <<dicts, pending, todo, asked>>

Before(left) == IF left > 0 THEN left - 1 ELSE 0
Tick ==
  /\ padPc # "crashed" /\ wake > -MaxLate
  /\ \A c \in Client : pending[c] # None => pending[c].waited < MaxLate
  /\ wake' = wake - 1
  /\ held' = [k \in DOMAIN held |-> Before(held[k])] /\ hat_until' = Before(hat_until)
  /\ pending' = [c \in Client |-> IF pending[c] = None THEN None
                   ELSE [pending[c] EXCEPT !.left = Before(@), !.waited = @ + 1]]
  /\ asked' = [k \in Input |-> IF asked[k] > Lowest THEN asked[k] - 1 ELSE Lowest]
  /\ watch' = [watch EXCEPT !.left = Before(@)]
  /\ UNCHANGED <<hat_value, padPc, todo, iterated, pkt, shown>>

SocketPadNext ==
  \/ \E c \in Client : Receive(c) \/ Apply(c)
  \/ StartFrame \/ (\E k \in Input : ReadInput(k)) \/ BeginExtras \/ Iterate \/ EndExtras
  \/ WritePacket \/ Tick

SocketPadSpec == SocketPadInit /\ [][SocketPadNext]_padVars

(***************************************************************************)
(* Properties                                                              *)
(***************************************************************************)

\* Released in time: the packet on display shows no input whose last command ran out,
\* or was replaced by another direction, longer ago than one packet takes.
ReleasedInTime == padPc # "crashed" => \A k \in shown : asked[k] > Lowest

\* A command is not lost, and commands of one event are shown together: before an event
\* that is long enough runs out, one packet shows all that its words promise, whatever
\* the other clients do to other inputs and wherever between two reads it was applied.
EventIsSeen == (padPc # "crashed" /\ watch.left = 0) => watch.seen

\* No input stays pressed by a client: the deadlines that clients write while the main loop
\* reads them keep their types, and what ran out is released.
InputsAreReleased == SocketPadTypeOK /\ ReleasedInTime
=============================================================================
