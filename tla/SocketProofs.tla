---------------------------- MODULE SocketProofs ----------------------------
(***************************************************************************)
(* Proofs about what the bridge gets from its socket clients: PadSocket    *)
(* (SocketPad) and the Discord bot that feeds it (DiscordBot).             *)
(***************************************************************************)
EXTENDS SocketPad, DiscordBot, TLAPS

-----------------------------------------------------------------------------
(***************************************************************************)
(* PadSocket, for any clients, events, durations and delays.               *)
(***************************************************************************)

\* The entries of the dictionaries that have not run out are those of the latest
\* commands.
Latest ==
  /\ \A k \in DOMAIN held : ~IsHat(k) /\ (held[k] > 0 => asked[k] = held[k])
  /\ \A k \in Input : (IsHat(k) /\ k[2] = hat_value /\ hat_until > 0) => asked[k] = hat_until

\* What a packet under construction has, and what the packet on display shows, ran out
\* no longer ago than the sleep before it, or the work on it, took.
Recent ==
  /\ padPc = "asleep" => pkt = {} /\ iterated = {}
  /\ padPc # "asleep" => wake <= 0
  /\ \A k \in pkt \cup iterated : asked[k] >= wake
  /\ \A k \in shown : asked[k] + SEND + MaxLate >= wake

PadInv == SocketPadTypeOK /\ Latest /\ Recent

(***************************************************************************)
(* Inputs and times.                                                       *)
(***************************************************************************)

\* A direction is one of the table's.
LEMMA HatTarget ==
  ASSUME NEW w, NEW k, k \in Target(w), IsHat(k)
  PROVE  w \in DOMAIN SOCKET_DPAD /\ k = <<"hat", SOCKET_DPAD[w]>>
  BY DEF Target, IsHat

LEMMA HatInput ==
  ASSUME NEW words, NEW k \in Targets(words), IsHat(k)
  PROVE  k = <<"hat", k[2]>> /\ k[2] \in {SOCKET_DPAD[w] : w \in DOMAIN SOCKET_DPAD}
<1>1. PICK w \in words : k \in Target(w)
  BY DEF Targets
<1>2. w \in DOMAIN SOCKET_DPAD /\ k = <<"hat", SOCKET_DPAD[w]>>
  BY <1>1, HatTarget
<1>. QED
  BY <1>2

\* Two directions are the same input if they have the same value.
LEMMA HatsDiffer ==
  ASSUME NEW v, NEW w, NEW j \in Targets(v), NEW k \in Targets(w), IsHat(j), IsHat(k), j[2] = k[2]
  PROVE  j = k
<1>1. j = <<"hat", j[2]>> /\ k = <<"hat", k[2]>>
  BY HatInput
<1>. QED
  BY <1>1

LEMMA EventTargets ==
  ASSUME NEW ev \in Event
  PROVE  Targets(ev) \subseteq Input
  BY DEF Targets, Input

\* The bounds of the times.
LEMMA Bounds ==
  /\ SEND \in Nat /\ SEND > 0 /\ MaxLate \in Nat
  /\ Longest \in Duration /\ Longest \in Nat
  /\ \A d \in Duration : d \in Nat /\ d > 0 /\ d <= Longest
  /\ Lowest \in Int /\ Lowest < -(SEND + 2 * MaxLate)
<1>1. \E d \in Duration : \A e \in Duration : e <= d
  BY SocketPadAssumption
<1>2. Longest \in Duration /\ \A e \in Duration : e <= Longest
  BY <1>1 DEF Longest
<1>3. SEND \in Nat /\ SEND > 0 /\ MaxLate \in Nat /\ \A d \in Duration : d \in Nat /\ d > 0
  BY SocketPadAssumption
<1>. QED
  BY <1>2, <1>3 DEF Lowest

LEMMA BeforeType ==
  ASSUME NEW n \in Nat
  PROVE  /\ Before(n) \in Nat /\ Before(n) <= n
         /\ n > 0 => Before(n) = n - 1
         /\ Before(n) > 0 => n > 0
  BY DEF Before

LEMMA PadInitInv == SocketPadInit => PadInv
<1>. SUFFICES ASSUME SocketPadInit PROVE PadInv
  OBVIOUS
<1>1. None \in [words : Event \cup {{}}, left : 0..Longest, waited : 0..MaxLate]
  BY Bounds DEF None
<1>2. SocketPadTypeOK
  BY <1>1, Bounds DEF SocketPadInit, SocketPadTypeOK
<1>3. Latest
  BY DEF SocketPadInit, Latest
<1>4. Recent
  BY Bounds DEF SocketPadInit, Recent
<1>. QED
  BY <1>2, <1>3, <1>4 DEF PadInv

(***************************************************************************)
(* The clients.                                                            *)
(***************************************************************************)
LEMMA ReceiveStep == ASSUME PadInv, NEW c \in Client, Receive(c) PROVE PadInv'
<1>1. PICK ev \in Event, d \in Duration :
        pending' = [pending EXCEPT ![c] = [words |-> ev, left |-> d, waited |-> 0]]
  BY DEF Receive
<1>2. [words |-> ev, left |-> d, waited |-> 0]
        \in [words : Event \cup {{}}, left : 0..Longest, waited : 0..MaxLate]
  BY Bounds
<1>3. UNCHANGED <<held, hat_value, hat_until, padPc, wake, todo, iterated, pkt, shown, asked>>
  BY DEF Receive, dicts, padFrame, padHistory
<1>4. SocketPadTypeOK'
  BY <1>1, <1>2, <1>3 DEF PadInv, SocketPadTypeOK
<1>5. Latest' /\ Recent'
  BY <1>3 DEF PadInv, Latest, Recent
<1>. QED
  BY <1>4, <1>5 DEF PadInv

LEMMA ApplyStep == ASSUME PadInv, NEW c \in Client, Apply(c) PROVE PadInv'
<1>. DEFINE ev == pending[c]
            new == Targets(ev.words)
            hats == {k \in new : IsHat(k)}
            old == {k \in Input : IsHat(k) /\ hats # {}} \ new
<1>1. /\ ev.words \in Event \cup {{}} /\ ev.left \in 0..Longest
      /\ new \subseteq Input
  <2>1. ev \in [words : Event \cup {{}}, left : 0..Longest, waited : 0..MaxLate]
    BY DEF PadInv, SocketPadTypeOK
  <2>2. Targets({}) = {}
    BY DEF Targets
  <2>. QED
    BY <2>1, <2>2, EventTargets
<1>2. /\ held' = [k \in DOMAIN held \cup (new \ hats) |-> IF k \in new THEN ev.left ELSE held[k]]
      /\ pending' = [pending EXCEPT ![c] = None]
      /\ asked' = [k \in Input |-> IF k \in new THEN ev.left
                                   ELSE IF k \in old /\ asked[k] > 0 THEN 0 ELSE asked[k]]
      /\ UNCHANGED <<padPc, wake, todo, iterated, pkt, shown>>
  BY DEF Apply, padFrame
<1>3. \/ hats = {} /\ UNCHANGED <<hat_value, hat_until>>
      \/ \E k \in hats : hat_value' = k[2] /\ hat_until' = ev.left
  BY DEF Apply
<1>4. \A k \in Input : asked'[k] \in Int /\ asked'[k] >= Lowest /\ asked'[k] <= Longest
                       /\ (asked'[k] >= asked[k] \/ asked'[k] >= 0)
  BY <1>1, <1>2, Bounds DEF PadInv, SocketPadTypeOK
<1>5. SocketPadTypeOK'
  <2>1. None \in [words : Event \cup {{}}, left : 0..Longest, waited : 0..MaxLate]
    BY Bounds DEF None
  <2>2. DOMAIN held' \subseteq Input /\ \A k \in DOMAIN held' : held'[k] \in 0..Longest
    BY <1>1, <1>2 DEF PadInv, SocketPadTypeOK
  <2>3. hat_value' \in {<<0, 0>>} \cup {SOCKET_DPAD[w] : w \in DOMAIN SOCKET_DPAD} /\ hat_until' \in 0..Longest
    BY <1>1, <1>3, HatInput DEF PadInv, SocketPadTypeOK
  <2>4. asked' \in [Input -> Lowest..Longest]
    BY <1>2, <1>4
  <2>. QED
    BY <1>2, <2>1, <2>2, <2>3, <2>4 DEF PadInv, SocketPadTypeOK
<1>6. Latest'
  <2>1. \A k \in DOMAIN held' : ~IsHat(k) /\ (held'[k] > 0 => asked'[k] = held'[k])
    <3>. SUFFICES ASSUME NEW k \in DOMAIN held'
                  PROVE  ~IsHat(k) /\ (held'[k] > 0 => asked'[k] = held'[k])
      OBVIOUS
    <3>1. k \in Input
      BY <1>5 DEF SocketPadTypeOK
    <3>2. ~IsHat(k)
      BY <1>2 DEF PadInv, Latest
    <3>3. k \notin old
      BY <3>2
    <3>. QED
      BY <1>2, <3>1, <3>2, <3>3 DEF PadInv, Latest
  <2>2. ASSUME NEW k \in Input, IsHat(k), k[2] = hat_value', hat_until' > 0
        PROVE  asked'[k] = hat_until'
    <3>1. CASE hats = {} /\ UNCHANGED <<hat_value, hat_until>>
      BY <1>2, <2>2, <3>1 DEF PadInv, Latest
    <3>2. ASSUME NEW j \in hats, hat_value' = j[2], hat_until' = ev.left PROVE asked'[k] = hat_until'
      <4>1. k = j
        BY <2>2, <3>2, HatsDiffer DEF Input
      <4>. QED
        BY <1>2, <2>2, <3>2, <4>1
    <3>. QED
      BY <1>3, <3>1, <3>2
  <2>. QED
    BY <2>1, <2>2 DEF Latest
<1>7. Recent'
  <2>1. pkt \subseteq Input /\ iterated \subseteq Input /\ shown \subseteq Input /\ wake \in Int
        /\ wake <= SEND
    BY Bounds DEF PadInv, SocketPadTypeOK
  <2>2. \A k \in pkt \cup iterated : asked'[k] >= wake
    <3>. SUFFICES ASSUME NEW k \in pkt \cup iterated PROVE asked'[k] >= wake
      OBVIOUS
    <3>1. asked[k] >= wake /\ wake <= 0 /\ asked[k] \in Int
      BY <2>1 DEF PadInv, Recent, SocketPadTypeOK
    <3>. QED
      BY <1>4, <2>1, <3>1
  <2>3. \A k \in shown : asked'[k] + SEND + MaxLate >= wake
    <3>. SUFFICES ASSUME NEW k \in shown PROVE asked'[k] + SEND + MaxLate >= wake
      OBVIOUS
    <3>1. asked[k] + SEND + MaxLate >= wake /\ asked[k] \in Int
      BY <2>1 DEF PadInv, Recent, SocketPadTypeOK
    <3>. QED
      BY <1>4, <2>1, <3>1, Bounds
  <2>. QED
    BY <1>2, <2>2, <2>3 DEF PadInv, Recent
<1>. QED
  BY <1>5, <1>6, <1>7 DEF PadInv

(***************************************************************************)
(* The main thread.                                                        *)
(***************************************************************************)

\* What _expire does not remove.
LEMMA UnexpiredFacts ==
  ASSUME PadInv
  PROVE  /\ DOMAIN Unexpired = {k \in DOMAIN held : held[k] > 0}
         /\ DOMAIN Unexpired \subseteq Input
         /\ \A k \in DOMAIN Unexpired : /\ Unexpired[k] = held[k] /\ held[k] \in 0..Longest
                                        /\ asked[k] = held[k] /\ ~IsHat(k)
<1>1. DOMAIN Unexpired = {k \in DOMAIN held : held[k] > 0}
      /\ \A k \in DOMAIN Unexpired : Unexpired[k] = held[k]
  BY DEF Unexpired
<1>. QED
  BY <1>1 DEF PadInv, SocketPadTypeOK, Latest

LEMMA ExpireFacts ==
  ASSUME PadInv, Expire, asked' = asked
  PROVE  /\ Latest'
         /\ DOMAIN held' \subseteq Input /\ \A k \in DOMAIN held' : held'[k] \in 0..Longest
         /\ hat_value' \in {<<0, 0>>} \cup {SOCKET_DPAD[w] : w \in DOMAIN SOCKET_DPAD}
         /\ hat_until' \in 0..Longest
<1>1. held' = Unexpired /\ hat_until' = hat_until /\ (hat_until > 0 => hat_value' = hat_value)
      /\ hat_value' \in {hat_value, <<0, 0>>}
  BY DEF Expire
<1>2. \A k \in DOMAIN held' : ~IsHat(k) /\ (held'[k] > 0 => asked'[k] = held'[k])
  BY <1>1, UnexpiredFacts
<1>3. \A k \in Input : (IsHat(k) /\ k[2] = hat_value' /\ hat_until' > 0) => asked'[k] = hat_until'
  BY <1>1 DEF PadInv, Latest
<1>4. Latest'
  BY <1>2, <1>3 DEF Latest
<1>5. DOMAIN held' \subseteq Input /\ \A k \in DOMAIN held' : held'[k] \in 0..Longest
  BY <1>1, UnexpiredFacts
<1>. QED
  BY <1>1, <1>4, <1>5 DEF PadInv, SocketPadTypeOK

\* An input that is found pressed has time left.
LEMMA PressedFacts ==
  ASSUME PadInv, NEW k \in Input, Pressed(k)
  PROVE  asked[k] > 0
<1>1. CASE IsHat(k)
  BY <1>1 DEF PadInv, Latest, Pressed
<1>2. CASE ~IsHat(k)
  BY <1>2, UnexpiredFacts DEF Pressed
<1>. QED
  BY <1>1, <1>2

LEMMA StartStep == ASSUME PadInv, StartFrame PROVE PadInv'
<1>1. SocketPadTypeOK'
  BY DEF PadInv, SocketPadTypeOK, StartFrame, dicts, padHistory
<1>2. Latest'
  BY DEF PadInv, Latest, StartFrame, dicts, padHistory
<1>3. Recent'
  BY DEF PadInv, Recent, StartFrame, dicts, padHistory
<1>. QED
  BY <1>1, <1>2, <1>3 DEF PadInv

LEMMA ReadStep == ASSUME PadInv, NEW k \in Input, ReadInput(k) PROVE PadInv'
<1>1. /\ padPc = "building" /\ Expire /\ pkt' \in {pkt, pkt \cup {k}} /\ (pkt' # pkt => Pressed(k))
      /\ todo' = todo \ {k}
      /\ UNCHANGED <<pending, padPc, wake, iterated, shown, asked>>
  BY DEF ReadInput, padHistory
<1>2. SocketPadTypeOK' /\ Latest'
  BY <1>1, ExpireFacts DEF PadInv, SocketPadTypeOK
<1>3. wake \in Int /\ wake <= 0 /\ asked[k] \in Int
  BY <1>1, Bounds DEF PadInv, SocketPadTypeOK, Recent
<1>4. \A j \in pkt' \cup iterated' : asked'[j] >= wake'
  BY <1>1, <1>3, PressedFacts DEF PadInv, Recent
<1>5. Recent'
  BY <1>1, <1>4 DEF PadInv, Recent
<1>. QED
  BY <1>2, <1>5 DEF PadInv

LEMMA BeginStep == ASSUME PadInv, BeginExtras PROVE PadInv'
<1>1. /\ padPc = "building" /\ Expire /\ iterated' = Extras(Unexpired)
      /\ todo' = (todo \ Extras([k \in Input |-> 0])) \cup iterated'
      /\ padPc' \in {"building", "iterating"}
      /\ UNCHANGED <<pending, wake, pkt, shown, asked>>
  BY DEF BeginExtras, padHistory
<1>2. iterated' \subseteq DOMAIN Unexpired /\ \A k \in iterated' : k[1] = "extra"
  BY <1>1 DEF Extras
<1>3. iterated' \subseteq Input /\ iterated' \subseteq Read
  <2>1. iterated' \subseteq Input
    BY <1>2, UnexpiredFacts
  <2>2. <<"axis", 2>>[1] # "extra" /\ <<"axis", 5>>[1] # "extra"
    OBVIOUS
  <2>. QED
    BY <1>2, <2>1, <2>2 DEF Read
<1>4. SocketPadTypeOK' /\ Latest'
  BY <1>1, <1>3, ExpireFacts DEF PadInv, SocketPadTypeOK
<1>5. wake \in Int /\ wake <= 0
  BY <1>1, Bounds DEF PadInv, SocketPadTypeOK, Recent
<1>6. \A j \in pkt' \cup iterated' : asked'[j] >= wake'
  BY <1>1, <1>2, <1>5, UnexpiredFacts, Bounds DEF PadInv, Recent
<1>7. Recent'
  BY <1>1, <1>5, <1>6 DEF PadInv, Recent
<1>. QED
  BY <1>4, <1>7 DEF PadInv

LEMMA IterateStep == ASSUME PadInv, Iterate PROVE PadInv'
<1>1. PICK k \in iterated : k \in todo /\ pkt' = pkt \cup {k} /\ todo' = todo \ {k}
  BY DEF Iterate
<1>2. UNCHANGED <<held, hat_value, hat_until, pending, padPc, wake, iterated, shown, asked>>
      /\ padPc = "iterating"
  BY DEF Iterate, dicts, padHistory
<1>3. SocketPadTypeOK' /\ Latest'
  BY <1>1, <1>2 DEF PadInv, SocketPadTypeOK, Latest
<1>4. Recent'
  BY <1>1, <1>2 DEF PadInv, Recent
<1>. QED
  BY <1>3, <1>4 DEF PadInv

LEMMA EndStep == ASSUME PadInv, EndExtras PROVE PadInv'
<1>1. /\ UNCHANGED <<held, hat_value, hat_until, pending, wake, todo, iterated, pkt, shown, asked>>
      /\ padPc = "iterating" /\ padPc' \in {"crashed", "building"}
  BY DEF EndExtras, dicts, padHistory
<1>2. SocketPadTypeOK' /\ Latest'
  BY <1>1 DEF PadInv, SocketPadTypeOK, Latest
<1>3. Recent'
  BY <1>1 DEF PadInv, Recent
<1>. QED
  BY <1>2, <1>3 DEF PadInv

LEMMA WriteStep == ASSUME PadInv, WritePacket PROVE PadInv'
<1>1. /\ UNCHANGED <<held, hat_value, hat_until, pending, todo, asked>>
      /\ shown' = pkt /\ pkt' = {} /\ iterated' = {} /\ padPc' = "asleep" /\ wake' = SEND
  BY DEF WritePacket, dicts
<1>2. SocketPadTypeOK' /\ Latest'
  BY <1>1, Bounds DEF PadInv, SocketPadTypeOK, Latest
<1>3. \A k \in shown' : asked'[k] + SEND + MaxLate >= wake'
  <2>. SUFFICES ASSUME NEW k \in pkt PROVE asked[k] + SEND + MaxLate >= SEND
    BY <1>1
  <2>1. asked[k] >= wake /\ asked[k] \in Int /\ wake \in Int /\ wake >= -MaxLate
    BY Bounds DEF PadInv, SocketPadTypeOK, Recent
  <2>. QED
    BY <2>1, Bounds
<1>4. Recent'
  BY <1>1, <1>3 DEF Recent
<1>. QED
  BY <1>2, <1>4 DEF PadInv

LEMMA TickStep == ASSUME PadInv, Tick PROVE PadInv'
<1>1. /\ padPc # "crashed" /\ wake > -MaxLate /\ wake' = wake - 1
      /\ held' = [k \in DOMAIN held |-> Before(held[k])] /\ hat_until' = Before(hat_until)
      /\ asked' = [k \in Input |-> IF asked[k] > Lowest THEN asked[k] - 1 ELSE Lowest]
      /\ UNCHANGED <<hat_value, padPc, todo, iterated, pkt, shown>>
  BY DEF Tick
<1>2. pending' \in [Client -> [words : Event \cup {{}}, left : 0..Longest, waited : 0..MaxLate]]
  <2>. SUFFICES ASSUME NEW c \in Client
                PROVE  (IF pending[c] = None THEN None
                        ELSE [pending[c] EXCEPT !.left = Before(@), !.waited = @ + 1])
                         \in [words : Event \cup {{}}, left : 0..Longest, waited : 0..MaxLate]
    BY DEF Tick
  <2>1. CASE pending[c] = None
    BY <2>1, Bounds DEF None
  <2>2. CASE pending[c] # None
    <3>1. pending[c] \in [words : Event \cup {{}}, left : 0..Longest, waited : 0..MaxLate]
      BY DEF PadInv, SocketPadTypeOK
    <3>2. pending[c].waited < MaxLate
      BY <2>2 DEF Tick
    <3>3. Before(pending[c].left) \in 0..Longest /\ pending[c].waited + 1 \in 0..MaxLate
      BY <3>1, <3>2, Bounds DEF Before
    <3>. QED
      BY <2>2, <3>1, <3>3
  <2>. QED
    BY <2>1, <2>2
<1>3. \A k \in DOMAIN held : held[k] \in 0..Longest /\ Before(held[k]) \in 0..Longest
                             /\ (Before(held[k]) > 0 => held[k] > 0 /\ Before(held[k]) = held[k] - 1)
  BY Bounds DEF PadInv, SocketPadTypeOK, Before
<1>4. /\ hat_until \in 0..Longest /\ Before(hat_until) \in 0..Longest
      /\ Before(hat_until) > 0 => hat_until > 0 /\ Before(hat_until) = hat_until - 1
  BY Bounds DEF PadInv, SocketPadTypeOK, Before
<1>5. wake \in Int /\ -MaxLate <= wake - 1 /\ wake - 1 <= SEND
  BY <1>1, Bounds DEF PadInv, SocketPadTypeOK
<1>6. \A k \in Input : /\ asked[k] \in Lowest..Longest /\ asked'[k] \in Lowest..Longest
                       /\ asked[k] > Lowest => asked'[k] = asked[k] - 1
  BY <1>1, Bounds DEF PadInv, SocketPadTypeOK
<1>7. SocketPadTypeOK'
  <2>1. DOMAIN held' \subseteq Input /\ \A k \in DOMAIN held' : held'[k] \in 0..Longest
    BY <1>1, <1>3 DEF PadInv, SocketPadTypeOK
  <2>2. asked' \in [Input -> Lowest..Longest]
    BY <1>1, <1>6
  <2>3. wake' \in -MaxLate..SEND
    BY <1>1, <1>5, Bounds
  <2>. QED
    BY <1>1, <1>2, <1>4, <2>1, <2>2, <2>3 DEF PadInv, SocketPadTypeOK
<1>8. Latest'
  <2>1. \A k \in DOMAIN held' : ~IsHat(k) /\ (held'[k] > 0 => asked'[k] = held'[k])
    <3>. SUFFICES ASSUME NEW k \in DOMAIN held
                  PROVE  ~IsHat(k) /\ (Before(held[k]) > 0 => asked'[k] = Before(held[k]))
      BY <1>1
    <3>1. k \in Input /\ ~IsHat(k) /\ (held[k] > 0 => asked[k] = held[k])
      BY DEF PadInv, SocketPadTypeOK, Latest
    <3>. QED
      BY <1>3, <1>6, <3>1, Bounds
  <2>2. \A k \in Input : (IsHat(k) /\ k[2] = hat_value' /\ hat_until' > 0) => asked'[k] = hat_until'
    <3>. SUFFICES ASSUME NEW k \in Input, IsHat(k), k[2] = hat_value, Before(hat_until) > 0
                  PROVE  asked'[k] = Before(hat_until)
      BY <1>1
    <3>1. asked[k] = hat_until
      BY <1>4 DEF PadInv, Latest
    <3>. QED
      BY <1>4, <1>6, <3>1, Bounds
  <2>. QED
    BY <2>1, <2>2 DEF Latest
<1>9. Recent'
  <2>1. \A k \in pkt \cup iterated : asked'[k] >= wake'
    <3>. SUFFICES ASSUME NEW k \in pkt \cup iterated PROVE asked'[k] >= wake'
      OBVIOUS
    <3>1. k \in Input /\ asked[k] >= wake
      BY DEF PadInv, SocketPadTypeOK, Recent
    <3>. QED
      BY <1>1, <1>5, <1>6, <3>1, Bounds
  <2>2. \A k \in shown : asked'[k] + SEND + MaxLate >= wake'
    <3>. SUFFICES ASSUME NEW k \in shown PROVE asked'[k] + SEND + MaxLate >= wake'
      OBVIOUS
    <3>1. k \in Input /\ asked[k] + SEND + MaxLate >= wake
      BY DEF PadInv, SocketPadTypeOK, Recent
    <3>. QED
      BY <1>1, <1>5, <1>6, <3>1, Bounds
  <2>3. padPc # "asleep" => wake - 1 <= 0
    BY <1>5 DEF PadInv, Recent
  <2>. QED
    BY <1>1, <2>1, <2>2, <2>3 DEF PadInv, Recent
<1>. QED
  BY <1>7, <1>8, <1>9 DEF PadInv

LEMMA PadStep == ASSUME PadInv, [SocketPadNext]_padVars PROVE PadInv'
<1>1. CASE UNCHANGED padVars
  <2>1. UNCHANGED <<held, hat_value, hat_until, pending, padPc, wake, todo, iterated, pkt, shown, asked>>
    BY <1>1 DEF padVars, dicts, padFrame, padHistory
  <2>. QED
    BY <2>1 DEF PadInv, SocketPadTypeOK, Latest, Recent
<1>. QED
  BY <1>1, ReceiveStep, ApplyStep, StartStep, ReadStep, BeginStep, IterateStep, EndStep,
     WriteStep, TickStep DEF SocketPadNext

LEMMA PadInvariance == SocketPadSpec => []PadInv
  BY PadInitInv, PadStep, PTL DEF SocketPadSpec

\* No input stays pressed by a client: what the packet on display shows ran out, or was
\* replaced by another direction, no longer ago than one packet takes, for any number of
\* clients, any events and any delay (apply_event, _expire, build_packet).
THEOREM SocketInputsAreReleased == SocketPadSpec => []InputsAreReleased
<1>1. PadInv => InputsAreReleased
  <2>. SUFFICES ASSUME PadInv PROVE InputsAreReleased
    OBVIOUS
  <2>1. ASSUME NEW k \in shown PROVE asked[k] > Lowest
    <3>1. asked[k] \in Int /\ asked[k] + SEND + MaxLate >= wake /\ wake \in Int /\ wake >= -MaxLate
      BY <2>1, Bounds DEF PadInv, SocketPadTypeOK, Recent
    <3>. QED
      BY <3>1, Bounds
  <2>. QED
    BY <2>1 DEF InputsAreReleased, ReleasedInTime, PadInv
<1>. QED
  BY <1>1, PadInvariance, PTL

(***************************************************************************)
(* A whole event in one packet.                                            *)
(***************************************************************************)

\* Events whose words mean what they promise, that set what build_packet reads, and that
\* press one direction at most.
Promising ==
  \A ev \in Event :
    /\ \A w \in ev : Promise(w) = {Says(k) : k \in Target(w)}
    /\ Targets(ev) \subseteq Read
    /\ \A j, k \in Targets(ev) : IsHat(j) /\ IsHat(k) => j = k

\* The event that is watched.
Watched == Targets(watch.words)

\* Nothing has overwritten its deadlines.
StillSet ==
  \A k \in Watched : IF IsHat(k) THEN hat_value = k[2] /\ hat_until = watch.left
                     ELSE k \in DOMAIN held /\ held[k] = watch.left

\* It lasts until the packet that is, or will be, built next, or until the one after.
LastsNow == watch.left >= wake + MaxLate + 1
LastsOne == watch.left >= wake + SEND + 2 * MaxLate + 1

\* The next packet but one shows it, or the next one does and has what was read of it.
Underway ==
  /\ StillSet
  /\ padPc = "asleep" => LastsNow
  /\ padPc # "asleep" => LastsOne \/ (LastsNow /\ Watched \ todo \subseteq pkt)

WatchInv ==
  /\ watch \in [words : Event \cup {{}}, left : Nat, seen : BOOLEAN]
  /\ (padPc # "crashed" /\ ~watch.seen) => Underway

LEMMA WatchInit == SocketPadInit => WatchInv
  BY DEF SocketPadInit, WatchInv, Unwatched

\* Until it was seen it has not run out.
LEMMA TimeLeft ==
  ASSUME PadInv, WatchInv, Underway
  PROVE  LastsNow /\ watch.left > 0
<1>1. wake \in Int /\ wake >= -MaxLate /\ watch.left \in Nat
  BY Bounds DEF PadInv, SocketPadTypeOK, WatchInv
<1>2. LastsOne => LastsNow
  BY <1>1, Bounds DEF LastsOne, LastsNow
<1>3. LastsNow
  BY <1>2 DEF Underway
<1>. QED
  BY <1>1, <1>3, Bounds DEF LastsNow

\* _expire keeps what has not run out.
LEMMA ExpireKeeps ==
  ASSUME StillSet, watch.left \in Nat, watch.left > 0, Expire, watch' = watch
  PROVE  StillSet'
<1>1. held' = Unexpired /\ hat_until' = hat_until /\ (hat_until > 0 => hat_value' = hat_value)
  BY DEF Expire
<1>2. \A k \in DOMAIN held : held[k] > 0 => k \in DOMAIN Unexpired /\ Unexpired[k] = held[k]
  BY DEF Unexpired
<1>. QED
  BY <1>1, <1>2 DEF StillSet, Watched

LEMMA WatchReceive == ASSUME PadInv, WatchInv, NEW c \in Client, Receive(c) PROVE WatchInv'
<1>1. UNCHANGED <<held, hat_value, hat_until, padPc, wake, todo, pkt, watch>>
  BY DEF Receive, dicts, padFrame, padHistory
<1>. QED
  BY <1>1 DEF WatchInv, Underway, StillSet, Watched, LastsNow, LastsOne

LEMMA WatchApply == ASSUME Promising, PadInv, WatchInv, NEW c \in Client, Apply(c) PROVE WatchInv'
<1>. DEFINE ev == pending[c]
            new == Targets(ev.words)
            hats == {k \in new : IsHat(k)}
            old == {k \in Input : IsHat(k) /\ hats # {}} \ new
<1>1. /\ held' = [k \in DOMAIN held \cup (new \ hats) |-> IF k \in new THEN ev.left ELSE held[k]]
      /\ UNCHANGED <<padPc, wake, todo, pkt>> /\ padPc # "crashed"
  BY DEF Apply, padFrame
<1>2. \/ hats = {} /\ UNCHANGED <<hat_value, hat_until>>
      \/ \E k \in hats : hat_value' = k[2] /\ hat_until' = ev.left
  BY DEF Apply
<1>3. \/ watch' = watch /\ Watched \cap (new \cup old) = {}
      \/ watch' = Unwatched
      \/ watch' = [words |-> ev.words, left |-> ev.left, seen |-> FALSE] /\ ev.left + ev.waited >= Long
  BY DEF Apply, Watched
<1>4. ev \in [words : Event \cup {{}}, left : 0..Longest, waited : 0..MaxLate]
  BY DEF PadInv, SocketPadTypeOK
<1>5. CASE watch' = watch /\ Watched \cap (new \cup old) = {}
  <2>1. SUFFICES ASSUME Underway PROVE Underway'
    BY <1>1, <1>5 DEF WatchInv
  <2>2. Watched \subseteq Input
    <3>1. watch.words \in Event \cup {{}}
      BY DEF WatchInv
    <3>2. Targets({}) = {}
      BY DEF Targets
    <3>. QED
      BY <3>1, <3>2, EventTargets DEF Watched
  <2>3. ASSUME NEW k \in Watched
        PROVE  IF IsHat(k) THEN hat_value' = k[2] /\ hat_until' = watch.left
               ELSE k \in DOMAIN held' /\ held'[k] = watch.left
    <3>1. k \notin new /\ k \notin old
      BY <1>5
    <3>2. CASE IsHat(k)
      <4>1. hats = {}
        BY <2>2, <3>1, <3>2
      <4>. QED
        BY <1>2, <2>1, <3>2, <4>1 DEF Underway, StillSet
    <3>3. CASE ~IsHat(k)
      BY <1>1, <2>1, <3>1, <3>3 DEF Underway, StillSet
    <3>. QED
      BY <3>2, <3>3
  <2>4. StillSet'
    BY <1>5, <2>3 DEF StillSet, Watched
  <2>. QED
    BY <1>1, <1>5, <2>1, <2>4 DEF Underway, Watched, LastsNow, LastsOne
<1>6. CASE watch' = Unwatched
  BY <1>6 DEF WatchInv, Unwatched
<1>7. CASE watch' = [words |-> ev.words, left |-> ev.left, seen |-> FALSE] /\ ev.left + ev.waited >= Long
  <2>1. /\ watch'.words = ev.words /\ watch'.left = ev.left
        /\ watch' \in [words : Event \cup {{}}, left : Nat, seen : BOOLEAN]
    BY <1>4, <1>7, Bounds
  <2>2. \A j, k \in new : IsHat(j) /\ IsHat(k) => j = k
    <3>1. Targets({}) = {}
      BY DEF Targets
    <3>. QED
      BY <1>4, <3>1 DEF Promising
  <2>3. StillSet'
    <3>. SUFFICES ASSUME NEW k \in new
                  PROVE  IF IsHat(k) THEN hat_value' = k[2] /\ hat_until' = ev.left
                         ELSE k \in DOMAIN held' /\ held'[k] = ev.left
      BY <2>1 DEF StillSet, Watched
    <3>1. CASE IsHat(k)
      BY <1>2, <2>2, <3>1
    <3>2. CASE ~IsHat(k)
      BY <1>1, <3>2
    <3>. QED
      BY <3>1, <3>2
  <2>4. LastsNow' /\ (padPc # "asleep" => LastsOne')
    <3>1. wake \in Int /\ wake <= SEND /\ (padPc # "asleep" => wake <= 0)
      BY Bounds DEF PadInv, SocketPadTypeOK, Recent
    <3>2. ev.left \in Nat /\ ev.left >= SEND + 2 * MaxLate + 1
      BY <1>4, <1>7, Bounds DEF Long
    <3>. QED
      BY <1>1, <2>1, <3>1, <3>2, Bounds DEF LastsNow, LastsOne
  <2>. QED
    BY <1>1, <2>1, <2>3, <2>4 DEF WatchInv, Underway
<1>. QED
  BY <1>3, <1>5, <1>6, <1>7

LEMMA WatchStart == ASSUME Promising, PadInv, WatchInv, StartFrame PROVE WatchInv'
<1>1. /\ UNCHANGED <<held, hat_value, hat_until, wake, watch>>
      /\ padPc = "asleep" /\ padPc' = "building" /\ todo' = Read
  BY DEF StartFrame, dicts, padHistory
<1>2. SUFFICES ASSUME Underway PROVE Underway'
  BY <1>1 DEF WatchInv
<1>3. Watched \subseteq Read
  <2>1. Targets({}) = {}
    BY DEF Targets
  <2>. QED
    BY <2>1 DEF WatchInv, Watched, Promising
<1>. QED
  BY <1>1, <1>2, <1>3 DEF Underway, StillSet, Watched, LastsNow, LastsOne

LEMMA WatchRead == ASSUME PadInv, WatchInv, NEW k \in Input, ReadInput(k) PROVE WatchInv'
<1>1. /\ padPc = "building" /\ Expire /\ pkt' = (IF Pressed(k) THEN pkt \cup {k} ELSE pkt)
      /\ todo' = todo \ {k}
      /\ UNCHANGED <<padPc, wake, watch>>
  BY DEF ReadInput, padHistory
<1>2. SUFFICES ASSUME Underway PROVE Underway'
  BY <1>1 DEF WatchInv
<1>3. watch.left \in Nat /\ watch.left > 0
  BY <1>2, TimeLeft DEF WatchInv
<1>4. StillSet /\ StillSet'
  BY <1>1, <1>2, <1>3, ExpireKeeps DEF Underway
<1>5. k \in Watched => Pressed(k)
  BY <1>3, <1>4 DEF StillSet, Pressed, Unexpired
<1>6. Watched' = Watched /\ (LastsNow' <=> LastsNow) /\ (LastsOne' <=> LastsOne)
  BY <1>1 DEF Watched, LastsNow, LastsOne
<1>7. Watched \ todo \subseteq pkt => Watched \ todo' \subseteq pkt'
  BY <1>1, <1>5
<1>. QED
  BY <1>1, <1>2, <1>4, <1>6, <1>7 DEF Underway

LEMMA WatchBegin == ASSUME PadInv, WatchInv, BeginExtras PROVE WatchInv'
<1>1. /\ padPc = "building" /\ Expire /\ iterated' = Extras(Unexpired)
      /\ todo' = (todo \ Extras([k \in Input |-> 0])) \cup iterated'
      /\ padPc' \in {"building", "iterating"}
      /\ UNCHANGED <<wake, pkt, watch>>
  BY DEF BeginExtras, padHistory
<1>2. SUFFICES ASSUME Underway PROVE Underway'
  BY <1>1 DEF WatchInv
<1>3. watch.left \in Nat /\ watch.left > 0
  BY <1>2, TimeLeft DEF WatchInv
<1>4. StillSet /\ StillSet'
  BY <1>1, <1>2, <1>3, ExpireKeeps DEF Underway
<1>5. ASSUME NEW k \in Watched, k[1] = "extra" PROVE k \in iterated'
  <2>1. k \in DOMAIN held /\ held[k] = watch.left
    BY <1>4, <1>5 DEF StillSet, IsHat
  <2>. QED
    BY <1>1, <1>3, <1>5, <2>1 DEF Extras, Unexpired
<1>6. Watched \ todo' \subseteq Watched \ todo
  BY <1>1, <1>5 DEF Extras
<1>7. Watched' = Watched /\ (LastsNow' <=> LastsNow) /\ (LastsOne' <=> LastsOne)
  BY <1>1 DEF Watched, LastsNow, LastsOne
<1>. QED
  BY <1>1, <1>2, <1>4, <1>6, <1>7 DEF Underway

LEMMA WatchIterate == ASSUME PadInv, WatchInv, Iterate PROVE WatchInv'
<1>1. PICK k \in iterated : k \in todo /\ pkt' = pkt \cup {k} /\ todo' = todo \ {k}
  BY DEF Iterate
<1>2. UNCHANGED <<held, hat_value, hat_until, padPc, wake, watch>> /\ padPc = "iterating"
  BY DEF Iterate, dicts, padHistory
<1>. QED
  BY <1>1, <1>2 DEF WatchInv, Underway, StillSet, Watched, LastsNow, LastsOne

LEMMA WatchEnd == ASSUME PadInv, WatchInv, EndExtras PROVE WatchInv'
<1>1. /\ UNCHANGED <<held, hat_value, hat_until, wake, todo, pkt, watch>>
      /\ padPc = "iterating" /\ padPc' \in {"crashed", "building"}
  BY DEF EndExtras, dicts, padHistory
<1>. QED
  BY <1>1 DEF WatchInv, Underway, StillSet, Watched, LastsNow, LastsOne

LEMMA WatchWrite == ASSUME Promising, PadInv, WatchInv, WritePacket PROVE WatchInv'
<1>. DEFINE now == UNION {Promise(w) : w \in watch.words} \subseteq {Says(k) : k \in pkt}
<1>1. /\ UNCHANGED <<held, hat_value, hat_until>>
      /\ padPc = "building" /\ todo = {} /\ padPc' = "asleep" /\ wake' = SEND
      /\ watch' = [watch EXCEPT !.seen = @ \/ now]
  BY DEF WritePacket, dicts
<1>2. /\ watch' \in [words : Event \cup {{}}, left : Nat, seen : BOOLEAN]
      /\ watch'.words = watch.words /\ watch'.left = watch.left
      /\ ~watch'.seen => ~watch.seen /\ ~now
  BY <1>1, Zenon DEF WatchInv
<1>3. SUFFICES ASSUME Underway, ~now PROVE Underway'
  BY <1>1, <1>2 DEF WatchInv
<1>4. ~(Watched \subseteq pkt)
  <2>. SUFFICES ASSUME Watched \subseteq pkt PROVE now
    BY <1>3
  <2>. SUFFICES ASSUME NEW w \in watch.words, NEW x \in Promise(w) PROVE x \in {Says(k) : k \in pkt}
    OBVIOUS
  <2>1. Promise(w) = {Says(k) : k \in Target(w)}
    BY DEF Promising, WatchInv
  <2>2. Target(w) \subseteq Watched
    BY DEF Watched, Targets
  <2>. QED
    BY <2>1, <2>2
<1>5. LastsOne
  BY <1>1, <1>3, <1>4 DEF Underway
<1>6. LastsNow'
  <2>1. wake \in Int /\ wake >= -MaxLate /\ watch.left \in Nat
    BY Bounds DEF PadInv, SocketPadTypeOK, WatchInv
  <2>. QED
    BY <1>1, <1>2, <1>5, <2>1, Bounds DEF LastsOne, LastsNow
<1>7. StillSet'
  BY <1>1, <1>2, <1>3 DEF Underway, StillSet, Watched
<1>. QED
  BY <1>1, <1>6, <1>7 DEF Underway

LEMMA WatchTick == ASSUME PadInv, WatchInv, Tick PROVE WatchInv'
<1>1. /\ padPc # "crashed" /\ wake > -MaxLate /\ wake' = wake - 1
      /\ held' = [k \in DOMAIN held |-> Before(held[k])] /\ hat_until' = Before(hat_until)
      /\ watch' = [watch EXCEPT !.left = Before(@)]
      /\ UNCHANGED <<hat_value, padPc, todo, pkt>>
  BY DEF Tick
<1>2. watch.left \in Nat /\ Before(watch.left) \in Nat
  BY BeforeType DEF WatchInv
<1>3. /\ watch' \in [words : Event \cup {{}}, left : Nat, seen : BOOLEAN]
      /\ watch'.words = watch.words /\ watch'.left = Before(watch.left)
      /\ watch'.seen = watch.seen
  BY <1>1, <1>2 DEF WatchInv
<1>4. SUFFICES ASSUME Underway PROVE Underway'
  BY <1>1, <1>3 DEF WatchInv
<1>5. watch'.left = watch.left - 1
  BY <1>2, <1>3, <1>4, TimeLeft, BeforeType
<1>6. wake \in Int
  BY Bounds DEF PadInv, SocketPadTypeOK
<1>7. (LastsNow => LastsNow') /\ (LastsOne => LastsOne')
  BY <1>1, <1>2, <1>5, <1>6, Bounds DEF LastsNow, LastsOne
<1>8. StillSet'
  BY <1>1, <1>3, <1>4 DEF Underway, StillSet, Watched
<1>9. Watched' = Watched
  BY <1>3 DEF Watched
<1>. QED
  BY <1>1, <1>4, <1>7, <1>8, <1>9 DEF Underway

LEMMA WatchStep == ASSUME Promising, PadInv, WatchInv, [SocketPadNext]_padVars PROVE WatchInv'
<1>1. CASE UNCHANGED padVars
  <2>1. UNCHANGED <<held, hat_value, hat_until, padPc, wake, todo, pkt, watch>>
    BY <1>1 DEF padVars, dicts, padFrame, padHistory
  <2>. QED
    BY <2>1 DEF WatchInv, Underway, StillSet, Watched, LastsNow, LastsOne
<1>. QED
  BY <1>1, WatchReceive, WatchApply, WatchStart, WatchRead, WatchBegin, WatchIterate, WatchEnd,
     WatchWrite, WatchTick DEF SocketPadNext

\* A command is not lost and the commands of an event are shown together: if the events are
\* promising, one packet shows all of an event before it runs out, if it lasts for the
\* longest packet and the waits before it, for any clients and delays (apply_event,
\* build_packet, the main loop).
THEOREM SocketEventsAreSeen == Promising => (SocketPadSpec => []EventIsSeen)
<1>. SUFFICES ASSUME Promising PROVE SocketPadSpec => []EventIsSeen
  OBVIOUS
<1>1. PadInv /\ WatchInv => EventIsSeen
  <2>. SUFFICES ASSUME PadInv, WatchInv, padPc # "crashed", watch.left = 0, ~watch.seen PROVE FALSE
    BY DEF EventIsSeen
  <2>1. Underway
    BY DEF WatchInv
  <2>. QED
    BY <2>1, TimeLeft
<1>2. PadInv /\ WatchInv /\ [SocketPadNext]_padVars => WatchInv'
  BY WatchStep
<1>. QED
  BY <1>1, <1>2, PadInvariance, WatchInit, PTL DEF SocketPadSpec

-----------------------------------------------------------------------------
(***************************************************************************)
(* The Discord bot, for any messages, users, words and times.              *)
(***************************************************************************)

\* No command of a user was accepted after the time kept for that user.
StampInv == \A m \in Accepted : acceptedAt[m] <= last_by_user[user[m]] /\ last_by_user[user[m]] # Never

\* A message is accepted once.
WaitInv == \A m \in Message : phase[m] \in {"unsent", "auditing"} => acceptedAt[m] = Never

BotInv == BotTypeOK /\ WaitInv /\ StampInv /\ CooldownHolds /\ PrivilegeIsAudited

LEMMA BotInitInv == BotInit => BotInv
<1>. SUFFICES ASSUME BotInit PROVE BotInv
  OBVIOUS
<1>1. BotTypeOK
  BY DiscordAssumption DEF BotInit, BotTypeOK, Over
<1>2. Accepted = {}
  BY DEF BotInit, Accepted
<1>3. PrivilegeIsAudited
  BY DEF BotInit, PrivilegeIsAudited
<1>4. WaitInv
  BY DEF BotInit, WaitInv
<1>. QED
  BY <1>1, <1>2, <1>3, <1>4 DEF BotInv, StampInv, CooldownHolds

\* A command that proceeds is later than all of the same user by the cooldown, or dropped.
LEMMA ProceedStep ==
  ASSUME BotTypeOK, StampInv, CooldownHolds, NEW m \in Message, phase[m] \in {"unsent", "auditing"},
         Proceed(m), UNCHANGED <<clock, user, word>>, acceptedAt[m] = Never
  PROVE  /\ acceptedAt' \in [Message -> {Never} \cup 0..clock]
         /\ last_by_user' \in [User -> {Never} \cup 0..clock]
         /\ StampInv' /\ CooldownHolds'
<1>. USE DiscordAssumption DEF BotTypeOK
<1>1. CASE Cooling(m)
  BY <1>1 DEF Proceed, StampInv, CooldownHolds, Accepted, Never
<1>2. CASE ~Cooling(m)
  <2>1. /\ acceptedAt' = [acceptedAt EXCEPT ![m] = clock]
        /\ last_by_user' = [last_by_user EXCEPT ![user[m]] = clock]
        /\ clock - last_by_user[user[m]] >= Cooldown
    BY <1>2 DEF Proceed, Cooling, Stamp, Never
  <2>2. acceptedAt' \in [Message -> {Never} \cup 0..clock] /\ last_by_user' \in [User -> {Never} \cup 0..clock]
    BY <2>1
  <2>3. \A n \in Message \ {m} : acceptedAt'[n] = acceptedAt[n]
    BY <2>1
  <2>4. acceptedAt'[m] = clock /\ last_by_user'[user[m]] = clock /\ clock # Never
    BY <2>1 DEF Never
  <2>5. StampInv'
    BY <2>1, <2>3, <2>4 DEF StampInv, Accepted, Never
  <2>6. \A n \in Message \ {m} : (acceptedAt[n] # Never /\ user[n] = user[m]) => clock - acceptedAt[n] >= Cooldown
    BY <2>1 DEF StampInv, Accepted, Never
  <2>7. CooldownHolds'
    <3>. SUFFICES ASSUME NEW n \in Message, NEW k \in Message, n # k, user[n] = user[k],
                         acceptedAt'[n] # Never, acceptedAt'[k] # Never
                  PROVE  acceptedAt'[n] - acceptedAt'[k] >= Cooldown \/ acceptedAt'[k] - acceptedAt'[n] >= Cooldown
      BY DEF CooldownHolds, Accepted, Never
    <3>1. CASE n # m /\ k # m
      BY <2>3, <3>1 DEF CooldownHolds, Accepted
    <3>2. CASE n = m
      BY <2>3, <2>4, <2>6, <3>2
    <3>3. CASE k = m
      BY <2>3, <2>4, <2>6, <3>3
    <3>. QED
      BY <3>1, <3>2, <3>3
  <2>. QED
    BY <2>2, <2>5, <2>7
<1>. QED
  BY <1>1, <1>2

\* What the other steps leave alone.
LEMMA StillStep ==
  ASSUME BotTypeOK, StampInv, CooldownHolds, UNCHANGED <<user, acceptedAt, last_by_user>>
  PROVE  StampInv' /\ CooldownHolds'
BY DEF StampInv, CooldownHolds, Accepted, Never

LEMMA OnMessageStep == ASSUME BotInv, NEW m \in Message, OnMessage(m) PROVE BotInv'
<1>. USE DEF BotTypeOK
<1>1. /\ phase[m] = "unsent" /\ acceptedAt[m] = Never /\ UNCHANGED <<clock, user, word, audit>>
      /\ \A n \in Message \ {m} : phase'[n] = phase[n] /\ acceptedAt'[n] = acceptedAt[n]
  BY DEF OnMessage, BotInv, WaitInv, Proceed
<1>2. BotTypeOK' /\ StampInv' /\ CooldownHolds'
  <2>1. CASE Understood(m) /\ ~Privileged(m) /\ Proceed(m)
    <3>1. phase' \in [Message -> {"unsent", "auditing", "sending"} \cup Over]
      BY <2>1 DEF BotInv, Proceed, Over
    <3>. QED
      BY <1>1, <2>1, <3>1, ProceedStep DEF BotInv
  <2>2. CASE UNCHANGED <<acceptedAt, last_by_user>>
    <3>1. phase' \in [Message -> {"unsent", "auditing", "sending"} \cup Over]
      BY DEF BotInv, OnMessage, Proceed, Over
    <3>. QED
      BY <1>1, <2>2, <3>1, StillStep DEF BotInv
  <2>. QED
    BY <2>1, <2>2 DEF OnMessage
<1>3. WaitInv'
  <2>1. phase'[m] \in {"unsent", "auditing"} => acceptedAt'[m] = acceptedAt[m]
    BY DEF OnMessage, Proceed, BotInv
  <2>. QED
    BY <1>1, <2>1 DEF BotInv, WaitInv
<1>4. PrivilegeIsAudited'
  <2>1. (word[m] \in DOMAIN COMMAND_ALIASES /\ Privileged(m)) => phase'[m] \notin {"sending", "sent", "cooling", "denied"}
    BY DEF OnMessage, BotInv
  <2>. QED
    BY <1>1, <2>1 DEF BotInv, PrivilegeIsAudited, Privileged, Command, MayUse
<1>. QED
  BY <1>2, <1>3, <1>4 DEF BotInv

LEMMA AuditStep == ASSUME BotInv, NEW m \in Message, Audit(m) PROVE BotInv'
<1>. USE DEF BotTypeOK
<1>1. /\ phase[m] = "auditing" /\ acceptedAt[m] = Never /\ UNCHANGED <<clock, user, word>>
      /\ audit' = audit \cup {<<m, MayUse(m)>>} /\ MayUse(m) \in BOOLEAN
      /\ \A n \in Message \ {m} : phase'[n] = phase[n] /\ acceptedAt'[n] = acceptedAt[n]
  BY DEF Audit, BotInv, WaitInv, Proceed, MayUse
<1>2. phase' \in [Message -> {"unsent", "auditing", "sending"} \cup Over] /\ audit' \subseteq Message \X BOOLEAN
  BY <1>1 DEF BotInv, Audit, Proceed, Over
<1>3. BotTypeOK' /\ StampInv' /\ CooldownHolds'
  <2>1. CASE MayUse(m)
    BY <1>1, <1>2, <2>1, ProceedStep DEF BotInv, Audit
  <2>2. CASE ~MayUse(m)
    BY <1>1, <1>2, <2>2, StillStep DEF BotInv, Audit
  <2>. QED
    BY <2>1, <2>2
<1>4. (phase'[m] \in {"sending", "cooling"} /\ MayUse(m)) \/ (phase'[m] = "denied" /\ ~MayUse(m))
  BY DEF Audit, Proceed, BotInv
<1>5. WaitInv'
  BY <1>1, <1>4 DEF BotInv, WaitInv
<1>6. PrivilegeIsAudited'
  BY <1>1, <1>4 DEF BotInv, PrivilegeIsAudited, Command, MayUse
<1>. QED
  BY <1>3, <1>5, <1>6 DEF BotInv

LEMMA ThreadStep ==
  ASSUME BotInv, NEW m \in Message, AuditFails(m) \/ Relay(m) \/ RelayFails(m) PROVE BotInv'
<1>. USE DEF BotTypeOK
<1>1. /\ UNCHANGED <<clock, user, word, acceptedAt, last_by_user, audit>>
      /\ \/ phase' = [phase EXCEPT ![m] = "failed"]
         \/ phase[m] = "sending" /\ phase' = [phase EXCEPT ![m] = "sent"]
  BY DEF AuditFails, Relay, RelayFails
<1>2. BotTypeOK' /\ StampInv' /\ CooldownHolds'
  BY <1>1, StillStep DEF BotInv, Over
<1>3. WaitInv' /\ PrivilegeIsAudited'
  BY <1>1 DEF BotInv, WaitInv, PrivilegeIsAudited, Command, MayUse
<1>. QED
  BY <1>2, <1>3 DEF BotInv

LEMMA BotTickStep == ASSUME BotInv, BotTick PROVE BotInv'
<1>1. BotTypeOK'
  BY DiscordAssumption DEF BotInv, BotTypeOK, BotTick, Never
<1>2. StampInv' /\ CooldownHolds'
  BY StillStep DEF BotInv, BotTick
<1>3. WaitInv' /\ PrivilegeIsAudited'
  BY DEF BotInv, BotTick, WaitInv, PrivilegeIsAudited, Command, MayUse
<1>. QED
  BY <1>1, <1>2, <1>3 DEF BotInv

\* BotInv is inductive.
THEOREM BotInvariance == BotSpec => []BotInv
<1>1. ASSUME BotInv, [BotNext]_botVars PROVE BotInv'
  <2>1. CASE UNCHANGED botVars
    BY <1>1, <2>1, StillStep DEF BotInv, botVars, BotTypeOK, WaitInv, PrivilegeIsAudited, Command, MayUse
  <2>. QED
    BY <1>1, <2>1, OnMessageStep, AuditStep, ThreadStep, BotTickStep DEF BotNext
<1>. QED
  BY <1>1, BotInitInv, PTL DEF BotSpec

\* Two commands of one user are accepted at least the cooldown apart, whoever waits for
\* the audit log meanwhile.
THEOREM BotKeepsCooldown == BotSpec => []CooldownHolds
BY BotInvariance, PTL DEF BotInv

\* No privileged command is sent for anybody else, or before it is in the audit log.
THEOREM BotAuditsPrivilege == BotSpec => []PrivilegeIsAudited
BY BotInvariance, PTL DEF BotInv

\* Whatever is relayed is due, for any users, messages, commands and cooldown.
THEOREM BotRelaysAreDue == BotSpec => []RelaysAreDue
<1>1. BotInv => RelaysAreDue
  BY DEF BotInv, RelaysAreDue
<1>. QED
  BY <1>1, BotInvariance, PTL

-----------------------------------------------------------------------------
(***************************************************************************)
(* The order of a user's commands.  It rests on a send taking less time    *)
(* than the cooldown: then a user has one command on its way at a time,    *)
(* and it is later than all that were relayed.                             *)
(***************************************************************************)
PromptRelay == SendMax < Cooldown

\* Where the commands on their way, and those relayed, are.
OnTheWay ==
  \A m \in Message : phase[m] = "sending" => acceptedAt[m] \in Nat /\ clock - acceptedAt[m] <= SendMax
WereSent == relayed \in Seq(Message) /\ \A i \in 1..Len(relayed) : acceptedAt[relayed[i]] \in Nat

\* What is on its way is no earlier than what the same user has had relayed.
NoneOvertaken ==
  \A m \in Message : \A i \in 1..Len(relayed) :
    (phase[m] = "sending" /\ user[relayed[i]] = user[m]) => acceptedAt[relayed[i]] <= acceptedAt[m]

OrderInv == OnTheWay /\ WereSent /\ NoneOvertaken /\ RelayedInOrder

LEMMA AcceptedTypes ==
  ASSUME BotInv
  PROVE  /\ clock \in Nat /\ Cooldown \in Nat /\ SendMax \in Nat
         /\ \A m \in Message : acceptedAt[m] = Never \/ (acceptedAt[m] \in Nat /\ acceptedAt[m] <= clock)
         /\ Never \notin Nat
  BY DiscordAssumption DEF BotInv, BotTypeOK, Never

\* Of each user one command is on its way.
LEMMA OneOnTheWay ==
  ASSUME PromptRelay, BotInv, OnTheWay,
         NEW m \in Message, NEW n \in Message, phase[m] = "sending", phase[n] = "sending",
         user[m] = user[n]
  PROVE  m = n
<1>1. /\ acceptedAt[m] \in Nat /\ clock - acceptedAt[m] <= SendMax /\ acceptedAt[m] <= clock
      /\ acceptedAt[n] \in Nat /\ clock - acceptedAt[n] <= SendMax /\ acceptedAt[n] <= clock
  BY AcceptedTypes DEF OnTheWay
<1>2. m \in Accepted /\ n \in Accepted
  BY <1>1, AcceptedTypes DEF Accepted
<1>3. m # n => (acceptedAt[m] - acceptedAt[n] >= Cooldown \/ acceptedAt[n] - acceptedAt[m] >= Cooldown)
  BY <1>2 DEF BotInv, CooldownHolds
<1>. QED
  BY <1>1, <1>3, AcceptedTypes DEF PromptRelay

\* A step of one message that relays nothing: it is accepted now, or not on its way.
LEMMA OrderQuiet ==
  ASSUME BotInv, OrderInv, NEW m \in Message, UNCHANGED <<clock, user, relayed>>,
         \A n \in Message \ {m} : phase'[n] = phase[n] /\ acceptedAt'[n] = acceptedAt[n],
         \/ acceptedAt'[m] = acceptedAt[m] /\ phase'[m] # "sending"
         \/ acceptedAt[m] = Never /\ acceptedAt'[m] = clock
  PROVE  OrderInv'
<1>1. OnTheWay'
  BY AcceptedTypes DEF OrderInv, OnTheWay
<1>2. \A i \in 1..Len(relayed) : relayed[i] \in Message /\ acceptedAt'[relayed[i]] = acceptedAt[relayed[i]]
  <2>. SUFFICES ASSUME NEW i \in 1..Len(relayed)
                PROVE  relayed[i] \in Message /\ acceptedAt'[relayed[i]] = acceptedAt[relayed[i]]
    OBVIOUS
  <2>1. relayed[i] \in Message /\ acceptedAt[relayed[i]] \in Nat
    BY DEF OrderInv, WereSent
  <2>. QED
    BY <2>1, AcceptedTypes
<1>3. WereSent'
  BY <1>2 DEF OrderInv, WereSent
<1>4. NoneOvertaken'
  <2>. SUFFICES ASSUME NEW n \in Message, NEW i \in 1..Len(relayed), phase'[n] = "sending",
                       user[relayed[i]] = user[n]
                PROVE  acceptedAt'[relayed[i]] <= acceptedAt'[n]
    BY DEF NoneOvertaken
  <2>1. CASE n # m
    BY <2>1, <1>2 DEF OrderInv, NoneOvertaken
  <2>2. CASE n = m
    <3>1. acceptedAt'[n] = clock
      BY <2>2
    <3>2. acceptedAt[relayed[i]] \in Nat /\ relayed[i] \in Message
      BY DEF OrderInv, WereSent
    <3>. QED
      BY <3>1, <3>2, <1>2, AcceptedTypes
  <2>. QED
    BY <2>1, <2>2
<1>5. RelayedInOrder'
  BY <1>2 DEF OrderInv, RelayedInOrder
<1>. QED
  BY <1>1, <1>3, <1>4, <1>5 DEF OrderInv

LEMMA OrderRelay == ASSUME PromptRelay, BotInv, OrderInv, NEW m \in Message, Relay(m) PROVE OrderInv'
<1>1. /\ phase[m] = "sending" /\ phase' = [phase EXCEPT ![m] = "sent"]
      /\ relayed' = Append(relayed, m)
      /\ UNCHANGED <<clock, user, acceptedAt>>
  BY DEF Relay
<1>2. /\ phase'[m] = "sent"
      /\ \A n \in Message \ {m} : phase'[n] = phase[n]
  BY <1>1 DEF BotInv, BotTypeOK
<1>3. relayed \in Seq(Message) /\ relayed' \in Seq(Message) /\ Len(relayed') = Len(relayed) + 1
  BY <1>1 DEF OrderInv, WereSent
<1>4. /\ \A i \in 1..Len(relayed) : relayed'[i] = relayed[i]
      /\ relayed'[Len(relayed')] = m
  BY <1>1, <1>3
<1>5. \A i \in 1..Len(relayed') : (i \in 1..Len(relayed) /\ relayed'[i] = relayed[i]) \/ (i = Len(relayed') /\ relayed'[i] = m)
  BY <1>3, <1>4
<1>6. OnTheWay'
  BY <1>1, <1>2 DEF OrderInv, OnTheWay
<1>7. WereSent'
  BY <1>1, <1>3, <1>5 DEF OrderInv, WereSent, OnTheWay
<1>8. NoneOvertaken'
  <2>. SUFFICES ASSUME NEW n \in Message, NEW i \in 1..Len(relayed'), phase'[n] = "sending",
                       user[relayed'[i]] = user[n]
                PROVE  acceptedAt[relayed'[i]] <= acceptedAt[n]
    BY <1>1 DEF NoneOvertaken
  <2>1. n # m /\ phase[n] = "sending"
    BY <1>2
  <2>2. relayed'[i] # m
    BY <1>1, <2>1, OneOnTheWay DEF OrderInv
  <2>. QED
    BY <1>5, <2>1, <2>2 DEF OrderInv, NoneOvertaken
<1>9. RelayedInOrder'
  <2>. SUFFICES ASSUME NEW i \in 1..Len(relayed'), NEW j \in 1..Len(relayed'), i < j,
                       user[relayed'[i]] = user[relayed'[j]]
                PROVE  acceptedAt[relayed'[i]] <= acceptedAt[relayed'[j]]
    BY <1>1 DEF RelayedInOrder
  <2>1. i \in 1..Len(relayed) /\ relayed'[i] = relayed[i]
    BY <1>3, <1>4
  <2>2. CASE j \in 1..Len(relayed)
    BY <1>4, <2>1, <2>2 DEF OrderInv, RelayedInOrder
  <2>3. CASE relayed'[j] = m
    BY <1>1, <2>1, <2>3 DEF OrderInv, NoneOvertaken
  <2>. QED
    BY <1>5, <2>2, <2>3
<1>. QED
  BY <1>6, <1>7, <1>8, <1>9 DEF OrderInv

LEMMA OrderTick == ASSUME BotInv, OrderInv, BotTick PROVE OrderInv'
<1>1. clock' = clock + 1 /\ UNCHANGED <<user, phase, acceptedAt, relayed>>
  BY DEF BotTick
<1>2. \A m \in Message : phase[m] = "sending" => clock - acceptedAt[m] < SendMax
  BY DEF BotTick, InTime
<1>3. OnTheWay'
  BY <1>1, <1>2, AcceptedTypes DEF OrderInv, OnTheWay
<1>. QED
  BY <1>1, <1>3 DEF OrderInv, WereSent, NoneOvertaken, RelayedInOrder

\* The commands of one user reach the bridge in the order in which they were accepted,
\* although every message has a coroutine and a thread of its own.
THEOREM BotRelaysInOrder == PromptRelay => (BotSpec => []RelayedInOrder)
<1>. SUFFICES ASSUME PromptRelay PROVE BotSpec => []RelayedInOrder
  OBVIOUS
<1>1. BotInit => OrderInv
  BY DEF BotInit, OrderInv, OnTheWay, WereSent, NoneOvertaken, RelayedInOrder
<1>2. ASSUME BotInv, OrderInv, [BotNext]_botVars PROVE OrderInv'
  <2>1. ASSUME NEW m \in Message, OnMessage(m) \/ Audit(m) \/ AuditFails(m) \/ RelayFails(m)
        PROVE  OrderInv'
    <3>0. phase \in [Message -> {"unsent", "auditing", "sending"} \cup Over]
          /\ DOMAIN acceptedAt = Message
      BY <1>2 DEF BotInv, BotTypeOK
    <3>1. /\ UNCHANGED <<clock, user, relayed>>
          /\ \A n \in Message \ {m} : phase'[n] = phase[n] /\ acceptedAt'[n] = acceptedAt[n]
      BY <2>1, <3>0 DEF OnMessage, Audit, AuditFails, RelayFails, Proceed
    <3>2. \/ acceptedAt'[m] = acceptedAt[m] /\ phase'[m] # "sending"
          \/ acceptedAt[m] = Never /\ acceptedAt'[m] = clock
      <4>1. phase[m] \in {"unsent", "auditing"} => acceptedAt[m] = Never
        BY <1>2 DEF BotInv, WaitInv
      <4>. QED
        BY <2>1, <3>0, <4>1, <1>2 DEF OnMessage, Audit, AuditFails, RelayFails, Proceed, Stamp, BotInv, BotTypeOK
    <3>. QED
      BY <1>2, <3>1, <3>2, OrderQuiet
  <2>2. CASE UNCHANGED botVars
    BY <1>2, <2>2 DEF botVars, OrderInv, OnTheWay, WereSent, NoneOvertaken, RelayedInOrder
  <2>. QED
    BY <1>2, <2>1, <2>2, OrderRelay, OrderTick DEF BotNext
<1>3. OrderInv => RelayedInOrder
  BY DEF OrderInv
<1>. QED
  BY <1>1, <1>2, <1>3, BotInvariance, PTL DEF BotSpec
=============================================================================
