----------------------------- MODULE MCFormats ------------------------------
(***************************************************************************)
(* Conversions, formats and files.  Of the conversions of PacketCodec and  *)
(* the replies of SpiFlash a behaviour shows one input: every button word  *)
(* and every d-pad value with the sticks centred; every raw value of an    *)
(* axis; every alteration of one byte of a few frames; every request of    *)
(* the console.  The settings and the .env file have steps.  A behaviour   *)
(* is about one of these, kind, and the rest stays as it was.              *)
(***************************************************************************)
EXTENDS Conversions, SpiFlash, Settings, EnvFile

VARIABLE kind

\* The value of every axis is followed on the first one; the others tell the places of
\* a packet apart.
Sticks(axis) == <<axis, 0, -1 - axis, 20000>>

SampleWord == {0, 12345, WordMax}

Init ==
  /\ \/ /\ kind = "buttons" /\ word \in 0..WordMax /\ hat \in 0..8 /\ (word < 256 \/ hat = 8)
        /\ axes = Sticks(0) /\ place = 0 /\ value = 0
     \/ /\ kind = "sticks" /\ word = 0 /\ hat = 8 /\ axes \in {Sticks(axis) : axis \in RawAxis}
        /\ place = 0 /\ value = 0
     \/ /\ kind = "frame" /\ word \in SampleWord /\ hat \in {2, 8}
        /\ axes \in {Sticks(axis) : axis \in {-32768, 0}}
        /\ place \in 1..9 /\ value \in ByteValue
     \/ /\ kind \in {"flash", "settings", "env"} /\ word = 0 /\ hat = 8 /\ axes = Sticks(0)
        /\ place = 0 /\ value = 0
  /\ SpiInit /\ SettingsInit /\ EnvInit
  /\ kind # "env" => inherited = NoneSet

\* A conversion is over with its input, the flash with its reply.
Ended == kind \in {"buttons", "sticks", "frame"} \/ Answered

Next ==
  /\ UNCHANGED <<kind, pad>>
  /\ \/ kind = "flash" /\ ~Answered /\ SpiNext /\ UNCHANGED <<settingsVars, envVars>>
     \/ kind = "settings" /\ SettingsNext /\ UNCHANGED <<spiVars, envVars>>
     \/ kind = "env" /\ EnvNext /\ UNCHANGED <<spiVars, settingsVars>>
     \/ Ended /\ UNCHANGED <<spiVars, settingsVars, envVars>>

Spec == Init /\ [][Next]_<<kind, pad, spiVars, settingsVars, envVars>>
=============================================================================
