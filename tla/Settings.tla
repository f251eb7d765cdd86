------------------------------ MODULE Settings ------------------------------
(***************************************************************************)
(* config/switch_automation.settings.json: the GUI loads and saves it, the *)
(* user edits it by hand, and the GUI and PlaynitePostStart.ps1 each turn  *)
(* it into the command line of the bridge.  The settings that are passed   *)
(* on unchanged by both are left out.                                      *)
(***************************************************************************)
CONSTANT Slot, Port     \* the controller slots and serial ports of the user, with the defaults

Null == "null"          \* a JSON null, a blank slot in the GUI

ASSUME SettingsAssumption == "0" \in Slot /\ "COM3" \in Port /\ Null \notin Port

Mode == {"controller", "socket", "keyboard"}
Backend == {"auto", "pygame"}
Switch == {"true", "false"}

\* What the user can write into the file; in the GUI they can enter all but an "other".
SettingValue(key) ==
  CASE key = "mode" -> Mode
    [] key = "playniteMode" -> Mode \cup {"other"}
    [] key = "controllerBackend" -> Backend \cup {"other"}
    [] key = "controllerSlot" -> Slot \cup {Null}
    [] key = "serialPort" -> Port \cup {""}
    [] key = "bindToProjectorFocus" -> Switch
DEFAULT_SETTINGS ==
  [playniteMode |-> "controller", mode |-> "controller", controllerBackend |-> "auto",
   serialPort |-> "COM3", controllerSlot |-> "0", bindToProjectorFocus |-> "true"]
SettingKey == DOMAIN DEFAULT_SETTINGS

VARIABLES
  file,      \* the keys that can be read from it, with their values: none while it is being written
  vars,      \* the widgets of the GUI
  whole,     \* whether it is a JSON text
  saving     \* whether save_settings has opened the file

settingsVars == <<file, vars, whole, saving>>

NoKeys == [key \in {} |-> Null]

load_settings == [key \in SettingKey |-> IF key \in DOMAIN file THEN file[key] ELSE DEFAULT_SETTINGS[key]]

\* collect_settings starts from the defaults and takes what the GUI has a widget for.
collect_settings == [key \in SettingKey |-> IF key \in DOMAIN vars THEN vars[key] ELSE DEFAULT_SETTINGS[key]]

\* Get-Setting: the default stands for a missing key and for a null.
GetSetting(s, key, default) == IF key \in DOMAIN s /\ s[key] # Null THEN s[key] ELSE default

(***************************************************************************)
(* The command line, as a set of options                                   *)
(***************************************************************************)

Flag(present, option) == IF present THEN {option} ELSE {}

\* Faulty variant of BuildBridgeCommand: the slot is passed on in every mode.
BuildBridgeCommandSlot(s) ==
  {<<"--backend", IF s.mode = "socket" THEN "socket" ELSE s.controllerBackend>>}
  \cup Flag(s.bindToProjectorFocus = "true", <<"--window", "">>) \cup Flag(s.mode = "keyboard", <<"--keyboard", "">>)
  \cup Flag(s.mode = "socket", <<"--socket-host", "">>) \cup Flag(s.serialPort # "", <<"--port", s.serialPort>>)
  \cup Flag(s.controllerSlot # Null, <<"--controller", s.controllerSlot>>)

\* build_bridge_command of the GUI
BuildBridgeCommand(s) ==
  {<<"--backend", IF s.mode = "socket" THEN "socket" ELSE s.controllerBackend>>}
  \cup Flag(s.bindToProjectorFocus = "true", <<"--window", "">>)
  \cup Flag(s.mode = "keyboard", <<"--keyboard", "">>)
  \cup Flag(s.mode = "socket", <<"--socket-host", "">>)
  \cup Flag(s.serialPort # "", <<"--port", s.serialPort>>)
  \cup Flag(s.mode # "socket" /\ s.controllerSlot # Null, <<"--controller", s.controllerSlot>>)

\* PlaynitePostStart.ps1: settings, checks, and $xinputArgs
PostArgs(s) ==
  LET asked == GetSetting(s, "playniteMode", "controller")
      mode == IF asked \in Mode THEN asked ELSE "controller"
      chosen == GetSetting(s, "controllerBackend", "auto")
      backend == IF chosen \in {"auto", "xinput", "pygame"} THEN chosen ELSE "auto"
      port == GetSetting(s, "serialPort", "COM3")
      slot == GetSetting(s, "controllerSlot", "0")
  IN  {<<"--backend", IF mode = "socket" THEN "socket" ELSE backend>>, <<"--exit-chord-signal-file", "">>}
      \cup Flag(GetSetting(s, "bindToProjectorFocus", "true") = "true", <<"--window", "">>)
      \cup Flag(mode = "keyboard", <<"--keyboard", "">>)
      \cup Flag(mode = "socket", <<"--socket-host", "">>)
      \cup Flag(port # "", <<"--port", port>>)
      \cup Flag(mode # "socket" /\ slot # Null, <<"--controller", slot>>)

(***************************************************************************)
(* The steps                                                               *)
(***************************************************************************)

SettingsTypeOK ==
  /\ DOMAIN file \subseteq SettingKey /\ \A key \in DOMAIN file : file[key] \in SettingValue(key)
  /\ DOMAIN vars = SettingKey \ {"playniteMode"} /\ \A key \in DOMAIN vars : vars[key] \in SettingValue(key)
  /\ whole \in BOOLEAN /\ saving \in BOOLEAN /\ (saving => ~whole) /\ (~whole => DOMAIN file = {})

SettingsInit ==
  /\ file = DEFAULT_SETTINGS /\ whole = TRUE /\ saving = FALSE
  /\ vars = [key \in SettingKey \ {"playniteMode"} |-> DEFAULT_SETTINGS[key]]

\* The user writes or removes a key.
Edit(key) ==
  /\ whole
  /\ \/ \E v \in SettingValue(key) : file' = [k \in DOMAIN file \cup {key} |-> IF k = key THEN v ELSE file[k]]
     \/ file' = [k \in DOMAIN file \ {key} |-> file[k]]
  /\ UNCHANGED <<vars, whole, saving>>

Enter(key) ==
  /\ ~saving /\ \E v \in SettingValue(key) \ {"other"} : vars' = [vars EXCEPT ![key] = v]
  /\ UNCHANGED <<file, whole, saving>>

reload_settings ==
  /\ ~saving /\ vars' = [key \in DOMAIN vars |-> load_settings[key]]
  /\ UNCHANGED <<file, whole, saving>>

\* save_settings: open truncates the file ...
SaveOpen == ~saving /\ saving' = TRUE /\ whole' = FALSE /\ file' = NoKeys /\ UNCHANGED vars

\* ... and the text follows, or does not.
SaveWrite == saving /\ saving' = FALSE /\ whole' = TRUE /\ file' = collect_settings /\ UNCHANGED vars
SaveFails == saving /\ saving' = FALSE /\ UNCHANGED <<file, whole, vars>>

SettingsNext ==
  \/ \E key \in SettingKey : Edit(key)
  \/ \E key \in DOMAIN vars : Enter(key)
  \/ reload_settings \/ SaveOpen \/ SaveWrite \/ SaveFails

SettingsSpec == SettingsInit /\ [][SettingsNext]_settingsVars

(***************************************************************************)
(* Properties                                                              *)
(***************************************************************************)

\* What was saved is what is loaded: a reload of the file just written changes no widget.
SaveIsLoaded ==
  file = collect_settings => \A key \in DOMAIN vars : load_settings[key] = vars[key]

\* From a saved file Playnite starts the bridge that the GUI starts, with the exit signal on
\* top, were its mode the same.
SameBridge ==
  (file = collect_settings /\ vars.controllerSlot # Null /\ vars.controllerBackend \in Backend) =>
    PostArgs([file EXCEPT !.playniteMode = file.mode])
      = BuildBridgeCommand(collect_settings) \cup {<<"--exit-chord-signal-file", "">>}

\* GUI and Playnite agree on the settings: what the GUI saves is what it loads, and Playnite
\* starts from it the bridge that the GUI starts.
SettingsAgree == SettingsTypeOK /\ SaveIsLoaded /\ SameBridge
=============================================================================
