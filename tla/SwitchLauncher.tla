--------------------------- MODULE SwitchLauncher ---------------------------
(***************************************************************************)
(* switch_launcher.py: main, from start_obs to the finally clause, beside  *)
(* a user who opens and closes OBS and its projector, and a bridge that    *)
(* may end by itself.                                                      *)
(***************************************************************************)
EXTENDS Integers

CONSTANTS
  close_existing_obs,  \* the --close-existing-obs flag
  startup_timeout      \* in polls, for the WebSocket and again for the window

ASSUME LauncherAssumption == startup_timeout \in Nat

VARIABLES
  lpc,
  lobs, lwindow,  \* "none", "user" or "ours", and whether the projector is visible
  obs_proc,       \* the process that start_obs returned: "none" or "ours"
  lbridge,        \* xinput_proc: "none", "running" or "ended"
  left            \* polls to the deadline

launcherVars == <<lpc, lobs, lwindow, obs_proc, lbridge, left>>

LauncherTypeOK ==
  /\ lpc \in {"obs", "connect", "bridge", "waiting", "monitoring", "stopBridge", "stopObs", "closing", "over"}
  /\ lobs \in {"none", "user", "ours"} /\ lwindow \in BOOLEAN /\ (lwindow => lobs # "none")
  /\ obs_proc \in {"none", "ours"} /\ lbridge \in {"none", "running", "ended"} /\ left \in 0..startup_timeout

LauncherInit ==
  /\ lpc = "obs" /\ lobs \in {"none", "user"} /\ lwindow = FALSE
  /\ obs_proc = "none" /\ lbridge = "none" /\ left = startup_timeout

\* start_obs; obs64.exe may not be there.
LauncherStartsObs ==
  /\ lpc = "obs"
  /\ \/ lobs # "none" /\ lpc' = "connect" /\ UNCHANGED <<lobs, obs_proc>>
     \/ lobs = "none" /\ lpc' = "connect" /\ lobs' = "ours" /\ obs_proc' = "ours"
     \/ lobs = "none" /\ lpc' = "stopBridge" /\ UNCHANGED <<lobs, obs_proc>>
  /\ UNCHANGED <<lwindow, lbridge, left>>

\* open_projector: a connection every second until the deadline; the call may fail.
OpenProjector ==
  /\ lpc = "connect"
  /\ \/ lobs # "none" /\ left > 0 /\ lpc' = "bridge" /\ lwindow' \in {lwindow, TRUE} /\ left' = startup_timeout
     \/ left > 0 /\ left' = left - 1 /\ UNCHANGED <<lpc, lwindow>>
     \/ lpc' = "stopBridge" /\ UNCHANGED <<left, lwindow>>
  /\ UNCHANGED <<lobs, obs_proc, lbridge>>

LauncherStartsBridge ==
  /\ lpc = "bridge" /\ lpc' = "waiting" /\ lbridge' = "running"
  /\ UNCHANGED <<lobs, lwindow, obs_proc, left>>

LauncherWaits ==
  /\ lpc = "waiting"
  /\ \/ left > 0 /\ lwindow /\ lpc' = "monitoring" /\ UNCHANGED left
     \/ left > 0 /\ ~lwindow /\ lbridge = "running" /\ left' = left - 1 /\ UNCHANGED lpc
     \/ left > 0 /\ ~lwindow /\ lbridge = "ended" /\ lpc' = "stopBridge" /\ UNCHANGED left
     \/ left = 0 /\ lpc' = "stopBridge" /\ UNCHANGED left
  /\ UNCHANGED <<lobs, lwindow, obs_proc, lbridge>>

\* Faulty variant of Watched: only the window is watched.
WatchedWindow == lwindow

Watched == lwindow /\ lbridge = "running"

LauncherMonitors ==
  /\ lpc = "monitoring" /\ ~Watched /\ lpc' = "stopBridge"
  /\ UNCHANGED <<lobs, lwindow, obs_proc, lbridge, left>>

\* Faulty variant of StopProcess: it is not killed when it does not end in time.
StopProcessMildly ==
  /\ lpc = "stopBridge" /\ lpc' = "stopObs"
  /\ lbridge' \in {lbridge, IF lbridge = "running" THEN "ended" ELSE lbridge}
  /\ UNCHANGED <<lobs, lwindow, obs_proc, left>>

\* finally: stop_process terminates the bridge, or kills it 5 s later.
StopProcess ==
  /\ lpc = "stopBridge" /\ lpc' = "stopObs"
  /\ lbridge' = IF lbridge = "running" THEN "ended" ELSE lbridge
  /\ UNCHANGED <<lobs, lwindow, obs_proc, left>>

\* (started_obs or close_existing_obs), and stop_obs's own test of obs_proc
MayStopObs == (obs_proc = "ours" \/ close_existing_obs) /\ obs_proc = "ours" /\ lobs = obs_proc

\* stop_obs posts WM_CLOSE to its windows ...
StopObs ==
  /\ lpc = "stopObs"
  /\ lpc' = IF MayStopObs THEN "closing" ELSE "over"
  /\ UNCHANGED <<lobs, lwindow, obs_proc, lbridge, left>>

\* ... and terminates it if it has not ended 8 s later.
ObsEnds ==
  /\ lpc = "closing" /\ lpc' = "over"
  /\ IF MayStopObs THEN lobs' = "none" /\ lwindow' = FALSE ELSE UNCHANGED <<lobs, lwindow>>
  /\ UNCHANGED <<obs_proc, lbridge, left>>

LauncherUser ==
  /\ lpc # "over"
  /\ \/ lobs = "none" /\ lobs' = "user" /\ UNCHANGED lwindow
     \/ lobs # "none" /\ lobs' = "none" /\ lwindow' = FALSE
     \/ lobs # "none" /\ lwindow' = ~lwindow /\ UNCHANGED lobs
  /\ UNCHANGED <<lpc, obs_proc, lbridge, left>>

LauncherBridgeEnds ==
  /\ lbridge = "running" /\ lbridge' = "ended"
  /\ UNCHANGED <<lpc, lobs, lwindow, obs_proc, left>>

Main ==
  \/ LauncherStartsObs \/ OpenProjector \/ LauncherStartsBridge \/ LauncherWaits \/ LauncherMonitors
  \/ StopProcess \/ StopObs \/ ObsEnds

LauncherNext == Main \/ LauncherUser \/ LauncherBridgeEnds

LauncherSpec == LauncherInit /\ [][LauncherNext]_launcherVars

\* The launcher is scheduled, and looks at both conditions of its monitoring loop every second.
LauncherFairSpec == LauncherSpec /\ WF_launcherVars(Main)

(***************************************************************************)
(* Properties                                                              *)
(***************************************************************************)

\* "then cleans up the bridge process and any OBS instance it started", on every way out.
CleansUp == lpc = "over" => lbridge # "running" /\ lobs # "ours"

\* "OBS is already running; leaving it open during cleanup.": no step of the launcher ends an
\* OBS that it did not start, even one the user opened in place of the launcher's own.
LeavesUserObs == [][(Main /\ lobs = "user") => lobs' = "user"]_launcherVars

\* A bridge that ends, at any moment, ends the launcher.
BridgeEndEndsLauncher == (lbridge = "ended") ~> (lpc = "over")

\* The launcher ends when its bridge does, and on its way out ends no OBS of the user.
LauncherEnds == []LauncherTypeOK /\ LeavesUserObs /\ BridgeEndEndsLauncher
=============================================================================
