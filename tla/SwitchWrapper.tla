--------------------------- MODULE SwitchWrapper ---------------------------
(***************************************************************************)
(* SwitchWrapper.ps1, the older launcher, beside the projector script that *)
(* it starts without waiting for it, a user, and a bridge that may end.    *)
(***************************************************************************)
EXTENDS Integers

CONSTANT Timeout    \* the script's 20 polls

ASSUME WrapperAssumption == Timeout \in Nat

VARIABLES
  wpc,
  wobs, wwindow,  \* "none", "user" or "ours", and whether the projector is visible
  projector,      \* start_obs_fullscreen.py: "none", "running" or "ended"
  wbridge,        \* $xiProc: "none", "running" or "ended"
  timeout

wrapperVars == <<wpc, wobs, wwindow, projector, wbridge, timeout>>

WrapperTypeOK ==
  /\ wpc \in {"obs", "projector", "bridge", "waiting", "timedOut", "monitoring", "stopBridge", "stopObs", "closing",
             "over", "failed"}
  /\ wobs \in {"none", "user", "ours"} /\ wwindow \in BOOLEAN /\ (wwindow => wobs # "none")
  /\ projector \in {"none", "running", "ended"} /\ wbridge \in {"none", "running", "ended"}
  /\ timeout \in 0..Timeout

WrapperInit ==
  /\ wpc = "obs" /\ wobs \in {"none", "user"} /\ wwindow \in {w \in BOOLEAN : w => wobs # "none"}
  /\ projector = "none" /\ wbridge = "none" /\ timeout = Timeout

WrapperStartsObs ==
  /\ wpc = "obs"
  /\ \/ wobs # "none" /\ wpc' = "projector" /\ UNCHANGED wobs
     \/ wobs = "none" /\ wpc' = "projector" /\ wobs' = "ours"
     \/ wobs = "none" /\ wpc' = "failed" /\ UNCHANGED wobs
  /\ UNCHANGED <<wwindow, projector, wbridge, timeout>>

StartProjector ==
  /\ wpc = "projector" /\ wpc' = "bridge" /\ projector' = "running"
  /\ UNCHANGED <<wobs, wwindow, wbridge, timeout>>

WrapperStartsBridge ==
  /\ wpc = "bridge" /\ wpc' = "waiting" /\ wbridge' = "running"
  /\ UNCHANGED <<wobs, wwindow, projector, timeout>>

GivesUp == timeout = 0

\* The loop's condition, and the test of $timeout after it.
WrapperWaits ==
  /\ wpc = "waiting"
  /\ \/ ~GivesUp /\ ~wwindow /\ timeout' = timeout - 1 /\ UNCHANGED wpc
     \/ ~GivesUp /\ wwindow /\ wpc' = "monitoring" /\ UNCHANGED timeout
     \/ GivesUp /\ wpc' = "timedOut" /\ UNCHANGED timeout
  /\ UNCHANGED <<wobs, wwindow, projector, wbridge>>

StopOnTimeout ==
  /\ wpc = "timedOut" /\ wpc' = "failed" /\ wbridge' = "ended"
  /\ UNCHANGED <<wobs, wwindow, projector, timeout>>

\* Faulty variant of WrapperMonitors: the bridge is watched, not the window.
WrapperMonitorsBridge ==
  /\ wpc = "monitoring" /\ wbridge = "ended" /\ wpc' = "stopBridge"
  /\ UNCHANGED <<wobs, wwindow, projector, wbridge, timeout>>

WrapperMonitors ==
  /\ wpc = "monitoring" /\ ~wwindow /\ wpc' = "stopBridge"
  /\ UNCHANGED <<wobs, wwindow, projector, wbridge, timeout>>

StopBridge ==
  /\ wpc = "stopBridge" /\ wpc' = "stopObs" /\ wbridge' = "ended"
  /\ UNCHANGED <<wobs, wwindow, projector, timeout>>

\* CloseMainWindow: OBS, whoever started it, may stay open for a question.
CloseObs ==
  /\ wpc = "stopObs" /\ wpc' = IF wobs = "none" THEN "over" ELSE "closing"
  /\ \/ wobs' = "none" /\ wwindow' = FALSE
     \/ UNCHANGED <<wobs, wwindow>>
  /\ UNCHANGED <<projector, wbridge, timeout>>

\* 5 s later the process is stopped if it is still there.
ForceObs ==
  /\ wpc = "closing" /\ wpc' = "over" /\ wobs' = "none" /\ wwindow' = FALSE
  /\ UNCHANGED <<projector, wbridge, timeout>>

\* start_obs_fullscreen.py opens the window, or fails.
ProjectorOpens ==
  /\ projector = "running" /\ projector' = "ended"
  /\ \/ wobs # "none" /\ wwindow' = TRUE
     \/ UNCHANGED wwindow
  /\ UNCHANGED <<wpc, wobs, wbridge, timeout>>

\* The user does not start OBS again while the script is closing it.
WrapperUser ==
  /\ wpc \notin {"over", "failed"} /\ (wpc = "closing" => wobs # "none")
  /\ \/ wobs = "none" /\ wobs' = "user" /\ UNCHANGED wwindow
     \/ wobs # "none" /\ wobs' = "none" /\ wwindow' = FALSE
     \/ wobs # "none" /\ wwindow' = ~wwindow /\ UNCHANGED wobs
  /\ UNCHANGED <<wpc, projector, wbridge, timeout>>

WrapperBridgeEnds ==
  /\ wbridge = "running" /\ wbridge' = "ended"
  /\ UNCHANGED <<wpc, wobs, wwindow, projector, timeout>>

Script ==
  \/ WrapperStartsObs \/ StartProjector \/ WrapperStartsBridge \/ WrapperWaits \/ StopOnTimeout
  \/ WrapperMonitors \/ StopBridge \/ CloseObs \/ ForceObs

WrapperNext == Script \/ ProjectorOpens \/ WrapperUser \/ WrapperBridgeEnds

WrapperSpec == WrapperInit /\ [][WrapperNext]_wrapperVars /\ WF_wrapperVars(Script)

(***************************************************************************)
(* Properties                                                              *)
(***************************************************************************)

\* "Stops xinput2serial and gracefully shuts down OBS" (README, 5. Cleanup): on every way out
\* no bridge is left, and after a session whose projector was closed OBS has ended.
WrapperCleansUp ==
  /\ wpc \in {"over", "failed"} => wbridge # "running"
  /\ wpc = "over" => wobs = "none"

\* Where the projector stays closed, the script ends.
WrapperEnds == <>[]~wwindow => <>(wpc \in {"over", "failed"})

\* The script comes to its end once the projector is closed and leaves nothing running.
WrapperEndsClean == [](WrapperTypeOK /\ WrapperCleansUp) /\ WrapperEnds
=============================================================================
