---------------------------- MODULE MCProcesses ----------------------------
(***************************************************************************)
(* Processes, threads and the files between them: the bridge with its      *)
(* board, the threads of its socket, the sessions of Playnite, the two     *)
(* launchers and the GUI.  They share no variable and no property is about *)
(* two of them, so a behaviour of this module is one of a single part      *)
(* while the others stay in an initial state.                              *)
(***************************************************************************)
EXTENDS Bridge, SocketServer, PlayniteSession, SwitchLauncher, SwitchWrapper, GuiProcesses

VARIABLE part

parts == <<bridgeVars, serverVars, sessionVars, launcherVars, wrapperVars, guiVars>>
allVars == <<part, parts>>

\* A part that stays in its initial state is in one in which nothing is asked of it.
Init ==
  /\ part \in {"bridge", "server", "session", "launcher", "wrapper", "gui"}
  /\ BridgeInit /\ ServerInit /\ SessionInit /\ LauncherInit /\ WrapperInit /\ GuiInit
  /\ part # "bridge" => ~focused
  /\ part # "session" => obs = None
  /\ part # "launcher" => lobs = "none"
  /\ part # "wrapper" => wwindow

\* Nothing is left to happen.
Ended ==
  \/ part = "server" /\ serve = "stopped"
  \/ part = "launcher" /\ lpc = "over"
  \/ part = "wrapper" /\ wpc \in {"over", "failed"}
  \/ part = "gui" /\ ~open

Next ==
  /\ UNCHANGED part
  /\ \/ /\ part = "bridge" /\ BridgeNext
        /\ UNCHANGED <<serverVars, sessionVars, launcherVars, wrapperVars, guiVars>>
     \/ /\ part = "server" /\ ServerNext
        /\ UNCHANGED <<bridgeVars, sessionVars, launcherVars, wrapperVars, guiVars>>
     \/ /\ part = "session" /\ SessionNext
        /\ UNCHANGED <<bridgeVars, serverVars, launcherVars, wrapperVars, guiVars>>
     \/ /\ part = "launcher" /\ LauncherNext
        /\ UNCHANGED <<bridgeVars, serverVars, sessionVars, wrapperVars, guiVars>>
     \/ /\ part = "wrapper" /\ WrapperNext
        /\ UNCHANGED <<bridgeVars, serverVars, sessionVars, launcherVars, guiVars>>
     \/ /\ part = "gui" /\ GuiNext
        /\ UNCHANGED <<bridgeVars, serverVars, sessionVars, launcherVars, wrapperVars>>
     \/ Ended /\ UNCHANGED parts

\* The fairness of the parts, each one's for its own behaviours.
Fairness ==
  /\ WF_bridgeVars(part = "bridge" /\ LoopStep) /\ WF_bridgeVars(part = "bridge" /\ Tick)
  /\ \A t \in Thread : WF_serverVars(part = "server" /\ (Snap(t) \/ Open(t) \/ Put(t) \/ Replace(t)))
  /\ \A p \in Peer : /\ WF_serverVars(part = "server" /\ StartHandler(p))
                     /\ WF_serverVars(part = "server" /\ Leave(p))
  /\ WF_sessionVars(part = "session" /\ Scripts)
  /\ \A n \in Session : WF_sessionVars(part = "session" /\ Host(n))
  /\ WF_launcherVars(part = "launcher" /\ Main)
  /\ WF_wrapperVars(part = "wrapper" /\ Script)
  /\ WF_guiVars(part = "gui" /\ DrainOutput)
  /\ \A c \in Child : WF_guiVars(part = "gui" /\ ReadProcess(c))

Spec == Init /\ [][Next]_allVars /\ Fairness
=============================================================================
