-------------------------- MODULE PlayniteSession --------------------------
(***************************************************************************)
(* The Playnite scripts: Pre, Post and Exit run one after the other in     *)
(* Playnite; PlayniteSessionHost.ps1 is a process beside them, and the     *)
(* bridge that Post starts is another.  They meet in the OBS process, the  *)
(* projector window and the exit signal file.  A Playnite that ends in the *)
(* middle of a session leaves the host and the bridge behind.              *)
(***************************************************************************)
EXTENDS Integers

CONSTANTS
  MaxSession, MaxCrash,  \* bounds on the sessions, and on the times Playnite ends in one
  Startup, Grace         \* startupTimeoutSeconds and missingWindowGraceSeconds, in polls

ASSUME SessionAssumption ==
  MaxSession \in Nat /\ MaxCrash \in Nat /\ Startup \in Nat /\ Grace \in Nat

Session == 1..MaxSession
None == 0
User == MaxSession + 1    \* an OBS that the user started; one that Pre started has its session's number

VARIABLES
  session,           \* how many were started
  stage,             \* where Playnite is
  SwitchAutomation,  \* $global:SwitchAutomation: whether Pre started OBS, and the OBS process it saw
  obs, window,       \* the OBS process, whether its projector is visible
  bridges,           \* the sessions whose bridge is running
  signalFile,        \* the session whose bridge wrote the signal file, None when there is no file
  host,              \* session -> its host
  chord,             \* the sessions in which the exit chord was pressed
  crashes

sessionVars == <<session, stage, SwitchAutomation, obs, window, bridges, signalFile, host, chord, crashes>>

Stage == {"idle", "started", "projector", "kill", "clear", "start", "playing", "exit"}
NoHost == [at |-> "off", waited |-> 0, missing |-> None, away |-> 0, why |-> "none"]

SessionTypeOK ==
  /\ session \in 0..MaxSession /\ stage \in Stage /\ crashes \in 0..MaxCrash
  /\ SwitchAutomation \in [own : BOOLEAN, pid : 0..User]
  /\ obs \in 0..User /\ window \in BOOLEAN /\ (window => obs # None)
  /\ bridges \subseteq Session /\ signalFile \in {None} \cup Session /\ chord \subseteq Session
  /\ host \in [Session -> [at : {"off", "waiting", "found", "tracking", "over"},
                           waited : 0..Startup, missing : 0..Grace + 1, away : 0..Grace + 1,
                           why : {"none", "timeout", "signal", "grace"}]]

SessionInit ==
  /\ session = 0 /\ stage = "idle" /\ SwitchAutomation = [own |-> FALSE, pid |-> None]
  /\ obs \in {None, User} /\ window \in {w \in BOOLEAN : w => obs # None}
  /\ bridges = {} /\ signalFile = None /\ chord = {} /\ crashes = 0
  /\ host = [n \in Session |-> NoHost]

(***************************************************************************)
(* The scripts                                                             *)
(***************************************************************************)

Pre ==
  /\ stage = "idle" /\ session < MaxSession
  /\ session' = session + 1 /\ stage' = "started"
  /\ IF obs # None
     THEN SwitchAutomation' = [own |-> FALSE, pid |-> obs] /\ UNCHANGED obs
     ELSE SwitchAutomation' = [own |-> TRUE, pid |-> session + 1] /\ obs' = session + 1
  /\ UNCHANGED <<window, bridges, signalFile, host, chord, crashes>>

\* The game action: Playnite starts the host, then runs Post.
StartHost ==
  /\ stage = "started" /\ stage' = "projector"
  /\ host' = [host EXCEPT ![session].at = "waiting"]
  /\ UNCHANGED <<session, SwitchAutomation, obs, window, bridges, signalFile, chord, crashes>>

\* The projector script opens the window, or has not ended after 15 s, or fails: then Post throws.
Projector ==
  /\ stage = "projector"
  /\ \/ obs # None /\ window' = TRUE /\ stage' = "kill"
     \/ obs # None /\ stage' = "kill" /\ UNCHANGED window
     \/ stage' = "playing" /\ UNCHANGED window
  /\ UNCHANGED <<session, SwitchAutomation, obs, bridges, signalFile, host, chord, crashes>>

\* Faulty variant of Lingering: the one in the pid file is stopped, if Playnite remembers it.
LingeringKnown == bridges \cap {session}

\* Stop-ExistingBridgeProcesses and Stop-XInputBridgeProcesses go by the command line.
Lingering == bridges

StopExisting ==
  /\ stage = "kill" /\ stage' = "clear" /\ bridges' = bridges \ Lingering
  /\ UNCHANGED <<session, SwitchAutomation, obs, window, signalFile, host, chord, crashes>>

ClearSignal ==
  /\ stage = "clear" /\ stage' = "start" /\ signalFile' = None
  /\ UNCHANGED <<session, SwitchAutomation, obs, window, bridges, host, chord, crashes>>

\* A bridge that has ended within 2 s makes Post throw: Playnite is in the session all the same.
StartBridge ==
  /\ stage = "start" /\ stage' = "playing" /\ bridges' = bridges \cup {session}
  /\ UNCHANGED <<session, SwitchAutomation, obs, window, signalFile, host, chord, crashes>>

\* The host has ended, and Exit stops every bridge.
ExitBridges ==
  /\ stage = "playing" /\ host[session].at = "over" /\ stage' = "exit"
  /\ bridges' = bridges \ Lingering
  /\ UNCHANGED <<session, SwitchAutomation, obs, window, signalFile, host, chord, crashes>>

\* OBS is asked to close if Pre started it and that process is still there ...
Closing == SwitchAutomation.own /\ obs = SwitchAutomation.pid

\* ... and is left open if it does not: forceCloseObs is false.
ExitObs ==
  /\ stage = "exit" /\ stage' = "idle" /\ SwitchAutomation' = [own |-> FALSE, pid |-> None]
  /\ \/ Closing /\ obs' = None /\ window' = FALSE
     \/ UNCHANGED <<obs, window>>
  /\ UNCHANGED <<session, bridges, signalFile, host, chord, crashes>>

(***************************************************************************)
(* The host, a poll at a time                                              *)
(***************************************************************************)

WaitForWindow(n) ==
  /\ host[n].at = "waiting"
  /\ host' = [host EXCEPT ![n] = IF window \/ host[n].waited = Startup THEN [host[n] EXCEPT !.at = "found"]
                                 ELSE [host[n] EXCEPT !.waited = @ + 1]]
  /\ UNCHANGED <<session, stage, SwitchAutomation, obs, window, bridges, signalFile, chord, crashes>>

\* Faulty variant of Confirm: an old signal is removed here.
ConfirmClears(n) ==
  /\ host[n].at = "found" /\ signalFile' = None
  /\ host' = [host EXCEPT ![n] = IF window THEN [@ EXCEPT !.at = "tracking"]
                                 ELSE [@ EXCEPT !.at = "over", !.why = "timeout"]]
  /\ UNCHANGED <<session, stage, SwitchAutomation, obs, window, bridges, chord, crashes>>

\* After the loop the window is looked for once more.
Confirm(n) ==
  /\ host[n].at = "found"
  /\ host' = [host EXCEPT ![n] = IF window THEN [@ EXCEPT !.at = "tracking"]
                                 ELSE [@ EXCEPT !.at = "over", !.why = "timeout"]]
  /\ UNCHANGED <<session, stage, SwitchAutomation, obs, window, bridges, signalFile, chord, crashes>>

SeeSignal(n) ==
  /\ host[n].at = "tracking" /\ signalFile # None
  /\ signalFile' = None /\ window' \in {window, FALSE}
  /\ host' = [host EXCEPT ![n].at = "over", ![n].why = "signal"]
  /\ UNCHANGED <<session, stage, SwitchAutomation, obs, bridges, chord, crashes>>

\* The age of missingSince plus one, None for a null.
Since(h) == IF window THEN None ELSE h.missing + 1

\* missingSince, and the end when it is Grace old.
Polled(h) ==
  IF Since(h) > Grace
  THEN [h EXCEPT !.missing = Since(h), !.away = IF window THEN 0 ELSE h.away + 1, !.at = "over", !.why = "grace"]
  ELSE [h EXCEPT !.missing = Since(h), !.away = IF window THEN 0 ELSE h.away + 1]

Track(n) ==
  /\ host[n].at = "tracking" /\ signalFile = None
  /\ host' = [host EXCEPT ![n] = Polled(host[n])]
  /\ UNCHANGED <<session, stage, SwitchAutomation, obs, window, bridges, signalFile, chord, crashes>>

(***************************************************************************)
(* The user, OBS and the bridge                                            *)
(***************************************************************************)

UserObs ==
  /\ \/ obs = None /\ obs' = User /\ UNCHANGED window
     \/ obs # None /\ obs' = None /\ window' = FALSE
     \/ obs # None /\ window' = ~window /\ UNCHANGED obs
  /\ UNCHANGED <<session, stage, SwitchAutomation, bridges, signalFile, host, chord, crashes>>

\* write_exit_signal: then the bridge ends.
ExitChord(n) ==
  /\ n \in bridges /\ bridges' = bridges \ {n} /\ signalFile' = n /\ chord' = chord \cup {session}
  /\ UNCHANGED <<session, stage, SwitchAutomation, obs, window, host, crashes>>
BridgeEnds(n) ==
  /\ n \in bridges /\ bridges' = bridges \ {n}
  /\ UNCHANGED <<session, stage, SwitchAutomation, obs, window, signalFile, host, chord, crashes>>

PlayniteEnds ==
  /\ stage # "idle" /\ crashes < MaxCrash /\ crashes' = crashes + 1
  /\ stage' = "idle" /\ SwitchAutomation' = [own |-> FALSE, pid |-> None]
  /\ UNCHANGED <<session, obs, window, bridges, signalFile, host, chord>>

Scripts == Pre \/ StartHost \/ Projector \/ StopExisting \/ ClearSignal \/ StartBridge \/ ExitBridges \/ ExitObs
Host(n) == WaitForWindow(n) \/ Confirm(n) \/ SeeSignal(n) \/ Track(n)

SessionNext ==
  \/ Scripts \/ UserObs \/ PlayniteEnds
  \/ \E n \in Session : Host(n) \/ ExitChord(n) \/ BridgeEnds(n)

SessionSpec == SessionInit /\ [][SessionNext]_sessionVars

\* The scripts and the host run on as long as Windows schedules them.
SessionFairSpec ==
  SessionSpec /\ WF_sessionVars(Scripts) /\ \A n \in Session : WF_sessionVars(Host(n))

(***************************************************************************)
(* Properties                                                              *)
(***************************************************************************)

\* "closes OBS only if this Playnite session started OBS" (PlayniteExit.ps1): not one that the
\* user started, though the session's own was closed in the meantime.
OnlyOwnObsIsClosed == [][(ExitObs /\ obs' # obs) => obs = session]_sessionVars

\* Two bridges never compete for the serial port, even when Playnite did not run the Exit of
\* an earlier session.
OneBridge == \A m, n \in bridges : m = n

\* The chord of the session that is being played is not lost: its file is there until a host
\* has taken it, whatever Post removes.
ChordIsKept ==
  \A n \in Session :
    (n = session /\ n \in chord /\ crashes = 0 /\ host[n].at # "over" /\ stage # "idle") => signalFile # None

\* Without a signal the host gives a session up only when the window was gone at every poll of
\* the whole grace period.
GraceHolds == \A n \in Session : host[n].why = "grace" => host[n].away > Grace

\* The exit chord ends its session: the host, the bridge and the Exit script; unless Playnite
\* itself ends before.
ChordEndsSession ==
  \A n \in Session : (n \in chord /\ session = n) ~> (session # n \/ stage = "idle" \/ crashes > 0)

\* A session has one bridge, keeps its exit chord and is given up only after the grace period,
\* whatever an earlier session left behind.
SessionIsSound == SessionTypeOK /\ OneBridge /\ ChordIsKept /\ GraceHolds

\* A session ends, and cleanly: the chord ends it, and no OBS but its own is closed by it.
SessionEndsClean == OnlyOwnObsIsClosed /\ ChordEndsSession
=============================================================================
