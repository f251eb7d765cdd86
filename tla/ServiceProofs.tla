--------------------------- MODULE ServiceProofs ----------------------------
(***************************************************************************)
(* Proofs about the Playnite scripts (PlayniteSession), the socket server of *)
(* the bridge (SocketServer) and the .env file that the Discord bot is     *)
(* started with (EnvFile).                                                 *)
(***************************************************************************)
EXTENDS PlayniteSession, SocketServer, EnvFile, FiniteSetTheorems, WellFoundedInduction, TLAPS

-----------------------------------------------------------------------------
(***************************************************************************)
(* The Playnite scripts keep to one bridge, close no OBS but their own,    *)
(* lose no chord and respect the grace period, for any number of sessions  *)
(* and of times that Playnite ends in one.                                 *)
(***************************************************************************)

HostState == [at : {"off", "waiting", "found", "tracking", "over"},
              waited : 0..Startup, missing : 0..Grace + 1, away : 0..Grace + 1,
              why : {"none", "timeout", "signal", "grace"}]

\* What the bridges, the recorded OBS and the hosts have to do with the stage.
BridgesInv ==
  /\ OneBridge
  /\ stage \in {"clear", "start"} => bridges = {}
  /\ (crashes = 0 /\ stage # "playing") => bridges = {}
  /\ bridges # {} => session > 0

ObsInv == SwitchAutomation.own => SwitchAutomation.pid = session

GraceInv ==
  \A n \in Session :
    /\ host[n].missing = host[n].away
    /\ host[n].at # "over" => host[n].missing <= Grace
    /\ host[n].why = "grace" => host[n].missing > Grace
    /\ host[n].at # "over" => host[n].why = "none"

\* Without a crash only the host of the session that is being played is alive.
AloneInv ==
  /\ stage # "idle" => session > 0
  /\ \A n \in Session : n > session => host[n].at = "off"
  /\ stage = "started" => host[session].at = "off"
  /\ crashes = 0 =>
       /\ \A n \in Session : n < session => host[n].at = "over"
       /\ (stage \in {"idle", "exit"} /\ session > 0) => host[session].at = "over"

ChordsInv ==
  /\ \A n \in chord : n <= session
  /\ (crashes = 0 /\ stage \in {"started", "projector", "kill", "clear", "start"}) => session \notin chord
  /\ ChordIsKept

SInv == SessionTypeOK /\ BridgesInv /\ ObsInv /\ GraceInv /\ AloneInv /\ ChordsInv

\* Initially the invariant holds: nothing has been started.
LEMMA SessionStart == SessionInit => SInv
  BY SessionAssumption
  DEF SessionInit, SInv, SessionTypeOK, BridgesInv, OneBridge, ObsInv, GraceInv, AloneInv, ChordsInv, ChordIsKept, Session,
      None, User, Stage, NoHost

USE SessionAssumption DEF Session, None, User, Stage

\* The type invariant in four parts: numbers and sets, the global, the window, the hosts.
NumbersOK ==
  /\ session \in 0..MaxSession /\ stage \in Stage /\ crashes \in 0..MaxCrash /\ obs \in 0..User
  /\ bridges \subseteq Session /\ signalFile \in {None} \cup Session /\ chord \subseteq Session
GlobalOK == SwitchAutomation \in [own : BOOLEAN, pid : 0..User]
WindowOK == window \in BOOLEAN /\ (window => obs # None)
HostOK == host \in [Session -> HostState]

\* The four parts are the type invariant.
LEMMA TypeParts == SessionTypeOK <=> (NumbersOK /\ GlobalOK /\ WindowOK /\ HostOK)
  BY DEF SessionTypeOK, NumbersOK, GlobalOK, WindowOK, HostOK, HostState

\* The projector's window has an OBS, whatever step opens or closes one of them.
LEMMA WindowStep ==
  ASSUME WindowOK,
         \/ window' = FALSE
         \/ window' = window /\ obs' = obs
         \/ window' = window /\ obs = None
         \/ window' = TRUE /\ obs # None /\ obs' = obs
  PROVE  WindowOK'
<1>1. CASE window' = FALSE BY <1>1 DEF WindowOK
<1>2. CASE window' = window /\ obs' = obs BY <1>2 DEF WindowOK
<1>3. CASE window' = window /\ obs = None
  <2>1. window = FALSE BY <1>3 DEF WindowOK
  <2> QED BY <1>1, <1>3, <2>1
<1>4. CASE window' = TRUE /\ obs # None /\ obs' = obs BY <1>4 DEF WindowOK
<1> QED BY <1>1, <1>2, <1>3, <1>4

\* The scripts preserve the types.
LEMMA ScriptTypes == ASSUME SInv, Scripts PROVE SessionTypeOK'
<1>0. NumbersOK /\ GlobalOK /\ WindowOK /\ HostOK BY TypeParts DEF SInv
<1>9. stage # "idle" => session \in Session BY <1>0 DEF NumbersOK, SInv, AloneInv
<1>1. NumbersOK'
  BY <1>0, <1>9
  DEF NumbersOK, GlobalOK, Scripts, Pre, StartHost, Projector, StopExisting, ClearSignal, StartBridge, ExitBridges,
      ExitObs, Lingering
<1>2. GlobalOK'
  <2>1. CASE Pre
    <3>1. session + 1 \in 0..User /\ obs \in 0..User BY <1>0, <2>1 DEF Pre, NumbersOK
    <3>2. [own |-> FALSE, pid |-> obs] \in [own : BOOLEAN, pid : 0..User] BY <3>1
    <3>3. [own |-> TRUE, pid |-> session + 1] \in [own : BOOLEAN, pid : 0..User] BY <3>1
    <3> QED BY <2>1, <3>2, <3>3 DEF Pre, GlobalOK
  <2>2. CASE ExitObs
    <3>1. [own |-> FALSE, pid |-> None] \in [own : BOOLEAN, pid : 0..User] OBVIOUS
    <3> QED BY <2>2, <3>1 DEF ExitObs, GlobalOK
  <2> QED
    BY <1>0, <2>1, <2>2
    DEF GlobalOK, Scripts, StartHost, Projector, StopExisting, ClearSignal, StartBridge, ExitBridges
<1>3. WindowOK'
  <2>1. CASE Pre
    <3>1. window' = window /\ (obs = None \/ obs' = obs) BY <2>1 DEF Pre
    <3> QED BY <1>0, <3>1, WindowStep
  <2>2. CASE Projector
    <3>1. obs' = obs /\ (window' = window \/ (window' = TRUE /\ obs # None)) BY <2>2 DEF Projector
    <3> QED BY <1>0, <3>1, WindowStep
  <2>3. CASE ExitObs
    <3>1. window' = FALSE \/ (window' = window /\ obs' = obs) BY <2>3 DEF ExitObs
    <3> QED BY <1>0, <3>1, WindowStep
  <2> QED
    BY <1>0, <2>1, <2>2, <2>3
    DEF WindowOK, Scripts, StartHost, StopExisting, ClearSignal, StartBridge, ExitBridges
<1>4. HostOK'
  <2>1. CASE StartHost
    <3>1. session \in Session BY <1>9, <2>1 DEF StartHost
    <3>2. host[session] \in HostState BY <1>0, <3>1 DEF HostOK
    <3>3. [host[session] EXCEPT !.at = "waiting"] \in HostState BY <3>2 DEF HostState
    <3> QED BY <1>0, <2>1, <3>1, <3>3 DEF HostOK, StartHost
  <2> QED
    BY <1>0, <2>1
    DEF HostOK, Scripts, Pre, Projector, StopExisting, ClearSignal, StartBridge, ExitBridges, ExitObs
<1> QED BY <1>1, <1>2, <1>3, <1>4, TypeParts DEF NumbersOK, GlobalOK, WindowOK, HostOK, SessionTypeOK, HostState

\* The scripts preserve the rest of the invariant: Post has stopped every bridge before it
\* removes the signal and starts its own, and Exit runs when the host is over.
LEMMA ScriptStep == ASSUME SInv, Scripts PROVE (BridgesInv /\ ObsInv /\ GraceInv /\ AloneInv /\ ChordsInv)'
<1>0. NumbersOK /\ GlobalOK /\ HostOK BY TypeParts DEF SInv
<1>1. BridgesInv'
  BY <1>0
  DEF NumbersOK, SInv, AloneInv, BridgesInv, OneBridge, Scripts, Pre, StartHost, Projector, StopExisting, ClearSignal,
      StartBridge, ExitBridges, ExitObs, Lingering
<1>2. ObsInv'
  BY <1>0
  DEF NumbersOK, GlobalOK, SInv, ObsInv, Scripts, Pre, StartHost, Projector, StopExisting, ClearSignal, StartBridge,
      ExitBridges, ExitObs
<1>3. GraceInv'
  <2>1. CASE StartHost
    <3>1. session \in Session /\ host[session].at = "off" BY <1>0, <2>1 DEF NumbersOK, SInv, AloneInv, StartHost
    <3> QED BY <1>0, <2>1, <3>1 DEF SInv, GraceInv, StartHost, HostOK, HostState
  <2> QED
    BY <2>1
    DEF SInv, GraceInv, Scripts, Pre, Projector, StopExisting, ClearSignal, StartBridge, ExitBridges, ExitObs
<1>4. AloneInv'
  <2>1. CASE Pre BY <1>0, <2>1 DEF Pre, SInv, AloneInv, NumbersOK, HostOK
  <2>2. CASE StartHost BY <1>0, <2>2 DEF StartHost, SInv, AloneInv, NumbersOK, HostOK, HostState
  <2>3. CASE Projector \/ StopExisting \/ ClearSignal \/ StartBridge
    BY <1>0, <2>3 DEF Projector, StopExisting, ClearSignal, StartBridge, SInv, AloneInv, NumbersOK
  <2>4. CASE ExitBridges \/ ExitObs BY <1>0, <2>4 DEF ExitBridges, ExitObs, SInv, AloneInv, NumbersOK
  <2> QED BY <2>1, <2>2, <2>3, <2>4 DEF Scripts
<1>5. ChordsInv'
  <2>1. CASE Pre BY <1>0, <2>1 DEF Pre, SInv, ChordsInv, ChordIsKept, NumbersOK
  <2>2. CASE StartHost BY <1>0, <2>2 DEF StartHost, SInv, ChordsInv, ChordIsKept, NumbersOK, HostOK
  <2>3. CASE Projector \/ StopExisting \/ ClearSignal \/ StartBridge
    BY <1>0, <2>3 DEF Projector, StopExisting, ClearSignal, StartBridge, SInv, ChordsInv, ChordIsKept, NumbersOK
  <2>4. CASE ExitBridges \/ ExitObs BY <1>0, <2>4 DEF ExitBridges, ExitObs, SInv, ChordsInv, ChordIsKept, NumbersOK
  <2> QED BY <2>1, <2>2, <2>3, <2>4 DEF Scripts
<1> QED BY <1>1, <1>2, <1>3, <1>4, <1>5

\* What a poll without a signal makes of a host.
LEMMA PolledHost ==
  ASSUME NEW r \in HostState, r.at = "tracking", r.missing = r.away, r.missing <= Grace, r.why = "none"
  PROVE  /\ Polled(r) \in HostState /\ Polled(r).missing = Polled(r).away
         /\ \/ Polled(r).at = "over" /\ Polled(r).missing > Grace
            \/ Polled(r).at = "tracking" /\ Polled(r).missing <= Grace /\ Polled(r).why = "none"
<1>0. r.missing \in 0..Grace + 1 /\ r.missing + 1 \in 0..Grace + 1 /\ 0 \in 0..Grace + 1 BY DEF HostState
<1>1. CASE window
  <2> DEFINE z == [r EXCEPT !.missing = 0, !.away = 0]
  <2>1. z \in HostState /\ z.missing = 0 /\ z.away = 0 /\ z.at = r.at /\ z.why = r.why
    BY <1>0 DEF HostState
  <2>2. Polled(r) = z BY <1>1 DEF Polled, Since
  <2> HIDE DEF z
  <2> QED BY <2>1, <2>2
<1> DEFINE k == r.missing + 1
           s == [r EXCEPT !.missing = k, !.away = k]
<1>3. k \in 0..Grace + 1 BY <1>0
<1> HIDE DEF k
<1>2. CASE ~window
  <2>1. s \in HostState /\ s.missing = k /\ s.away = k /\ s.at = r.at /\ s.why = r.why
    BY <1>3 DEF HostState
  <2>2. CASE k > Grace
    <3>1. Polled(r) = [s EXCEPT !.at = "over", !.why = "grace"] BY <1>2, <2>2 DEF Polled, Since, k
    <3> HIDE DEF s
    <3>2. Polled(r) \in HostState /\ Polled(r).missing = s.missing /\ Polled(r).away = s.away /\ Polled(r).at = "over"
      BY <2>1, <3>1 DEF HostState
    <3> QED BY <2>1, <2>2, <3>2
  <2>3. CASE ~(k > Grace)
    <3>1. Polled(r) = s BY <1>2, <2>3 DEF Polled, Since, k
    <3> HIDE DEF s
    <3> QED BY <1>3, <2>1, <2>3, <3>1
  <2> QED BY <2>2, <2>3
<1> QED BY <1>1, <1>2

\* A host's poll preserves the invariant: it takes the signal only to end its own session.
LEMMA HostStep == ASSUME SInv, NEW n \in Session, Host(n) PROVE SInv'
<1>0. NumbersOK /\ GlobalOK /\ WindowOK /\ HostOK BY TypeParts DEF SInv
<1>1. /\ UNCHANGED <<session, stage, SwitchAutomation, obs, bridges, chord, crashes>>
      /\ signalFile' \in {None, signalFile} /\ (signalFile' # signalFile => host'[n].at = "over")
      /\ window' = window \/ window' = FALSE
  BY <1>0 DEF Host, WaitForWindow, Confirm, SeeSignal, Track, HostOK, HostState
<1>2. /\ HostOK' /\ \A m \in Session : m # n => host'[m] = host[m]
      /\ host[n].at \in {"waiting", "found", "tracking"}
      /\ host'[n].missing = host'[n].away
      /\ host'[n].at # "over" => (host'[n].missing <= Grace /\ host'[n].why = "none")
      /\ host'[n].why = "grace" => host'[n].missing > Grace
  <2>0. host[n] \in HostState BY <1>0 DEF HostOK
  <2>9. /\ host[n].missing = host[n].away
        /\ host[n].at # "over" => (host[n].missing <= Grace /\ host[n].why = "none")
    BY DEF SInv, GraceInv
  <2>1. CASE WaitForWindow(n)
    <3> DEFINE s == IF window \/ host[n].waited = Startup THEN [host[n] EXCEPT !.at = "found"]
                    ELSE [host[n] EXCEPT !.waited = @ + 1]
    <3>1. host' = [host EXCEPT ![n] = s] /\ host[n].at = "waiting" BY <2>1 DEF WaitForWindow
    <3>2. s \in HostState /\ s.missing = host[n].missing /\ s.away = host[n].away /\ s.why = host[n].why
      BY <2>0 DEF HostState
    <3> HIDE DEF s
    <3> QED BY <1>0, <2>9, <3>1, <3>2 DEF HostOK
  <2>2. CASE Confirm(n) BY <1>0, <2>0, <2>2, <2>9 DEF Confirm, HostOK, HostState
  <2>3. CASE SeeSignal(n) BY <1>0, <2>0, <2>3, <2>9 DEF SeeSignal, HostOK, HostState
  <2>4. CASE Track(n)
    <3>1. host' = [host EXCEPT ![n] = Polled(host[n])] /\ host[n].at = "tracking" BY <2>4 DEF Track
    <3>2. /\ Polled(host[n]) \in HostState /\ Polled(host[n]).missing = Polled(host[n]).away
          /\ \/ Polled(host[n]).at = "over" /\ Polled(host[n]).missing > Grace
             \/ Polled(host[n]).at = "tracking" /\ Polled(host[n]).missing <= Grace /\ Polled(host[n]).why = "none"
      BY <2>0, <2>9, <3>1, PolledHost
    <3> QED BY <1>0, <3>1, <3>2 DEF HostOK
  <2> QED BY <2>1, <2>2, <2>3, <2>4 DEF Host
<1>3. SessionTypeOK'
  <2>1. NumbersOK' BY <1>0, <1>1 DEF NumbersOK
  <2>2. GlobalOK' BY <1>0, <1>1 DEF GlobalOK
  <2>3. WindowOK' BY <1>0, <1>1, WindowStep
  <2> QED BY <1>2, <2>1, <2>2, <2>3 DEF SessionTypeOK, NumbersOK, GlobalOK, WindowOK, HostOK, HostState
<1>4. BridgesInv' /\ ObsInv' BY <1>1 DEF SInv, BridgesInv, OneBridge, ObsInv
<1>5. GraceInv' BY <1>2 DEF SInv, GraceInv
<1>6. AloneInv'
  <2>1. n <= session BY <1>0, <1>2 DEF SInv, AloneInv, NumbersOK
  <2>2. crashes = 0 => (n = session /\ stage \notin {"idle", "exit"}) BY <1>0, <1>2, <2>1 DEF SInv, AloneInv, NumbersOK
  <2>3. stage = "started" => n # session BY <1>2 DEF SInv, AloneInv
  <2> QED BY <1>0, <1>1, <1>2, <2>1, <2>2, <2>3 DEF SInv, AloneInv, NumbersOK
<1>7. ChordsInv'
  <2>1. crashes = 0 => n = session BY <1>0, <1>2 DEF SInv, AloneInv, NumbersOK
  <2> QED BY <1>0, <1>1, <1>2, <2>1 DEF SInv, ChordsInv, ChordIsKept, NumbersOK
<1> QED BY <1>3, <1>4, <1>5, <1>6, <1>7 DEF SInv

\* What the user, the bridge and the end of Playnite do preserves the invariant.
LEMMA OutsideStep ==
  ASSUME SInv, UserObs \/ PlayniteEnds \/ \E n \in Session : ExitChord(n) \/ BridgeEnds(n)
  PROVE  SInv'
<1>0. NumbersOK /\ GlobalOK /\ WindowOK /\ HostOK BY TypeParts DEF SInv
<1>1. UNCHANGED <<session, host>> BY DEF UserObs, PlayniteEnds, ExitChord, BridgeEnds
<1>2. CASE UserObs
  <2>1. UNCHANGED <<stage, SwitchAutomation, bridges, signalFile, chord, crashes>> BY <1>2 DEF UserObs
  <2>2. obs' \in 0..User BY <1>0, <1>2 DEF UserObs, NumbersOK
  <2>3. WindowOK'
    <3>1. window' = FALSE \/ window' = TRUE \/ window' = window BY <1>0, <1>2 DEF UserObs, WindowOK
    <3> QED BY <1>0, <1>2, <3>1, WindowStep DEF UserObs
  <2>4. NumbersOK' /\ GlobalOK' /\ HostOK' BY <1>0, <1>1, <2>1, <2>2 DEF NumbersOK, GlobalOK, HostOK
  <2>5. SessionTypeOK' BY <2>3, <2>4 DEF SessionTypeOK, NumbersOK, GlobalOK, WindowOK, HostOK, HostState
  <2> QED BY <1>1, <2>1, <2>5 DEF SInv, BridgesInv, OneBridge, ObsInv, GraceInv, AloneInv, ChordsInv, ChordIsKept
<1>3. CASE PlayniteEnds
  <2>1. /\ UNCHANGED <<obs, window, bridges, signalFile, chord>> /\ stage' = "idle" /\ crashes' \in 1..MaxCrash
        /\ SwitchAutomation' = [own |-> FALSE, pid |-> None]
    BY <1>0, <1>3 DEF PlayniteEnds, NumbersOK
  <2>2. NumbersOK' /\ GlobalOK' /\ WindowOK' /\ HostOK'
    BY <1>0, <1>1, <2>1 DEF NumbersOK, GlobalOK, WindowOK, HostOK
  <2>3. SessionTypeOK' BY <2>2 DEF SessionTypeOK, NumbersOK, GlobalOK, WindowOK, HostOK, HostState
  <2> QED BY <1>1, <2>1, <2>3 DEF SInv, BridgesInv, OneBridge, ObsInv, GraceInv, AloneInv, ChordsInv, ChordIsKept
<1>4. ASSUME NEW n \in Session, ExitChord(n) \/ BridgeEnds(n) PROVE SInv'
  <2>1. /\ UNCHANGED <<stage, SwitchAutomation, obs, window, crashes>> /\ n \in bridges /\ bridges' = bridges \ {n}
        /\ (signalFile' = signalFile /\ chord' = chord) \/ (signalFile' = n /\ chord' = chord \cup {session})
    BY <1>4 DEF ExitChord, BridgeEnds
  <2>2. chord' \subseteq Session /\ \A m \in chord' : m <= session
    <3>1. session \in Session BY <1>0, <2>1 DEF SInv, BridgesInv, NumbersOK
    <3>2. chord \subseteq Session /\ \A m \in chord : m <= session BY <1>0 DEF NumbersOK, SInv, ChordsInv
    <3>3. chord' = chord \/ chord' = chord \cup {session} BY <2>1
    <3>4. \A m \in chord' : m \in chord \/ m = session BY <3>3
    <3>5. ASSUME NEW m \in chord' PROVE m \in Session /\ m <= session
      <4>1. CASE m \in chord BY <3>2, <4>1
      <4>2. CASE m = session BY <3>1, <4>2
      <4> QED BY <3>4, <4>1, <4>2
    <3> QED BY <3>5
  <2>3. NumbersOK' /\ GlobalOK' /\ WindowOK' /\ HostOK'
    BY <1>0, <1>1, <2>1, <2>2 DEF NumbersOK, GlobalOK, WindowOK, HostOK
  <2>4. SessionTypeOK' BY <2>3 DEF SessionTypeOK, NumbersOK, GlobalOK, WindowOK, HostOK, HostState
  <2>5. BridgesInv' /\ ObsInv' BY <1>1, <2>1 DEF SInv, BridgesInv, OneBridge, ObsInv
  <2>6. GraceInv' /\ AloneInv' BY <1>1, <2>1 DEF SInv, GraceInv, AloneInv
  <2>7. ChordsInv'
    <3>1. crashes = 0 => stage = "playing" BY <2>1 DEF SInv, BridgesInv
    <3> QED BY <1>0, <1>1, <2>1, <2>2, <3>1 DEF SInv, ChordsInv, ChordIsKept, NumbersOK
  <2> QED BY <2>4, <2>5, <2>6, <2>7 DEF SInv
<1> QED BY <1>2, <1>3, <1>4

\* Every step preserves the invariant.
LEMMA SessionStep == ASSUME SInv, [SessionNext]_sessionVars PROVE SInv'
<1>1. CASE Scripts BY <1>1, ScriptTypes, ScriptStep DEF SInv
<1>2. CASE \E n \in Session : Host(n) BY <1>2, HostStep
<1>3. CASE UserObs \/ PlayniteEnds \/ \E n \in Session : ExitChord(n) \/ BridgeEnds(n) BY <1>3, OutsideStep
<1>4. CASE UNCHANGED sessionVars
  BY <1>4
  DEF sessionVars, SInv, SessionTypeOK, BridgesInv, OneBridge, ObsInv, GraceInv, AloneInv, ChordsInv, ChordIsKept
<1> QED BY <1>1, <1>2, <1>3, <1>4 DEF SessionNext

\* The inductive invariant holds in every reachable state.
THEOREM SessionInvariance == SessionSpec => []SInv
  BY SessionStart, SessionStep, PTL DEF SessionSpec

\* Two bridges never run at once, however often Playnite ends without its Exit script.
THEOREM SessionHasOneBridge == SessionSpec => []OneBridge
<1>1. SInv => OneBridge BY DEF SInv, BridgesInv
<1> QED BY <1>1, SessionInvariance, PTL

\* A host gives a session up for a missing window only after the whole grace period.
THEOREM SessionWaitsTheGrace == SessionSpec => []GraceHolds
<1>1. SInv => GraceHolds BY DEF SInv, GraceInv, GraceHolds
<1> QED BY <1>1, SessionInvariance, PTL

\* Post removes no signal of the session it belongs to: the chord is kept until a host takes it.
THEOREM SessionKeepsChord == SessionSpec => []ChordIsKept
<1>1. SInv => ChordIsKept BY DEF SInv, ChordsInv
<1> QED BY <1>1, SessionInvariance, PTL

\* Exit closes no OBS but the one that the Pre of its own session started.
THEOREM SessionClosesOwnObs == SessionSpec => OnlyOwnObsIsClosed
<1>1. SInv /\ [SessionNext]_sessionVars => [(ExitObs /\ obs' # obs) => obs = session]_sessionVars
  <2>1. ASSUME SInv, ExitObs, obs' # obs PROVE obs = session BY <2>1 DEF SInv, ObsInv, ExitObs, Closing
  <2> QED BY <2>1
<1> QED BY <1>1, SessionInvariance, PTL DEF SessionSpec, OnlyOwnObsIsClosed

\* One bridge, a chord that is kept and a whole grace period, for any number of sessions.
THEOREM SessionSoundness == SessionSpec => []SessionIsSound
<1>1. SInv => SessionIsSound
  BY DEF SInv, BridgesInv, ChordsInv, GraceInv, GraceHolds, SessionIsSound
<1> QED BY <1>1, SessionInvariance, PTL

-----------------------------------------------------------------------------
(***************************************************************************)
(* The .env file, for any keys, values and lines.                          *)
(***************************************************************************)

\* A set of numbers that is not empty has a least one.
LEMMA LeastNumber ==
  ASSUME NEW S \in SUBSET Nat, S # {}
  PROVE  \E m \in S : \A k \in S : m <= k
<1>. DEFINE Less == {p \in Nat \X Nat : p[1] < p[2]}
<1>1. IsWellFoundedOn(Less, Nat)
  BY NatLessThanWellFounded DEF OpToRel
<1>2. PICK m \in S : \A k \in S : <<k, m>> \notin Less
  <2>. HIDE DEF Less
  <2>. QED
    BY <1>1, WFMin
<1>3. ASSUME NEW k \in S PROVE m <= k
  <2>1. k \in Nat /\ m \in Nat /\ <<k, m>> \notin Less
    BY <1>2
  <2>. QED
    BY <2>1
<1>. QED
  BY <1>3

First(S) == CHOOSE i \in S : \A j \in S : i <= j

LEMMA FirstIsLeast ==
  ASSUME NEW S \in SUBSET Nat, S # {}
  PROVE  First(S) \in S /\ \A j \in S : First(S) <= j
BY LeastNumber DEF First

LEMMA LineFacts ==
  /\ \A k, v : Sets(Set(k, v)) /\ Set(k, v)[2] = k /\ Set(k, v)[3] = v
  /\ \A k \in Key, v \in Value : Set(k, v) \in Line
  /\ \A l \in Line : Sets(l) => l[2] \in Key /\ l[3] \in Value
<1>1. \A k, v : Sets(Set(k, v)) /\ Set(k, v)[2] = k /\ Set(k, v)[3] = v
  BY DEF Sets, Set, Comment
<1>2. \A k \in Key, v \in Value : Set(k, v) \in Line
  BY DEF Line
<1>3. ASSUME NEW l \in Line, Sets(l) PROVE l[2] \in Key /\ l[3] \in Value
  <2>1. PICK k \in Key, v \in Value : l = Set(k, v)
    BY <1>3 DEF Line, Sets
  <2>. QED
    BY <1>1, <2>1
<1>. QED
  BY <1>1, <1>2, <1>3

\* Every key is in the order, and nothing else.
LEMMA OrderHasAll ==
  ASSUME NEW K \in SUBSET Key
  PROVE  /\ Cardinality(K) \in Nat /\ InOrder(K) \in [1..Cardinality(K) -> K]
         /\ \A k \in K : \E i \in 1..Cardinality(K) : InOrder(K)[i] = k
<1>1. IsFiniteSet(K)
  BY EnvAssumption, FS_Subset
<1>2. Cardinality(K) \in Nat /\ ExistsBijection(1..Cardinality(K), K)
  BY <1>1, FS_CardinalityType
<1>3. \E s \in [1..Cardinality(K) -> K] : \A k \in K : \E i \in 1..Cardinality(K) : s[i] = k
  BY <1>2 DEF ExistsBijection, Bijection, Surjection
<1>. QED
  BY <1>2, <1>3 DEF InOrder

\* What the bot loads from a file alone: the first line that sets the key.
LEMMA LoadedAlone ==
  ASSUME NEW lines, NEW k \in Key
  PROVE  load_env_file(lines, NoneSet)[k] = IF Setters(lines, k) = {} THEN Unset ELSE lines[First(Setters(lines, k))][3]
BY DEF load_env_file, NoneSet, First

LEMMA SettersAreNumbers ==
  ASSUME NEW lines \in Seq(Line), NEW k
  PROVE  Setters(lines, k) \in SUBSET Nat
BY DEF Setters

\* The lines of the file after an update, one by one.
UpdatedTo(lines, K, updates, new) ==
  /\ Len(new) >= Len(lines)
  /\ \A i \in 1..Len(lines) : new[i] = Replaced(lines, updates)[i]
  /\ \A i \in DOMAIN new : i > Len(lines) => \E k \in K : Setters(lines, k) = {} /\ new[i] = Set(k, updates[k])
  /\ \A k \in K : Setters(lines, k) = {} => \E i \in DOMAIN new : new[i] = Set(k, updates[k])

LEMMA Updated ==
  ASSUME NEW lines \in Seq(Line), NEW K \in SUBSET Key, NEW updates \in [K -> Value]
  PROVE  /\ update_env_file(lines, updates) \in Seq(Line)
         /\ UpdatedTo(lines, K, updates, update_env_file(lines, updates))
<1>. DEFINE lost == {k \in DOMAIN updates : Setters(lines, k) = {}}
            missing == InOrder(lost)
            more == [i \in DOMAIN missing |-> Set(missing[i], updates[missing[i]])]
            old == Replaced(lines, updates)
            new == old \o more
<1>1. /\ Cardinality(lost) \in Nat /\ missing \in [1..Cardinality(lost) -> lost]
      /\ \A k \in lost : \E i \in 1..Cardinality(lost) : missing[i] = k
  <2>1. lost \in SUBSET Key
    OBVIOUS
  <2>. HIDE DEF lost
  <2>. QED
    BY <2>1, OrderHasAll
<1>2. more \in Seq(Line) /\ Len(more) = Cardinality(lost)
      /\ \A i \in 1..Cardinality(lost) : more[i] = Set(missing[i], updates[missing[i]])
  <2>1. \A i \in 1..Cardinality(lost) : missing[i] \in Key /\ updates[missing[i]] \in Value
    BY <1>1
  <2>2. more \in [1..Cardinality(lost) -> Line]
    BY <1>1, <2>1, LineFacts
  <2>. HIDE DEF lost, missing
  <2>3. \A i \in 1..Cardinality(lost) : more[i] = Set(missing[i], updates[missing[i]])
    BY <1>1
  <2>4. Cardinality(lost) \in Nat
    BY <1>1
  <2>. HIDE DEF more
  <2>5. more \in Seq(Line) /\ Len(more) = Cardinality(lost)
    BY <2>2, <2>4
  <2>. QED
    BY <2>3, <2>5
<1>3. old \in Seq(Line) /\ Len(old) = Len(lines)
  <2>1. ASSUME NEW i \in 1..Len(lines) PROVE old[i] \in Line
    <3>1. lines[i] \in Line
      OBVIOUS
    <3>2. CASE Sets(lines[i]) /\ lines[i][2] \in DOMAIN updates
      BY <3>1, <3>2, LineFacts DEF Replaced
    <3>. QED
      BY <3>1, <3>2 DEF Replaced
  <2>2. old \in [1..Len(lines) -> Line]
    <3>1. DOMAIN lines = 1..Len(lines)
      OBVIOUS
    <3>2. old = [i \in 1..Len(lines) |-> old[i]]
      BY <3>1 DEF Replaced
    <3>. HIDE DEF old
    <3>. QED
      BY <2>1, <3>2
  <2>. HIDE DEF old
  <2>. QED
    BY <2>2
<1>4. update_env_file(lines, updates) = new
  BY DEF update_env_file
<1>. HIDE DEF old, more
<1>5. /\ new \in Seq(Line) /\ Len(new) = Len(old) + Len(more)
      /\ \A i \in 1..Len(old) : new[i] = old[i]
      /\ \A i \in 1..Len(more) : new[Len(old) + i] = more[i]
  <2>1. old \in Seq(Line) /\ more \in Seq(Line)
    BY <1>2, <1>3
  <2>. QED
    BY <2>1
<1>. HIDE DEF new, missing, lost
<1>len. /\ Len(lines) \in Nat /\ Len(old) = Len(lines) /\ Len(more) = Cardinality(lost) /\ Cardinality(lost) \in Nat
      /\ DOMAIN new = 1..(Len(lines) + Cardinality(lost))
  <2>1. Len(lines) \in Nat /\ Len(old) = Len(lines) /\ Len(more) = Cardinality(lost)
    BY <1>2, <1>3
  <2>2. Cardinality(lost) \in Nat
    BY <1>1
  <2>3. DOMAIN new = 1..Len(new)
    BY <1>5
  <2>. QED
    BY <1>5, <2>1, <2>2, <2>3
<1>6. ASSUME NEW i \in DOMAIN new, i > Len(lines)
      PROVE  \E k \in K : Setters(lines, k) = {} /\ new[i] = Set(k, updates[k])
  <2>. DEFINE j == i - Len(lines)
  <2>1. j \in 1..Cardinality(lost) /\ Len(old) + j = i
    BY <1>6, <1>len
  <2>. HIDE DEF j
  <2>2. new[i] = more[j]
    BY <1>5, <1>len, <2>1
  <2>3. missing[j] \in lost
    BY <1>1, <2>1
  <2>. QED
    BY <1>2, <2>1, <2>2, <2>3 DEF lost
<1>7. ASSUME NEW k \in K, Setters(lines, k) = {} PROVE \E i \in DOMAIN new : new[i] = Set(k, updates[k])
  <2>1. k \in lost
    BY <1>7 DEF lost
  <2>2. PICK j \in 1..Cardinality(lost) : missing[j] = k
    BY <1>1, <2>1
  <2>3. Len(old) + j \in DOMAIN new /\ new[Len(old) + j] = more[j]
    <3>1. j \in 1..Len(more) /\ Len(old) + j \in DOMAIN new
      BY <1>len, <2>2
    <3>. QED
      BY <1>5, <3>1
  <2>. QED
    BY <1>2, <2>2, <2>3
<1>. QED
  <2>0. Len(lines) \in Nat /\ Len(more) \in Nat /\ Len(new) = Len(lines) + Len(more)
    BY <1>1, <1>2, <1>3, <1>5
  <2>1. Len(new) >= Len(lines) /\ \A i \in 1..Len(lines) : new[i] = old[i]
    <3>1. Len(new) >= Len(lines)
      BY <2>0
    <3>. QED
      BY <1>3, <1>5, <3>1
  <2>2. UpdatedTo(lines, K, updates, new)
    BY <1>6, <1>7, <2>1 DEF UpdatedTo, old
  <2>. QED
    BY <1>4, <1>5, <2>2

\* The lines that set a key after an update, and what they set it to.
SetAfter(lines, K, updates, new, k) ==
  /\ k \in K => Setters(new, k) # {} /\ \A i \in Setters(new, k) : new[i][3] = updates[k]
  /\ k \notin K => Setters(new, k) = Setters(lines, k) /\ \A i \in Setters(lines, k) : new[i] = lines[i]

LEMMA UpdatedSetters ==
  ASSUME NEW lines \in Seq(Line), NEW K \in SUBSET Key, NEW updates \in [K -> Value], NEW new \in Seq(Line),
         UpdatedTo(lines, K, updates, new), NEW k \in Key
  PROVE  SetAfter(lines, K, updates, new, k)
<1>0. DOMAIN lines = 1..Len(lines) /\ DOMAIN new = 1..Len(new) /\ Len(lines) \in Nat /\ Len(new) \in Nat
  OBVIOUS
<1>1. ASSUME NEW i \in 1..Len(lines)
      PROVE  /\ i \in DOMAIN new /\ (i \in Setters(new, k) <=> i \in Setters(lines, k))
             /\ k \notin K /\ i \in Setters(lines, k) => new[i] = lines[i]
             /\ k \in K /\ i \in Setters(lines, k) => new[i][3] = updates[k]
  <2>1. i \in DOMAIN new /\ new[i] = Replaced(lines, updates)[i]
    BY <1>0 DEF UpdatedTo
  <2>2. CASE Sets(lines[i]) /\ lines[i][2] \in DOMAIN updates
    <3>1. new[i] = Set(lines[i][2], updates[lines[i][2]])
      BY <1>0, <2>1, <2>2 DEF Replaced
    <3>2. Sets(new[i]) /\ new[i][2] = lines[i][2] /\ new[i][3] = updates[lines[i][2]]
      BY <3>1, LineFacts
    <3>. QED
      BY <1>0, <2>1, <2>2, <3>2 DEF Setters
  <2>3. CASE ~(Sets(lines[i]) /\ lines[i][2] \in DOMAIN updates)
    <3>1. new[i] = lines[i]
      BY <1>0, <2>1, <2>3 DEF Replaced
    <3>. QED
      BY <1>0, <2>1, <2>3, <3>1 DEF Setters
  <2>. QED
    BY <2>2, <2>3
<1>2. ASSUME NEW i \in DOMAIN new, i > Len(lines), i \in Setters(new, k)
      PROVE  k \in K /\ new[i][3] = updates[k]
  <2>1. PICK e \in K : new[i] = Set(e, updates[e])
    BY <1>2 DEF UpdatedTo
  <2>2. new[i][2] = k
    BY <1>2 DEF Setters
  <2>. QED
    BY <2>1, <2>2, LineFacts
<1>3. \A i \in DOMAIN new : i \in 1..Len(lines) \/ i > Len(lines)
  BY <1>0
<1>4. Setters(new, k) \subseteq DOMAIN new /\ Setters(lines, k) \subseteq 1..Len(lines)
  BY <1>0 DEF Setters
<1>5. ASSUME k \in K PROVE Setters(new, k) # {}
  <2>1. CASE Setters(lines, k) = {}
    <3>1. PICK i \in DOMAIN new : new[i] = Set(k, updates[k])
      BY <1>5, <2>1 DEF UpdatedTo
    <3>2. Sets(new[i]) /\ new[i][2] = k
      BY <3>1, LineFacts
    <3>. QED
      BY <3>2 DEF Setters
  <2>2. CASE Setters(lines, k) # {}
    BY <1>1, <1>4, <2>2
  <2>. QED
    BY <2>1, <2>2
<1>. QED
  BY <1>1, <1>2, <1>3, <1>4, <1>5 DEF SetAfter

\* What the bot loads after an update: what it says, and what was there before.
LoadsUpdate(lines, K, updates) ==
  load_env_file(update_env_file(lines, updates), NoneSet)
    = [k \in Key |-> IF k \in K THEN updates[k] ELSE load_env_file(lines, NoneSet)[k]]

LEMMA UpdateIsLoaded ==
  ASSUME NEW lines \in Seq(Line), NEW K \in SUBSET Key, NEW updates \in [K -> Value]
  PROVE  LoadsUpdate(lines, K, updates)
<1>. DEFINE new == update_env_file(lines, updates)
<1>1. new \in Seq(Line) /\ UpdatedTo(lines, K, updates, new)
  BY Updated
<1>. HIDE DEF new
<1>2. ASSUME NEW k \in Key
      PROVE  load_env_file(new, NoneSet)[k] = IF k \in K THEN updates[k] ELSE load_env_file(lines, NoneSet)[k]
  <2>0. SetAfter(lines, K, updates, new, k)
    BY <1>1, UpdatedSetters
  <2>1. Setters(new, k) \in SUBSET Nat /\ Setters(lines, k) \in SUBSET Nat
    BY <1>1, SettersAreNumbers
  <2>2. CASE k \in K
    <3>1. Setters(new, k) # {} /\ \A i \in Setters(new, k) : new[i][3] = updates[k]
      BY <2>0, <2>2 DEF SetAfter
    <3>2. First(Setters(new, k)) \in Setters(new, k)
      BY <2>1, <3>1, FirstIsLeast
    <3>. QED
      BY <2>2, <3>1, <3>2, LoadedAlone
  <2>3. CASE k \notin K
    <3>1. Setters(new, k) = Setters(lines, k) /\ \A i \in Setters(lines, k) : new[i] = lines[i]
      BY <2>0, <2>3 DEF SetAfter
    <3>2. Setters(lines, k) # {} => First(Setters(lines, k)) \in Setters(lines, k)
      BY <2>1, FirstIsLeast
    <3>. QED
      BY <2>3, <3>1, <3>2, LoadedAlone
  <2>. QED
    BY <2>2, <2>3
<1>3. load_env_file(new, NoneSet) = [k \in Key |-> load_env_file(new, NoneSet)[k]]
  BY DEF load_env_file
<1>. QED
  BY <1>2, <1>3 DEF LoadsUpdate, new

\* The file is one of lines, and what the bot was started with has kept what it inherited.
EnvInv == env \in Seq(Line) /\ EnvironmentWins

LEMMA EnvStep == ASSUME EnvInv, [EnvNext]_envVars PROVE EnvInv'
<1>0. env \in Seq(Line)
  BY DEF EnvInv
<1>1. CASE UNCHANGED envVars
  BY <1>1 DEF envVars, EnvInv, EnvironmentWins
<1>2. CASE AddLine
  BY <1>0, <1>2 DEF AddLine, EnvInv, EnvironmentWins
<1>3. CASE RemoveLine
  BY <1>0, <1>3 DEF RemoveLine, EnvInv, EnvironmentWins
<1>4. CASE StartBot
  BY <1>0, <1>4 DEF StartBot, load_env_file, EnvInv, EnvironmentWins
<1>5. ASSUME NEW K \in (SUBSET Key) \ {{}}, NEW updates \in [K -> Value], Sync(updates) PROVE EnvInv'
  <2>1. update_env_file(env, updates) \in Seq(Line)
    BY <1>0, Updated
  <2>. QED
    BY <1>5, <2>1 DEF Sync, EnvInv, EnvironmentWins
<1>. QED
  BY <1>1, <1>2, <1>3, <1>4, <1>5 DEF EnvNext

\* What the GUI writes is what the bot loads: whatever lines the user has in the file and
\* however often a key is there, a sync changes what it says and nothing else, and the
\* environment is not overridden.
THEOREM EnvIsAlwaysLoaded == EnvSpec => EnvIsLoaded
<1>1. EnvInit => EnvInv
  BY DEF EnvInit, EnvInv, EnvironmentWins
<1>2. ASSUME EnvInv
      PROVE  [env' # env => \A K \in (SUBSET Key) \ {{}} : \A updates \in [K -> Value] :
                Sync(updates) =>
                  load_env_file(env', NoneSet)
                    = [k \in Key |-> IF k \in K THEN updates[k] ELSE load_env_file(env, NoneSet)[k]]]_envVars
  <2>. SUFFICES ASSUME NEW K \in (SUBSET Key) \ {{}}, NEW updates \in [K -> Value], Sync(updates)
                PROVE  load_env_file(env', NoneSet)
                         = [k \in Key |-> IF k \in K THEN updates[k] ELSE load_env_file(env, NoneSet)[k]]
    OBVIOUS
  <2>1. env \in Seq(Line) /\ env' = update_env_file(env, updates)
    BY <1>2 DEF EnvInv, Sync
  <2>2. K \in SUBSET Key
    OBVIOUS
  <2>3. LoadsUpdate(env, K, updates)
    BY <2>1, <2>2, UpdateIsLoaded
  <2>. QED
    BY <2>1, <2>3 DEF LoadsUpdate
<1>3. EnvInv => EnvironmentWins
  BY DEF EnvInv
<1>. QED
  BY <1>1, <1>2, <1>3, EnvStep, PTL DEF EnvSpec, EnvIsLoaded, SyncIsLoaded

-----------------------------------------------------------------------------
(***************************************************************************)
(* The socket server, for any finite set of peers.                         *)
(***************************************************************************)

Counted == {p \in Peer : phase[p] \in {"accepted", "handling"}}

\* Who can tell what of the temporary file: an empty one is open in some thread, and one
\* that exists has a thread that is going to rename it.
FileInv ==
  /\ \A t \in Thread : data[t] # Empty
  /\ status # Empty
  /\ tmp = Empty => \E t \in Thread : job[t] = "open"
  /\ tmp # Missing => \E t \in Thread : job[t] \in {"open", "written"}

LEMMA CountedFinite == IsFiniteSet(Counted) /\ IsFiniteSet(Counted)'
<1>1. IsFiniteSet(Peer)
  BY SocketServerAssumption
<1>2. Counted \subseteq Peer /\ Counted' \subseteq Peer
  BY DEF Counted
<1>. QED
  BY <1>1, <1>2, FS_Subset

\* A peer more, a peer less.
LEMMA OneMore ==
  ASSUME NEW p \in Peer, p \notin Counted, Counted' = Counted \cup {p},
         active_peers = Cardinality(Counted), active_peers' = active_peers + 1
  PROVE  active_peers' = Cardinality(Counted)'
BY CountedFinite, FS_AddElement

LEMMA OneLess ==
  ASSUME NEW p \in Peer, p \in Counted, Counted' = Counted \ {p},
         active_peers = Cardinality(Counted), active_peers \in Nat,
         active_peers' = IF active_peers > 0 THEN active_peers - 1 ELSE 0
  PROVE  active_peers' = Cardinality(Counted)'
<1>1. Cardinality(Counted \ {p}) = Cardinality(Counted) - 1 /\ Cardinality(Counted) \in Nat
  BY CountedFinite, FS_RemoveElement, FS_CardinalityType
<1>2. Cardinality(Counted \ {p}) \in Nat
  BY CountedFinite, FS_CardinalityType, FS_RemoveElement
<1>. QED
  BY <1>1, <1>2

LEMMA InitCounted == ServerInit => PeersAreCounted
<1>. SUFFICES ASSUME ServerInit PROVE PeersAreCounted
  OBVIOUS
<1>1. {p \in Peer : phase[p] \in {"accepted", "handling"}} = {}
  BY DEF ServerInit
<1>. QED
  BY <1>1, FS_EmptySet DEF ServerInit, PeersAreCounted

LEMMA ServerInitInv == ServerInit => ServerTypeOK /\ FileInv
BY SocketServerAssumption
   DEF ServerInit, ServerTypeOK, FileInv, Thread, Content, Missing, Empty, Phase, WriteStage

\* The type invariant, one step per action.
LEMMA ServerTypeStep == ASSUME ServerTypeOK, [ServerNext]_serverVars PROVE ServerTypeOK'
<1>. USE SocketServerAssumption DEF ServerTypeOK
<1>0. "serve" \in Thread /\ Peer \subseteq Thread /\ {"idle", "due", "snapped", "open", "written"} = WriteStage
  BY DEF Thread, WriteStage
<1>1. CASE Bind
  BY <1>0, <1>1 DEF Bind, Due, counters, files
<1>2. CASE Fail
  BY <1>0, <1>2 DEF Fail, Due, files
<1>3. ASSUME NEW p \in Peer, Accept(p) PROVE ServerTypeOK'
  BY <1>0, <1>3 DEF Accept, Due, files, Phase
<1>4. ASSUME NEW p \in Peer, StartHandler(p) PROVE ServerTypeOK'
  BY <1>0, <1>4 DEF StartHandler, counters, files, Phase
<1>5. ASSUME NEW p \in Peer, Connect(p) \/ HangUp(p) PROVE ServerTypeOK'
  BY <1>0, <1>5 DEF Connect, HangUp, counters, files, Phase
<1>6. ASSUME NEW p \in Peer, HandleLine(p) PROVE ServerTypeOK'
  BY <1>0, <1>6 DEF HandleLine, Due, files
<1>7. ASSUME NEW p \in Peer, BadLine(p) PROVE ServerTypeOK'
  BY <1>0, <1>7 DEF BadLine, Due, files, Phase
<1>8. ASSUME NEW p \in Peer, Leave(p) PROVE ServerTypeOK'
  BY <1>0, <1>8 DEF Leave, Due, files, Phase
<1>9. ASSUME NEW t \in Thread, Snap(t) \/ Open(t) \/ Put(t) \/ Replace(t) PROVE ServerTypeOK'
  <2>1. {Current, Empty, Mixed, Missing} \subseteq Content
    BY DEF Current, Empty, Mixed, Missing, Content
  <2>. QED
    BY <1>0, <1>9, <2>1 DEF Snap, Open, Put, Replace, Goes, counters
<1>10. CASE UNCHANGED serverVars
  BY <1>10 DEF serverVars
<1>. QED
  BY <1>1, <1>2, <1>3, <1>4, <1>5, <1>6, <1>7, <1>8, <1>9, <1>10 DEF ServerNext

\* The count follows the threads.
LEMMA CountedStep ==
  ASSUME ServerTypeOK, PeersAreCounted, [ServerNext]_serverVars PROVE PeersAreCounted'
<1>. USE DEF ServerTypeOK
<1>0. active_peers = Cardinality(Counted) /\ (PeersAreCounted' <=> active_peers' = Cardinality(Counted)')
  BY DEF PeersAreCounted, Counted
<1>1. ASSUME phase' = phase, active_peers' = active_peers PROVE PeersAreCounted'
  BY <1>1 DEF PeersAreCounted
<1>2. CASE Bind \/ Fail
  BY <1>1, <1>2 DEF Bind, Fail, counters
<1>3. ASSUME NEW p \in Peer, Accept(p) PROVE PeersAreCounted'
  <2>1. p \notin Counted /\ Counted' = Counted \cup {p}
    BY <1>3 DEF Accept, Counted
  <2>. QED
    BY <1>0, <1>3, <2>1, OneMore DEF Accept
<1>4. ASSUME NEW p \in Peer, StartHandler(p) \/ Connect(p) PROVE PeersAreCounted'
  <2>1. Counted' = Counted /\ active_peers' = active_peers
    BY <1>4 DEF StartHandler, Connect, Counted, counters
  <2>. QED
    BY <1>0, <2>1
<1>5. ASSUME NEW p \in Peer, HangUp(p) \/ HandleLine(p) PROVE PeersAreCounted'
  BY <1>1, <1>5 DEF HangUp, HandleLine, counters
<1>6. ASSUME NEW p \in Peer, BadLine(p) \/ Leave(p) PROVE PeersAreCounted'
  <2>1. p \in Counted /\ Counted' = Counted \ {p}
    BY <1>6 DEF BadLine, Leave, Counted
  <2>2. active_peers' = IF active_peers > 0 THEN active_peers - 1 ELSE 0
    BY <1>6 DEF BadLine, Leave
  <2>. QED
    BY <1>0, <2>1, <2>2, OneLess
<1>7. ASSUME NEW t \in Thread, Snap(t) \/ Open(t) \/ Put(t) \/ Replace(t) PROVE PeersAreCounted'
  BY <1>1, <1>7 DEF Snap, Open, Put, Replace, Goes, counters
<1>8. CASE UNCHANGED serverVars
  BY <1>1, <1>8 DEF serverVars
<1>. QED
  BY <1>2, <1>3, <1>4, <1>5, <1>6, <1>7, <1>8 DEF ServerNext

\* The files: only _write_status touches them, and nothing else ends a stage of it.
LEMMA FileStep == ASSUME ServerTypeOK, FileInv, [ServerNext]_serverVars PROVE FileInv'
<1>. USE DEF ServerTypeOK
<1>0. Peer \subseteq Thread /\ "serve" \in Thread
  BY DEF Thread
<1>1. ASSUME UNCHANGED files,
             \A t \in Thread : job[t] \in {"open", "written"} => job'[t] = job[t]
      PROVE  FileInv'
  BY <1>1 DEF FileInv, files
<1>2. ASSUME NEW t \in Thread, Due(t) PROVE \A u \in Thread : job[u] \in {"open", "written"} => job'[u] = job[u]
  BY <1>2 DEF Due
<1>3. CASE Bind \/ Fail
  BY <1>0, <1>1, <1>2, <1>3 DEF Bind, Fail
<1>4. ASSUME NEW p \in Peer, Accept(p) \/ HandleLine(p) \/ BadLine(p) \/ Leave(p) PROVE FileInv'
  BY <1>0, <1>1, <1>2, <1>4 DEF Accept, HandleLine, BadLine, Leave
<1>5. ASSUME NEW p \in Peer, StartHandler(p) \/ Connect(p) \/ HangUp(p) PROVE FileInv'
  BY <1>1, <1>5 DEF StartHandler, Connect, HangUp
<1>6. ASSUME NEW t \in Thread, Snap(t) PROVE FileInv'
  <2>1. Current # Empty
    BY DEF Current, Empty
  <2>. QED
    BY <1>6, <2>1 DEF Snap, Goes, FileInv
<1>7. ASSUME NEW t \in Thread, Open(t) PROVE FileInv'
  BY <1>7 DEF Open, Goes, FileInv
<1>8. ASSUME NEW t \in Thread, Put(t) PROVE FileInv'
  <2>1. Mixed # Empty /\ data[t] # Empty
    BY DEF FileInv, Mixed, Empty
  <2>2. tmp' # Empty /\ job'[t] = "written" /\ UNCHANGED <<data, status>>
    BY <1>8, <2>1 DEF Put, Goes
  <2>. QED
    BY <2>2 DEF FileInv
<1>9. ASSUME NEW t \in Thread, Replace(t) PROVE FileInv'
  <2>1. Missing # Empty
    BY DEF Missing, Empty
  <2>2. \A u \in Thread : job[u] = "open" => job'[u] = "open"
    BY <1>9 DEF Replace, Goes
  <2>3. \A u \in Thread : data'[u] # Empty
    BY <1>9, <2>1 DEF Replace, FileInv
  <2>4. CASE MayRename
    BY <1>9, <2>1, <2>3, <2>4 DEF Replace, FileInv, MayRename
  <2>5. CASE ~MayRename
    BY <1>9, <2>2, <2>3, <2>5 DEF Replace, FileInv, MayRename
  <2>. QED
    BY <2>4, <2>5
<1>10. CASE UNCHANGED serverVars
  BY <1>1, <1>10 DEF serverVars, files
<1>. QED
  BY <1>3, <1>4, <1>5, <1>6, <1>7, <1>8, <1>9, <1>10 DEF ServerNext

ServerInv == ServerTypeOK /\ PeersAreCounted /\ FileInv

\* ServerInv is inductive.
THEOREM ServerInvariance == ServerSpec => []ServerInv
<1>1. ServerInit => ServerInv
  BY ServerInitInv, InitCounted DEF ServerInv
<1>2. ServerInv /\ [ServerNext]_serverVars => ServerInv'
  BY ServerTypeStep, CountedStep, FileStep DEF ServerInv
<1>. QED
  BY <1>1, <1>2, PTL DEF ServerSpec

\* active_peers is the number of the threads that serve a peer, for any set of peers and
\* however these threads end.
THEOREM ServerCountsPeers == ServerSpec => []PeersAreCounted
BY ServerInvariance, PTL DEF ServerInv

\* The status file is never seen truncated, whoever writes it at the same time.
THEOREM ServerStatusWhole == ServerSpec => []StatusIsNeverEmpty
<1>1. ServerInv => StatusIsNeverEmpty
  BY DEF ServerInv, FileInv, StatusIsNeverEmpty
<1>. QED
  BY <1>1, ServerInvariance, PTL

\* No temporary file is left behind when all the threads are done.
THEOREM ServerCleansUp == ServerSpec => []NoTmpLeft
<1>1. ServerInv => NoTmpLeft
  BY DEF ServerInv, FileInv, NoTmpLeft, Quiet
<1>. QED
  BY <1>1, ServerInvariance, PTL

\* The status is sound for any set of peers: counted, whole and without a temporary file.
THEOREM ServerSoundness == ServerSpec => []ServerIsSound
<1>1. ServerInv => ServerIsSound
  BY DEF ServerInv, FileInv, ServerIsSound, StatusIsNeverEmpty, NoTmpLeft, Quiet
<1>. QED
  BY <1>1, ServerInvariance, PTL
=============================================================================
