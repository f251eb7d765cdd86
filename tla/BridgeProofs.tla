---------------------------- MODULE BridgeProofs ----------------------------
(***************************************************************************)
(* Proofs about what starts the bridge, the two launchers (SwitchLauncher, *)
(* SwitchWrapper), the GUI (GuiProcesses) and the settings it passes on    *)
(* (Settings), and about its main loop (Bridge).                           *)
(***************************************************************************)
EXTENDS SwitchLauncher, SwitchWrapper, GuiProcesses, Settings, Bridge, FiniteSetTheorems, TLAPS

-----------------------------------------------------------------------------
(***************************************************************************)
(* The launcher cleans up and leaves the user's OBS alone, with and        *)
(* without --close-existing-obs and for every timeout.                     *)
(***************************************************************************)

\* An OBS of the launcher's own is one that start_obs returned, and the finally clause has
\* stopped the bridge before it looks at OBS.
LInv ==
  /\ lpc \in {"obs", "connect", "bridge", "waiting", "monitoring", "stopBridge", "stopObs", "closing", "over"}
  /\ lbridge \in {"none", "running", "ended"} /\ lobs \in {"none", "user", "ours"}
  /\ obs_proc \in {"none", "ours"}
  /\ lobs = "ours" => obs_proc = "ours"
  /\ lpc \in {"obs", "connect", "bridge"} => lbridge = "none"
  /\ lpc \in {"stopObs", "closing", "over"} => lbridge # "running"
  /\ lpc = "over" => lobs # "ours"

\* Initially and in every step the invariant holds.
LEMMA LauncherStep == (LauncherInit => LInv) /\ (LInv /\ [LauncherNext]_launcherVars => LInv')
<1>1. LauncherInit => LInv BY DEF LauncherInit, LInv
<1>2. ASSUME LInv, [LauncherNext]_launcherVars PROVE LInv'
  <2>1. CASE LauncherStartsObs \/ OpenProjector \/ LauncherStartsBridge
    BY <1>2, <2>1 DEF LInv, LauncherStartsObs, OpenProjector, LauncherStartsBridge
  <2>2. CASE LauncherWaits \/ LauncherMonitors BY <1>2, <2>2 DEF LInv, LauncherWaits, LauncherMonitors
  <2>3. CASE StopProcess BY <1>2, <2>3 DEF LInv, StopProcess
  <2>4. CASE StopObs \/ ObsEnds BY <1>2, <2>4 DEF LInv, StopObs, ObsEnds, MayStopObs
  <2>5. CASE LauncherUser \/ LauncherBridgeEnds BY <1>2, <2>5 DEF LInv, LauncherUser, LauncherBridgeEnds
  <2>6. CASE UNCHANGED launcherVars BY <1>2, <2>6 DEF LInv, launcherVars
  <2> QED BY <1>2, <2>1, <2>2, <2>3, <2>4, <2>5, <2>6 DEF LauncherNext, Main
<1> QED BY <1>1, <1>2

\* The polls to the deadline.
LeftInv == left \in 0..startup_timeout

\* The polls that are left go down to 0 and start again from the timeout.
LEMMA LeftStep == ASSUME LeftInv, [LauncherNext]_launcherVars PROVE LeftInv'
<1>1. left' = left \/ (left > 0 /\ left' = left - 1) \/ left' = startup_timeout
  BY DEF LauncherNext, Main, launcherVars, LauncherStartsObs, OpenProjector, LauncherStartsBridge, LauncherWaits,
         LauncherMonitors, StopProcess, StopObs, ObsEnds, LauncherUser, LauncherBridgeEnds
<1> QED BY <1>1, LauncherAssumption DEF LeftInv

\* A projector is a window of an OBS that runs.
WindowInv == lwindow \in BOOLEAN /\ (lwindow => lobs # "none")

\* Whoever closes an OBS closes its projector.
LEMMA WindowStep == ASSUME WindowInv, [LauncherNext]_launcherVars PROVE WindowInv'
<1>1. CASE LauncherStartsObs BY <1>1, Zenon DEF WindowInv, LauncherStartsObs
<1>2. CASE OpenProjector
  <2>1. UNCHANGED lobs /\ (lwindow' = lwindow \/ (lwindow' = TRUE /\ lobs # "none")) BY <1>2, Zenon DEF OpenProjector
  <2>2. CASE lwindow' = lwindow BY <2>1, <2>2, Zenon DEF WindowInv
  <2>3. CASE lwindow' = TRUE /\ lobs # "none" BY <2>1, <2>3, Zenon DEF WindowInv
  <2> QED BY <2>1, <2>2, <2>3, Zenon
<1>3. CASE ObsEnds BY <1>3, Zenon DEF WindowInv, ObsEnds
<1>4. CASE LauncherUser
  <2>1. CASE lobs = "none" /\ lobs' = "user" /\ lwindow' = lwindow BY <2>1, Zenon DEF WindowInv
  <2>2. CASE lwindow' = FALSE BY <2>2, Zenon DEF WindowInv
  <2>3. CASE lobs # "none" /\ lwindow' = ~lwindow /\ lobs' = lobs BY <2>3, Zenon DEF WindowInv
  <2> QED BY <1>4, <2>1, <2>2, <2>3, Zenon DEF LauncherUser
<1>5. CASE UNCHANGED <<lobs, lwindow>> BY <1>5, Zenon DEF WindowInv
<1> QED
  BY <1>1, <1>2, <1>3, <1>4, <1>5
  DEF LauncherNext, Main, launcherVars, LauncherStartsBridge, LauncherWaits, LauncherMonitors, StopProcess, StopObs,
      LauncherBridgeEnds

\* The variables of the launcher keep their types: no projector is shown without an OBS, and the
\* polls that are left to a deadline never exceed the timeout.
THEOREM LauncherTypeCorrectness == LauncherSpec => []LauncherTypeOK
<1>1. LauncherInit => WindowInv /\ LeftInv
  <2>1. LauncherInit => WindowInv BY Zenon DEF LauncherInit, WindowInv
  <2>2. LauncherInit => LeftInv BY LauncherAssumption DEF LauncherInit, LeftInv
  <2> QED BY <2>1, <2>2
<1>2. LInv /\ WindowInv /\ LeftInv => LauncherTypeOK
  BY Zenon DEF LInv, WindowInv, LeftInv, LauncherTypeOK
<1> QED BY <1>1, <1>2, LauncherStep, LeftStep, WindowStep, PTL DEF LauncherSpec

\* However the launcher ends, its bridge and the OBS that it started are gone.
THEOREM LauncherCleansUp == LauncherSpec => []CleansUp
<1>1. LInv => CleansUp BY DEF LInv, CleansUp
<1> QED BY <1>1, LauncherStep, PTL DEF LauncherSpec

\* No step of the launcher ends an OBS of the user, even one opened in place of its own.
THEOREM LauncherLeavesUserObs == LauncherSpec => LeavesUserObs
<1>1. [LauncherNext]_launcherVars => [(Main /\ lobs = "user") => lobs' = "user"]_launcherVars
  <2>1. ASSUME Main, lobs = "user" PROVE lobs' = "user"
    BY <2>1
    DEF Main, LauncherStartsObs, OpenProjector, LauncherStartsBridge, LauncherWaits, LauncherMonitors, StopProcess,
        StopObs, ObsEnds, MayStopObs
  <2> QED BY <2>1
<1> QED BY <1>1, PTL DEF LauncherSpec, LeavesUserObs

-----------------------------------------------------------------------------
(***************************************************************************)
(* The older launcher leaves nothing running, for any number of polls.     *)
(***************************************************************************)

\* The types and, beside what the script promises, that no bridge is started before its step and
\* that none is left once the script has stopped it.
WInv ==
  /\ WrapperTypeOK /\ WrapperCleansUp
  /\ wpc \in {"obs", "projector", "bridge"} => wbridge = "none"
  /\ wpc \in {"stopObs", "closing"} => wbridge # "running"

\* Initially and in every step the invariant holds.
LEMMA WrapperStep == (WrapperInit => WInv) /\ (WInv /\ [WrapperNext]_wrapperVars => WInv')
<1>1. WrapperInit => WInv BY WrapperAssumption DEF WrapperInit, WInv, WrapperTypeOK, WrapperCleansUp
<1>2. ASSUME WInv, [WrapperNext]_wrapperVars PROVE WInv'
  <2>1. CASE WrapperStartsObs \/ StartProjector \/ WrapperStartsBridge
    BY <1>2, <2>1
    DEF WInv, WrapperTypeOK, WrapperCleansUp, WrapperStartsObs, StartProjector, WrapperStartsBridge
  <2>2. CASE WrapperWaits
    <3>1. timeout' \in 0..Timeout
      BY <1>2, <2>2, WrapperAssumption DEF WInv, WrapperTypeOK, WrapperWaits, GivesUp
    <3> QED BY <1>2, <2>2, <3>1 DEF WInv, WrapperTypeOK, WrapperCleansUp, WrapperWaits
  <2>3. CASE StopOnTimeout \/ WrapperMonitors \/ StopBridge
    BY <1>2, <2>3 DEF WInv, WrapperTypeOK, WrapperCleansUp, StopOnTimeout, WrapperMonitors, StopBridge
  <2>4. CASE CloseObs \/ ForceObs
    <3>1. CASE wobs' = "none" /\ wwindow' = FALSE
      BY <1>2, <2>4, <3>1 DEF WInv, WrapperTypeOK, WrapperCleansUp, CloseObs, ForceObs
    <3>2. CASE UNCHANGED <<wobs, wwindow>>
      BY <1>2, <2>4, <3>2 DEF WInv, WrapperTypeOK, WrapperCleansUp, CloseObs, ForceObs
    <3> QED BY <2>4, <3>1, <3>2 DEF CloseObs, ForceObs
  <2>5. CASE ProjectorOpens
    <3>1. CASE wobs # "none" /\ wwindow' = TRUE
      BY <1>2, <2>5, <3>1 DEF WInv, WrapperTypeOK, WrapperCleansUp, ProjectorOpens
    <3>2. CASE UNCHANGED wwindow
      BY <1>2, <2>5, <3>2 DEF WInv, WrapperTypeOK, WrapperCleansUp, ProjectorOpens
    <3> QED BY <2>5, <3>1, <3>2 DEF ProjectorOpens
  <2>6. CASE WrapperUser BY <1>2, <2>6 DEF WInv, WrapperTypeOK, WrapperCleansUp, WrapperUser
  <2>7. CASE WrapperBridgeEnds BY <1>2, <2>7 DEF WInv, WrapperTypeOK, WrapperCleansUp, WrapperBridgeEnds
  <2>8. CASE UNCHANGED wrapperVars BY <1>2, <2>8 DEF WInv, WrapperTypeOK, WrapperCleansUp, wrapperVars
  <2> QED BY <1>2, <2>1, <2>2, <2>3, <2>4, <2>5, <2>6, <2>7, <2>8 DEF WrapperNext, Script
<1> QED BY <1>1, <1>2

\* On every way out of SwitchWrapper.ps1 no bridge is left, and after a session whose projector
\* was closed OBS has ended, for any number of polls.
THEOREM WrapperLeavesNothing == WrapperSpec => [](WrapperTypeOK /\ WrapperCleansUp)
<1>1. WInv => WrapperTypeOK /\ WrapperCleansUp BY DEF WInv
<1> QED BY <1>1, WrapperStep, PTL DEF WrapperSpec

-----------------------------------------------------------------------------
(***************************************************************************)
(* The GUI holds every child that is alive, and ends it when its window is *)
(* closed, for any number of starts.                                       *)
(***************************************************************************)

\* Children are numbered in the order they are started, and all but the last are dead.
GInv ==
  /\ started \in [Kind -> 0..MaxStart] /\ process = started
  /\ child \in [Child -> {"none", "running", "dying", "dead"}]
  /\ \A k \in Kind, n \in 1..MaxStart : n > started[k] => child[<<k, n>>] = "none"
  /\ \A k \in Kind, n \in 1..MaxStart : n < started[k] => child[<<k, n>>] = "dead"
  /\ \A k \in Kind, n \in 1..MaxStart : n = started[k] => child[<<k, n>>] # "none"
  /\ NoOrphan

\* The invariant covers the children one by one.
LEMMA GuiHolds == GInv => NoneForgotten
<1> SUFFICES ASSUME GInv, NEW k \in Kind, NEW n \in 1..MaxStart, child[<<k, n>>] \in {"running", "dying"}
             PROVE  n = process[k]
  BY DEF NoneForgotten, Child
<1>1. started[k] \in 0..MaxStart BY DEF GInv
<1> QED BY <1>1, GuiAssumption DEF GInv

\* A start comes after the death of the child before it.
LEMMA StartStep == ASSUME GInv, NEW k \in Kind, StartChild(k) PROVE GInv'
<1> DEFINE s == started[k] + 1
<1>1. started[k] \in 0..MaxStart /\ s \in 1..MaxStart /\ open BY GuiAssumption DEF GInv, StartChild
<1>2. started' = [started EXCEPT ![k] = s] /\ process' = [process EXCEPT ![k] = s] /\ open' = open
  BY <1>1 DEF GInv, StartChild
<1>3. child' = [child EXCEPT ![<<k, s>>] = "running"] BY <1>1, <1>2 DEF GInv, StartChild
<1>4. <<k, s>> \in Child BY <1>1 DEF Child
<1>5. started[k] > 0 => child[<<k, started[k]>>] = "dead"
  <2>1. ASSUME started[k] > 0 PROVE child[<<k, started[k]>>] \in {"none", "dead"}
    <3>1. <<k, started[k]>> \in Child BY <1>1, <2>1 DEF Child
    <3> QED BY <1>1, <2>1, <3>1 DEF GInv, StartChild, Alive, NoProcess
  <2> QED BY <1>1, <2>1 DEF GInv
<1> HIDE DEF s
<1>6. started' \in [Kind -> 0..MaxStart] /\ process' = started' /\ open'
  BY <1>1, <1>2, GuiAssumption DEF GInv
<1>7. child' \in [Child -> {"none", "running", "dying", "dead"}] BY <1>3, <1>4 DEF GInv
<1>8. ASSUME NEW j \in Kind, NEW n \in 1..MaxStart
      PROVE  /\ n > started'[j] => child'[<<j, n>>] = "none"
             /\ n < started'[j] => child'[<<j, n>>] = "dead"
             /\ n = started'[j] => child'[<<j, n>>] # "none"
  <2>0. <<j, n>> \in Child /\ started[j] \in 0..MaxStart BY DEF Child, GInv
  <2>1. CASE j # k
    <3>1. started'[j] = started[j] /\ child'[<<j, n>>] = child[<<j, n>>] BY <1>2, <1>3, <2>0, <2>1 DEF GInv
    <3> QED BY <3>1 DEF GInv
  <2>2. CASE j = k /\ n = s
    BY <1>1, <1>2, <1>3, <1>4, <2>2 DEF GInv
  <2>3. CASE j = k /\ n # s
    <3>1. started'[j] = s /\ child'[<<j, n>>] = child[<<j, n>>] BY <1>2, <1>3, <2>0, <2>3 DEF GInv
    <3>2. s = started[k] + 1 BY DEF s
    <3> QED BY <1>1, <1>5, <2>0, <2>3, <3>1, <3>2 DEF GInv
  <2> QED BY <2>1, <2>2, <2>3
<1>9. NoOrphan' BY <1>6 DEF NoOrphan
<1> QED BY <1>6, <1>7, <1>8, <1>9 DEF GInv

\* The children that are told to end are those that are alive.
LEMMA TerminateStep ==
  ASSUME GInv, NEW K \in SUBSET Kind, Terminate(K), UNCHANGED <<started, process>>, open' = open \/ (~open' /\ K = Kind)
  PROVE  GInv'
<1>1. child' \in [Child -> {"none", "running", "dying", "dead"}] BY DEF Terminate, GInv
<1>2. ASSUME NEW c \in Child
      PROVE  /\ child'[c] = child[c] \/ (child[c] \in {"running", "dying"} /\ child'[c] = "dying")
             /\ K = Kind => child'[c] # "running"
  <2>1. PICK k \in Kind, n \in 1..MaxStart : c = <<k, n>> BY DEF Child
  <2>2. c[1] = k /\ c[2] = n /\ child[c] = child[<<k, n>>] BY <2>1
  <2>3. child'[c] = IF k \in K /\ Alive(k) /\ n = process[k] THEN "dying" ELSE child[c] BY <2>2 DEF Terminate
  <2>4. started[k] \in 0..MaxStart /\ process[k] = started[k] BY DEF GInv
  <2>5. child[c] = "running" => n = process[k] BY <2>2, GuiHolds DEF NoneForgotten
  <2>6. (n = process[k]) => (Alive(k) <=> child[c] \in {"running", "dying"}) BY <2>1, <2>4 DEF Alive, NoProcess
  <2> QED BY <2>3, <2>5, <2>6
<1>3. \A k \in Kind, n \in 1..MaxStart : <<k, n>> \in Child BY DEF Child
<1>4. NoOrphan'
  <2>1. CASE open' = open BY <1>2, <2>1 DEF GInv, NoOrphan
  <2>2. CASE ~open' /\ K = Kind BY <1>2, <2>2 DEF NoOrphan
  <2> QED BY <2>1, <2>2
<1>5. /\ \A k \in Kind, n \in 1..MaxStart : n > started[k] => child'[<<k, n>>] = "none"
      /\ \A k \in Kind, n \in 1..MaxStart : n < started[k] => child'[<<k, n>>] = "dead"
      /\ \A k \in Kind, n \in 1..MaxStart : n = started[k] => child'[<<k, n>>] # "none"
  BY <1>2, <1>3 DEF GInv
<1> QED BY <1>1, <1>4, <1>5 DEF GInv

\* Every step preserves the invariant; only a start, a stop and the closing of the window, and
\* the end of a child, touch the children.
LEMMA GuiStep == ASSUME GInv, [GuiNext]_guiVars PROVE GInv'
<1>1. ASSUME NEW k \in Kind, StartChild(k) PROVE GInv' BY <1>1, StartStep
<1>2. ASSUME NEW k \in Kind, StopChild(k) PROVE GInv'
  <2>1. Terminate({k}) /\ UNCHANGED <<started, process, open>> BY <1>2 DEF StopChild
  <2>2. {k} \in SUBSET Kind OBVIOUS
  <2> QED BY <2>1, <2>2, TerminateStep
<1>3. CASE OnClose
  <2>1. Terminate(Kind) /\ UNCHANGED <<started, process>> /\ ~open' BY <1>3 DEF OnClose
  <2>2. Kind \in SUBSET Kind OBVIOUS
  <2> QED BY <2>1, <2>2, TerminateStep
<1>4. ASSUME NEW c \in Child, Ends(c) PROVE GInv'
  <2>1. /\ UNCHANGED <<started, process, open>> /\ child[c] \in {"running", "dying"}
        /\ child' = [child EXCEPT ![c] = "dead"]
    BY <1>4 DEF Ends
  <2>2. \A k \in Kind, n \in 1..MaxStart : <<k, n>> \in Child BY DEF Child
  <2>3. child' \in [Child -> {"none", "running", "dying", "dead"}] BY <2>1 DEF GInv
  <2>4. \A d \in Child : child'[d] = child[d] \/ (child[d] \in {"running", "dying"} /\ child'[d] = "dead")
    BY <2>1 DEF GInv
  <2>5. NoOrphan' BY <2>1, <2>4 DEF GInv, NoOrphan
  <2> QED BY <2>1, <2>2, <2>3, <2>4, <2>5 DEF GInv
<1>5. ASSUME UNCHANGED <<started, process, child, open>> PROVE GInv' BY <1>5 DEF GInv, NoOrphan
<1> QED BY <1>1, <1>2, <1>3, <1>4, <1>5 DEF GuiNext, guiVars, ReadProcess, DrainOutput

\* The inductive invariant holds in every reachable state.
THEOREM GuiInvariance == GuiSpec => []GInv
<1>1. ASSUME GuiInit PROVE GInv
  <2>1. started \in [Kind -> 0..MaxStart] /\ process = started
    BY <1>1, GuiAssumption DEF GuiInit, NoProcess
  <2>2. child \in [Child -> {"none", "running", "dying", "dead"}] /\ \A c \in Child : child[c] = "none"
    BY <1>1 DEF GuiInit
  <2>3. \A k \in Kind, n \in 1..MaxStart : child[<<k, n>>] = "none" /\ started[k] = 0
    BY <1>1, <2>2 DEF GuiInit, Child
  <2>4. NoOrphan
    BY <1>1 DEF GuiInit, NoOrphan
  <2> QED
    BY <2>1, <2>2, <2>3, <2>4, GuiAssumption DEF GInv
<1> QED BY <1>1, GuiStep, PTL DEF GuiSpec

\* The GUI never loses a child that is alive, and never has two of a kind.
THEOREM GuiForgetsNone == GuiSpec => []NoneForgotten
  BY GuiHolds, GuiInvariance, PTL

\* A window that was closed has left no child running.
THEOREM GuiLeavesNoOrphan == GuiSpec => []NoOrphan
<1>1. GInv => NoOrphan BY DEF GInv
<1> QED BY <1>1, GuiInvariance, PTL

\* Every child of the GUI has an owner, for any number of starts.
THEOREM GuiOwnsChildren == GuiSpec => []ChildrenAreOwned
<1>1. GInv => ChildrenAreOwned BY GuiHolds DEF GInv, ChildrenAreOwned
<1> QED BY <1>1, GuiInvariance, PTL

\* Of the bots started so far, those whose reader has not yet ended.
Reading == {n \in 1..MaxStart : reader[<<"discord", n>>]}

\* Every bot that was started has its last words still to come, in the queue, or shown.
QInv ==
  /\ GInv /\ reader \in [Child -> BOOLEAN] /\ output_queue \in Seq({"stopped"})
  /\ label \in {"stopped", "running", "stopping"} /\ open \in BOOLEAN
  /\ \A n \in Reading : n <= started["discord"]
  /\ Len(output_queue) + Cardinality(Reading) <= started["discord"]

\* The readers can be counted.
LEMMA ReadersAreFinite == IsFiniteSet(Reading) /\ Cardinality(Reading) \in Nat
<1>1. IsFiniteSet(1..MaxStart) BY FS_Interval, GuiAssumption
<1>2. Reading \in SUBSET (1..MaxStart) BY DEF Reading
<1>3. IsFiniteSet(Reading) BY <1>1, <1>2, FS_Subset
<1> QED BY <1>3, FS_CardinalityType

\* A start adds the reader of the new child.
LEMMA StartKeepsQueue == ASSUME QInv, NEW k \in Kind, StartChild(k) PROVE QInv'
<1> DEFINE s == started[k] + 1
<1>1. GInv' BY StartStep DEF QInv
<1>2. /\ started[k] \in 0..MaxStart /\ s \in 1..MaxStart /\ started["discord"] \in 0..MaxStart
      /\ "discord" \in Kind
  BY GuiAssumption DEF QInv, GInv, StartChild, Kind
<1>3. /\ started' = [started EXCEPT ![k] = s] /\ reader' = [reader EXCEPT ![<<k, s>>] = TRUE]
      /\ output_queue' = output_queue /\ open' = open
  BY <1>2 DEF QInv, GInv, StartChild
<1>4. label' \in {"stopped", "running", "stopping"} BY DEF QInv, StartChild, Says
<1>5. <<k, s>> \in Child /\ \A n \in 1..MaxStart : <<"discord", n>> \in Child BY <1>2 DEF Child
<1>6. reader' \in [Child -> BOOLEAN] BY <1>3, <1>5 DEF QInv
<1>7. /\ \A n \in Reading' : n <= started'["discord"]
      /\ Len(output_queue') + Cardinality(Reading') <= started'["discord"]
  <2>1. CASE k = "discord"
    <3>1. Reading' = Reading \cup {s} BY <1>2, <1>3, <1>5, <2>1 DEF Reading, QInv
    <3>2. started'["discord"] = started["discord"] + 1 BY <1>2, <1>3, <2>1 DEF QInv, GInv
    <3>3. s \notin Reading BY <1>2, <2>1 DEF QInv
    <3>4. Cardinality(Reading') = Cardinality(Reading) + 1
      BY <3>1, <3>3, ReadersAreFinite, FS_AddElement
    <3>5. Len(output_queue) \in Nat BY DEF QInv
    <3>6. \A n \in Reading : n \in Nat BY DEF Reading
    <3> HIDE DEF s
    <3>7. s = started["discord"] + 1 BY <2>1 DEF s
    <3> QED BY <1>2, <1>3, <3>1, <3>2, <3>4, <3>5, <3>6, <3>7, ReadersAreFinite DEF QInv
  <2>2. CASE k # "discord"
    <3>1. Reading' = Reading BY <1>3, <1>5, <2>2 DEF Reading, QInv
    <3>2. started'["discord"] = started["discord"] BY <1>2, <1>3, <2>2 DEF QInv, GInv
    <3> QED BY <1>3, <3>1, <3>2 DEF QInv
  <2> QED BY <2>1, <2>2
<1> QED BY <1>1, <1>3, <1>4, <1>6, <1>7 DEF QInv

\* The reader of a bot that ends puts one message into the queue and is gone.
LEMMA ReaderKeepsQueue == ASSUME QInv, NEW c \in Child, ReadProcess(c) PROVE QInv'
<1>1. GInv' BY GuiStep DEF QInv, GuiNext
<1>2. PICK k \in Kind, n \in 1..MaxStart : c = <<k, n>> BY DEF Child
<1>3. /\ reader[c] /\ reader' = [reader EXCEPT ![c] = FALSE] /\ output_queue' = LastWords(c)
      /\ UNCHANGED <<started, label, open>>
  BY DEF ReadProcess
<1>4. \A m \in 1..MaxStart : <<"discord", m>> \in Child BY DEF Child, Kind
<1>5. reader' \in [Child -> BOOLEAN] /\ output_queue' \in Seq({"stopped"}) BY <1>3 DEF QInv, LastWords
<1>6. /\ \A m \in Reading' : m <= started["discord"]
      /\ Len(output_queue') + Cardinality(Reading') <= started["discord"]
  <2>0. Len(output_queue) \in Nat /\ started["discord"] \in Nat BY GuiAssumption DEF QInv, GInv, Kind
  <2>1. CASE k = "discord"
    <3>1. Reading' = Reading \ {n} BY <1>2, <1>3, <1>4, <2>1 DEF Reading, QInv
    <3>2. n \in Reading BY <1>2, <1>3, <2>1 DEF Reading
    <3>3. Cardinality(Reading') = Cardinality(Reading) - 1 BY <3>1, <3>2, ReadersAreFinite, FS_RemoveElement
    <3>4. Len(output_queue') = Len(output_queue) + 1 BY <1>2, <1>3, <2>1 DEF LastWords, QInv
    <3> QED BY <2>0, <3>1, <3>3, <3>4, ReadersAreFinite DEF QInv
  <2>2. CASE k # "discord"
    <3>1. Reading' = Reading BY <1>2, <1>3, <1>4, <2>2 DEF Reading, QInv
    <3>2. output_queue' = output_queue BY <1>2, <1>3, <2>2 DEF LastWords
    <3> QED BY <3>1, <3>2 DEF QInv
  <2> QED BY <2>1, <2>2
<1> QED BY <1>1, <1>3, <1>5, <1>6 DEF QInv

\* The other handlers leave the readers alone; the timer only empties the queue.
LEMMA QueueStep == ASSUME QInv, [GuiNext]_guiVars PROVE QInv'
<1>1. GInv' BY GuiStep DEF QInv
<1>2. ASSUME NEW k \in Kind, StartChild(k) PROVE QInv' BY <1>2, StartKeepsQueue
<1>3. ASSUME NEW c \in Child, ReadProcess(c) PROVE QInv' BY <1>3, ReaderKeepsQueue
<1>4. ASSUME UNCHANGED <<started, reader, output_queue>>, label' \in {label, "stopped", "stopping"}, open' \in BOOLEAN
      PROVE  QInv'
  <2>1. Reading' = Reading BY <1>4 DEF Reading
  <2> QED BY <1>1, <1>4, <2>1 DEF QInv
<1>5. ASSUME NEW k \in Kind, StopChild(k) PROVE QInv' BY <1>4, <1>5 DEF StopChild, Says, QInv
<1>6. CASE OnClose BY <1>4, <1>6 DEF OnClose
<1>7. ASSUME NEW c \in Child, Ends(c) PROVE QInv' BY <1>4, <1>7 DEF Ends, QInv
<1>8. CASE DrainOutput
  <2>1. /\ UNCHANGED <<started, reader, open>> /\ output_queue' = <<>> /\ output_queue # <<>>
        /\ label' = output_queue[Len(output_queue)]
    BY <1>8 DEF DrainOutput
  <2>2. Reading' = Reading BY <2>1 DEF Reading
  <2>3. label' = "stopped"
    <3>1. Len(output_queue) \in 1..Len(output_queue) BY <2>1 DEF QInv
    <3> QED BY <2>1, <3>1 DEF QInv
  <2>4. Len(output_queue) \in Nat /\ started["discord"] \in Nat BY GuiAssumption DEF QInv, GInv, Kind
  <2>5. Len(output_queue') = 0 /\ output_queue' \in Seq({"stopped"}) BY <2>1
  <2>6. Len(output_queue') + Cardinality(Reading') <= started'["discord"]
    BY <2>1, <2>2, <2>4, <2>5, ReadersAreFinite DEF QInv
  <2> QED BY <1>1, <2>1, <2>2, <2>3, <2>5, <2>6 DEF QInv
<1>9. CASE UNCHANGED guiVars BY <1>4, <1>9 DEF guiVars, QInv
<1> QED BY <1>2, <1>3, <1>5, <1>6, <1>7, <1>8, <1>9 DEF GuiNext

\* The variables of the GUI keep their types, and the queue of last words never holds more
\* than one for each bot that was started: every reader reports once (_read_process), however
\* late the timer empties the queue.
THEOREM GuiTypeCorrectness == GuiSpec => []GuiTypeOK
<1>1. ASSUME GuiInit, GInv PROVE QInv
  <2>1. Reading = {}
    <3>1. \A n \in 1..MaxStart : <<"discord", n>> \in Child BY DEF Child, Kind
    <3> QED BY <1>1, <3>1 DEF GuiInit, Reading
  <2>2. Cardinality(Reading) = 0 BY <2>1, FS_EmptySet
  <2>3. Len(output_queue) = 0 /\ started["discord"] = 0 /\ output_queue \in Seq({"stopped"}) BY <1>1 DEF GuiInit, Kind
  <2> QED BY <1>1, <2>1, <2>2, <2>3 DEF GuiInit, QInv
<1>2. QInv => GuiTypeOK
  <2> SUFFICES ASSUME QInv PROVE GuiTypeOK OBVIOUS
  <2>1. Len(output_queue) \in Nat /\ started["discord"] \in 0..MaxStart BY DEF QInv, GInv, Kind
  <2>2. Len(output_queue) <= MaxStart BY <2>1, ReadersAreFinite, GuiAssumption DEF QInv
  <2> QED BY <2>2 DEF QInv, GInv, GuiTypeOK
<1> QED BY <1>1, <1>2, GuiInvariance, QueueStep, PTL DEF GuiSpec

-----------------------------------------------------------------------------
(***************************************************************************)
(* The settings file, for any slots and ports of the user.                 *)
(***************************************************************************)

\* What the user can write is told apart by the key, and each default is such a value.
LEMMA SettingTable ==
  /\ SettingKey = {"playniteMode", "mode", "controllerBackend", "serialPort", "controllerSlot", "bindToProjectorFocus"}
  /\ SettingValue("mode") = Mode /\ SettingValue("playniteMode") = Mode \cup {"other"}
  /\ SettingValue("controllerBackend") = Backend \cup {"other"} /\ SettingValue("controllerSlot") = Slot \cup {Null}
  /\ SettingValue("serialPort") = Port \cup {""} /\ SettingValue("bindToProjectorFocus") = Switch
BY DEF SettingKey, DEFAULT_SETTINGS, SettingValue

LEMMA DefaultsAreValues == \A key \in SettingKey : DEFAULT_SETTINGS[key] \in SettingValue(key)
<1>1. /\ DEFAULT_SETTINGS["playniteMode"] = "controller" /\ DEFAULT_SETTINGS["mode"] = "controller"
      /\ DEFAULT_SETTINGS["controllerBackend"] = "auto" /\ DEFAULT_SETTINGS["serialPort"] = "COM3"
      /\ DEFAULT_SETTINGS["controllerSlot"] = "0" /\ DEFAULT_SETTINGS["bindToProjectorFocus"] = "true"
  BY DEF DEFAULT_SETTINGS
<1>2. "controller" \in Mode /\ "auto" \in Backend /\ "true" \in Switch
  BY DEF Mode, Backend, Switch
<1>. QED
  BY <1>1, <1>2, SettingTable, SettingsAssumption, Zenon

LEMMA SettingsStep == ASSUME SettingsTypeOK, [SettingsNext]_settingsVars PROVE SettingsTypeOK'
<1>1. CASE UNCHANGED settingsVars
  BY <1>1 DEF settingsVars, SettingsTypeOK
<1>2. ASSUME NEW key \in SettingKey, Edit(key) PROVE SettingsTypeOK'
  BY <1>2 DEF Edit, SettingsTypeOK
<1>3. ASSUME NEW key \in DOMAIN vars, Enter(key) PROVE SettingsTypeOK'
  BY <1>3 DEF Enter, SettingsTypeOK
<1>4. CASE reload_settings
  BY <1>4, DefaultsAreValues DEF reload_settings, load_settings, SettingsTypeOK
<1>5. CASE SaveOpen
  BY <1>5 DEF SaveOpen, NoKeys, SettingsTypeOK
<1>6. CASE SaveWrite
  BY <1>6, DefaultsAreValues DEF SaveWrite, collect_settings, SettingsTypeOK
<1>7. CASE SaveFails
  BY <1>7 DEF SaveFails, SettingsTypeOK
<1>. QED
  BY <1>1, <1>2, <1>3, <1>4, <1>5, <1>6, <1>7 DEF SettingsNext

\* What is in a file that was just saved.
LEMMA SavedFile ==
  ASSUME SettingsTypeOK, file = collect_settings
  PROVE  /\ DOMAIN file = SettingKey /\ file.playniteMode = "controller"
         /\ \A key \in SettingKey \ {"playniteMode"} : file[key] = vars[key] /\ file[key] \in SettingValue(key)
BY SettingTable DEF SettingsTypeOK, collect_settings, DEFAULT_SETTINGS

\* Playnite's command line from a saved file is the GUI's and the exit signal.
LEMMA SavedBridge == SettingsTypeOK => SameBridge
<1>. SUFFICES ASSUME SettingsTypeOK, file = collect_settings, vars.controllerSlot # Null, vars.controllerBackend \in Backend
              PROVE  PostArgs([file EXCEPT !.playniteMode = file.mode])
                       = BuildBridgeCommand(collect_settings) \cup {<<"--exit-chord-signal-file", "">>}
  BY DEF SameBridge
<1>. DEFINE s == [file EXCEPT !.playniteMode = file.mode]
<1>1. /\ DOMAIN s = SettingKey /\ s.playniteMode = file.mode
      /\ \A key \in SettingKey \ {"playniteMode"} : s[key] = file[key]
  BY SavedFile, SettingTable
<1>2. /\ file.mode \in Mode /\ file.controllerBackend \in Backend /\ file.controllerSlot # Null
      /\ file.serialPort \in Port \cup {""} /\ file.bindToProjectorFocus \in Switch
  BY SavedFile, SettingTable
<1>. HIDE DEF s
<1>3. ASSUME NEW key \in SettingKey, NEW d, s[key] # Null PROVE GetSetting(s, key, d) = s[key]
  BY <1>1, <1>3 DEF GetSetting
<1>4. /\ s["playniteMode"] = file.mode /\ s["controllerBackend"] = file.controllerBackend
      /\ s["serialPort"] = file.serialPort /\ s["controllerSlot"] = file.controllerSlot
      /\ s["bindToProjectorFocus"] = file.bindToProjectorFocus
  BY <1>1, SettingTable
<1>5. /\ file.mode # Null /\ file.controllerBackend # Null /\ file.serialPort # Null
      /\ file.bindToProjectorFocus # Null
  BY <1>2, SettingsAssumption DEF Mode, Backend, Switch, Null
<1>6. /\ GetSetting(s, "playniteMode", "controller") = file.mode
      /\ GetSetting(s, "controllerBackend", "auto") = file.controllerBackend
      /\ GetSetting(s, "serialPort", "COM3") = file.serialPort
      /\ GetSetting(s, "controllerSlot", "0") = file.controllerSlot
      /\ GetSetting(s, "bindToProjectorFocus", "true") = file.bindToProjectorFocus
  BY <1>2, <1>3, <1>4, <1>5, SettingTable
<1>. DEFINE backend == <<"--backend", IF file.mode = "socket" THEN "socket" ELSE file.controllerBackend>>
            window == Flag(file.bindToProjectorFocus = "true", <<"--window", "">>)
            keyboard == Flag(file.mode = "keyboard", <<"--keyboard", "">>)
            socket == Flag(file.mode = "socket", <<"--socket-host", "">>)
            port == Flag(file.serialPort # "", <<"--port", file.serialPort>>)
            slot == Flag(file.mode # "socket" /\ file.controllerSlot # Null, <<"--controller", file.controllerSlot>>)
            chordOut == <<"--exit-chord-signal-file", "">>
<1>7. file.controllerBackend \in {"auto", "xinput", "pygame"}
  BY <1>2 DEF Backend
<1>8. PostArgs(s) = {backend, chordOut} \cup window \cup keyboard \cup socket \cup port \cup slot
  <2>. DEFINE wanted == GetSetting(s, "playniteMode", "controller")
              m == IF wanted \in Mode THEN wanted ELSE "controller"
              chosen == GetSetting(s, "controllerBackend", "auto")
              b == IF chosen \in {"auto", "xinput", "pygame"} THEN chosen ELSE "auto"
              p == GetSetting(s, "serialPort", "COM3")
              c == GetSetting(s, "controllerSlot", "0")
              w == GetSetting(s, "bindToProjectorFocus", "true")
  <2>1. m = file.mode /\ b = file.controllerBackend /\ p = file.serialPort /\ c = file.controllerSlot
        /\ w = file.bindToProjectorFocus
    BY <1>2, <1>6, <1>7
  <2>2. PostArgs(s) = {<<"--backend", IF m = "socket" THEN "socket" ELSE b>>, chordOut}
                      \cup Flag(w = "true", <<"--window", "">>) \cup Flag(m = "keyboard", <<"--keyboard", "">>)
                      \cup Flag(m = "socket", <<"--socket-host", "">>) \cup Flag(p # "", <<"--port", p>>)
                      \cup Flag(m # "socket" /\ c # Null, <<"--controller", c>>)
    BY DEF PostArgs
  <2>. HIDE DEF m, b, p, c, w
  <2>. QED
    BY <2>1, <2>2
<1>9. BuildBridgeCommand(file) = {backend} \cup window \cup keyboard \cup socket \cup port \cup slot
  BY DEF BuildBridgeCommand
<1>. HIDE DEF backend, window, keyboard, socket, port, slot
<1>10. PostArgs(s) = BuildBridgeCommand(file) \cup {chordOut}
  BY <1>8, <1>9
<1>. QED
  BY <1>10 DEF s

\* The settings agree: whatever the user writes into the file, enters into the GUI and
\* however often a save fails, what the GUI saves is what it loads, and Playnite starts from
\* it the bridge that the GUI starts.
THEOREM SettingsAlwaysAgree == SettingsSpec => []SettingsAgree
<1>1. SettingsInit => SettingsTypeOK
  BY DefaultsAreValues DEF SettingsInit, SettingsTypeOK, SettingKey
<1>2. SettingsTypeOK => SaveIsLoaded
  BY SettingTable DEF SettingsTypeOK, SaveIsLoaded, load_settings, collect_settings
<1>. QED
  BY <1>1, <1>2, SavedBridge, SettingsStep, PTL DEF SettingsSpec, SettingsAgree

-----------------------------------------------------------------------------
(***************************************************************************)
(* The main loop, for all lengths of its sleeps, pulses and of the         *)
(* failsafe's intervals that meet its two assumptions.                     *)
(***************************************************************************)

NoSilence == "none" \notin {InactiveAction, DisconnectAction}

\* How old the last packet can be while the loop sleeps.
GapInv ==
  (linked /\ NoSilence) =>
    /\ pc \in {"loop", "chord"} => age + wake <= RETRY + MaxLate
    /\ pc = "retry" => age + wake <= RETRY

\* Either no packet of the chord's pulse has been written yet, or every report since
\* the first one shows HOME.
ChordInv ==
  (pc = "chord" /\ linked) =>
    \/ wake <= 0 /\ chordLeft >= HomeDuration + wake
    \/ /\ last = "home" /\ shown = "packet" /\ age + wake <= SEND
       /\ homeRun + chordLeft >= HomeDuration - MaxLate

\* The flags and the counters of BridgeTypeOK.
Flags ==
  /\ attached \in BOOLEAN /\ focused \in BOOLEAN /\ was_focused \in BOOLEAN
  /\ signal \in BOOLEAN /\ linked \in BOOLEAN
Counters ==
  /\ pc \in Running \cup Over
  /\ wake \in Int /\ -MaxLate <= wake /\ wake <= RETRY
  /\ inactiveLeft \in 0..HomeDuration /\ disconnectLeft \in 0..HomeDuration
  /\ cooldownLeft \in 0..HomeCooldown /\ chordLeft \in 0..HomeDuration
  /\ last \in {"neutral", "home", "input"}
  /\ age \in 0..(HomeStart + HomeLen) /\ shown \in {"packet", "home", "empty"}
  /\ homeRun \in Nat

Facts ==
  /\ GapInv
  /\ FailsafeStaysQuiet
  /\ ~linked => shown # "home"
  /\ ChordInv

BInv == BridgeTypeOK /\ Facts

\* What write does to the board.
LEMMA WriteEffect ==
  ASSUME BridgeTypeOK, NEW p \in {"neutral", "home", "input"}, write(p)
  PROVE  /\ last' = p /\ linked' = linked
         /\ linked => age' = 0 /\ shown' = "packet"
         /\ ~linked => age' = age /\ shown' = shown
  BY DEF write, Board!Packet, BridgeTypeOK

\* What the answer to a lost pad or a lost focus does to the board.
LEMMA AnswerEffect ==
  ASSUME BridgeTypeOK, NEW rest \in Nat, NEW action \in Action, Answer(rest, action)
  PROVE  /\ last' \in {"neutral", "home", "input"} /\ linked' = linked
         /\ age' \in {0, age} /\ shown' \in {"packet", shown}
         /\ (linked /\ action # "none") => age' = 0 /\ shown' = "packet"
         /\ ~linked => age' = age /\ shown' = shown
<1>1. CASE rest > 0
  BY <1>1, WriteEffect DEF Answer
<1>2. CASE ~(rest > 0) /\ action # "none"
  BY <1>2, WriteEffect DEF Answer
<1>3. CASE ~(rest > 0) /\ action = "none"
  BY <1>3 DEF Answer, board, BridgeTypeOK
<1>. QED
  BY <1>1, <1>2, <1>3

\* Before the timeline reaches HOME, the board does not press it.
LEMMA NotYetHome ==
  ASSUME NEW n \in Nat, n < HomeStart
  PROVE  Board!Timeline(n) # "home"
  BY BridgeAssumption DEF Board!Timeline

\* The last packet is repeated for a while.
LEMMA StillFresh ==
  ASSUME NEW n \in Nat, n < FreshReports
  PROVE  Board!Timeline(n) = "packet"
  BY BridgeAssumption DEF Board!Timeline

LEMMA TickEffect ==
  ASSUME BridgeTypeOK, Tick
  PROVE  /\ last' = last /\ linked' = linked
         /\ age' \in 0..(HomeStart + HomeLen) /\ age' <= age + 1
         /\ shown' \in {"packet", "home", "empty"}
         /\ linked => shown' = Board!Timeline(age)
         /\ ~linked => shown' = "empty"
         /\ homeRun' \in Nat
         /\ HomeSeen' => homeRun' = homeRun + 1
  BY BridgeAssumption DEF Tick, BridgeTypeOK, Board!SendReport, Board!SendUnlinked, Board!Timeline

LEMMA TypeInParts ==
  /\ BridgeTypeOK <=> Flags /\ Counters
  /\ BridgeTypeOK' <=> Flags' /\ Counters'
  BY Zenon DEF BridgeTypeOK, Flags, Counters

LEMMA BridgeInitInv == BridgeInit => BInv
<1>. SUFFICES ASSUME BridgeInit PROVE BInv
  OBVIOUS
<1>1. Flags
  BY Zenon DEF BridgeInit, Flags
<1>2. Counters
  BY BridgeAssumption, GapAssumption DEF BridgeInit, Counters, Running
<1>3. Facts
  BY BridgeAssumption DEF BridgeInit, Facts, GapInv, FailsafeStaysQuiet, ChordInv
<1>. QED
  BY <1>1, <1>2, <1>3, TypeInParts DEF BInv

\* Steps that touch neither the board nor the clock.
LEMMA EnvironmentStep ==
  ASSUME BInv, Stop \/ PadChanges \/ FocusChanges \/ NoPadToAsk \/ UNCHANGED bridgeVars
  PROVE  BInv'
<1>1. Flags'
  BY TypeInParts, Zenon DEF BInv, Flags, Stop, PadChanges, FocusChanges, NoPadToAsk, bridgeVars, surroundings, board
<1>2. Counters'
  BY TypeInParts DEF BInv, Counters, Stop, PadChanges, FocusChanges, NoPadToAsk, bridgeVars, surroundings, timers, board, Running, Over
<1>3. Facts'
  BY DEF BInv, Facts, GapInv, FailsafeStaysQuiet, ChordInv, NoSilence, Stop, PadChanges, FocusChanges,
         NoPadToAsk, bridgeVars, surroundings, timers, board, Running, Over
<1>. QED
  BY <1>1, <1>2, <1>3, TypeInParts DEF BInv

LEMMA BoardResetStep == ASSUME BInv, BoardReset PROVE BInv'
<1>1. Flags'
  BY TypeInParts, Zenon DEF BInv, Flags, BoardReset, surroundings
<1>2. Counters'
  BY TypeInParts, BridgeAssumption DEF BInv, Counters, BoardReset, timers
<1>3. Facts'
  BY DEF Facts, GapInv, FailsafeStaysQuiet, ChordInv, BoardReset
<1>. QED
  BY <1>1, <1>2, <1>3, TypeInParts DEF BInv

LEMMA PadLostStep == ASSUME BInv, PadLost PROVE BInv'
<1>. DEFINE pulse == DisconnectAction = "home" /\ cooldownLeft = 0
            rest == IF pulse THEN HomeDuration ELSE disconnectLeft
<1>1. BridgeTypeOK /\ Flags /\ Counters
  BY TypeInParts DEF BInv
<1>2. rest \in 0..HomeDuration /\ rest \in Nat
  BY <1>1, BridgeAssumption DEF Counters
<1>3. Answer(rest, DisconnectAction) /\ disconnectLeft' = rest
  BY DEF PadLost
<1>4. /\ last' \in {"neutral", "home", "input"} /\ linked' = linked
      /\ age' \in {0, age} /\ shown' \in {"packet", shown}
      /\ (linked /\ DisconnectAction # "none") => age' = 0 /\ shown' = "packet"
      /\ ~linked => shown' = shown
  BY <1>1, <1>2, <1>3, AnswerEffect, BridgeAssumption
<1>5. Flags'
  BY <1>1, <1>4, Zenon DEF Flags, PadLost, surroundings
<1>6. cooldownLeft' \in 0..HomeCooldown
  BY <1>1, BridgeAssumption DEF PadLost, Counters
<1>7. Counters'
  BY <1>1, <1>2, <1>3, <1>4, <1>6, BridgeAssumption DEF PadLost, Counters, Running
<1>8. pc' = "retry" /\ wake' = RETRY
  BY DEF PadLost
<1>9. pc \in Running \ {"nopad"}
  BY DEF PadLost, AtTop, Running
<1>10. GapInv' /\ ChordInv'
  <2>1. (linked /\ NoSilence)' => age' = 0
    BY <1>4, Zenon DEF NoSilence
  <2>2. age' = 0 => age' + wake' <= RETRY
    BY <1>8, BridgeAssumption
  <2>. QED
    BY <1>8, <2>1, <2>2, Zenon DEF GapInv, ChordInv
<1>11. FailsafeStaysQuiet' /\ (~linked => shown # "home")'
  BY <1>4, <1>8, <1>9 DEF BInv, Facts, FailsafeStaysQuiet
<1>. QED
  BY <1>5, <1>7, <1>10, <1>11, TypeInParts DEF BInv, Facts

LEMMA RecreatePadStep == ASSUME BInv, RecreatePad PROVE BInv'
<1>1. BridgeTypeOK /\ Flags /\ Counters
  BY TypeInParts DEF BInv
<1>2. Flags'
  BY <1>1, Zenon DEF Flags, RecreatePad, surroundings, board
<1>3. UNCHANGED <<inactiveLeft, disconnectLeft, cooldownLeft, chordLeft, last, linked, age, shown, homeRun>>
  BY DEF RecreatePad, timers, board
<1>4. /\ pc = "retry" /\ wake <= 0
      /\ (pc' = "loop" /\ wake' = 0) \/ (pc' = "nopad" /\ wake' = RETRY)
  BY Zenon DEF RecreatePad
<1>5. Counters'
  BY <1>1, <1>3, <1>4, BridgeAssumption DEF Counters, Running
<1>6. Facts'
  BY <1>1, <1>3, <1>4, BridgeAssumption DEF BInv, Facts, GapInv, FailsafeStaysQuiet, ChordInv, NoSilence, Counters, Running
<1>. QED
  BY <1>2, <1>5, <1>6, TypeInParts DEF BInv

LEMMA UnfocusedStep == ASSUME BInv, Unfocused PROVE BInv'
<1>1. BridgeTypeOK /\ Flags /\ Counters
  BY TypeInParts DEF BInv
<1>2. inactiveLeft' \in 0..HomeDuration /\ inactiveLeft' \in Nat
  BY <1>1, BridgeAssumption DEF Counters, Unfocused
<1>3. Answer(inactiveLeft', InactiveAction)
  BY DEF Unfocused
<1>4. /\ last' \in {"neutral", "home", "input"} /\ linked' = linked
      /\ age' \in {0, age} /\ shown' \in {"packet", shown}
      /\ (linked /\ InactiveAction # "none") => age' = 0 /\ shown' = "packet"
      /\ ~linked => shown' = shown
  BY <1>1, <1>2, <1>3, AnswerEffect, BridgeAssumption
<1>5. Flags'
  BY <1>1, <1>4, Zenon DEF Flags, Unfocused, surroundings
<1>6. Counters'
  BY <1>1, <1>2, <1>4, BridgeAssumption, GapAssumption DEF Unfocused, Counters
<1>7. pc = "loop" /\ pc' = "loop" /\ wake' = SEND
  BY DEF Unfocused, AtTop
<1>8. GapInv' /\ ChordInv'
  <2>1. (linked /\ NoSilence)' => age' = 0
    BY <1>4, Zenon DEF NoSilence
  <2>2. age' = 0 => age' + wake' <= RETRY + MaxLate
    BY <1>7, BridgeAssumption, GapAssumption
  <2>. QED
    BY <1>7, <2>1, <2>2, Zenon DEF GapInv, ChordInv
<1>9. FailsafeStaysQuiet' /\ (~linked => shown # "home")'
  BY <1>4, <1>7 DEF BInv, Facts, FailsafeStaysQuiet, Running
<1>. QED
  BY <1>5, <1>6, <1>8, <1>9, TypeInParts DEF BInv, Facts

LEMMA StreamStep == ASSUME BInv, Stream PROVE BInv'
<1>1. BridgeTypeOK /\ Flags /\ Counters
  BY TypeInParts DEF BInv
<1>2. /\ last' = "input" /\ linked' = linked
      /\ linked => age' = 0 /\ shown' = "packet"
      /\ ~linked => age' = age /\ shown' = shown
  BY <1>1, WriteEffect DEF Stream
<1>3. pc = "loop" /\ pc' = "loop" /\ wake' = SEND
  BY DEF Stream, AtTop
<1>4. Flags'
  BY <1>1, <1>2, Zenon DEF Flags, Stream, surroundings
<1>5. Counters'
  BY <1>1, <1>2, <1>3, BridgeAssumption, GapAssumption DEF Stream, timers, Counters
<1>6. GapInv' /\ ChordInv'
  <2>1. age' = 0 => age' + wake' <= RETRY + MaxLate
    BY <1>3, BridgeAssumption, GapAssumption
  <2>. QED
    BY <1>2, <1>3, <2>1, Zenon DEF GapInv, ChordInv
<1>7. FailsafeStaysQuiet' /\ (~linked => shown # "home")'
  BY <1>2, <1>3 DEF BInv, Facts, FailsafeStaysQuiet, Running
<1>. QED
  BY <1>4, <1>5, <1>6, <1>7, TypeInParts DEF BInv, Facts

LEMMA ChordPressedStep == ASSUME BInv, ChordPressed PROVE BInv'
<1>1. BridgeTypeOK /\ Flags /\ Counters
  BY TypeInParts DEF BInv
<1>2. Flags'
  BY <1>1, Zenon DEF Flags, ChordPressed, surroundings, board
<1>3. /\ UNCHANGED <<wake, inactiveLeft, disconnectLeft, cooldownLeft, last, linked, age, shown, homeRun>>
      /\ pc = "loop" /\ wake <= 0 /\ pc' = "chord" /\ chordLeft' = HomeDuration
  BY DEF ChordPressed, AtTop, board
<1>4. Counters'
  BY <1>1, <1>3, BridgeAssumption DEF Counters, Running
<1>5. ChordInv'
  BY <1>1, <1>3, BridgeAssumption DEF ChordInv, Counters
<1>6. GapInv' /\ FailsafeStaysQuiet' /\ (~linked => shown # "home")'
  BY <1>3 DEF BInv, Facts, GapInv, FailsafeStaysQuiet, NoSilence, Running
<1>. QED
  BY <1>2, <1>4, <1>5, <1>6, TypeInParts DEF BInv, Facts

LEMMA ChordPulseStep == ASSUME BInv, ChordPulse PROVE BInv'
<1>1. BridgeTypeOK /\ Flags /\ Counters
  BY TypeInParts DEF BInv
<1>2. /\ last' = "home" /\ linked' = linked
      /\ linked => age' = 0 /\ shown' = "packet"
      /\ ~linked => age' = age /\ shown' = shown
  BY <1>1, WriteEffect DEF ChordPulse
<1>3. /\ pc = "chord" /\ pc' = "chord" /\ wake <= 0 /\ wake' = SEND
      /\ UNCHANGED <<inactiveLeft, disconnectLeft, cooldownLeft, chordLeft, homeRun>>
  BY DEF ChordPulse, timers
<1>4. Flags'
  BY <1>1, <1>2, Zenon DEF Flags, ChordPulse, surroundings
<1>5. Counters'
  BY <1>1, <1>2, <1>3, BridgeAssumption, GapAssumption DEF Counters
<1>6. GapInv'
  <2>1. age' = 0 => age' + wake' <= RETRY + MaxLate
    BY <1>3, BridgeAssumption, GapAssumption
  <2>. QED
    BY <1>2, <1>3, <2>1, Zenon DEF GapInv
<1>7. ChordInv'
  <2>1. linked => homeRun + chordLeft >= HomeDuration - MaxLate
    BY <1>1, <1>3, BridgeAssumption DEF BInv, Facts, ChordInv, Counters
  <2>2. age' = 0 => age' + wake' <= SEND
    BY <1>3, BridgeAssumption
  <2>. QED
    BY <1>2, <1>3, <2>1, <2>2, Zenon DEF ChordInv
<1>8. FailsafeStaysQuiet' /\ (~linked => shown # "home")'
  BY <1>2, <1>3 DEF BInv, Facts, FailsafeStaysQuiet, Running
<1>. QED
  BY <1>4, <1>5, <1>6, <1>7, <1>8, TypeInParts DEF BInv, Facts

LEMMA ChordEndsStep == ASSUME BInv, ChordEnds PROVE BInv'
<1>1. BridgeTypeOK /\ Flags /\ Counters
  BY TypeInParts DEF BInv
<1>2. /\ last' = "neutral" /\ linked' = linked
      /\ linked => age' = 0 /\ shown' = "packet"
      /\ ~linked => age' = age /\ shown' = shown
  BY <1>1, WriteEffect DEF ChordEnds
<1>3. pc' = "ended" /\ UNCHANGED <<wake, inactiveLeft, disconnectLeft, cooldownLeft, chordLeft, homeRun>>
  BY DEF ChordEnds, timers
<1>4. Flags'
  BY <1>1, <1>2, Zenon DEF Flags, ChordEnds, surroundings
<1>5. Counters'
  BY <1>1, <1>2, <1>3, BridgeAssumption DEF Counters, Over
<1>6. Facts'
  BY <1>2, <1>3 DEF BInv, Facts, GapInv, ChordInv, FailsafeStaysQuiet, Running
<1>. QED
  BY <1>4, <1>5, <1>6, TypeInParts DEF BInv

\* Arithmetic, apart from the state.
LEMMA AtMost ==
  \A x, y, a, b, s \in Int : (x + y <= a + b /\ a + b <= s) => x + y <= s
OBVIOUS

LEMMA AtLeast ==
  \A h, c, k, s \in Int : (h + c >= s /\ k >= c - 1) => (h + 1) + k >= s
OBVIOUS

\* While the loop sleeps, the packet ages by what the sleep has left less.
LEMMA TickStep == ASSUME BInv, Tick PROVE BInv'
<1>1. BridgeTypeOK /\ Flags /\ Counters
  BY TypeInParts DEF BInv
<1>0. /\ last' = last /\ linked' = linked
      /\ age' \in Nat /\ age' <= age + 1
      /\ linked => shown' = Board!Timeline(age)
      /\ ~linked => shown' = "empty"
      /\ HomeSeen' => homeRun' = homeRun + 1
  BY <1>1, TickEffect, BridgeAssumption
<1>2. Flags'
  BY <1>1, TickEffect, Zenon DEF Flags, Tick, surroundings
<1>3. /\ wake' \in Int /\ -MaxLate <= wake' /\ wake' <= wake
      /\ pc \in Running => (wake > -MaxLate /\ wake' = wake - 1)
      /\ pc' = pc
  BY <1>1, BridgeAssumption DEF Tick, Counters, Running, Over
<1>9. /\ age \in Nat /\ age' \in Nat /\ age' <= age + 1 /\ wake \in Int
      /\ pc \in Running => age' + wake' <= age + wake
  <2>1. age \in Nat /\ wake \in Int
    BY <1>1, BridgeAssumption DEF Counters
  <2>2. age' \in Nat /\ age' <= age + 1
    BY <1>0
  <2>3. pc \in Running => wake' = wake - 1
    BY <1>3
  <2>. QED
    BY <2>1, <2>2, <2>3
<1>4. /\ inactiveLeft' \in 0..HomeDuration /\ disconnectLeft' \in 0..HomeDuration
      /\ cooldownLeft' \in 0..HomeCooldown /\ chordLeft' \in 0..HomeDuration
      /\ chordLeft' >= chordLeft - 1
  BY <1>1, BridgeAssumption DEF Tick, Before, Counters
<1>5. Counters'
  BY <1>1, <1>3, <1>4, TickEffect, BridgeAssumption DEF Counters
<1>6. GapInv'
  <2>. SUFFICES ASSUME linked, NoSilence PROVE GapInv'
    BY <1>0, Zenon DEF GapInv, NoSilence
  <2>1. /\ pc \in {"loop", "chord"} => age + wake <= RETRY + MaxLate
        /\ pc = "retry" => age + wake <= RETRY
    BY DEF BInv, Facts, GapInv
  <2>2. /\ pc' \in {"loop", "chord"} => age' + wake' <= RETRY + MaxLate
        /\ pc' = "retry" => age' + wake' <= RETRY
    <3>1. pc' = pc /\ wake' \in Int
      BY <1>3
    <3>2. pc \in {"loop", "chord", "retry"} => age' + wake' <= age + wake
      BY <1>9 DEF Running
    <3>3. RETRY \in Int /\ RETRY + MaxLate \in Int
      BY BridgeAssumption
    <3>4. age \in Int /\ age' \in Int /\ wake \in Int
      BY <1>9
    <3>5. ASSUME pc \in {"loop", "chord"} PROVE age' + wake' <= RETRY + MaxLate
      BY <2>1, <3>1, <3>2, <3>3, <3>4, <3>5, AtMost, Zenon
    <3>6. ASSUME pc = "retry" PROVE age' + wake' <= RETRY
      BY <2>1, <3>1, <3>2, <3>3, <3>4, <3>6, AtMost, Zenon
    <3>. QED
      BY <3>1, <3>5, <3>6
  <2>. QED
    BY <2>2, Zenon DEF GapInv
<1>7. FailsafeStaysQuiet' /\ (~linked => shown # "home")'
  <2>1. (linked /\ NoSilence /\ pc \in Running \ {"nopad"}) => age < HomeStart
    BY <1>1, <1>3, BridgeAssumption, GapAssumption DEF BInv, Facts, GapInv, Counters, Running
  <2>2. (linked /\ NoSilence /\ pc \in Running \ {"nopad"}) => shown' # "home"
    BY <1>0, <1>1, <2>1, NotYetHome DEF Counters
  <2>3. ~linked => shown' # "home"
    BY <1>0
  <2>. QED
    BY <1>0, <1>3, <2>2, <2>3, Zenon DEF FailsafeStaysQuiet, NoSilence
<1>8. ChordInv'
  <2>. SUFFICES ASSUME pc = "chord", linked PROVE ChordInv'
    BY <1>0, <1>3, Zenon DEF ChordInv
  <2>1. CASE wake <= 0 /\ chordLeft >= HomeDuration + wake
    BY <2>1, <1>1, <1>3, <1>4, BridgeAssumption DEF ChordInv, Counters, Running
  <2>2. CASE /\ last = "home" /\ shown = "packet" /\ age + wake <= SEND
             /\ homeRun + chordLeft >= HomeDuration - MaxLate
    <3>1. age < FreshReports
      BY <2>2, <1>1, <1>3, BridgeAssumption, GapAssumption DEF Counters, Running
    <3>2. shown' = "packet" /\ last' = "home"
      BY <2>2, <3>1, <1>0, <1>1, StillFresh DEF Counters
    <3>3. homeRun' = homeRun + 1
      BY <1>0, <3>2 DEF HomeSeen
    <3>4. age' + wake' <= SEND /\ homeRun' + chordLeft' >= HomeDuration - MaxLate
      <4>1. homeRun \in Int /\ chordLeft \in Int
        BY <1>1, BridgeAssumption DEF Counters
      <4>2. wake' \in Int /\ age \in Int /\ age' \in Int /\ wake \in Int
        BY <1>3, <1>9
      <4>3. age' + wake' <= age + wake
        BY <1>9 DEF Running
      <4>4. SEND \in Int /\ HomeDuration - MaxLate \in Int
        BY BridgeAssumption
      <4>5. age' + wake' <= SEND
        BY <4>2, <4>3, <4>4, <2>2, AtMost, Zenon
      <4>6. chordLeft' \in Int /\ chordLeft' >= chordLeft - 1
        BY <1>4, BridgeAssumption
      <4>7. (homeRun + 1) + chordLeft' >= HomeDuration - MaxLate
        BY <4>1, <4>4, <4>6, <2>2, AtLeast, Zenon
      <4>. QED
        BY <3>3, <4>5, <4>7
    <3>. QED
      BY <3>2, <3>4, Zenon DEF ChordInv
  <2>. QED
    BY <2>1, <2>2 DEF BInv, Facts, ChordInv
<1>. QED
  BY <1>2, <1>5, <1>6, <1>7, <1>8, TypeInParts DEF BInv, Facts

\* BInv is inductive.
THEOREM BridgeInvariance == BridgeSpec => []BInv
<1>1. ASSUME BInv, [BridgeNext]_bridgeVars PROVE BInv'
  BY <1>1, EnvironmentStep, BoardResetStep, PadLostStep, RecreatePadStep, UnfocusedStep, StreamStep,
     ChordPressedStep, ChordPulseStep, ChordEndsStep, TickStep
  DEF BridgeNext, LoopStep
<1>. QED
  BY <1>1, BridgeInitInv, PTL DEF BridgeSpec

\* The times left and the age of the board keep their bounds, whatever the sleeps last.
THEOREM BridgeTypeCorrectness == BridgeSpec => []BridgeTypeOK
  BY BridgeInvariance, PTL DEF BInv

\* While the loop runs and has a pad, the sleeps of its branches never add up to the
\* silence after which the firmware presses HOME.
THEOREM BridgeKeepsFailsafeQuiet == BridgeSpec => []FailsafeStaysQuiet
  BY BridgeInvariance, PTL DEF BInv, Facts

\* The exit signal is written only after the whole HOME pulse.
THEOREM BridgeSignalsAfterPulse == BridgeSpec => SignalFollowsPulse
<1>. DEFINE Ordered == signal' # signal /\ linked => homeRun >= HomeDuration - MaxLate /\ last' = "neutral"
<1>1. ASSUME BInv, [BridgeNext]_bridgeVars PROVE [Ordered]_bridgeVars
  <2>1. CASE ChordEnds
    <3>1. last' = "neutral" /\ pc = "chord" /\ wake <= 0 /\ chordLeft = 0
      BY <2>1 DEF ChordEnds, PulseOver, write
    <3>2. linked => homeRun >= HomeDuration - MaxLate
      BY <1>1, <3>1, TypeInParts, BridgeAssumption DEF BInv, Facts, ChordInv, Counters
    <3>. QED
      BY <3>1, <3>2
  <2>2. CASE ~ChordEnds
    <3>1. signal' = signal
      BY <1>1, <2>2, Zenon DEF BridgeNext, LoopStep, PadLost, RecreatePad, NoPadToAsk, Unfocused, Stream,
         ChordPressed, ChordPulse, Stop, PadChanges, FocusChanges, BoardReset, Tick, bridgeVars
    <3>. QED
      BY <3>1
  <2>. QED
    BY <2>1, <2>2
<1>. QED
  BY <1>1, BridgeInvariance, PTL DEF BridgeSpec, SignalFollowsPulse

-----------------------------------------------------------------------------
(***************************************************************************)
(* How long the console sees HOME.  homeRun grows by one with every report *)
(* that shows HOME while the time left of a pulse shrinks by one, so their *)
(* sum is what bounds it; a pulse that starts after another has ended      *)
(* starts from a homeRun that is known.                                    *)
(***************************************************************************)

\* Neither action is silence, so that the failsafe's HOME comes only when the loop
\* has ended or lost its pad for good, and that press is no longer than the pulses.
Pulsed ==
  NoSilence /\ HomeLen <= 2 * HomeDuration + SEND + MaxLate + FreshReports

\* homeRun when the last packet of a focus pulse is due to be replaced, and when the
\* last packet of the chord's pulse is written.
PulseEnd == HomeDuration - 1 + SEND
LastPulse == 2 * HomeDuration - 2 + SEND + MaxLate

LoopRun ==
  pc = "loop" =>
    /\ wake <= SEND
    /\ \/ homeRun + wake <= PulseEnd
       \/ last # "home" /\ wake > 0 /\ homeRun <= PulseEnd + MaxLate
    /\ (was_focused /\ homeRun > 0) => (last # "home" /\ wake > 0)
    /\ (was_focused /\ linked /\ last = "home") => age >= FreshReports
    /\ (~was_focused /\ inactiveLeft > 0) => homeRun + inactiveLeft <= HomeDuration

\* A sleep of RETRY outlasts the repetition of the packet written before it.
RetryRun ==
  pc = "retry" =>
    /\ homeRun > 0 => wake >= RETRY - FreshReports
    /\ linked => age + wake = RETRY

ChordRun ==
  pc = "chord" =>
    /\ homeRun + wake <= LastPulse + SEND
    /\ chordLeft > 0 => homeRun + chordLeft <= LastPulse + 1

BoardRun ==
  /\ linked =>
       /\ shown = "packet" => age <= FreshReports
       /\ (shown = "packet" /\ last = "home") => homeRun <= LastPulse + age
       /\ shown = "home" => homeRun + HomeStart <= age
       /\ shown = "empty" => (homeRun = 0 /\ age > FreshReports)
  /\ ~linked => shown = "empty"

RunInv == LoopRun /\ RetryRun /\ ChordRun /\ BoardRun /\ HomeIsReleased

\* The numbers the invariant is about.
LEMMA RunTypes ==
  ASSUME BInv
  PROVE  /\ wake \in Int /\ -MaxLate <= wake /\ wake <= RETRY
         /\ inactiveLeft \in Nat /\ inactiveLeft <= HomeDuration
         /\ chordLeft \in Nat /\ chordLeft <= HomeDuration
         /\ age \in Nat /\ age <= HomeStart + HomeLen
         /\ homeRun \in Nat
         /\ PulseEnd \in Int /\ LastPulse \in Int
  BY TypeInParts, BridgeAssumption DEF BInv, Counters, PulseEnd, LastPulse

LEMMA RunInit == Pulsed /\ BridgeInit => RunInv
<1>. SUFFICES ASSUME Pulsed, BridgeInit PROVE RunInv
  OBVIOUS
<1>. QED
  BY BridgeAssumption
  DEF BridgeInit, RunInv, LoopRun, RetryRun, ChordRun, BoardRun, HomeIsReleased, PulseEnd, LastPulse

LEMMA RunEnvironment ==
  ASSUME BInv, RunInv, Stop \/ PadChanges \/ FocusChanges \/ NoPadToAsk \/ UNCHANGED bridgeVars
  PROVE  RunInv'
<1>1. UNCHANGED <<wake, was_focused, inactiveLeft, chordLeft, last, linked, age, shown, homeRun>>
  BY Zenon DEF Stop, PadChanges, FocusChanges, NoPadToAsk, bridgeVars, timers, board
<1>2. pc' = pc \/ pc' \in Over
  BY DEF Stop, PadChanges, FocusChanges, NoPadToAsk, bridgeVars, Over
<1>3. LoopRun' /\ RetryRun' /\ ChordRun'
  BY <1>1, <1>2 DEF RunInv, LoopRun, RetryRun, ChordRun, Over
<1>4. BoardRun' /\ HomeIsReleased'
  BY <1>1 DEF RunInv, BoardRun, HomeIsReleased
<1>. QED
  BY <1>3, <1>4 DEF RunInv

LEMMA RunBoardReset == ASSUME BInv, RunInv, BoardReset PROVE RunInv'
<1>1. /\ UNCHANGED <<pc, wake, was_focused, inactiveLeft, chordLeft, last, homeRun>>
      /\ linked' = FALSE /\ shown' = "empty"
  BY DEF BoardReset, timers
<1>. QED
  BY <1>1 DEF RunInv, LoopRun, RetryRun, ChordRun, BoardRun, HomeIsReleased

\* What a packet written by a running loop does to the board's part.
LEMMA RunWrite ==
  ASSUME BInv, BoardRun, homeRun' = homeRun, linked' = linked,
         linked => age' = 0 /\ shown' = "packet",
         ~linked => age' = age /\ shown' = shown,
         last' = "home" => homeRun <= LastPulse
  PROVE  BoardRun'
<1>1. CASE linked
  BY <1>1, RunTypes, BridgeAssumption DEF BoardRun
<1>2. CASE ~linked
  BY <1>2 DEF BoardRun
<1>. QED
  BY <1>1, <1>2

\* An answer is HOME while there is time left of its pulse, and neutral after it.
LEMMA RunAnswer ==
  ASSUME BInv, NEW rest \in Nat, NEW action \in Action \ {"none"}, Answer(rest, action)
  PROVE  /\ linked' = linked
         /\ linked => age' = 0 /\ shown' = "packet"
         /\ ~linked => age' = age /\ shown' = shown
         /\ rest > 0 => last' = "home"
         /\ rest = 0 => last' = "neutral"
<1>1. BridgeTypeOK
  BY DEF BInv
<1>2. CASE rest > 0
  BY <1>1, <1>2, WriteEffect DEF Answer
<1>3. CASE rest = 0
  BY <1>1, <1>3, WriteEffect DEF Answer
<1>. QED
  BY <1>2, <1>3

\* At the top of the loop, wake <= 0, homeRun is that of one pulse at most.
LEMMA RunAtTop ==
  ASSUME BInv, RunInv, AtTop
  PROVE  /\ homeRun + wake <= PulseEnd /\ homeRun <= PulseEnd + MaxLate
         /\ homeRun <= LastPulse
         /\ was_focused => homeRun = 0
<1>1. wake <= 0 /\ pc = "loop"
  BY DEF AtTop
<1>2. homeRun + wake <= PulseEnd
  BY <1>1, RunTypes DEF RunInv, LoopRun
<1>3. was_focused => ~(homeRun > 0)
  BY <1>1, RunTypes DEF RunInv, LoopRun
<1>4. homeRun <= PulseEnd + MaxLate /\ homeRun <= LastPulse
  BY <1>2, RunTypes, BridgeAssumption DEF PulseEnd, LastPulse
<1>. QED
  BY <1>2, <1>3, <1>4, RunTypes

LEMMA RunPadLost == ASSUME Pulsed, BInv, RunInv, PadLost PROVE RunInv'
<1>. DEFINE pulse == DisconnectAction = "home" /\ cooldownLeft = 0
            rest == IF pulse THEN HomeDuration ELSE disconnectLeft
<1>1. rest \in Nat
  BY TypeInParts, BridgeAssumption DEF BInv, Counters
<1>2. DisconnectAction \in Action \ {"none"}
  BY BridgeAssumption DEF Pulsed, NoSilence
<1>3. Answer(rest, DisconnectAction)
  BY DEF PadLost
<1>4. /\ linked' = linked
      /\ linked => age' = 0 /\ shown' = "packet"
      /\ ~linked => age' = age /\ shown' = shown
  BY <1>1, <1>2, <1>3, RunAnswer
<1>5. AtTop /\ pc' = "retry" /\ wake' = RETRY /\ homeRun' = homeRun
  BY DEF PadLost
<1>6. BoardRun'
  BY <1>4, <1>5, RunAtTop, RunWrite DEF RunInv
<1>7. RetryRun'
  <2>1. wake' >= RETRY - FreshReports /\ (age' = 0 => age' + wake' = RETRY)
    BY <1>5, BridgeAssumption
  <2>. QED
    BY <1>4, <2>1, Zenon DEF RetryRun
<1>. QED
  BY <1>5, <1>6, <1>7 DEF RunInv, LoopRun, ChordRun, HomeIsReleased

LEMMA RunRecreatePad == ASSUME BInv, RunInv, RecreatePad PROVE RunInv'
<1>1. UNCHANGED <<was_focused, inactiveLeft, chordLeft, last, linked, age, shown, homeRun>>
  BY DEF RecreatePad, timers, board
<1>2. /\ pc = "retry" /\ wake <= 0
      /\ (pc' = "loop" /\ wake' = 0) \/ (pc' = "nopad" /\ wake' = RETRY)
  BY Zenon DEF RecreatePad
<1>3. homeRun = 0
  BY <1>2, RunTypes, BridgeAssumption, GapAssumption DEF RunInv, RetryRun
<1>4. linked => age >= FreshReports
  BY <1>2, RunTypes, BridgeAssumption, GapAssumption DEF RunInv, RetryRun
<1>5. LoopRun'
  BY <1>1, <1>2, <1>3, <1>4, RunTypes, BridgeAssumption DEF LoopRun, PulseEnd
<1>. QED
  BY <1>1, <1>2, <1>5 DEF RunInv, RetryRun, ChordRun, BoardRun, HomeIsReleased

LEMMA RunUnfocused == ASSUME Pulsed, BInv, RunInv, Unfocused PROVE RunInv'
<1>1. inactiveLeft' \in Nat /\ inactiveLeft' <= HomeDuration
  BY RunTypes, BridgeAssumption DEF Unfocused
<1>2. InactiveAction \in Action \ {"none"}
  BY BridgeAssumption DEF Pulsed, NoSilence
<1>3. Answer(inactiveLeft', InactiveAction)
  BY DEF Unfocused
<1>4. /\ linked' = linked
      /\ linked => age' = 0 /\ shown' = "packet"
      /\ ~linked => age' = age /\ shown' = shown
      /\ inactiveLeft' > 0 => last' = "home"
      /\ inactiveLeft' = 0 => last' = "neutral"
  BY <1>1, <1>2, <1>3, RunAnswer
<1>5. AtTop /\ pc' = "loop" /\ wake' = SEND /\ homeRun' = homeRun /\ was_focused' = FALSE
  BY DEF Unfocused, AtTop
<1>6. /\ homeRun + wake <= PulseEnd /\ homeRun <= PulseEnd + MaxLate
      /\ homeRun <= LastPulse
      /\ was_focused => homeRun = 0
  BY <1>5, RunAtTop
<1>7. BoardRun'
  BY <1>4, <1>5, <1>6, RunWrite DEF RunInv
<1>8. inactiveLeft' > 0 => homeRun + inactiveLeft' <= HomeDuration
  <2>0. homeRun <= 0 => homeRun + inactiveLeft' <= HomeDuration
    BY <1>1, RunTypes, BridgeAssumption
  <2>1. CASE was_focused
    BY <2>0, <2>1, <1>6
  <2>2. CASE ~was_focused
    <3>1. inactiveLeft' = inactiveLeft
      BY <2>2 DEF Unfocused
    <3>. QED
      BY <2>2, <3>1, <1>5 DEF RunInv, LoopRun, AtTop
  <2>. QED
    BY <2>1, <2>2
<1>9. LoopRun'
  <2>1. CASE inactiveLeft' > 0
    <3>1. homeRun' + wake' <= PulseEnd
      BY <2>1, <1>1, <1>5, <1>8, RunTypes, BridgeAssumption DEF PulseEnd
    <3>. QED
      BY <3>1, <1>5, <1>8, BridgeAssumption DEF LoopRun
  <2>2. CASE inactiveLeft' = 0
    <3>1. last' # "home" /\ wake' > 0 /\ homeRun' <= PulseEnd + MaxLate /\ wake' <= SEND
      BY <2>2, <1>4, <1>5, <1>6, BridgeAssumption
    <3>. QED
      BY <3>1, <2>2, <1>5 DEF LoopRun, PulseEnd
  <2>. QED
    BY <1>1, <2>1, <2>2
<1>. QED
  BY <1>5, <1>7, <1>9 DEF RunInv, RetryRun, ChordRun, HomeIsReleased

LEMMA RunStream == ASSUME BInv, RunInv, Stream PROVE RunInv'
<1>1. BridgeTypeOK
  BY DEF BInv
<1>2. /\ last' = "input" /\ linked' = linked
      /\ linked => age' = 0 /\ shown' = "packet"
      /\ ~linked => age' = age /\ shown' = shown
  BY <1>1, WriteEffect DEF Stream
<1>3. AtTop /\ pc' = "loop" /\ wake' = SEND /\ homeRun' = homeRun /\ was_focused' = TRUE
  BY DEF Stream, AtTop
<1>4. BoardRun'
  BY <1>2, <1>3, RunAtTop, RunWrite DEF RunInv
<1>5. wake' <= SEND /\ wake' > 0 /\ homeRun' <= PulseEnd + MaxLate
  BY <1>3, RunAtTop, BridgeAssumption
<1>6. LoopRun'
  BY <1>2, <1>3, <1>5 DEF LoopRun, PulseEnd
<1>. QED
  BY <1>3, <1>4, <1>6 DEF RunInv, RetryRun, ChordRun, HomeIsReleased

LEMMA RunChordPressed == ASSUME BInv, RunInv, ChordPressed PROVE RunInv'
<1>1. /\ UNCHANGED <<wake, last, linked, age, shown, homeRun>>
      /\ AtTop /\ pc' = "chord" /\ chordLeft' = HomeDuration
  BY DEF ChordPressed, board
<1>2. homeRun + wake <= PulseEnd /\ homeRun <= PulseEnd + MaxLate
  BY <1>1, RunAtTop
<1>3. ChordRun'
  BY <1>1, <1>2, RunTypes, BridgeAssumption DEF ChordRun, PulseEnd, LastPulse
<1>. QED
  BY <1>1, <1>3 DEF RunInv, LoopRun, RetryRun, BoardRun, HomeIsReleased

LEMMA RunChordPulse == ASSUME BInv, RunInv, ChordPulse PROVE RunInv'
<1>1. BridgeTypeOK
  BY DEF BInv
<1>2. /\ last' = "home" /\ linked' = linked
      /\ linked => age' = 0 /\ shown' = "packet"
      /\ ~linked => age' = age /\ shown' = shown
  BY <1>1, WriteEffect DEF ChordPulse
<1>3. /\ pc = "chord" /\ pc' = "chord" /\ chordLeft > 0 /\ wake' = SEND
      /\ UNCHANGED <<chordLeft, homeRun>>
  BY DEF ChordPulse, timers
<1>4. homeRun + chordLeft <= LastPulse + 1
  BY <1>3 DEF RunInv, ChordRun
<1>5. homeRun <= LastPulse
  BY <1>3, <1>4, RunTypes
<1>6. BoardRun'
  BY <1>2, <1>3, <1>5, RunWrite DEF RunInv
<1>7. ChordRun'
  BY <1>3, <1>4, <1>5, RunTypes, BridgeAssumption DEF ChordRun, LastPulse
<1>. QED
  BY <1>3, <1>6, <1>7 DEF RunInv, LoopRun, RetryRun, HomeIsReleased

LEMMA RunChordEnds == ASSUME BInv, RunInv, ChordEnds PROVE RunInv'
<1>1. BridgeTypeOK
  BY DEF BInv
<1>2. /\ last' = "neutral" /\ linked' = linked
      /\ linked => age' = 0 /\ shown' = "packet"
      /\ ~linked => age' = age /\ shown' = shown
  BY <1>1, WriteEffect DEF ChordEnds
<1>3. pc' = "ended" /\ homeRun' = homeRun
  BY DEF ChordEnds
<1>4. BoardRun'
  BY <1>2, <1>3, RunWrite DEF RunInv
<1>. QED
  BY <1>3, <1>4 DEF RunInv, LoopRun, RetryRun, ChordRun, HomeIsReleased

\* The board, one report later, in numbers.
LEMMA RunTimeline ==
  ASSUME NEW n \in Nat
  PROVE  /\ Board!Timeline(n) = "packet" => n < FreshReports
         /\ Board!Timeline(n) = "home" => n >= HomeStart /\ n < HomeStart + HomeLen
         /\ Board!Timeline(n) = "empty" => n >= FreshReports
         /\ Board!Timeline(n) \in {"packet", "home", "empty"}
  BY BridgeAssumption DEF Board!Timeline

LEMMA RunTick == ASSUME Pulsed, BInv, RunInv, Tick PROVE RunInv'
<1>1. BridgeTypeOK /\ Flags /\ Counters
  BY TypeInParts DEF BInv
<1>t. /\ wake \in Int /\ -MaxLate <= wake /\ wake <= RETRY
      /\ inactiveLeft \in Nat /\ inactiveLeft <= HomeDuration
      /\ chordLeft \in Nat /\ chordLeft <= HomeDuration
      /\ age \in Nat /\ age <= HomeStart + HomeLen
      /\ homeRun \in Nat
      /\ PulseEnd \in Int /\ LastPulse \in Int
  BY RunTypes
<1>2. /\ pc' = pc /\ was_focused' = was_focused /\ last' = last /\ linked' = linked
      /\ homeRun' = IF HomeSeen' THEN homeRun + 1 ELSE 0
  BY DEF Tick, Board!SendReport, Board!SendUnlinked
<1>3. pc \in Running => (wake > -MaxLate /\ wake' = wake - 1)
  BY DEF Tick, Running, Over
<1>4. /\ inactiveLeft' > 0 => (inactiveLeft > 0 /\ inactiveLeft' = inactiveLeft - 1)
      /\ chordLeft' > 0 => (chordLeft > 0 /\ chordLeft' = chordLeft - 1)
      /\ inactiveLeft' \in Nat /\ inactiveLeft' <= HomeDuration
      /\ chordLeft' \in Nat /\ chordLeft' <= HomeDuration
  BY <1>t, BridgeAssumption DEF Tick, Before
<1>5. CASE ~linked
  <2>1. shown' = "empty" /\ homeRun' = 0
    BY <1>2, <1>5 DEF Tick, Board!SendReport, Board!SendUnlinked, HomeSeen
  <2>2. BoardRun'
    BY <1>2, <1>5, <2>1 DEF BoardRun
  <2>3. HomeIsReleased'
    BY <2>1, BridgeAssumption DEF HomeIsReleased
  <2>4. LoopRun'
    <3>1. pc = "loop" => wake' <= SEND /\ homeRun' + wake' <= PulseEnd
      BY <1>t, <1>3, <2>1, BridgeAssumption DEF RunInv, LoopRun, PulseEnd, Running
    <3>2. ~(homeRun' > 0) /\ homeRun' + inactiveLeft' <= HomeDuration
      BY <1>4, <2>1
    <3>. QED
      BY <3>1, <3>2, <1>2, <1>5, Zenon DEF LoopRun
  <2>5. RetryRun'
    BY <1>2, <1>5, <2>1 DEF RetryRun
  <2>6. ChordRun'
    <3>1. pc = "chord" => wake' <= LastPulse + SEND
      BY <1>t, <1>3, BridgeAssumption DEF RunInv, ChordRun, Running
    <3>2. chordLeft' <= LastPulse + 1
      BY <1>t, <1>4, BridgeAssumption DEF LastPulse
    <3>3. wake' \in Int
      BY <1>t DEF Tick
    <3>. QED
      BY <3>1, <3>2, <3>3, <1>2, <1>4, <2>1 DEF ChordRun
  <2>. QED
    BY <2>2, <2>3, <2>4, <2>5, <2>6 DEF RunInv
<1>6. CASE linked
  <2>1. /\ shown' = Board!Timeline(age)
        /\ age' = IF age < HomeStart + HomeLen THEN age + 1 ELSE age
    BY <1>6 DEF Tick, Board!SendReport, Board!SendUnlinked
  <2>2. /\ shown' = "packet" => age < FreshReports
        /\ shown' = "home" => age >= HomeStart /\ age < HomeStart + HomeLen
        /\ shown' = "empty" => age >= FreshReports
        /\ shown' \in {"packet", "home", "empty"}
    BY <1>t, <2>1, RunTimeline
  <2>3. /\ shown' = "packet" => (age' = age + 1 /\ age' <= FreshReports)
        /\ shown' = "home" => age' = age + 1
        /\ shown' = "empty" => age' > FreshReports
    BY <1>t, <2>1, <2>2, BridgeAssumption
  <2>b. /\ shown = "packet" => age <= FreshReports
        /\ (shown = "packet" /\ last = "home") => homeRun <= LastPulse + age
        /\ shown = "home" => homeRun + HomeStart <= age
        /\ shown = "empty" => (homeRun = 0 /\ age > FreshReports)
        /\ shown \in {"packet", "home", "empty"}
    BY <1>1, <1>6 DEF RunInv, BoardRun, Counters
  <2>4. /\ HomeSeen' <=> (shown' = "home" \/ (shown' = "packet" /\ last' = "home"))
        /\ HomeSeen' => homeRun' = homeRun + 1
        /\ ~HomeSeen' => homeRun' = 0
    BY <1>2 DEF HomeSeen
  <2>5. /\ shown' = "packet" => age' <= FreshReports
        /\ (shown' = "packet" /\ last' = "home") => homeRun' <= LastPulse + age'
        /\ shown' = "home" => homeRun' + HomeStart <= age'
        /\ shown' = "empty" => (homeRun' = 0 /\ age' > FreshReports)
    <3>1. CASE shown' = "packet"
      <4>1. shown = "packet"
        BY <3>1, <2>2, <2>b, <1>t, BridgeAssumption
      <4>2. last' = "home" => homeRun' = homeRun + 1 /\ homeRun <= LastPulse + age
        BY <3>1, <4>1, <2>4, <2>b, <1>2
      <4>. QED
        BY <3>1, <4>2, <2>3, <1>t
    <3>2. CASE shown' = "home"
      <4>1. shown # "packet"
        BY <3>2, <2>2, <2>b, <1>t, BridgeAssumption
      <4>2. homeRun + HomeStart <= age
        BY <3>2, <4>1, <2>2, <2>b, <1>t, BridgeAssumption
      <4>. QED
        BY <3>2, <4>2, <2>3, <2>4, <1>t, BridgeAssumption
    <3>3. CASE shown' = "empty"
      BY <3>3, <2>3, <2>4
    <3>. QED
      BY <3>1, <3>2, <3>3, <2>2
  <2>6. BoardRun'
    BY <2>5, <1>2, <1>6, Zenon DEF BoardRun
  <2>7. HomeIsReleased'
    <3>1. CASE HomeSeen' /\ shown' = "packet"
      BY <3>1, <2>4, <2>5, <2>2, <2>3, <1>t, BridgeAssumption DEF HomeIsReleased, LastPulse
    <3>2. CASE HomeSeen' /\ shown' = "home"
      BY <3>2, <2>5, <2>2, <2>3, <2>4, <1>t, BridgeAssumption DEF HomeIsReleased, Pulsed
    <3>3. CASE ~HomeSeen'
      BY <3>3, <2>4, BridgeAssumption DEF HomeIsReleased
    <3>. QED
      BY <3>1, <3>2, <3>3, <2>4
  <2>8. pc \in {"loop", "chord", "retry"} => (HomeSeen' => (shown' = "packet" /\ last = "home"))
    <3>1. pc \in {"loop", "chord", "retry"} => shown' # "home"
      BY TickStep, <1>2 DEF BInv, Facts, FailsafeStaysQuiet, Pulsed, NoSilence, Running
    <3>. QED
      BY <3>1, <2>4, <1>2
  <2>9. LoopRun'
    <3>. SUFFICES ASSUME pc = "loop" PROVE LoopRun'
      BY <1>2 DEF LoopRun
    <3>1. wake' = wake - 1 /\ wake <= SEND
      BY <1>3 DEF Running, RunInv, LoopRun
    <3>2. CASE HomeSeen'
      <4>1. last = "home" /\ last' = "home" /\ homeRun' = homeRun + 1
        BY <3>2, <2>4, <2>8, <1>2
      <4>2. homeRun + wake <= PulseEnd
        BY <4>1 DEF RunInv, LoopRun
      <4>3. ~was_focused
        <5>1. age < FreshReports
          BY <3>2, <2>2, <2>8
        <5>. QED
          BY <4>1, <5>1, <1>t, <1>6, BridgeAssumption DEF RunInv, LoopRun
      <4>4. inactiveLeft > 0 => homeRun + inactiveLeft <= HomeDuration
        BY <4>3 DEF RunInv, LoopRun
      <4>5. homeRun' + wake' <= PulseEnd /\ wake' <= SEND
        BY <4>1, <4>2, <3>1, <1>t, BridgeAssumption
      <4>6. inactiveLeft' > 0 => homeRun' + inactiveLeft' <= HomeDuration
        BY <4>1, <4>4, <1>t, <1>4, BridgeAssumption
      <4>. QED
        BY <4>3, <4>5, <4>6, <1>2, Zenon DEF LoopRun
    <3>3. CASE ~HomeSeen'
      <4>1. homeRun' = 0 /\ ~(homeRun' > 0)
        BY <3>3, <2>4
      <4>2. homeRun' + wake' <= PulseEnd /\ wake' <= SEND
        BY <4>1, <3>1, <1>t, BridgeAssumption DEF PulseEnd
      <4>3. homeRun' + inactiveLeft' <= HomeDuration
        BY <4>1, <1>4
      <4>4. (was_focused /\ last = "home") => age' >= FreshReports
        <5>1. (was_focused /\ last = "home") => age >= FreshReports
          BY <1>6 DEF RunInv, LoopRun
        <5>. QED
          BY <5>1, <2>1, <1>t, BridgeAssumption
      <4>. QED
        BY <4>1, <4>2, <4>3, <4>4, <1>2, Zenon DEF LoopRun
    <3>. QED
      BY <3>2, <3>3
  <2>10. RetryRun'
    <3>. SUFFICES ASSUME pc = "retry" PROVE RetryRun'
      BY <1>2 DEF RetryRun
    <3>1. wake' = wake - 1 /\ age + wake = RETRY /\ wake > -MaxLate
      BY <1>3, <1>6 DEF Running, RunInv, RetryRun
    <3>2. age' + wake' = RETRY
      BY <3>1, <2>1, <1>t, BridgeAssumption, GapAssumption
    <3>3. homeRun' > 0 => wake' >= RETRY - FreshReports
      <4>1. homeRun' > 0 => age < FreshReports
        BY <2>2, <2>4, <2>8
      <4>. QED
        BY <4>1, <3>1, <1>t, BridgeAssumption
    <3>. QED
      BY <3>2, <3>3, Zenon DEF RetryRun
  <2>11. ChordRun'
    <3>. SUFFICES ASSUME pc = "chord" PROVE ChordRun'
      BY <1>2 DEF ChordRun
    <3>1. wake' = wake - 1
      BY <1>3 DEF Running
    <3>2. /\ homeRun + wake <= LastPulse + SEND
          /\ chordLeft > 0 => homeRun + chordLeft <= LastPulse + 1
      BY DEF RunInv, ChordRun
    <3>3. homeRun' = homeRun + 1 \/ homeRun' = 0
      BY <2>4
    <3>4. homeRun' + wake' <= LastPulse + SEND
      <4>1. CASE homeRun' = homeRun + 1
        BY <4>1, <3>1, <3>2, <1>t, BridgeAssumption
      <4>2. CASE homeRun' = 0
        BY <4>2, <3>1, <3>2, <1>t, BridgeAssumption DEF LastPulse
      <4>. QED
        BY <3>3, <4>1, <4>2
    <3>5. chordLeft' > 0 => homeRun' + chordLeft' <= LastPulse + 1
      BY <3>2, <3>3, <1>t, <1>4, BridgeAssumption DEF LastPulse
    <3>. QED
      BY <3>4, <3>5, <1>2 DEF ChordRun
  <2>. QED
    BY <2>6, <2>7, <2>9, <2>10, <2>11 DEF RunInv
<1>. QED
  BY <1>5, <1>6

\* A HOME that no player pressed is let go after two pulses and one repetition of
\* their last packet, however pads, windows, the chord, resets of the board and late
\* sleeps fall together.  With the action "none" the failsafe's own HOME may come
\* right before a pulse, and the bound is another one.
THEOREM BridgeReleasesHome == Pulsed => (BridgeSpec => []HomeIsReleased)
<1>. SUFFICES ASSUME Pulsed PROVE BridgeSpec => []HomeIsReleased
  OBVIOUS
<1>1. BridgeInit => RunInv
  BY RunInit
<1>2. ASSUME BInv, RunInv, [BridgeNext]_bridgeVars PROVE RunInv'
  BY <1>2, RunEnvironment, RunBoardReset, RunPadLost, RunRecreatePad, RunUnfocused, RunStream,
     RunChordPressed, RunChordPulse, RunChordEnds, RunTick
  DEF BridgeNext, LoopStep
<1>3. RunInv => HomeIsReleased
  BY DEF RunInv
<1>. QED
  BY <1>1, <1>2, <1>3, BridgeInvariance, PTL DEF BridgeSpec
=============================================================================
