---------------------------- MODULE SocketServer ----------------------------
(***************************************************************************)
(* xInput2Serial/xinput2serial.py: the threads of PadSocket (the one that  *)
(* made it, _serve, and a _handle_client for every peer), what they count  *)
(* and the status file that each of them writes.                           *)
(*                                                                         *)
(* _write_status takes its data with the lock and writes them without it,  *)
(* by way of one temporary file that all the threads share.  On Windows a  *)
(* file that somebody has open cannot be renamed: replace then fails, as   *)
(* it does when the file is gone, and the failure is logged.               *)
(***************************************************************************)
EXTENDS Integers, FiniteSets

CONSTANTS Peer, MaxEvents

ASSUME SocketServerAssumption ==
  IsFiniteSet(Peer) /\ MaxEvents \in Nat /\ "init" \notin Peer /\ "serve" \notin Peer

VARIABLES
  serve,          \* where _serve is
  phase,          \* peer -> where its connection is
  closed,         \* the peers that have hung up
  running,
  active_peers,
  total_events,
  job,            \* thread -> where it is in _write_status
  data,           \* thread -> what it has to write
  tmp, status     \* what the two files hold

serverVars == <<serve, phase, closed, running, active_peers, total_events, job, data, tmp, status>>
counters == <<running, active_peers, total_events>>
files == <<data, tmp, status>>

Thread == {"init", "serve"} \cup Peer

Empty == [peers |-> 0, events |-> -1]     \* opened and truncated
Mixed == [peers |-> 0, events |-> -2]     \* written by one thread over what another wrote
Missing == [peers |-> 0, events |-> -3]

\* The data of _write_status.
Current == [peers |-> active_peers, events |-> total_events]

Content == [peers : Nat, events : Int]
Phase == {"none", "queued", "accepted", "handling", "gone"}
WriteStage == {"idle", "due", "snapped", "open", "written"}

ServerTypeOK ==
  /\ serve \in {"bind", "accept", "start", "stopped"} /\ phase \in [Peer -> Phase] /\ closed \subseteq Peer
  /\ running \in BOOLEAN /\ active_peers \in Nat /\ total_events \in 0..MaxEvents
  /\ job \in [Thread -> WriteStage] /\ data \in [Thread -> Content]
  /\ tmp \in Content /\ status \in Content

ServerInit ==
  /\ serve = "bind" /\ phase = [p \in Peer |-> "none"] /\ closed = {}
  /\ running = TRUE /\ active_peers = 0 /\ total_events = 0
  /\ job = [t \in Thread |-> IF t = "init" THEN "due" ELSE "idle"]
  /\ data = [t \in Thread |-> Missing] /\ tmp = Missing /\ status = Missing

\* The thread goes on to _write_status.
Due(t) == job[t] = "idle" /\ job' = [job EXCEPT ![t] = "due"]

(***************************************************************************)
(* _serve                                                                  *)
(***************************************************************************)
Bind ==
  /\ serve = "bind" /\ serve' = "accept" /\ Due("serve")
  /\ UNCHANGED <<phase, closed, counters, files>>

\* bind or accept raises OSError.
Fail ==
  /\ serve \in {"bind", "accept"} /\ serve' = "stopped" /\ Due("serve")
  /\ running' = FALSE
  /\ UNCHANGED <<phase, closed, active_peers, total_events, files>>

Accept(p) ==
  /\ serve = "accept" /\ phase[p] = "queued" /\ Due("serve")
  /\ serve' = "start" /\ phase' = [phase EXCEPT ![p] = "accepted"]
  /\ active_peers' = active_peers + 1
  /\ UNCHANGED <<closed, running, total_events, files>>

StartHandler(p) ==
  /\ serve = "start" /\ job["serve"] = "idle" /\ phase[p] = "accepted"
  /\ serve' = "accept" /\ phase' = [phase EXCEPT ![p] = "handling"]
  /\ UNCHANGED <<closed, counters, job, files>>

(***************************************************************************)
(* The peers and _handle_client                                            *)
(***************************************************************************)
Connect(p) ==
  /\ phase[p] = "none" /\ serve # "stopped" /\ phase' = [phase EXCEPT ![p] = "queued"]
  /\ UNCHANGED <<serve, closed, counters, job, files>>
HangUp(p) ==
  /\ phase[p] \in {"queued", "accepted", "handling"} /\ closed' = closed \cup {p}
  /\ UNCHANGED <<serve, phase, counters, job, files>>

\* A line that is not empty: the event is counted and applied (SocketPad).
HandleLine(p) ==
  /\ phase[p] = "handling" /\ total_events < MaxEvents /\ Due(p)
  /\ total_events' = total_events + 1
  /\ UNCHANGED <<serve, phase, closed, running, active_peers, files>>

\* A line whose event has no get, or no number for a duration: the thread ends by an error.
BadLine(p) ==
  /\ phase[p] = "handling" /\ total_events < MaxEvents /\ Due(p)
  /\ total_events' = total_events + 1
  /\ active_peers' = IF active_peers > 0 THEN active_peers - 1 ELSE 0
  /\ phase' = [phase EXCEPT ![p] = "gone"]
  /\ UNCHANGED <<serve, closed, running, files>>

\* Faulty variant of Leave: recv without data is not the end.
LeaveNever(p) == phase[p] = "handling" /\ p \in closed /\ UNCHANGED serverVars

\* recv returns nothing or raises: the finally clause.
Leave(p) ==
  /\ phase[p] = "handling" /\ p \in closed /\ Due(p)
  /\ active_peers' = IF active_peers > 0 THEN active_peers - 1 ELSE 0
  /\ phase' = [phase EXCEPT ![p] = "gone"]
  /\ UNCHANGED <<serve, closed, running, total_events, files>>

(***************************************************************************)
(* _write_status                                                           *)
(***************************************************************************)
Goes(t, from, to) == job[t] = from /\ job' = [job EXCEPT ![t] = to] /\ UNCHANGED <<serve, phase, closed, counters>>

Snap(t) ==
  /\ Goes(t, "due", "snapped")
  /\ data' = [data EXCEPT ![t] = Current]
  /\ UNCHANGED <<tmp, status>>
Open(t) ==
  /\ Goes(t, "snapped", "open")
  /\ tmp' = Empty
  /\ UNCHANGED <<data, status>>

Put(t) ==
  /\ Goes(t, "open", "written")
  /\ tmp' \in {data[t]} \cup (IF tmp \notin {Empty, data[t]} THEN {Mixed} ELSE {})
  /\ UNCHANGED <<data, status>>

\* Faulty variant of MayRename: a file can be renamed while it is open.
MayRenameOpen == tmp # Missing

MayRename == tmp # Missing /\ \A t \in Thread : job[t] # "open"
Replace(t) ==
  /\ Goes(t, "written", "idle")
  /\ IF MayRename THEN status' = tmp /\ tmp' = Missing ELSE UNCHANGED <<tmp, status>>
  /\ data' = [data EXCEPT ![t] = Missing]

ServerNext ==
  \/ Bind \/ Fail
  \/ \E p \in Peer : \/ Accept(p) \/ StartHandler(p) \/ Connect(p) \/ HangUp(p)
                     \/ HandleLine(p) \/ BadLine(p) \/ Leave(p)
  \/ \E t \in Thread : Snap(t) \/ Open(t) \/ Put(t) \/ Replace(t)

ServerSpec == ServerInit /\ [][ServerNext]_serverVars

\* Threads that can go on do.
ServerFairSpec ==
  /\ ServerSpec
  /\ \A t \in Thread : WF_serverVars(Snap(t) \/ Open(t) \/ Put(t) \/ Replace(t))
  /\ \A p \in Peer : WF_serverVars(StartHandler(p)) /\ WF_serverVars(Leave(p))

(***************************************************************************)
(* Properties                                                              *)
(***************************************************************************)

\* active_peers is the number of connections that were accepted and whose thread has not
\* ended, however the threads ended; it never sticks at the bound of max(0, ...).
PeersAreCounted == active_peers = Cardinality({p \in Peer : phase[p] \in {"accepted", "handling"}})

Quiet == serve # "start" /\ \A t \in Thread : job[t] = "idle"

\* The temporary file does not outlive its writers, whoever failed to rename it.
NoTmpLeft == Quiet => tmp = Missing

\* Whoever reads the status file never finds it truncated.
StatusIsNeverEmpty == status # Empty

\* A peer that hung up after it was accepted is not counted for ever.
ClosedPeerLeaves ==
  \A p \in Peer : (p \in closed /\ phase[p] \in {"accepted", "handling"}) ~> phase[p] = "gone"

\* The status is sound: it counts the peers that are there, is never seen half written and
\* leaves no temporary file, whichever of the threads that write it fail.
ServerIsSound == ServerTypeOK /\ PeersAreCounted /\ NoTmpLeft /\ StatusIsNeverEmpty
=============================================================================
