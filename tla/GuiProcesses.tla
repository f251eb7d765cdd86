---------------------------- MODULE GuiProcesses ----------------------------
(***************************************************************************)
(* gui/SwitchAutomationGui.py: the bridge and the Discord bot that the GUI *)
(* starts and stops.  Every handler runs in the Tk thread; a thread for    *)
(* each child reads its output, and its last words go through a queue that *)
(* the Tk thread drains.                                                   *)
(***************************************************************************)
EXTENDS Integers, Sequences

CONSTANT MaxStart      \* bound on the starts of either child

ASSUME GuiAssumption == MaxStart \in Nat

Kind == {"bridge", "discord"}
NoProcess == 0

VARIABLES
  started,       \* kind -> how many processes were started, numbered from 1
  process,       \* kind -> bridge_process or discord_process, None before the first
  child,         \* <<kind, number>> -> "none", "running", "dying" or "dead"
  reader,        \* <<kind, number>> -> whether its _read_process thread is running
  output_queue,  \* the status messages in it
  label,         \* discord_status_var
  open           \* until on_close

guiVars == <<started, process, child, reader, output_queue, label, open>>

Child == Kind \X (1..MaxStart)

GuiTypeOK ==
  /\ started \in [Kind -> 0..MaxStart] /\ process \in [Kind -> 0..MaxStart]
  /\ child \in [Child -> {"none", "running", "dying", "dead"}] /\ reader \in [Child -> BOOLEAN]
  /\ output_queue \in Seq({"stopped"}) /\ Len(output_queue) <= MaxStart
  /\ label \in {"stopped", "running", "stopping"} /\ open \in BOOLEAN

GuiInit ==
  /\ started = [k \in Kind |-> 0] /\ process = [k \in Kind |-> NoProcess]
  /\ child = [c \in Child |-> "none"] /\ reader = [c \in Child |-> FALSE]
  /\ output_queue = <<>> /\ label = "stopped" /\ open = TRUE

\* Faulty variant of Alive: a child that was told to end no longer counts.
AliveUntilTold(k) == process[k] # NoProcess /\ child[<<k, process[k]>>] = "running"

\* "self.bridge_process and self.bridge_process.poll() is None"
Alive(k) == process[k] # NoProcess /\ child[<<k, process[k]>>] \in {"running", "dying"}

Says(k, word) == label' = IF k = "discord" THEN word ELSE label

\* start_bridge, start_discord_bot; nothing happens if the child runs, the settings are not
\* valid, cannot be saved, or Popen fails.
StartChild(k) ==
  /\ open /\ ~Alive(k) /\ started[k] < MaxStart
  /\ started' = [started EXCEPT ![k] = @ + 1] /\ process' = [process EXCEPT ![k] = started'[k]]
  /\ child' = [child EXCEPT ![<<k, started'[k]>>] = "running"]
  /\ reader' = [reader EXCEPT ![<<k, started'[k]>>] = TRUE]
  /\ Says(k, "running")
  /\ UNCHANGED <<output_queue, open>>

\* terminate: the process ends a little later
Terminate(K) ==
  child' = [c \in Child |-> IF c[1] \in K /\ Alive(c[1]) /\ c[2] = process[c[1]] THEN "dying" ELSE child[c]]

\* stop_bridge, stop_discord_bot
StopChild(k) ==
  /\ open /\ Terminate({k})
  /\ IF Alive(k) THEN Says(k, "stopping") ELSE Says(k, "stopped")
  /\ UNCHANGED <<started, process, reader, output_queue, open>>

OnClose ==
  /\ open /\ open' = FALSE /\ Terminate(Kind)
  /\ UNCHANGED <<started, process, reader, output_queue, label>>

\* A child ends: it was told to, it fails, or the Post script stops it.
Ends(c) ==
  /\ child[c] \in {"running", "dying"} /\ child' = [child EXCEPT ![c] = "dead"]
  /\ UNCHANGED <<started, process, reader, output_queue, label, open>>

\* Faulty variant of LastWords: nothing is reported.
LastWordsNone(c) == output_queue

LastWords(c) == IF c[1] = "discord" THEN Append(output_queue, "stopped") ELSE output_queue

\* _read_process, from the end of the output on
ReadProcess(c) ==
  /\ reader[c] /\ child[c] = "dead" /\ reader' = [reader EXCEPT ![c] = FALSE]
  /\ output_queue' = LastWords(c)
  /\ UNCHANGED <<started, process, child, label, open>>

\* _drain_output empties the queue.
DrainOutput ==
  /\ open /\ output_queue # <<>> /\ output_queue' = <<>> /\ label' = output_queue[Len(output_queue)]
  /\ UNCHANGED <<started, process, child, reader, open>>

GuiNext ==
  \/ \E k \in Kind : StartChild(k) \/ StopChild(k)
  \/ OnClose \/ DrainOutput
  \/ \E c \in Child : Ends(c) \/ ReadProcess(c)

\* A reader thread is not held up once its child is gone; Tk runs its timer every 100 ms.
GuiSpec ==
  /\ GuiInit /\ [][GuiNext]_guiVars
  /\ WF_guiVars(DrainOutput) /\ \A c \in Child : WF_guiVars(ReadProcess(c))

(***************************************************************************)
(* Properties                                                              *)
(***************************************************************************)

\* Two bridges or two bots never run side by side, and the one that runs can be stopped: it
\* is the one the GUI holds, however starts, stops and ends follow each other.
NoneForgotten == \A c \in Child : child[c] \in {"running", "dying"} => c[2] = process[c[1]]

\* When the window is closed no child is left running.
NoOrphan == ~open => \A c \in Child : child[c] # "running"

\* The label does not stay at "running" or "Stopping" once the bot is gone for good.
StoppedIsShown ==
  <>[](open /\ \A c \in Child : c[1] = "discord" => child[c] \in {"none", "dead"}) => <>[](label = "stopped")

\* Every child has an owner: the GUI holds the one of each kind that runs, and the window does
\* not close on one that is running.
ChildrenAreOwned == NoneForgotten /\ NoOrphan

\* The label tells of the bot: it keeps its type and does not outlive the bot.
LabelFollowsBot == []GuiTypeOK /\ StoppedIsShown
=============================================================================
