--------------------------- MODULE SimOrchestrator ---------------------------
(***************************************************************************)
(* sim_orchestrator_node.py: run_scenario goals and the launch each of     *)
(* them starts.  The executor is multi-threaded and the callback group     *)
(* reentrant, so the callbacks of all goals interleave; a step ends where  *)
(* the code blocks, or publishes what a client may act on.                 *)
(* One launch is a leader, the "ros2 launch" the orchestrator holds, and   *)
(* the nodes it started in the same process group.                         *)
(***************************************************************************)

CONSTANTS
  Goals,          \* run_scenario goals, each a request of its own
  None,           \* no run, no process
  Known,          \* goals whose scenario and overlay resolve
  LaunchMayFail   \* Popen may raise

ASSUME OrchAssumption ==
  /\ None \notin Goals /\ Known \subseteq Goals
  /\ LaunchMayFail \in BOOLEAN

VARIABLES
  patient,   \* whether the clients wait for each other's goal to be answered
  state,     \* _state
  proc,      \* _proc, by the goal it was launched for
  run,       \* _run_id and _scenario_id
  pc,        \* of each goal: how far it, or its execute callback, has come
  waits,     \* the process a _terminate_proc waits for
  cancel,    \* goals whose cancellation was requested
  answer,    \* the terminal state of each goal
  leader,    \* of each goal's launch: "none", "up", "down"
  nodes,     \* goals whose launched nodes are alive
  clean      \* goals whose leader ended with exit code 0

runVars == <<state, proc, run>>
treeVars == <<leader, nodes, clean>>
orchVars == <<patient, state, proc, run, pc, waits, cancel, answer, leader, nodes, clean>>

RunState == {"IDLE", "LAUNCHING", "RUNNING", "STOPPING", "STOPPED", "ERROR"}
Active == {"LAUNCHING", "RUNNING", "STOPPING"}

\* Where an execute callback may be between the launch and the end of a run.
Tearing == {"stopping", "interrupted", "terminated", "concluding"}
Executing == {"launching", "watching"} \cup Tearing

OrchTypeOK ==
  /\ patient \in BOOLEAN
  /\ state \in RunState
  /\ proc \in Goals \cup {None} /\ run \in Goals \cup {None}
  /\ pc \in [Goals -> {"idle", "sent", "accepted", "resetting", "done"} \cup Executing]
  /\ waits \in [Goals -> Goals \cup {None}]
  /\ cancel \in SUBSET Goals
  /\ answer \in [Goals -> {"open", "rejected", "succeeded", "aborted", "cancelled"}]
  /\ \A g \in Goals : answer[g] = "open" <=> pc[g] \notin {"resetting", "done"}
  /\ leader \in [Goals -> {"none", "up", "down"}]
  /\ nodes \in SUBSET Goals /\ clean \in SUBSET Goals

OrchInit ==
  /\ patient \in BOOLEAN
  /\ state = "IDLE" /\ proc = None /\ run = None
  /\ pc = [g \in Goals |-> "idle"]
  /\ waits = [g \in Goals |-> None]
  /\ cancel = {}
  /\ answer = [g \in Goals |-> "open"]
  /\ leader = [g \in Goals |-> "none"]
  /\ nodes = {} /\ clean = {}

Goto(g, label) == pc' = [pc EXCEPT ![g] = label]
Answer(g, a) == answer' = [answer EXCEPT ![g] = a]

\* The action server aborts a goal whose execute callback raised.
Raises(g) ==
  /\ Answer(g, "aborted") /\ Goto(g, "done")
  /\ UNCHANGED <<patient, runVars, waits, cancel, treeVars>>

-----------------------------------------------------------------------------
(* Clients and the action server                                           *)

SendGoal(g) ==
  /\ pc[g] = "idle"
  /\ patient => \A h \in Goals : pc[h] \in {"idle", "done"}
  /\ Goto(g, "sent")
  /\ UNCHANGED <<patient, runVars, waits, cancel, answer, treeVars>>

OnGoal(g) ==
  /\ pc[g] = "sent"
  /\ IF state \in Active
     THEN Answer(g, "rejected") /\ Goto(g, "done")
     ELSE Goto(g, "accepted") /\ UNCHANGED answer
  /\ UNCHANGED <<patient, runVars, waits, cancel, treeVars>>

CancelGoal(g) ==
  /\ pc[g] \notin {"idle", "sent"} /\ answer[g] = "open"
  /\ cancel' = cancel \cup {g}
  /\ UNCHANGED <<patient, runVars, pc, waits, answer, treeVars>>

-----------------------------------------------------------------------------
(* _execute                                                                *)

\* The scenario is a file of the catalog and the overlay a mapping, which is
\* merged into a copy of it.
Resolves(g) == g \in Known

ExecuteUnknown(g) ==
  /\ pc[g] = "accepted" /\ ~Resolves(g)
  /\ state' = "ERROR"
  /\ Answer(g, "aborted") /\ Goto(g, "done")
  /\ UNCHANGED <<patient, proc, run, waits, cancel, treeVars>>

Execute(g) ==
  /\ pc[g] = "accepted" /\ Resolves(g)
  /\ state' = "LAUNCHING" /\ proc' = None /\ run' = g
  /\ Goto(g, "launching")
  /\ UNCHANGED <<patient, waits, cancel, answer, treeVars>>

Launch(g) ==
  /\ pc[g] = "launching"
  /\ state' = "RUNNING" /\ proc' = g
  /\ leader' = [leader EXCEPT ![g] = "up"]
  /\ nodes' = nodes \cup {g}
  /\ Goto(g, "watching")
  /\ UNCHANGED <<patient, run, waits, cancel, answer, clean>>

LaunchFails(g) == LaunchMayFail /\ pc[g] = "launching" /\ Raises(g)

\* The loop looks for a cancellation first ...
WatchCancel(g) ==
  /\ pc[g] = "watching" /\ g \in cancel
  /\ state' = "STOPPING"
  /\ Goto(g, "stopping")
  /\ UNCHANGED <<patient, proc, run, waits, cancel, answer, treeVars>>

\* ... and then polls whatever process _proc is by now.
WatchNothing(g) == pc[g] = "watching" /\ g \notin cancel /\ proc = None /\ Raises(g)

\* Mutant: the exit code is not looked at.
FinishAnyhow(g) ==
  /\ pc[g] = "watching" /\ g \notin cancel
  /\ proc # None /\ leader[proc] = "down"
  /\ state' = "STOPPED"
  /\ Answer(g, "succeeded") /\ Goto(g, "resetting")
  /\ UNCHANGED <<patient, proc, run, waits, cancel, treeVars>>

Finish(g) ==
  /\ pc[g] = "watching" /\ g \notin cancel
  /\ proc # None /\ leader[proc] = "down"
  /\ state' = "STOPPED"
  /\ Answer(g, IF proc \in clean THEN "succeeded" ELSE "aborted")
  /\ Goto(g, "resetting")
  /\ UNCHANGED <<patient, proc, run, waits, cancel, treeVars>>

\* Mutant: the state is left at STOPPING.
ConcludeStopping(g) ==
  /\ pc[g] = "concluding"
  /\ Answer(g, "cancelled") /\ Goto(g, "resetting")
  /\ UNCHANGED <<patient, runVars, waits, cancel, treeVars>>

Conclude(g) ==
  /\ pc[g] = "concluding"
  /\ state' = "STOPPED"
  /\ Answer(g, "cancelled") /\ Goto(g, "resetting")
  /\ UNCHANGED <<patient, proc, run, waits, cancel, treeVars>>

\* Only now, with the goal answered, is the state of the run forgotten.
ResetRunState(g) ==
  /\ pc[g] = "resetting"
  /\ proc' = None /\ run' = None
  /\ Goto(g, "done")
  /\ UNCHANGED <<patient, state, waits, cancel, answer, treeVars>>

-----------------------------------------------------------------------------
(* _terminate_proc.  Signals take effect, or do not, as LeaderExits and    *)
(* NodesExit do.                                                           *)

TornDown(g) == Goto(g, "concluding") /\ UNCHANGED <<patient, runVars, waits, cancel, answer, treeVars>>

Signal(g, label) ==
  /\ waits' = [waits EXCEPT ![g] = proc]
  /\ Goto(g, label)
  /\ UNCHANGED <<patient, runVars, cancel, answer, treeVars>>

StopNothing(g) ==
  /\ pc[g] = "stopping" /\ IF proc = None THEN TRUE ELSE leader[proc] # "up"
  /\ TornDown(g)

Interrupt(g) ==
  /\ pc[g] = "stopping" /\ proc # None /\ leader[proc] = "up"
  /\ Signal(g, "interrupted")

Stopped(g) ==
  /\ pc[g] \in {"interrupted", "terminated"} /\ leader[waits[g]] = "down"
  /\ TornDown(g)

\* Mutant: the first wait has no timeout.
WaitForever(g) ==
  pc[g] = "interrupted" /\ leader[waits[g]] = "up" /\ UNCHANGED orchVars

\* The first wait times out: SIGTERM, to the group of what _proc is by now.
Terminate(g) ==
  /\ pc[g] = "interrupted" /\ leader[waits[g]] = "up"
  /\ \/ proc = None /\ Raises(g)
     \/ proc # None /\ leader[proc] = "up" /\ Signal(g, "terminated")
     \/ proc # None /\ leader[proc] # "up" /\ TornDown(g)

\* Mutant: the second wait is left without killing anything.
KillNothing(g) ==
  /\ pc[g] = "terminated" /\ leader[waits[g]] = "up"
  /\ \/ proc = None /\ Raises(g)
     \/ proc # None /\ TornDown(g)

\* The second wait times out: SIGKILL, to the leader alone.
Kill(g) ==
  /\ pc[g] = "terminated" /\ leader[waits[g]] = "up"
  /\ \/ proc = None /\ Raises(g)
     \/ /\ proc # None
        /\ leader' = [leader EXCEPT ![proc] = "down"]
        /\ Goto(g, "concluding")
        /\ UNCHANGED <<patient, runVars, waits, cancel, answer, nodes, clean>>

-----------------------------------------------------------------------------
(* The launched processes                                                  *)

NodesExit(g) ==
  /\ g \in nodes /\ nodes' = nodes \ {g}
  /\ UNCHANGED <<patient, runVars, pc, waits, cancel, answer, leader, clean>>

\* "ros2 launch" ends after its nodes.
LeaderExits(g) ==
  /\ leader[g] = "up" /\ g \notin nodes
  /\ leader' = [leader EXCEPT ![g] = "down"]
  /\ clean' \in {clean, clean \cup {g}}
  /\ UNCHANGED <<patient, runVars, pc, waits, cancel, answer, nodes>>

-----------------------------------------------------------------------------

\* The next step of a goal in the orchestrator.
Serve(g) ==
  \/ OnGoal(g) \/ ExecuteUnknown(g) \/ Execute(g) \/ Launch(g) \/ LaunchFails(g)
  \/ WatchCancel(g) \/ WatchNothing(g) \/ Finish(g) \/ Conclude(g) \/ ResetRunState(g)
  \/ StopNothing(g) \/ Interrupt(g) \/ Stopped(g) \/ Terminate(g) \/ Kill(g)

Ends(g) == NodesExit(g) \/ LeaderExits(g)

OrchNext == \E g \in Goals : SendGoal(g) \/ CancelGoal(g) \/ Serve(g) \/ Ends(g)

OrchSpec == OrchInit /\ [][OrchNext]_orchVars

\* The executor's threads go on; nothing is assumed of clients and processes.
OrchFairSpec == OrchSpec /\ \A g \in Goals : WF_orchVars(Serve(g))

-----------------------------------------------------------------------------

Service == INSTANCE RunService WITH phase <- leader

\* The orchestrator is a RunService, as long as its clients wait for each other:
\* one launch at a time, no answer before the end of the launch it is about, and
\* success only for a launch that ended well.
ServesRuns ==
  Service!ServiceInit /\ [][patient => Service!ServiceNext]_Service!serviceVars

\* A launch that is up is the one the orchestrator holds, reports and can signal:
\* the node "spawns it as a child process group, watches it, and tears it down"
\* (docstring of sim_orchestrator_node.py).  It takes clients that wait.
RunIsWatched ==
  patient => \A g \in Goals : leader[g] = "up" =>
               proc = g /\ run = g /\ pc[g] \in Executing \ {"launching", "concluding"}

\* With such clients the state leaves LAUNCHING, RUNNING and STOPPING with the
\* execution that entered it, unless that ended in a Popen that raised; otherwise
\* every later goal would be rejected (_on_goal).
ActiveIsExecuting ==
  patient /\ state \in Active =>
    \E g \in Goals :
      pc[g] \in Executing \/ (state = "LAUNCHING" /\ run = g /\ answer[g] = "aborted")

\* A cancelled goal is answered, whatever its processes and the other goals do.
CancelAnswered == \A g \in Goals : g \in cancel ~> answer[g] # "open"

=============================================================================
