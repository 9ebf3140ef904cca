--------------------------- MODULE RunControlProofs ---------------------------
(***************************************************************************)
(* Proofs about SimOrchestrator and RunControl, for any goals, callers and *)
(* factors.  Type correctness holds whatever the clients do; the other     *)
(* theorems are about patient clients, who send no goal while another one  *)
(* is open.  The steps of RunControl are steps of SimOrchestrator, whose   *)
(* invariant says where each goal is; SpeedInv adds what each state knows  *)
(* of the factor.                                                          *)
(***************************************************************************)
EXTENDS RunControl, TLAPS

\* At most one goal is open, and how far it has come says what _proc, the run,
\* the state, its launch and its answer are.
OneOpen ==
  \A g, h \in Goals : pc[g] \notin {"idle", "done"} /\ pc[h] \notin {"idle", "done"} => g = h

Placed(g) ==
  /\ pc[g] \in {"idle", "sent", "accepted", "launching"} => leader[g] = "none"
  /\ pc[g] = "launching" => run = g /\ state = "LAUNCHING"
  /\ pc[g] \in {"watching"} \cup Tearing => proc = g /\ run = g /\ leader[g] # "none"
  /\ pc[g] \in {"interrupted", "terminated"} => waits[g] = g
  /\ pc[g] \in {"concluding", "resetting", "done"} => leader[g] # "up"
  /\ pc[g] = "resetting" => state = "STOPPED"
  /\ answer[g] = "succeeded" => g \in clean

AllPlaced == OneOpen /\ \A g \in Goals : Placed(g)

RunInv == OrchTypeOK /\ (patient => AllPlaced)

-----------------------------------------------------------------------------

LEMMA TypeInit == OrchInit => OrchTypeOK
BY OrchAssumption DEF OrchInit, OrchTypeOK, RunState, Executing, Tearing

LEMMA TypeServe ==
  ASSUME OrchTypeOK, NEW g \in Goals, Serve(g)
  PROVE  OrchTypeOK'
<1> USE OrchAssumption DEF OrchTypeOK, RunState, Executing, Tearing, runVars, treeVars,
        Goto, Answer
<1>1. CASE OnGoal(g) BY <1>1 DEF OnGoal
<1>2. CASE ExecuteUnknown(g) BY <1>2 DEF ExecuteUnknown
<1>3. CASE Execute(g) BY <1>3 DEF Execute
<1>4. CASE Launch(g) BY <1>4 DEF Launch
<1>5. CASE LaunchFails(g) BY <1>5 DEF LaunchFails, Raises
<1>6. CASE WatchCancel(g) BY <1>6 DEF WatchCancel
<1>7. CASE WatchNothing(g) BY <1>7 DEF WatchNothing, Raises
<1>8. CASE Finish(g) BY <1>8 DEF Finish
<1>9. CASE Conclude(g) BY <1>9 DEF Conclude
<1>10. CASE ResetRunState(g) BY <1>10 DEF ResetRunState
<1>11. CASE StopNothing(g) BY <1>11 DEF StopNothing, TornDown
<1>12. CASE Interrupt(g) BY <1>12 DEF Interrupt, Signal
<1>13. CASE Stopped(g) BY <1>13 DEF Stopped, TornDown
<1>14. CASE Terminate(g) BY <1>14 DEF Terminate, Raises, Signal, TornDown
<1>15. CASE Kill(g) BY <1>15 DEF Kill, Raises
<1>16. QED BY <1>1, <1>2, <1>3, <1>4, <1>5, <1>6, <1>7, <1>8, <1>9, <1>10, <1>11, <1>12,
           <1>13, <1>14, <1>15 DEF Serve

LEMMA TypeNext == OrchTypeOK /\ [OrchNext]_orchVars => OrchTypeOK'
<1> SUFFICES ASSUME OrchTypeOK, [OrchNext]_orchVars PROVE OrchTypeOK'
  OBVIOUS
<1>1. CASE UNCHANGED orchVars
  BY <1>1 DEF orchVars, OrchTypeOK
<1>2. ASSUME NEW g \in Goals, SendGoal(g) PROVE OrchTypeOK'
  BY <1>2 DEF SendGoal, Goto, OrchTypeOK, runVars, treeVars, Executing, Tearing
<1>3. ASSUME NEW g \in Goals, CancelGoal(g) PROVE OrchTypeOK'
  BY <1>3 DEF CancelGoal, OrchTypeOK, runVars, treeVars
<1>4. ASSUME NEW g \in Goals, Serve(g) PROVE OrchTypeOK'
  BY <1>4, TypeServe
<1>5. ASSUME NEW g \in Goals, Ends(g) PROVE OrchTypeOK'
  BY <1>5 DEF Ends, NodesExit, LeaderExits, OrchTypeOK, runVars, treeVars
<1>6. QED BY <1>1, <1>2, <1>3, <1>4, <1>5 DEF OrchNext

\* Whatever goals, cancellations and speed changes arrive, a goal has its answer
\* exactly when the orchestrator is done with it or about to reset.
THEOREM OrchTypeCorrect == OrchSpec => []OrchTypeOK
<1>1. QED BY TypeInit, TypeNext, PTL DEF OrchSpec

-----------------------------------------------------------------------------

LEMMA RunInit == OrchInit => RunInv
<1>1. OrchInit => AllPlaced
  BY DEF OrchInit, AllPlaced, OneOpen, Placed, Tearing
<1>2. QED BY <1>1, TypeInit DEF RunInv

\* Clients do not lose their patience.
LEMMA PatientStays == [OrchNext]_orchVars => patient' = patient
<1> USE DEF Raises, TornDown, Signal
<1>1. ASSUME NEW g \in Goals, Serve(g) PROVE patient' = patient
  <2>1. CASE OnGoal(g) \/ ExecuteUnknown(g) \/ Execute(g) \/ Launch(g) \/ LaunchFails(g)
    BY <2>1 DEF OnGoal, ExecuteUnknown, Execute, Launch, LaunchFails
  <2>2. CASE WatchCancel(g) \/ WatchNothing(g) \/ Finish(g) \/ Conclude(g) \/ ResetRunState(g)
    BY <2>2 DEF WatchCancel, WatchNothing, Finish, Conclude, ResetRunState
  <2>3. CASE StopNothing(g) \/ Interrupt(g) \/ Stopped(g) \/ Terminate(g) \/ Kill(g)
    BY <2>3 DEF StopNothing, Interrupt, Stopped, Terminate, Kill
  <2>4. QED BY <1>1, <2>1, <2>2, <2>3 DEF Serve
<1>2. QED
  BY <1>1 DEF OrchNext, orchVars, SendGoal, CancelGoal, Ends, NodesExit, LeaderExits

LEMMA RunServe ==
  ASSUME patient, RunInv, NEW g \in Goals, Serve(g)
  PROVE  AllPlaced'
<1> USE OrchAssumption DEF RunInv, AllPlaced, OneOpen, Placed, OrchTypeOK, RunState, Executing, Tearing,
        runVars, treeVars, Goto, Answer
<1>1. CASE OnGoal(g) BY <1>1 DEF OnGoal
<1>2. CASE ExecuteUnknown(g) BY <1>2 DEF ExecuteUnknown
<1>3. CASE Execute(g) BY <1>3 DEF Execute
<1>4. CASE Launch(g) BY <1>4 DEF Launch
<1>5. CASE LaunchFails(g) BY <1>5 DEF LaunchFails, Raises
<1>6. CASE WatchCancel(g) BY <1>6 DEF WatchCancel
<1>7. CASE WatchNothing(g) BY <1>7 DEF WatchNothing, Raises
<1>8. CASE Finish(g) BY <1>8 DEF Finish
<1>9. CASE Conclude(g) BY <1>9 DEF Conclude
<1>10. CASE ResetRunState(g) BY <1>10 DEF ResetRunState
<1>11. CASE StopNothing(g) BY <1>11 DEF StopNothing, TornDown
<1>12. CASE Interrupt(g) BY <1>12 DEF Interrupt, Signal
<1>13. CASE Stopped(g) BY <1>13 DEF Stopped, TornDown
<1>14. CASE Terminate(g)
  <2>1. pc[g] = "interrupted" /\ proc = g /\ proc # None /\ leader[g] = "up"
    BY <1>14 DEF Terminate
  <2>2. Signal(g, "terminated") BY <1>14, <2>1 DEF Terminate
  <2>3. QED BY <2>1, <2>2 DEF Signal
<1>15. CASE Kill(g)
  <2>1. pc[g] = "terminated" /\ proc = g /\ proc # None
    BY <1>15 DEF Kill
  <2>2. leader' = [leader EXCEPT ![g] = "down"] /\ Goto(g, "concluding")
    BY <1>15, <2>1 DEF Kill
  <2>3. UNCHANGED <<runVars, waits, answer, clean>>
    BY <1>15, <2>1 DEF Kill
  <2>4. QED BY <2>1, <2>2, <2>3
<1>16. QED BY <1>1, <1>2, <1>3, <1>4, <1>5, <1>6, <1>7, <1>8, <1>9, <1>10, <1>11, <1>12,
           <1>13, <1>14, <1>15 DEF Serve

LEMMA RunNext == RunInv /\ [OrchNext]_orchVars => RunInv'
<1> SUFFICES ASSUME RunInv, [OrchNext]_orchVars, patient PROVE AllPlaced'
  BY TypeNext, PatientStays DEF RunInv
<1> USE DEF RunInv, AllPlaced, OneOpen, Placed
<1>1. CASE UNCHANGED orchVars
  BY <1>1 DEF orchVars
<1>2. ASSUME NEW g \in Goals, SendGoal(g) PROVE AllPlaced'
  BY <1>2 DEF SendGoal, Goto, OrchTypeOK, runVars, treeVars, Tearing
<1>3. ASSUME NEW g \in Goals, CancelGoal(g) PROVE AllPlaced'
  BY <1>3 DEF CancelGoal, runVars, treeVars
<1>4. ASSUME NEW g \in Goals, Serve(g) PROVE AllPlaced'
  BY <1>4, RunServe
<1>5. ASSUME NEW g \in Goals, Ends(g) PROVE AllPlaced'
  <2>1. CASE NodesExit(g) BY <2>1 DEF NodesExit, runVars
  <2>2. CASE LeaderExits(g)
    <3>1. UNCHANGED <<runVars, pc, waits, answer>>
      BY <2>2 DEF LeaderExits
    <3>2. /\ leader[g] = "up" /\ leader' = [leader EXCEPT ![g] = "down"]
          /\ clean \subseteq clean'
      BY <2>2 DEF LeaderExits
    <3>3. QED BY <3>1, <3>2 DEF OrchTypeOK, runVars, Tearing
  <2>3. QED BY <1>5, <2>1, <2>2 DEF Ends
<1>6. QED BY <1>1, <1>2, <1>3, <1>4, <1>5 DEF OrchNext

THEOREM RunInvariant == OrchSpec => []RunInv
<1>1. QED BY RunInit, RunNext, PTL DEF OrchSpec

-----------------------------------------------------------------------------

\* The docstring's promise, for clients that wait for each other: every launch
\* that is up is watched by the execution that started it.
THEOREM EveryRunIsWatched == OrchSpec => []RunIsWatched
<1>1. RunInv => RunIsWatched
  BY DEF RunInv, AllPlaced, OrchTypeOK, Placed, RunIsWatched, Executing, Tearing
<1>2. QED BY <1>1, RunInvariant, PTL

\* With such clients only a Popen that raised leaves the state active, so that
\* goals are rejected for ever (_on_goal), when nothing is executing.
THEOREM NeverWedged == OrchSpec => []ActiveIsExecuting
<1>1. OrchInit => ActiveIsExecuting
  BY DEF OrchInit, ActiveIsExecuting, Active
<1>2. RunInv /\ ActiveIsExecuting /\ [OrchNext]_orchVars => ActiveIsExecuting'
  <2> SUFFICES ASSUME RunInv, ActiveIsExecuting, [OrchNext]_orchVars, patient
               PROVE  ActiveIsExecuting'
    BY PatientStays DEF ActiveIsExecuting
  <2> USE DEF ActiveIsExecuting, Active, Executing, Tearing, runVars, treeVars, Goto, Answer
  <2>1. /\ pc \in [Goals -> {"idle", "sent", "accepted", "resetting", "done"} \cup Executing]
        /\ answer \in [Goals -> {"open", "rejected", "succeeded", "aborted", "cancelled"}]
        /\ \A h \in Goals : answer[h] = "open" <=> pc[h] \notin {"resetting", "done"}
    BY DEF RunInv, OrchTypeOK
  <2>2. \A h \in Goals : /\ pc[h] \in {"watching"} \cup Tearing => proc = h /\ proc # None
                         /\ pc[h] = "launching" => run = h /\ state = "LAUNCHING"
                         /\ pc[h] = "resetting" => state = "STOPPED"
    BY OrchAssumption DEF RunInv, AllPlaced, Placed
  <2>3. ASSUME NEW g \in Goals, Serve(g) PROVE ActiveIsExecuting'
    <3>1. CASE OnGoal(g) BY <3>1, <2>1 DEF OnGoal
    <3>2. CASE ExecuteUnknown(g) \/ Finish(g) \/ Conclude(g)
      BY <3>2 DEF ExecuteUnknown, Finish, Conclude
    <3>3. CASE Execute(g) \/ Launch(g) \/ WatchCancel(g)
      BY <3>3, <2>1 DEF Execute, Launch, WatchCancel
    <3>4. CASE LaunchFails(g) BY <3>4, <2>1, <2>2 DEF LaunchFails, Raises
    <3>5. CASE WatchNothing(g) BY <3>5, <2>2 DEF WatchNothing
    <3>6. CASE ResetRunState(g) BY <3>6, <2>2 DEF ResetRunState
    <3>7. CASE StopNothing(g) \/ Stopped(g)
      BY <3>7, <2>1 DEF StopNothing, Stopped, TornDown
    <3>8. CASE Interrupt(g) BY <3>8, <2>1 DEF Interrupt, Signal
    <3>9. CASE Terminate(g) BY <3>9, <2>1, <2>2 DEF Terminate, Signal, TornDown
    <3>10. CASE Kill(g) BY <3>10, <2>1, <2>2 DEF Kill
    <3>11. QED
      BY <2>3, <3>1, <3>2, <3>3, <3>4, <3>5, <3>6, <3>7, <3>8, <3>9, <3>10 DEF Serve
  <2>4. ASSUME NEW g \in Goals, SendGoal(g) PROVE ActiveIsExecuting'
    BY <2>4, <2>1 DEF SendGoal
  <2>5. CASE UNCHANGED <<patient, state, run, pc, answer>>
    BY <2>5
  <2>6. QED BY <2>3, <2>4, <2>5
            DEF OrchNext, orchVars, CancelGoal, Ends, NodesExit, LeaderExits
<1>3. QED BY <1>1, <1>2, RunInvariant, PTL DEF OrchSpec

-----------------------------------------------------------------------------

\* A step of the orchestrator is a step of RunService or leaves it alone.
LEMMA ServeStep ==
  ASSUME patient, RunInv, NEW g \in Goals, Serve(g)
  PROVE  [Service!ServiceNext]_<<leader, clean, answer>>
<1> USE OrchAssumption DEF RunInv, AllPlaced, OneOpen, Placed, OrchTypeOK, Executing, Tearing,
        runVars, treeVars, Goto, Answer
<1>1. CASE UNCHANGED <<leader, clean, answer>>
  BY <1>1
<1>2. CASE OnGoal(g) /\ state \in Active
  <2>1. Service!Decline(g) BY <1>2 DEF OnGoal, Service!Decline
  <2>2. QED BY <2>1 DEF Service!ServiceNext
<1>3. CASE ExecuteUnknown(g) \/ LaunchFails(g)
  <2>1. Service!Decline(g)
    BY <1>3 DEF ExecuteUnknown, LaunchFails, Raises, Service!Decline
  <2>2. QED BY <2>1 DEF Service!ServiceNext
<1>4. CASE Launch(g)
  <2>1. leader[g] = "none" /\ answer[g] = "open"
    BY <1>4 DEF Launch
  <2>2. \A h \in Goals : leader[h] # "up"
    BY <1>4 DEF Launch
  <2>3. Service!Start(g) BY <1>4, <2>1, <2>2 DEF Launch, Service!Start
  <2>4. QED BY <2>3 DEF Service!ServiceNext
<1>5. CASE Finish(g)
  <2>1. proc = g /\ leader[g] = "down" /\ answer[g] = "open"
    BY <1>5 DEF Finish
  <2>2. Service!Conclude(g) BY <1>5, <2>1 DEF Finish, Service!Conclude
  <2>3. QED BY <2>2 DEF Service!ServiceNext
<1>6. CASE Conclude(g)
  <2>1. leader[g] = "down" /\ answer[g] = "open"
    BY <1>6 DEF Conclude
  <2>2. Service!Conclude(g) BY <1>6, <2>1 DEF Conclude, Service!Conclude
  <2>3. QED BY <2>2 DEF Service!ServiceNext
<1>7. CASE Kill(g)
  <2>1. proc = g /\ leader[g] = "up" /\ proc # None
    BY <1>7 DEF Kill
  <2>2. Service!End(g) BY <1>7, <2>1 DEF Kill, Service!End
  <2>3. QED BY <2>2 DEF Service!ServiceNext
<1>8. CASE WatchNothing(g) \/ Terminate(g)
  <2>1. proc = g /\ proc # None
    BY <1>8 DEF WatchNothing, Terminate
  <2>2. UNCHANGED <<leader, clean, answer>>
    BY <1>8, <2>1 DEF WatchNothing, Terminate, Signal, TornDown
  <2>3. QED BY <1>1, <2>2
<1>9. QED
  BY <1>1, <1>2, <1>3, <1>4, <1>5, <1>6, <1>7, <1>8
     DEF Serve, OnGoal, Execute, WatchCancel, ResetRunState, StopNothing, Interrupt, Stopped,
         Signal, TornDown

LEMMA ServiceStep ==
  RunInv /\ patient /\ [OrchNext]_orchVars => [Service!ServiceNext]_<<leader, clean, answer>>
<1> SUFFICES ASSUME RunInv, patient, [OrchNext]_orchVars
             PROVE  [Service!ServiceNext]_<<leader, clean, answer>>
  OBVIOUS
<1>1. ASSUME NEW g \in Goals, Serve(g) PROVE [Service!ServiceNext]_<<leader, clean, answer>>
  BY <1>1, ServeStep
<1>2. ASSUME NEW g \in Goals, LeaderExits(g)
      PROVE  [Service!ServiceNext]_<<leader, clean, answer>>
  <2>1. Service!End(g) BY <1>2 DEF LeaderExits, Service!End
  <2>2. QED BY <2>1 DEF Service!ServiceNext
<1>3. CASE UNCHANGED <<leader, clean, answer>>
  BY <1>3
<1>4. QED
  BY <1>1, <1>2, <1>3 DEF OrchNext, orchVars, treeVars, SendGoal, CancelGoal, Ends, NodesExit

\* Clients that wait for each other get the service: one launch at a time, every
\* answer after the end of its launch, success only after a clean end.
THEOREM ImplementsRunService == OrchSpec => ServesRuns
<1>1. OrchInit => Service!ServiceInit
  BY DEF OrchInit, Service!ServiceInit
<1>2. RunInv /\ [OrchNext]_orchVars => [patient => Service!ServiceNext]_Service!serviceVars
  BY ServiceStep DEF Service!serviceVars
<1>3. QED BY <1>1, <1>2, RunInvariant, PTL DEF OrchSpec, ServesRuns

-----------------------------------------------------------------------------
(* RunControl                                                              *)

\* With clients that wait, and until a change goes amiss: a launch under way knows its
\* factor and meets no old world; a run has one world, at the factor of the launch, of a
\* change that is applied, or of the last change.
Factor == IF requested = 0 THEN DefaultRtf ELSE requested

Ran ==
  state = "RUNNING" =>
    /\ \A g, h \in Worlds : g = h
    /\ booting # {} => Applied = {} /\ \A g \in booting : requested = GoalRtf[g]
    /\ booting = {} /\ Applied = {} => \A g \in Worlds : world[g] = Factor
    /\ \A c \in Applied : booting = {} /\ \A g \in Worlds : world[g] = CallRtf[c]
    /\ \A c, d \in Applied : c = d

SpeedInv ==
  /\ ControlTypeOK
  /\ booting \subseteq Worlds
  /\ \A c \in Callers : call[c] # "idle" => CallRtf[c] > 0
  /\ patient /\ ~amiss /\ state = "LAUNCHING" => requested = GoalRtf[run] /\ Applied = {}
  /\ patient /\ ~amiss => Ran

-----------------------------------------------------------------------------

\* A step of this module is one of SimOrchestrator, or leaves it alone.
LEMMA OrchStep == [ControlNext]_controlVars => [OrchNext]_orchVars
BY DEF ControlNext, controlVars, ClientStep, ServeRun, BeginRun, BootWorld, ForgetRun, OtherStep,
       LeaderEnds, EndWorld, BootRtf, SetSpeed, ApplySpeed, SpeedSet, SpeedNotSet,
       OrchNext, Serve, Ends

\* The goals behave as they do without a speed.
THEOREM ControlImplementsOrch == ControlSpec => OrchSpec
<1>1. ControlInit => OrchInit
  BY DEF ControlInit
<1>2. QED BY <1>1, OrchStep, PTL DEF ControlSpec, OrchSpec

-----------------------------------------------------------------------------

LEMMA SpeedInit == ControlInit => SpeedInv
<1> SUFFICES ASSUME ControlInit PROVE SpeedInv
  OBVIOUS
<1>1. ControlTypeOK
  BY DEF ControlInit, ControlTypeOK
<1>2. state = "IDLE" /\ booting = {} /\ \A c \in Callers : call[c] = "idle"
  BY DEF ControlInit, OrchInit
<1>3. QED BY <1>1, <1>2 DEF SpeedInv, Ran

\* What the steps of a goal that do not touch the factor do to the state.
LEMMA OtherFact ==
  ASSUME NEW g \in Goals, OtherStep(g) \/ ClientStep(g) \/ LeaderEnds(g)
  PROVE  /\ UNCHANGED <<speedVars, patient>>
         /\ (state' = state /\ run' = run) \/ state' \notin {"LAUNCHING", "RUNNING"}
<1> USE DEF runVars, Raises, Signal, TornDown
<1>1. CASE OtherStep(g)
  <2>1. CASE OnGoal(g) \/ ExecuteUnknown(g) \/ LaunchFails(g) \/ WatchCancel(g) \/ WatchNothing(g)
    BY <1>1, <2>1 DEF OtherStep, OnGoal, ExecuteUnknown, LaunchFails, WatchCancel, WatchNothing
  <2>2. CASE Finish(g) \/ Conclude(g) \/ StopNothing(g) \/ Interrupt(g)
    BY <1>1, <2>2 DEF OtherStep, Finish, Conclude, StopNothing, Interrupt
  <2>3. CASE Stopped(g) \/ Terminate(g) \/ Kill(g)
    BY <1>1, <2>3 DEF OtherStep, Stopped, Terminate, Kill
  <2>4. QED BY <1>1, <2>1, <2>2, <2>3 DEF OtherStep
<1>2. CASE ClientStep(g)
  BY <1>2 DEF ClientStep, SendGoal, CancelGoal
<1>3. CASE LeaderEnds(g)
  BY <1>3 DEF LeaderEnds, LeaderExits
<1>4. QED BY <1>1, <1>2, <1>3

\* A step that leaves the factor alone keeps what is known of it.
LEMMA OtherInv ==
  ASSUME SpeedInv, UNCHANGED <<speedVars, patient>>,
         (state' = state /\ run' = run) \/ state' \notin {"LAUNCHING", "RUNNING"}
  PROVE  SpeedInv'
BY DEF SpeedInv, Ran, ControlTypeOK, speedVars, Applied, Worlds, Factor

-----------------------------------------------------------------------------
(* The launch, the reset and the end of a world.                           *)

LEMMA BeginRunInv ==
  ASSUME SpeedInv, NEW g \in Goals, BeginRun(g)
  PROVE  SpeedInv'
<1>1. /\ state' = "LAUNCHING" /\ run' = g /\ patient' = patient
      /\ requested' = GoalRtf[g] /\ amiss' = (Applied # {})
      /\ UNCHANGED <<world, booting, call>>
  BY DEF BeginRun, Execute
<1>2. requested' \in Nat
  BY <1>1, ControlAssumption
<1>3. Applied' = Applied /\ Worlds' = Worlds
  BY <1>1 DEF Applied, Worlds
<1>4. QED BY <1>1, <1>2, <1>3 DEF SpeedInv, Ran, ControlTypeOK

LEMMA BootWorldInv ==
  ASSUME SpeedInv, RunInv, NEW g \in Goals, BootWorld(g)
  PROVE  SpeedInv'
<1>1. /\ state' = "RUNNING" /\ patient' = patient
      /\ world' = [world EXCEPT ![g] = WorldRtf] /\ booting' = booting \cup {g}
      /\ amiss' = (amiss \/ Worlds # {})
      /\ UNCHANGED <<requested, call>>
  BY DEF BootWorld, Launch
<1>2. ControlTypeOK'
  BY <1>1, ControlAssumption DEF SpeedInv, ControlTypeOK
<1>3. Applied' = Applied /\ Worlds' = Worlds \cup {g}
  BY <1>1, ControlAssumption DEF Applied, Worlds, SpeedInv, ControlTypeOK
<1>4. ASSUME patient', ~amiss' PROVE Ran'
  <2>1. Worlds' = {g} /\ booting' = {g}
    BY <1>1, <1>3, <1>4 DEF SpeedInv
  <2>2. state = "LAUNCHING" /\ run = g
    BY <1>1, <1>4 DEF RunInv, AllPlaced, Placed, BootWorld, Launch
  <2>3. requested' = GoalRtf[g] /\ Applied' = {}
    BY <1>1, <1>3, <1>4, <2>2 DEF SpeedInv
  <2>4. QED BY <2>1, <2>3 DEF Ran
<1>5. QED BY <1>1, <1>2, <1>3, <1>4 DEF SpeedInv

LEMMA ForgetRunInv ==
  ASSUME SpeedInv, RunInv, NEW g \in Goals, ForgetRun(g)
  PROVE  SpeedInv'
<1>1. /\ state' = state /\ patient' = patient /\ requested' = 0
      /\ UNCHANGED <<world, booting, call, amiss>>
  BY DEF ForgetRun, ResetRunState
<1>2. patient => state' = "STOPPED"
  BY <1>1 DEF RunInv, AllPlaced, Placed, ForgetRun, ResetRunState
<1>3. QED BY <1>1, <1>2 DEF SpeedInv, Ran, ControlTypeOK, Worlds

LEMMA EndWorldInv ==
  ASSUME SpeedInv, NEW g \in Goals, EndWorld(g)
  PROVE  SpeedInv'
<1>1. /\ UNCHANGED <<state, run, patient, requested, call, amiss>>
      /\ world' = [world EXCEPT ![g] = 0] /\ booting' = booting \ {g}
  BY DEF EndWorld, NodesExit, runVars
<1>2. ControlTypeOK'
  BY <1>1 DEF SpeedInv, ControlTypeOK
<1>3. /\ Applied' = Applied /\ Worlds' = Worlds \ {g}
      /\ \A h \in Worlds' : world'[h] = world[h]
  BY <1>1 DEF Applied, Worlds, SpeedInv, ControlTypeOK
<1>4. ASSUME patient', ~amiss' PROVE Ran'
  <2>1. Ran
    BY <1>1, <1>4 DEF SpeedInv
  <2>2. ASSUME state' = "RUNNING", booting' = {}, Applied' = {}
        PROVE  \A h \in Worlds' : world'[h] = Factor'
    <3>1. CASE booting = {}
      BY <1>1, <1>3, <2>1, <2>2, <3>1 DEF Ran, Factor
    <3>2. CASE booting # {}
      BY <1>1, <1>3, <2>1, <2>2, <3>2 DEF Ran, SpeedInv
    <3>3. QED BY <3>1, <3>2
  <2>3. QED BY <1>1, <1>3, <2>1, <2>2 DEF Ran
<1>5. QED BY <1>1, <1>2, <1>3, <1>4 DEF SpeedInv

-----------------------------------------------------------------------------
(* The three who change the factor of a world.                             *)

\* A factor that is set leaves the worlds there are, one of them at the new factor.
LEMMA PhysicsFact ==
  ASSUME ControlTypeOK, NEW rtf \in Nat, rtf > 0, SetPhysics(rtf)
  PROVE  /\ world' \in [Goals -> Nat]
         /\ Worlds' = Worlds
         /\ (\A g, h \in Worlds : g = h) => \A g \in Worlds : world'[g] = rtf
<1>1. PICK g \in Worlds : world' = [world EXCEPT ![g] = rtf]
  BY DEF SetPhysics
<1>2. QED BY <1>1 DEF Worlds, ControlTypeOK

LEMMA BootRtfInv ==
  ASSUME SpeedInv, NEW g \in Goals, BootRtf(g)
  PROVE  SpeedInv'
<1>1. /\ UNCHANGED <<state, run, patient, requested, call>>
      /\ g \in booting /\ booting' = booting \ {g}
      /\ \/ SetPhysics(LaunchRtf(g)) /\ amiss' = (amiss \/ Applied # {})
         \/ UNCHANGED world /\ amiss' = TRUE
  BY DEF BootRtf, orchVars
<1>2. LaunchRtf(g) \in Nat /\ LaunchRtf(g) > 0
  BY ControlAssumption DEF LaunchRtf
<1>3. Applied' = Applied /\ Worlds' = Worlds /\ world' \in [Goals -> Nat] /\ amiss' \in BOOLEAN
  BY <1>1, <1>2, PhysicsFact DEF Applied, Worlds, SpeedInv, ControlTypeOK
<1>4. ControlTypeOK' /\ booting' \subseteq Worlds'
  BY <1>1, <1>3 DEF SpeedInv, ControlTypeOK
<1>5. ASSUME patient', ~amiss', state' = "RUNNING" PROVE Ran'
  <2>1. SetPhysics(LaunchRtf(g)) /\ Applied' = {} /\ Ran
    BY <1>1, <1>3, <1>5 DEF SpeedInv
  <2>2. requested = GoalRtf[g] /\ \A h, k \in Worlds : h = k
    BY <1>1, <1>5, <2>1 DEF Ran
  <2>3. \A h \in Worlds : world'[h] = LaunchRtf(g)
    BY <1>2, <2>1, <2>2, PhysicsFact DEF SpeedInv
  <2>4. LaunchRtf(g) = Factor'
    BY <1>1, <2>2, ControlAssumption DEF LaunchRtf, Factor
  <2>5. QED BY <1>1, <1>3, <2>1, <2>2, <2>3, <2>4 DEF Ran
<1>6. ASSUME patient', ~amiss', state' = "LAUNCHING"
      PROVE  requested' = GoalRtf[run'] /\ Applied' = {}
  BY <1>1, <1>3, <1>6 DEF SpeedInv
<1>7. QED BY <1>1, <1>4, <1>5, <1>6 DEF SpeedInv, Ran

LEMMA SetSpeedInv ==
  ASSUME SpeedInv, NEW c \in Callers, SetSpeed(c)
  PROVE  SpeedInv'
<1>1. /\ UNCHANGED <<state, run, patient, requested, world, booting, amiss>>
      /\ CallRtf[c] > 0 /\ call[c] = "idle" /\ call' = [call EXCEPT ![c] = "sent"]
  BY DEF SetSpeed, orchVars
<1>2. Applied' = Applied /\ Worlds' = Worlds /\ ControlTypeOK'
  BY <1>1 DEF Applied, Worlds, SpeedInv, ControlTypeOK
<1>3. QED BY <1>1, <1>2 DEF SpeedInv, Ran, ControlTypeOK, Factor

LEMMA ApplySpeedInv ==
  ASSUME SpeedInv, NEW c \in Callers, ApplySpeed(c)
  PROVE  SpeedInv'
<1>1. /\ UNCHANGED <<state, run, patient, requested, booting>>
      /\ call[c] = "sent" /\ call' = [call EXCEPT ![c] = "applied"]
      /\ SetPhysics(CallRtf[c])
      /\ amiss' = (amiss \/ state # "RUNNING" \/ booting # {} \/ Applied # {})
  BY DEF ApplySpeed, orchVars
<1>2. CallRtf[c] \in Nat /\ CallRtf[c] > 0
  BY <1>1, ControlAssumption DEF SpeedInv
<1>3. /\ Worlds' = Worlds /\ world' \in [Goals -> Nat]
      /\ (\A g, h \in Worlds : g = h) => \A g \in Worlds : world'[g] = CallRtf[c]
  BY <1>1, <1>2, PhysicsFact DEF SpeedInv
<1>4. Applied' = Applied \cup {c} /\ ControlTypeOK'
  BY <1>1, <1>3 DEF Applied, SpeedInv, ControlTypeOK
<1>5. ASSUME patient', ~amiss' PROVE Ran' /\ state' = "RUNNING"
  <2>1. state = "RUNNING" /\ booting = {} /\ Applied' = {c} /\ Ran
    BY <1>1, <1>4, <1>5 DEF SpeedInv
  <2>2. QED BY <1>1, <1>3, <2>1 DEF Ran
<1>6. QED BY <1>1, <1>3, <1>4, <1>5 DEF SpeedInv, ControlTypeOK

LEMMA SpeedSetInv ==
  ASSUME SpeedInv, NEW c \in Callers, SpeedSet(c)
  PROVE  SpeedInv'
<1>1. /\ UNCHANGED <<state, run, patient, world, booting, amiss>>
      /\ c \in Applied /\ requested' = CallRtf[c] /\ call' = [call EXCEPT ![c] = "idle"]
  BY DEF SpeedSet, orchVars, Applied
<1>2. CallRtf[c] \in Nat /\ CallRtf[c] > 0
  BY <1>1, ControlAssumption DEF SpeedInv, Applied
<1>3. Applied' = Applied \ {c} /\ Worlds' = Worlds /\ ControlTypeOK'
  BY <1>1, <1>2 DEF Applied, Worlds, SpeedInv, ControlTypeOK
<1>4. ASSUME patient', ~amiss' PROVE Ran' /\ state' # "LAUNCHING"
  <2>1. Ran /\ state # "LAUNCHING"
    BY <1>1, <1>4 DEF SpeedInv
  <2>2. QED BY <1>1, <1>2, <1>3, <2>1 DEF Ran, Factor
<1>5. QED BY <1>1, <1>3, <1>4 DEF SpeedInv, ControlTypeOK

LEMMA SpeedNotSetInv ==
  ASSUME SpeedInv, NEW c \in Callers, SpeedNotSet(c)
  PROVE  SpeedInv'
<1>1. /\ UNCHANGED <<state, run, patient, requested, world, booting>>
      /\ call' = [call EXCEPT ![c] = "idle"]
      /\ amiss' = (amiss \/ c \in Applied)
  BY DEF SpeedNotSet, orchVars, Applied
<1>2. Applied' = Applied \ {c} /\ Worlds' = Worlds /\ ControlTypeOK'
  BY <1>1 DEF Applied, Worlds, SpeedInv, ControlTypeOK
<1>3. ~amiss' => Applied' = Applied
  BY <1>1, <1>2
<1>4. QED BY <1>1, <1>2, <1>3 DEF SpeedInv, Ran, ControlTypeOK, Factor

-----------------------------------------------------------------------------

LEMMA SpeedNext == SpeedInv /\ RunInv /\ [ControlNext]_controlVars => SpeedInv'
<1> SUFFICES ASSUME SpeedInv, RunInv, [ControlNext]_controlVars PROVE SpeedInv'
  OBVIOUS
<1>1. CASE UNCHANGED controlVars
  BY <1>1, OtherInv DEF controlVars, orchVars
<1>2. ASSUME NEW g \in Goals, ClientStep(g) \/ ServeRun(g) \/ LeaderEnds(g) \/ EndWorld(g) \/ BootRtf(g)
      PROVE  SpeedInv'
  <2>1. CASE OtherStep(g) \/ ClientStep(g) \/ LeaderEnds(g)
    <3>1. /\ UNCHANGED <<speedVars, patient>>
          /\ (state' = state /\ run' = run) \/ state' \notin {"LAUNCHING", "RUNNING"}
      BY <2>1, OtherFact
    <3>2. QED BY <3>1, OtherInv
  <2>2. QED
    BY <1>2, <2>1, BeginRunInv, BootWorldInv, ForgetRunInv, EndWorldInv, BootRtfInv DEF ServeRun
<1>3. ASSUME NEW c \in Callers, SetSpeed(c) \/ ApplySpeed(c) \/ SpeedSet(c) \/ SpeedNotSet(c)
      PROVE  SpeedInv'
  BY <1>3, SetSpeedInv, ApplySpeedInv, SpeedSetInv, SpeedNotSetInv
<1>4. QED BY <1>1, <1>2, <1>3 DEF ControlNext

\* For any goals, callers and factors: once the launch has set its factor, the panel's is
\* the world's, unless two changes met or an answer was lost.
THEOREM ReportedFactorIsTrue == ControlSpec => []ControlInv
<1>1. SpeedInv /\ OrchTypeOK => ControlInv
  BY DEF SpeedInv, ControlInv, FactorIsTrue, Ran, Factor
<1>2. ControlSpec => []RunInv /\ []OrchTypeOK
  BY ControlImplementsOrch, RunInvariant, OrchTypeCorrect, PTL
<1>3. QED BY SpeedInit, SpeedNext, <1>1, <1>2, PTL DEF ControlSpec

=============================================================================
