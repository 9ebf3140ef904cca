------------------------------ MODULE RunControl ------------------------------
(***************************************************************************)
(* The speed of a run: the orchestrator's goals (SimOrchestrator) together *)
(* with its set_sim_speed service, the world that gazebo.launch.py boots   *)
(* for each launch.  Whoever changes the speed of a world does so by a     *)
(* command of its own, "ign service .../set_physics", that takes seconds;  *)
(* every world has the same name.  0 is a factor nobody asked for.         *)
(***************************************************************************)
EXTENDS SimOrchestrator, Integers

CONSTANTS
  Callers,         \* clients of set_sim_speed
  RtfControllable, \* rtf_controllable: the gazebo profile
  GoalRtf,         \* the factor each goal asks for
  CallRtf,         \* the factor each caller asks for
  DefaultRtf,      \* default_rtf of the orchestrator
  WorldRtf         \* real_time_factor of mics.sdf

ASSUME ControlAssumption ==
  /\ RtfControllable \in BOOLEAN
  /\ GoalRtf \in [Goals -> Nat]
  /\ CallRtf \in [Callers -> Nat]
  /\ DefaultRtf \in Nat \ {0} /\ WorldRtf \in Nat \ {0}

VARIABLES
  requested, \* _requested_rtf
  world,     \* the factor of each launch's physics server, 0 where there is none
  booting,   \* goals whose launch has its set_rtf still to come
  call,      \* of each caller's set_sim_speed: "idle", "sent", "applied"
  amiss      \* history: in this run a change of speed met another one, or its answer was lost

speedVars == <<requested, world, booting, call, amiss>>
controlVars == <<orchVars, speedVars>>

ControlTypeOK ==
  /\ requested \in Nat
  /\ world \in [Goals -> Nat]
  /\ booting \in SUBSET Goals
  /\ call \in [Callers -> {"idle", "sent", "applied"}]
  /\ amiss \in BOOLEAN

ControlInit ==
  /\ OrchInit
  /\ requested = 0
  /\ world = [g \in Goals |-> 0]
  /\ booting = {}
  /\ call = [c \in Callers |-> "idle"]
  /\ amiss = FALSE

\* Bound: speed changes are explored with clients that wait for each other; they leave
\* what SimOrchestrator models alone.
Explored == patient

Applied == {c \in Callers : call[c] = "applied"}
Worlds == {g \in Goals : world[g] # 0}

-----------------------------------------------------------------------------
(* The goals of SimOrchestrator                                            *)

BeginRun(g) ==
  /\ Execute(g)
  /\ requested' = GoalRtf[g]
  /\ amiss' = (Applied # {})
  /\ UNCHANGED <<world, booting, call>>

\* The launch is told a factor, but its world starts with the one of mics.sdf.
BootWorld(g) ==
  /\ Launch(g)
  /\ world' = [world EXCEPT ![g] = WorldRtf]
  /\ booting' = booting \cup {g}
  /\ amiss' = (amiss \/ Worlds # {})
  /\ UNCHANGED <<requested, call>>

ForgetRun(g) ==
  /\ ResetRunState(g)
  /\ requested' = 0
  /\ UNCHANGED <<world, booting, call, amiss>>

\* With its nodes a launch ends its world, and does not start what is still to come.
EndWorld(g) ==
  /\ NodesExit(g)
  /\ world' = [world EXCEPT ![g] = 0]
  /\ booting' = booting \ {g}
  /\ UNCHANGED <<requested, call, amiss>>

\* The steps of a goal that have nothing to do with the factor.
OtherStep(g) ==
  /\ \/ OnGoal(g) \/ ExecuteUnknown(g) \/ LaunchFails(g) \/ WatchCancel(g) \/ WatchNothing(g)
     \/ Finish(g) \/ Conclude(g) \/ StopNothing(g) \/ Interrupt(g) \/ Stopped(g)
     \/ Terminate(g) \/ Kill(g)
  /\ UNCHANGED speedVars

ServeRun(g) == BeginRun(g) \/ BootWorld(g) \/ ForgetRun(g) \/ OtherStep(g)

ClientStep(g) == (SendGoal(g) \/ CancelGoal(g)) /\ UNCHANGED speedVars

LeaderEnds(g) == LeaderExits(g) /\ UNCHANGED speedVars

-----------------------------------------------------------------------------
(* gazebo.launch.py: set_rtf, three seconds after the server was started   *)

\* The factor _execute puts on the command line.
LaunchRtf(g) == IF GoalRtf[g] > 0 THEN GoalRtf[g] ELSE DefaultRtf

\* Whichever world answers first.
SetPhysics(rtf) == \E g \in Worlds : world' = [world EXCEPT ![g] = rtf]

BootRtf(g) ==
  /\ Explored /\ g \in booting
  /\ booting' = booting \ {g}
  /\ \/ SetPhysics(LaunchRtf(g)) /\ amiss' = (amiss \/ Applied # {})
     \/ UNCHANGED world /\ amiss' = TRUE
  /\ UNCHANGED <<orchVars, requested, call>>

-----------------------------------------------------------------------------
(* _set_speed and _set_gz_rtf                                              *)

\* What is refused changes nothing.
SetSpeed(c) ==
  /\ Explored /\ call[c] = "idle"
  /\ RtfControllable /\ state = "RUNNING" /\ CallRtf[c] > 0
  /\ call' = [call EXCEPT ![c] = "sent"]
  /\ UNCHANGED <<orchVars, requested, world, booting, amiss>>

\* The command reaches a world, of this run or of the next.
ApplySpeed(c) ==
  /\ call[c] = "sent"
  /\ SetPhysics(CallRtf[c])
  /\ call' = [call EXCEPT ![c] = "applied"]
  /\ amiss' = (amiss \/ state # "RUNNING" \/ booting # {} \/ Applied # {})
  /\ UNCHANGED <<orchVars, requested, booting>>

SpeedSet(c) ==
  /\ call[c] = "applied"
  /\ requested' = CallRtf[c]
  /\ call' = [call EXCEPT ![c] = "idle"]
  /\ UNCHANGED <<orchVars, world, booting, amiss>>

\* Mutant: the factor is taken over whether or not the world took it.
SpeedNotSetAnyhow(c) ==
  /\ call[c] # "idle"
  /\ requested' = CallRtf[c]
  /\ call' = [call EXCEPT ![c] = "idle"]
  /\ amiss' = (amiss \/ call[c] = "applied")
  /\ UNCHANGED <<orchVars, world, booting>>

\* The command is refused, or its answer comes too late.
SpeedNotSet(c) ==
  /\ call[c] # "idle"
  /\ call' = [call EXCEPT ![c] = "idle"]
  /\ amiss' = (amiss \/ call[c] = "applied")
  /\ UNCHANGED <<orchVars, requested, world, booting>>

-----------------------------------------------------------------------------

ControlNext ==
  \/ \E g \in Goals :
       ClientStep(g) \/ ServeRun(g) \/ LeaderEnds(g) \/ EndWorld(g) \/ BootRtf(g)
  \/ \E c \in Callers : SetSpeed(c) \/ ApplySpeed(c) \/ SpeedSet(c) \/ SpeedNotSet(c)

ControlSpec == ControlInit /\ [][ControlNext]_controlVars

\* The threads of the executor go on.
ControlFairSpec == ControlSpec /\ \A g \in Goals : WF_controlVars(ServeRun(g))

-----------------------------------------------------------------------------

\* The factor the panel is told is the one the world runs at, once the launch has
\* set its own and no change is half done: unless in this run two changes met, one
\* of them possibly from the run before, or the answer to one was lost.
FactorIsTrue ==
  patient /\ state = "RUNNING" /\ ~amiss /\ booting = {} /\ Applied = {} =>
    \A g \in Worlds : world[g] = IF requested = 0 THEN DefaultRtf ELSE requested

ControlInv == OrchTypeOK /\ ControlTypeOK /\ FactorIsTrue

=============================================================================
