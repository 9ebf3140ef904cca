------------------------------- MODULE Drone -------------------------------
(***************************************************************************)
(* The onboard autonomy of every interceptor: the state machine of         *)
(* mics/drone.py with the safety node (mics/safety.py) it consults first   *)
(* on every tick, and of the track filter (mics/fusion.py) the one thing   *)
(* the state machine reads, how old the last accepted measurement is.      *)
(*                                                                         *)
(* Time is counted in ticks of Drone.step.  What the numbers decide is a   *)
(* choice of the step: whether a sensor returns a measurement the filter   *)
(* accepts, whether the covariance is small enough for quality >= Q,       *)
(* whether range, closing speed and aspect satisfy the capture geometry,   *)
(* whether home is within half a metre.                                    *)
(***************************************************************************)
EXTENDS Msgs, Naturals

CONSTANTS
  TLock,        \* DroneParams.t_lock, ticks of good quality before a handoff
  TLost,        \* DroneParams.t_lost, the age at which a track is given up
  TFresh,       \* DroneParams.t_fresh, the oldest measurement one may fire on
  LostTimeout,  \* FusionEKF.lost_timeout, the age at which quality drops to 0
  Trips         \* the conditions that may force a return: "fence", "battery"

ASSUME DroneAssumption ==
  /\ TLock \in Nat \ {0}
  /\ TLost \in Nat
  /\ TFresh \in Nat
  /\ LostTimeout \in Nat
  /\ Trips \subseteq {"fence", "battery"}

VARIABLES
  state,           \* Drone.state
  assignment,      \* Drone.assignment.target_id, None when there is none
  lock,            \* _lock_timer, in ticks
  age,             \* now - fusion.last_update, in ticks, Stale and above as one
  trk,             \* the target whose measurements are in the filter
  low,             \* not battery_ok(battery_pct); nothing recharges a battery
  killed, armed,   \* Safety.killed, Safety.armed
  capture_events   \* what the last step appended for its caller to drain

droneVars == <<state, assignment, lock, age, trk, low, killed, armed, capture_events>>
safetyVars == <<killed, armed>>

\* Older than every threshold: also a filter nothing has seeded yet, whose
\* last_update is -1e9.
Stale == 1 + (IF TLost > LostTimeout THEN TLost ELSE LostTimeout)

Older(a) == IF a < Stale THEN a + 1 ELSE Stale

DroneTypeOK ==
  /\ state \in [Drones -> DroneState]
  /\ assignment \in [Drones -> Targets \cup {None}]
  /\ lock \in [Drones -> 0 .. TLock + 1]
  /\ age \in [Drones -> 0 .. Stale]
  /\ trk \in [Drones -> Targets \cup {None}]
  /\ low \in [Drones -> BOOLEAN]
  /\ killed \in [Drones -> BOOLEAN]
  /\ armed \in [Drones -> BOOLEAN]
  /\ capture_events \in [Drones -> SUBSET CaptureEvent]

DroneInit ==
  /\ state = [d \in Drones |-> "IDLE"]
  /\ assignment = [d \in Drones |-> None]
  /\ lock = [d \in Drones |-> 0]
  /\ age = [d \in Drones |-> Stale]
  /\ trk = [d \in Drones |-> None]
  /\ low = [d \in Drones |-> FALSE]
  /\ killed = [d \in Drones |-> FALSE]
  /\ armed = [d \in Drones |-> TRUE]
  /\ capture_events = [d \in Drones |-> {}]

-----------------------------------------------------------------------------
(* Tasking: set_assignment(a).                                             *)

ResetTrack(d) ==
  /\ lock' = [lock EXCEPT ![d] = 0]
  /\ age' = [age EXCEPT ![d] = Stale]
  /\ trk' = [trk EXCEPT ![d] = None]

ToIdle(d) ==
  /\ state' = [state EXCEPT ![d] = "IDLE"]
  /\ assignment' = [assignment EXCEPT ![d] = None]
  /\ ResetTrack(d)

\* target_id = 0.  A drone on its way home only forgets its target.
Unassign(d) ==
  \/ state[d] \in Engaged /\ ToIdle(d)
  \/ /\ state[d] \notin Engaged
     /\ assignment' = [assignment EXCEPT ![d] = None]
     /\ UNCHANGED <<state, lock, age, trk>>

\* Mutant: the filter and the lock timer survive a change of target.
RetaskKeepingTrack(d, t) ==
  /\ assignment' = [assignment EXCEPT ![d] = t]
  /\ state' = [state EXCEPT ![d] = IF @ = "IDLE" THEN "ASSIGNED" ELSE @]
  /\ UNCHANGED <<lock, age, trk>>

\* A new or a changed target.  Only an idle drone changes state: one that is
\* already engaged keeps its stage and starts the track of the new target.
Retask(d, t) ==
  \/ /\ assignment[d] = t
     /\ UNCHANGED <<state, assignment, lock, age, trk>>
  \/ /\ assignment[d] # t
     /\ assignment' = [assignment EXCEPT ![d] = t]
     /\ ResetTrack(d)
     /\ state' = [state EXCEPT ![d] = IF @ = "IDLE" THEN "ASSIGNED" ELSE @]

SetAssignment(d, t) ==
  /\ IF t = None THEN Unassign(d) ELSE Retask(d, t)
  /\ UNCHANGED <<low, killed, armed, capture_events>>

-----------------------------------------------------------------------------
(* The parts of one tick: step(now, dt, cue, attacker_truth, teammates).   *)
(* "visible" is the set of targets whose truth the caller has and which    *)
(* are alive in it; a drone senses only the one it is assigned.            *)

Drain(d) ==
  \/ UNCHANGED low
  \/ "battery" \in Trips /\ low' = [low EXCEPT ![d] = TRUE]

Nominal(d) == ~killed[d] /\ ~low'[d]

\* A sensor may return a measurement only of the assigned target's live truth.
Senses(d, visible) == assignment[d] \in visible

\* A radar or lidar return seeds the filter, an update inside the gate refreshes
\* it; a camera bearing alone does not seed it.
Measured(d) ==
  /\ age' = [age EXCEPT ![d] = 0]
  /\ trk' = [trk EXCEPT ![d] = assignment[d]]

\* Only the prediction ran: nothing was returned, or it was gated out.
Predicted(d) ==
  /\ age' = [age EXCEPT ![d] = Older(@)]
  /\ UNCHANGED trk

\* _run_sensors_and_fuse.
Fuse(d, visible) ==
  \/ Senses(d, visible) /\ Measured(d)
  \/ Predicted(d)

\* Whether quality() can reach q_handoff: it is 0 beyond LostTimeout, and below
\* it the covariance decides.
MayBeGood(d) == age'[d] <= LostTimeout

Emit(d, events) == capture_events' = [capture_events EXCEPT ![d] = events]

Report(d, result) == {[target |-> assignment[d], result |-> result]}

\* Mutant: the timer must exceed t_lock instead of reaching it.
HoldLockLate(d, here, next) ==
  \/ /\ MayBeGood(d)
     /\ lock' = [lock EXCEPT ![d] = @ + 1]
     /\ state' = [state EXCEPT ![d] = IF lock[d] + 1 > TLock THEN next ELSE here]
  \/ /\ lock' = [lock EXCEPT ![d] = 0]
     /\ state' = [state EXCEPT ![d] = here]

\* The lock timer of stage "here" counts the consecutive ticks of good quality.
HoldLock(d, here, next) ==
  \/ /\ MayBeGood(d)
     /\ lock' = [lock EXCEPT ![d] = @ + 1]
     /\ state' = [state EXCEPT ![d] = IF lock[d] + 1 >= TLock THEN next ELSE here]
  \/ /\ lock' = [lock EXCEPT ![d] = 0]
     /\ state' = [state EXCEPT ![d] = here]

\* _fail: a drone without an assignment has nobody to report a miss on.
Fail(d) ==
  /\ Emit(d, IF assignment[d] = None THEN {} ELSE Report(d, "MISS"))
  /\ state' = [state EXCEPT ![d] = "FAILED"]

\* Mutant: nothing tests whether home is reached.
GoHomeForever(d, here) ==
  state' = [state EXCEPT ![d] = here] /\ UNCHANGED <<assignment, lock, age, trk>>

\* _fly_to(home): idle once there.
GoHome(d, here) ==
  \/ ToIdle(d)
  \/ /\ state' = [state EXCEPT ![d] = here]
     /\ UNCHANGED <<assignment, lock, age, trk>>

-----------------------------------------------------------------------------
(* step(), one action for each way through it.                             *)

\* Safety first: any state but IDLE fails, and the same tick flies home.  Homes
\* lie inside the fence, so a drone that breaches it is not home yet.
RtlStep(d) ==
  /\ state[d] # "IDLE"
  /\ Drain(d)
  /\ Emit(d, IF assignment[d] = None THEN {} ELSE Report(d, "MISS"))
  /\ GoHome(d, "FAILED")
  /\ Nominal(d) => "fence" \in Trips /\ state'[d] = "FAILED"
  /\ UNCHANGED safetyVars

IdleStep(d) ==
  /\ state[d] = "IDLE"
  /\ Drain(d)
  /\ Emit(d, {})
  /\ UNCHANGED <<state, assignment, lock, age, trk, killed, armed>>

MidcourseStep(d, visible) ==
  /\ state[d] \in {"ASSIGNED", "MIDCOURSE"}
  /\ Drain(d)
  /\ Nominal(d)
  /\ Fuse(d, visible)
  /\ HoldLock(d, "MIDCOURSE", "ACQUIRING")
  /\ Emit(d, {})
  /\ UNCHANGED <<assignment, killed, armed>>

\* Mutant: ACQUIRING does not watch the age of the track.
AcquiringStepUnwatched(d, visible) ==
  /\ state[d] = "ACQUIRING"
  /\ Drain(d)
  /\ Nominal(d)
  /\ Fuse(d, visible)
  /\ HoldLock(d, "ACQUIRING", "TERMINAL") /\ Emit(d, {})
  /\ UNCHANGED <<assignment, killed, armed>>

AcquiringStep(d, visible) ==
  /\ state[d] = "ACQUIRING"
  /\ Drain(d)
  /\ Nominal(d)
  /\ Fuse(d, visible)
  /\ \/ age'[d] > TLost /\ Fail(d) /\ UNCHANGED lock
     \/ age'[d] <= TLost /\ HoldLock(d, "ACQUIRING", "TERMINAL") /\ Emit(d, {})
  /\ UNCHANGED <<assignment, killed, armed>>

\* Mutant: the capture is not gated on a fresh measurement.
CapturePermittedStale(d) == ~killed[d] /\ armed[d]

\* Geometry and teammate separation hold; freshness and the interlock decide.
CapturePermitted(d) == age'[d] <= TFresh /\ ~killed[d] /\ armed[d]

\* Mutant: the state is left at TERMINAL, and the capture claimed again in the next tick.
CaptureAgain(d) ==
  CapturePermitted(d) /\ Emit(d, Report(d, "SUCCESS")) /\ UNCHANGED state

Capture(d) ==
  /\ CapturePermitted(d)
  /\ Emit(d, Report(d, "SUCCESS"))
  /\ state' = [state EXCEPT ![d] = "CAPTURED"]

\* Neither in capture geometry nor diverging past the miss distance.
Pursue(d) == Emit(d, {}) /\ UNCHANGED state

TerminalStep(d, visible) ==
  /\ state[d] = "TERMINAL"
  /\ Drain(d)
  /\ Nominal(d)
  /\ Fuse(d, visible)
  /\ \/ age'[d] > TLost /\ Fail(d)
     \/ age'[d] <= TLost /\ (Capture(d) \/ Fail(d) \/ Pursue(d))
  /\ UNCHANGED <<assignment, lock, killed, armed>>

ReturnStep(d) ==
  /\ state[d] \in Returning
  /\ Drain(d)
  /\ Nominal(d)
  /\ Emit(d, {})
  /\ GoHome(d, state[d])
  /\ UNCHANGED safetyVars

Step(d, visible) ==
  \/ RtlStep(d)
  \/ IdleStep(d)
  \/ MidcourseStep(d, visible)
  \/ AcquiringStep(d, visible)
  \/ TerminalStep(d, visible)
  \/ ReturnStep(d)

-----------------------------------------------------------------------------
(* The safety node's switches.                                             *)

Kill(d) ==
  /\ killed' = [killed EXCEPT ![d] = TRUE]
  /\ UNCHANGED <<state, assignment, lock, age, trk, low, armed, capture_events>>

SetArmed(d, a) ==
  /\ armed' = [armed EXCEPT ![d] = a]
  /\ UNCHANGED <<state, assignment, lock, age, trk, low, killed, capture_events>>

-----------------------------------------------------------------------------
(* Drones under a ground station that may send any assignment at any time. *)

Tasked(d) == \E t \in Targets \cup {None} : SetAssignment(d, t)

\* The drone senses its target or it does not.
Stepped(d) == \E visible \in {{}, Targets} : Step(d, visible)

Switched(d) == Kill(d) \/ \E a \in BOOLEAN : SetArmed(d, a)

DroneNext == \E d \in Drones : Tasked(d) \/ Stepped(d) \/ Switched(d)

DroneSpec == DroneInit /\ [][DroneNext]_droneVars

-----------------------------------------------------------------------------

\* An idle drone holds no target and no track, an engaged one always has a
\* target: the two fields set_assignment, _fail and _to_idle write on separate
\* paths never disagree, whatever order of assignments arrives.
TaskConsistent ==
  \A d \in Drones :
    /\ state[d] = "IDLE" => assignment[d] = None /\ trk[d] = None
    /\ state[d] \in Engaged => assignment[d] # None

\* The filter never mixes two targets: what it holds was measured on the target
\* the drone is assigned now, and a filter that was never seeded is stale.
TrackOfTask ==
  \A d \in Drones :
    /\ assignment[d] # None => trk[d] \in {None, assignment[d]}
    /\ trk[d] = None => age[d] = Stale

\* Stage, assignment and track agree.
TaskAndTrack == TaskConsistent /\ TrackOfTask

\* The handoff never comes late: a drone still in midcourse has not held the lock
\* for T_lock, and one still acquiring is at most at the end of it.
HandoffInTime ==
  \A d \in Drones :
    /\ state[d] \in {"ASSIGNED", "MIDCOURSE"} => lock[d] < TLock
    /\ state[d] = "ACQUIRING" => lock[d] <= TLock

\* What a drone's fields and its lock timer may be: the bound of the timer is what keeps
\* them in range, whatever comes between MIDCOURSE and ACQUIRING.
TimerInv == DroneTypeOK /\ HandoffInTime

\* The payload fires only on a fresh measurement of the very target it is
\* reported against, never when killed, disarmed or out of battery, however the
\* drone was retasked while it pursued (FR-OB-5, "never fire on a stale/ghost
\* estimate").
FiresConfirmed(d) ==
  state[d] # "CAPTURED" /\ state'[d] = "CAPTURED" =>
    /\ age'[d] <= TFresh
    /\ armed[d] /\ ~killed[d] /\ ~low'[d]
    /\ assignment[d] \in Targets
    /\ trk'[d] = assignment[d]
    /\ capture_events'[d] = {[target |-> assignment[d], result |-> "SUCCESS"]}

CaptureConfirmed == [][\A d \in Drones : FiresConfirmed(d)]_droneVars

\* The stages of an engagement as the ground station tells them apart: ASSIGNED and
\* MIDCOURSE are one, and so are the two ways in which it can be over.
Stage(s) ==
  CASE s = "IDLE"                      -> "none"
    [] s \in {"ASSIGNED", "MIDCOURSE"} -> "approach"
    [] s = "ACQUIRING"                 -> "acquire"
    [] s = "TERMINAL"                  -> "pursue"
    [] s \in Returning                 -> "over"

Stages == [d \in Drones |-> Stage(state[d])]

Promise == INSTANCE Engagement WITH
  stage <- Stages, target <- assignment, report <- capture_events

\* Every drone keeps to Engagement, however it is tasked, killed and disarmed: it claims
\* one success at most in each engagement, which is over with it, skips no stage, and
\* reports every engagement it loses.
KeepsPromise == Promise!EngagementSpec

\* A drone that goes on pursuing after its tick flies on a track of the very target it is
\* assigned, not older than the timers allow: a retasking that reset the track in the
\* middle of a pursuit is over with the next tick, one way or the other.
PursuesTrack(d) ==
  state'[d] \in {"ACQUIRING", "TERMINAL"} => trk'[d] = assignment'[d] /\ age'[d] < Stale

\* A drone never pursues for ever on dead reckoning: either measurements keep
\* coming or the loss timers of ACQUIRING and TERMINAL end the engagement, even
\* if retasking keeps restarting the track.
PursuitNeedsMeasurements ==
  \A d \in Drones : []<>(age[d] = 0 \/ state[d] \notin {"ACQUIRING", "TERMINAL"})

\* A drone whose engagement ended becomes idle again, so it can be tasked again,
\* also when the safety node keeps failing it on its way home.
ReturnsToIdle ==
  \A d \in Drones : state[d] \in Returning ~> state[d] = "IDLE"

=============================================================================
