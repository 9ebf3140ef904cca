----------------------------- MODULE SystemProofs -----------------------------
(***************************************************************************)
(* Proofs about Drone and Allocator, and about the two ways they are put   *)
(* together, Simulation and Fleet, for any drones in any order, any finite *)
(* set of targets, any timers and redundancy, and queues of any depth that *)
(* holds the table.  The two compositions rest on what is shown of one     *)
(* step of one drone and of one run of allocate().                         *)
(***************************************************************************)
EXTENDS Simulation, Fleet, FiniteSetTheorems, SequenceTheorems, TLAPS

-----------------------------------------------------------------------------
(* Drone.  The inductive invariant is the conjunction of the four           *)
(* invariants that the runs check: the bound of the lock timer needs        *)
(* HandoffInTime, and that no drone mixes two targets needs to know that an *)
(* engaged drone has one.                                                   *)

DroneInv == DroneTypeOK /\ TaskConsistent /\ TrackOfTask /\ HandoffInTime

\* Stale is an age that exceeds both loss thresholds.
LEMMA StaleFact ==
  /\ Stale \in Nat
  /\ Stale > TLost
  /\ Stale > LostTimeout
  /\ \A a \in 0 .. Stale : Older(a) \in 0 .. Stale
  /\ Older(Stale) = Stale
BY DroneAssumption DEF Stale, Older

\* Initially every drone is idle without a target and with an unseeded filter.
LEMMA DroneInitInv == DroneInit => DroneInv
BY StaleFact, DroneAssumption
DEF DroneInit, DroneInv, DroneTypeOK, TaskConsistent, TrackOfTask, HandoffInTime,
    DroneState, Engaged, CaptureEvent

-----------------------------------------------------------------------------

\* Tasking: whatever target comes, in whatever state the drone is, the pair of
\* target and track stays consistent.
LEMMA SetAssignmentInv ==
  ASSUME DroneInv, NEW d \in Drones, NEW t \in Targets \cup {None}, SetAssignment(d, t)
  PROVE  DroneInv'
<1> USE DroneAssumption, NoneAssumption, StaleFact
    DEF DroneInv, DroneTypeOK, TaskConsistent, TrackOfTask, HandoffInTime,
        ResetTrack, ToIdle, Engaged, DroneState
<1>1. CASE t = None /\ state[d] \in Engaged
  BY <1>1 DEF SetAssignment, Unassign
<1>2. CASE t = None /\ state[d] \notin Engaged
  BY <1>2 DEF SetAssignment, Unassign
<1>3. CASE t # None
  BY <1>3 DEF SetAssignment, Retask
<1> QED BY <1>1, <1>2, <1>3

-----------------------------------------------------------------------------

\* One run of the track filter for an engaged drone: an age in range, a track of
\* the assigned target or none, and a seeded filter whenever the age is small.
LEMMA FuseFact ==
  ASSUME DroneInv, NEW d \in Drones, NEW visible \in SUBSET Targets,
         state[d] \in Engaged, Fuse(d, visible)
  PROVE  /\ age' \in [Drones -> 0 .. Stale]
         /\ trk' \in [Drones -> Targets \cup {None}]
         /\ trk'[d] \in {None, assignment[d]}
         /\ trk'[d] = None => age'[d] = Stale
         /\ \A e \in Drones \ {d} : age'[e] = age[e] /\ trk'[e] = trk[e]
<1> USE StaleFact, NoneAssumption
    DEF DroneInv, DroneTypeOK, TaskConsistent, TrackOfTask
<1>1. CASE Measured(d)
  BY <1>1 DEF Measured
<1>2. CASE Predicted(d)
  BY <1>2 DEF Predicted
<1> QED BY <1>1, <1>2 DEF Fuse

\* One run of the battery: the flags stay flags.
LEMMA DrainFact ==
  ASSUME DroneInv, NEW d \in Drones, Drain(d)
  PROVE  low' \in [Drones -> BOOLEAN]
BY DEF Drain, DroneInv, DroneTypeOK

\* What a step emits is a set of capture events of the assigned target.
LEMMA EmitFact ==
  ASSUME DroneInv, NEW d \in Drones, NEW events \in SUBSET CaptureEvent, Emit(d, events)
  PROVE  capture_events' \in [Drones -> SUBSET CaptureEvent]
BY DEF Emit, DroneInv, DroneTypeOK

LEMMA ReportFact ==
  ASSUME DroneInv, NEW d \in Drones, NEW result \in {"SUCCESS", "MISS"}
  PROVE  Report(d, result) \in SUBSET CaptureEvent
BY DEF Report, CaptureEvent, DroneInv, DroneTypeOK

\* The lock timer of a stage: it grows by one below the bound of the stage.
LEMMA HoldLockFact ==
  ASSUME DroneInv, NEW d \in Drones, NEW here \in DroneState, NEW next \in DroneState,
         lock[d] \in 0 .. TLock, HoldLock(d, here, next)
  PROVE  /\ lock' \in [Drones -> 0 .. TLock + 1]
         /\ state' \in [Drones -> DroneState]
         /\ \/ state'[d] = here /\ lock'[d] < TLock
            \/ state'[d] = next /\ lock'[d] <= lock[d] + 1
         /\ \A e \in Drones \ {d} : state'[e] = state[e] /\ lock'[e] = lock[e]
BY DroneAssumption DEF HoldLock, DroneInv, DroneTypeOK

-----------------------------------------------------------------------------
(* step(), one lemma for each way through it.                              *)

LEMMA RtlStepInv ==
  ASSUME DroneInv, NEW d \in Drones, RtlStep(d)
  PROVE  DroneInv'
<1>1. /\ low' \in [Drones -> BOOLEAN]
      /\ capture_events' \in [Drones -> SUBSET CaptureEvent]
  <2>1. (IF assignment[d] = None THEN {} ELSE Report(d, "MISS")) \in SUBSET CaptureEvent
    BY ReportFact
  <2> QED BY <2>1, DrainFact, EmitFact DEF RtlStep
<1> USE DEF DroneInv, DroneTypeOK, TaskConsistent, TrackOfTask, HandoffInTime
<1>2. CASE ToIdle(d)
  BY <1>1, <1>2, DroneAssumption, NoneAssumption, StaleFact
  DEF RtlStep, ToIdle, ResetTrack, safetyVars, DroneState, Engaged
<1>3. CASE state' = [state EXCEPT ![d] = "FAILED"] /\ UNCHANGED <<assignment, lock, age, trk>>
  BY <1>1, <1>3, DroneAssumption DEF RtlStep, safetyVars, DroneState, Engaged
<1>4. QED BY <1>2, <1>3 DEF RtlStep, GoHome

LEMMA IdleStepInv ==
  ASSUME DroneInv, NEW d \in Drones, IdleStep(d)
  PROVE  DroneInv'
<1>1. /\ low' \in [Drones -> BOOLEAN]
      /\ capture_events' \in [Drones -> SUBSET CaptureEvent]
  BY DrainFact, EmitFact DEF IdleStep
<1>2. QED
  BY <1>1 DEF IdleStep, DroneInv, DroneTypeOK, TaskConsistent, TrackOfTask, HandoffInTime

LEMMA MidcourseStepInv ==
  ASSUME DroneInv, NEW d \in Drones, NEW visible \in SUBSET Targets, MidcourseStep(d, visible)
  PROVE  DroneInv'
<1>1. /\ low' \in [Drones -> BOOLEAN]
      /\ capture_events' \in [Drones -> SUBSET CaptureEvent]
  BY DrainFact, EmitFact DEF MidcourseStep
<1>2. state[d] \in Engaged /\ lock[d] \in 0 .. TLock /\ lock[d] + 1 <= TLock
  BY DroneAssumption DEF MidcourseStep, Engaged, DroneInv, DroneTypeOK, HandoffInTime
<1>3. /\ age' \in [Drones -> 0 .. Stale]
      /\ trk' \in [Drones -> Targets \cup {None}]
      /\ trk'[d] \in {None, assignment[d]}
      /\ trk'[d] = None => age'[d] = Stale
      /\ \A e \in Drones \ {d} : age'[e] = age[e] /\ trk'[e] = trk[e]
  BY <1>2, FuseFact DEF MidcourseStep
<1>4. /\ lock' \in [Drones -> 0 .. TLock + 1]
      /\ state' \in [Drones -> DroneState]
      /\ \/ state'[d] = "MIDCOURSE" /\ lock'[d] < TLock
         \/ state'[d] = "ACQUIRING" /\ lock'[d] <= lock[d] + 1
      /\ \A e \in Drones \ {d} : state'[e] = state[e] /\ lock'[e] = lock[e]
  BY <1>2, HoldLockFact DEF MidcourseStep, DroneState
<1>5. QED
  BY <1>1, <1>2, <1>3, <1>4, DroneAssumption
  DEF MidcourseStep, DroneInv, DroneTypeOK, TaskConsistent, TrackOfTask, HandoffInTime, Engaged

LEMMA AcquiringStepInv ==
  ASSUME DroneInv, NEW d \in Drones, NEW visible \in SUBSET Targets, AcquiringStep(d, visible)
  PROVE  DroneInv'
<1>1. state[d] \in Engaged /\ assignment[d] # None /\ lock[d] \in 0 .. TLock
  BY DroneAssumption
  DEF AcquiringStep, Engaged, DroneInv, DroneTypeOK, TaskConsistent, HandoffInTime
<1>2. /\ age' \in [Drones -> 0 .. Stale]
      /\ trk' \in [Drones -> Targets \cup {None}]
      /\ trk'[d] \in {None, assignment[d]}
      /\ trk'[d] = None => age'[d] = Stale
      /\ \A e \in Drones \ {d} : age'[e] = age[e] /\ trk'[e] = trk[e]
  BY <1>1, FuseFact DEF AcquiringStep
<1>3. low' \in [Drones -> BOOLEAN]
  BY DrainFact DEF AcquiringStep
<1>4. CASE Fail(d) /\ UNCHANGED lock
  <2>1. capture_events' \in [Drones -> SUBSET CaptureEvent]
    BY <1>1, <1>4, ReportFact, EmitFact DEF Fail
  <2>2. QED
    BY <1>1, <1>2, <1>3, <1>4, <2>1
    DEF Fail, AcquiringStep, DroneInv, DroneTypeOK, TaskConsistent, TrackOfTask, HandoffInTime,
        DroneState, Engaged
<1>5. CASE HoldLock(d, "ACQUIRING", "TERMINAL") /\ Emit(d, {})
  <2>1. capture_events' \in [Drones -> SUBSET CaptureEvent]
    BY <1>5, EmitFact
  <2>2. /\ lock' \in [Drones -> 0 .. TLock + 1]
        /\ state' \in [Drones -> DroneState]
        /\ \/ state'[d] = "ACQUIRING" /\ lock'[d] < TLock
           \/ state'[d] = "TERMINAL" /\ lock'[d] <= lock[d] + 1
        /\ \A e \in Drones \ {d} : state'[e] = state[e] /\ lock'[e] = lock[e]
    BY <1>1, <1>5, HoldLockFact DEF DroneState
  <2>3. QED
    BY <1>1, <1>2, <1>3, <2>1, <2>2, DroneAssumption
    DEF AcquiringStep, DroneInv, DroneTypeOK, TaskConsistent, TrackOfTask, HandoffInTime, Engaged
<1>6. QED BY <1>4, <1>5 DEF AcquiringStep

LEMMA TerminalStepInv ==
  ASSUME DroneInv, NEW d \in Drones, NEW visible \in SUBSET Targets, TerminalStep(d, visible)
  PROVE  DroneInv'
<1>1. state[d] \in Engaged /\ assignment[d] # None
  BY DEF TerminalStep, Engaged, DroneInv, TaskConsistent
<1>2. /\ age' \in [Drones -> 0 .. Stale]
      /\ trk' \in [Drones -> Targets \cup {None}]
      /\ trk'[d] \in {None, assignment[d]}
      /\ trk'[d] = None => age'[d] = Stale
      /\ \A e \in Drones \ {d} : age'[e] = age[e] /\ trk'[e] = trk[e]
  BY <1>1, FuseFact DEF TerminalStep
<1>3. low' \in [Drones -> BOOLEAN]
  BY DrainFact DEF TerminalStep
<1>4. capture_events' \in [Drones -> SUBSET CaptureEvent]
  BY <1>1, ReportFact, EmitFact DEF TerminalStep, Fail, Capture, Pursue
<1>5. state' = state \/ \E s \in Returning : state' = [state EXCEPT ![d] = s]
  BY DEF TerminalStep, Fail, Capture, Pursue, Returning
<1>6. QED
  BY <1>1, <1>2, <1>3, <1>4, <1>5
  DEF TerminalStep, DroneInv, DroneTypeOK, TaskConsistent, TrackOfTask, HandoffInTime, DroneState,
      Engaged, Returning

LEMMA ReturnStepInv ==
  ASSUME DroneInv, NEW d \in Drones, ReturnStep(d)
  PROVE  DroneInv'
<1>1. /\ low' \in [Drones -> BOOLEAN]
      /\ capture_events' \in [Drones -> SUBSET CaptureEvent]
  BY DrainFact, EmitFact DEF ReturnStep
<1>2. QED
  BY <1>1, DroneAssumption, NoneAssumption, StaleFact
  DEF ReturnStep, GoHome, ToIdle, ResetTrack, safetyVars, DroneInv, DroneTypeOK, TaskConsistent,
      TrackOfTask, HandoffInTime, DroneState, Engaged, Returning

\* The switches of the safety node touch nothing the invariant relates.
LEMMA SwitchedInv ==
  ASSUME DroneInv, NEW d \in Drones, Switched(d)
  PROVE  DroneInv'
<1>1. UNCHANGED <<state, assignment, lock, age, trk, low, capture_events>>
  BY DEF Switched, Kill, SetArmed
<1>2. killed' \in [Drones -> BOOLEAN] /\ armed' \in [Drones -> BOOLEAN]
  <2>1. CASE Kill(d)
    BY <2>1 DEF Kill, DroneInv, DroneTypeOK
  <2>2. ASSUME NEW a \in BOOLEAN, SetArmed(d, a)
        PROVE  killed' \in [Drones -> BOOLEAN] /\ armed' \in [Drones -> BOOLEAN]
    BY <2>2 DEF SetArmed, DroneInv, DroneTypeOK
  <2>3. QED BY <2>1, <2>2 DEF Switched
<1>3. QED
  BY <1>1, <1>2 DEF DroneInv, DroneTypeOK, TaskConsistent, TrackOfTask, HandoffInTime

\* One tick of one drone, whichever way it takes through step() and whatever truth
\* its caller has.
LEMMA StepInv ==
  ASSUME DroneInv, NEW d \in Drones, NEW visible \in SUBSET Targets, Step(d, visible)
  PROVE  DroneInv'
BY RtlStepInv, IdleStepInv, MidcourseStepInv, AcquiringStepInv, TerminalStepInv, ReturnStepInv
DEF Step

LEMMA SteppedInv ==
  ASSUME DroneInv, NEW d \in Drones, Stepped(d)
  PROVE  DroneInv'
BY StepInv DEF Stepped

LEMMA DroneNextInv == DroneInv /\ [DroneNext]_droneVars => DroneInv'
<1> SUFFICES ASSUME DroneInv, [DroneNext]_droneVars PROVE DroneInv'
  OBVIOUS
<1>1. CASE UNCHANGED droneVars
  BY <1>1
  DEF droneVars, DroneInv, DroneTypeOK, TaskConsistent, TrackOfTask, HandoffInTime
<1>2. ASSUME NEW d \in Drones, Tasked(d) PROVE DroneInv'
  BY <1>2, SetAssignmentInv DEF Tasked
<1>3. ASSUME NEW d \in Drones, Stepped(d) PROVE DroneInv'
  BY <1>3, SteppedInv
<1>4. ASSUME NEW d \in Drones, Switched(d) PROVE DroneInv'
  BY <1>4, SwitchedInv
<1>5. QED BY <1>1, <1>2, <1>3, <1>4 DEF DroneNext

\* Every reachable state satisfies the four invariants the runs of Drone check.
THEOREM DroneInvariant == DroneSpec => []DroneInv
<1>1. DroneInit => DroneInv
  BY DroneInitInv
<1>2. DroneInv /\ [DroneNext]_droneVars => DroneInv'
  BY DroneNextInv
<1>3. QED BY <1>1, <1>2, PTL DEF DroneSpec

\* Type correctness, and the handoff is never late: the lock timer, which set_assignment
\* and both stages write, stays within one tick of T_lock.
THEOREM TimersInRange == DroneSpec => []TimerInv
<1>1. DroneInv => TimerInv
  BY DEF DroneInv, TimerInv
<1>2. QED BY <1>1, DroneInvariant, PTL

\* Idle drones hold nothing, engaged drones have a target, and the filter never
\* holds measurements of a target other than the assigned one.
THEOREM TaskAndTrackConsistent == DroneSpec => []TaskAndTrack
<1>1. DroneInv => TaskAndTrack
  BY DEF DroneInv, TaskAndTrack
<1>2. QED BY <1>1, DroneInvariant, PTL

-----------------------------------------------------------------------------
(* FR-OB-5, on every step.                                                 *)

\* No tasking leads to CAPTURED.
LEMMA TaskingFiresNothing ==
  ASSUME DroneInv, NEW d \in Drones, NEW e \in Drones, NEW t \in Targets \cup {None},
         SetAssignment(e, t)
  PROVE  state'[d] = "CAPTURED" => state[d] = "CAPTURED"
BY DEF SetAssignment, Unassign, Retask, ToIdle, DroneInv, DroneTypeOK, DroneState

\* The only way to CAPTURED is the capture of TERMINAL, on a fresh measurement.
LEMMA StepFiresConfirmed ==
  ASSUME DroneInv, NEW d \in Drones, NEW e \in Drones, NEW visible \in SUBSET Targets,
         Step(e, visible)
  PROVE  FiresConfirmed(d)
<1> SUFFICES ASSUME state[d] # "CAPTURED", state'[d] = "CAPTURED"
    PROVE  /\ age'[d] <= TFresh
           /\ armed[d] /\ ~killed[d] /\ ~low'[d]
           /\ assignment[d] \in Targets
           /\ trk'[d] = assignment[d]
           /\ capture_events'[d] = {[target |-> assignment[d], result |-> "SUCCESS"]}
  BY DEF FiresConfirmed
<1> USE DEF DroneInv, DroneTypeOK, DroneState
<1>1. e = d /\ TerminalStep(d, visible)
  <2>1. ~RtlStep(e)
    BY DEF RtlStep, GoHome, ToIdle
  <2>2. ~IdleStep(e)
    BY DEF IdleStep
  <2>3. ~MidcourseStep(e, visible)
    BY DEF MidcourseStep, HoldLock
  <2>4. ~AcquiringStep(e, visible)
    BY DEF AcquiringStep, HoldLock, Fail
  <2>5. ~ReturnStep(e)
    BY DEF ReturnStep, GoHome, ToIdle, Returning
  <2>6. TerminalStep(e, visible)
    BY <2>1, <2>2, <2>3, <2>4, <2>5 DEF Step
  <2>7. QED
    BY <2>6 DEF TerminalStep, Fail, Capture, Pursue
<1>2. Capture(d) /\ age'[d] <= TLost /\ Nominal(d) /\ Fuse(d, visible)
  BY <1>1 DEF TerminalStep, Fail, Pursue
<1>3. state[d] \in Engaged /\ assignment[d] \in Targets
  BY <1>1 DEF TerminalStep, Engaged, TaskConsistent
<1>4. trk'[d] \in {None, assignment[d]} /\ (trk'[d] = None => age'[d] = Stale)
  BY <1>2, <1>3, FuseFact
<1>5. trk'[d] = assignment[d]
  BY <1>2, <1>4, StaleFact, DroneAssumption
<1>6. QED
  BY <1>2, <1>3, <1>5 DEF Capture, CapturePermitted, Emit, Report, Nominal

\* Neither the switches nor a stuttering step change any drone's stage.
LEMMA NextFiresConfirmed ==
  ASSUME DroneInv, NEW d \in Drones, [DroneNext]_droneVars
  PROVE  FiresConfirmed(d)
<1>1. ASSUME NEW e \in Drones, Tasked(e) PROVE FiresConfirmed(d)
  BY <1>1, TaskingFiresNothing DEF Tasked, FiresConfirmed
<1>2. ASSUME NEW e \in Drones, Stepped(e) PROVE FiresConfirmed(d)
  BY <1>2, StepFiresConfirmed DEF Stepped
<1>3. ASSUME NEW e \in Drones, Switched(e) PROVE FiresConfirmed(d)
  BY <1>3 DEF Switched, Kill, SetArmed, FiresConfirmed
<1>4. CASE UNCHANGED droneVars
  BY <1>4 DEF droneVars, FiresConfirmed
<1>5. QED BY <1>1, <1>2, <1>3, <1>4 DEF DroneNext

\* The payload never fires on a stale track, on another target's track, or while
\* the drone is disarmed, killed or out of battery.
THEOREM CaptureIsConfirmed == DroneSpec => CaptureConfirmed
<1>1. DroneInv /\ [DroneNext]_droneVars => [\A d \in Drones : FiresConfirmed(d)]_droneVars
  BY NextFiresConfirmed
<1>2. QED BY <1>1, DroneInvariant, PTL DEF DroneSpec, CaptureConfirmed

\* Each tick of a pursuit measures its target in time or ends it.
LEMMA StepPursuesTrack ==
  ASSUME DroneInv, NEW d \in Drones, NEW visible \in SUBSET Targets, Step(d, visible)
  PROVE  PursuesTrack(d)
<1> SUFFICES ASSUME state'[d] \in {"ACQUIRING", "TERMINAL"}
             PROVE  trk'[d] = assignment'[d] /\ age'[d] < Stale
  BY DEF PursuesTrack
<1> USE DEF DroneInv, DroneTypeOK, DroneState
<1>1. MidcourseStep(d, visible) \/ AcquiringStep(d, visible) \/ TerminalStep(d, visible)
  <2>1. ~RtlStep(d)
    BY DEF RtlStep, GoHome, ToIdle
  <2>2. ~IdleStep(d)
    BY DEF IdleStep
  <2>3. ~ReturnStep(d)
    BY DEF ReturnStep, GoHome, ToIdle, Returning
  <2>4. QED BY <2>1, <2>2, <2>3 DEF Step
<1>2. state[d] \in Engaged /\ assignment[d] \in Targets
  BY <1>1 DEF MidcourseStep, AcquiringStep, TerminalStep, Engaged, TaskConsistent
<1>3. Fuse(d, visible) /\ UNCHANGED assignment
  BY <1>1 DEF MidcourseStep, AcquiringStep, TerminalStep
<1>4. trk'[d] \in {None, assignment[d]} /\ (trk'[d] = None => age'[d] = Stale)
  BY <1>2, <1>3, FuseFact
<1>5. age'[d] <= TLost \/ age'[d] <= LostTimeout
  <2>1. CASE MidcourseStep(d, visible)
    BY <2>1 DEF MidcourseStep, HoldLock, MayBeGood
  <2>2. CASE AcquiringStep(d, visible)
    BY <2>2 DEF AcquiringStep, Fail
  <2>3. CASE TerminalStep(d, visible)
    BY <2>3 DEF TerminalStep, Fail
  <2>4. QED BY <1>1, <2>1, <2>2, <2>3
<1>6. age'[d] \in 0 .. Stale
  BY <1>3, <1>2, FuseFact
<1>7. age'[d] < Stale
  BY <1>5, <1>6, DroneAssumption DEF Stale
<1>8. QED BY <1>3, <1>4, <1>6, <1>7, StaleFact

\* The safety half of PursuitNeedsMeasurements: no tick leaves a drone in pursuit without a
\* track of its target, however it was retasked before.
THEOREM PursuesItsTarget ==
  DroneSpec => [][\A d \in Drones : Stepped(d) => PursuesTrack(d)]_droneVars
<1>1. DroneInv /\ [DroneNext]_droneVars =>
        [\A d \in Drones : Stepped(d) => PursuesTrack(d)]_droneVars
  BY StepPursuesTrack DEF Stepped
<1>2. QED BY <1>1, DroneInvariant, PTL DEF DroneSpec

-----------------------------------------------------------------------------
(* The engagement.  Every step of one drone is a step of Engagement.       *)

LEMMA StagesFact ==
  ASSUME state \in [Drones -> DroneState], NEW d \in Drones, NEW s,
         state' = [state EXCEPT ![d] = s]
  PROVE  Stages' = [Stages EXCEPT ![d] = Stage(s)]
BY DEF Stages

\* Which states each stage stands for.
LEMMA StageFact ==
  ASSUME NEW s \in DroneState
  PROVE  /\ s = "IDLE" => Stage(s) = "none"
         /\ s \in {"ASSIGNED", "MIDCOURSE"} => Stage(s) = "approach"
         /\ s = "ACQUIRING" => Stage(s) = "acquire"
         /\ s = "TERMINAL" => Stage(s) = "pursue"
         /\ s \in Returning => Stage(s) = "over"
         /\ s \in Engaged <=> Stage(s) \in Promise!UnderWay
BY DEF Stage, DroneState, Returning, Engaged, Promise!UnderWay

\* A drone that keeps its state, or leaves ASSIGNED for MIDCOURSE, keeps its stage.
LEMMA StageKept ==
  ASSUME DroneInv, NEW d \in Drones, NEW s \in DroneState, Stage(s) = Stage(state[d]),
         state' = [state EXCEPT ![d] = s]
  PROVE  Stages' = Stages
<1>1. Stages' = [Stages EXCEPT ![d] = Stages[d]]
  BY StagesFact DEF DroneInv, DroneTypeOK, Stages
<1>2. QED BY <1>1 DEF Stages

\* An idle drone rests.
LEMMA IdleRests ==
  ASSUME DroneInv, NEW d \in Drones, ToIdle(d)
  PROVE  Promise!Rests(d)
<1>1. Stage("IDLE") = "none"
  BY StageFact DEF DroneState
<1>2. Stages' = [Stages EXCEPT ![d] = "none"]
  BY <1>1, StagesFact DEF ToIdle, DroneInv, DroneTypeOK
<1>3. QED BY <1>2 DEF ToIdle, Promise!Rests, Promise!Enters

\* Every assignment, whatever the drone is doing.
LEMMA TaskingEngages ==
  ASSUME DroneInv, NEW d \in Drones, NEW t \in Targets \cup {None}, SetAssignment(d, t)
  PROVE  [Promise!EngagementNext]_Promise!engagementVars
<1> USE DEF DroneInv, DroneTypeOK
<1>0. UNCHANGED capture_events
  BY DEF SetAssignment
<1>1. CASE t = None /\ state[d] \in Engaged
  <2>1. ToIdle(d)
    BY <1>1 DEF SetAssignment, Unassign
  <2>2. Stages[d] \in Promise!UnderWay
    BY <1>1, StageFact DEF Stages
  <2>3. Promise!Rests(d)
    BY <2>1, IdleRests
  <2>4. Promise!Withdraw(d)
    BY <1>0, <2>2, <2>3 DEF Promise!Withdraw
  <2>5. QED BY <2>4 DEF Promise!EngagementNext
<1>2. CASE t = None /\ state[d] \notin Engaged
  <2>1. assignment' = [assignment EXCEPT ![d] = None] /\ UNCHANGED state
    BY <1>2 DEF SetAssignment, Unassign
  <2>2. Stages' = Stages
    BY <2>1 DEF Stages
  <2>3. CASE state[d] = "IDLE"
    BY <1>0, <2>1, <2>2, <2>3 DEF TaskConsistent, Promise!engagementVars
  <2>4. CASE state[d] # "IDLE"
    <3>1. Stages[d] = "over"
      BY <1>2, <2>4, StageFact DEF Stages, Engaged, Returning, DroneState
    <3>2. Promise!Withdraw(d)
      BY <1>0, <2>1, <2>2, <3>1 DEF Promise!Withdraw
    <3>3. QED BY <3>2 DEF Promise!EngagementNext
  <2>5. QED BY <2>3, <2>4
<1>3. CASE t # None /\ assignment[d] = t
  BY <1>0, <1>3 DEF SetAssignment, Retask, Promise!engagementVars, Stages
<1>4. CASE t # None /\ assignment[d] # t
  <2>1. /\ assignment' = [assignment EXCEPT ![d] = t]
        /\ state' = [state EXCEPT ![d] = IF @ = "IDLE" THEN "ASSIGNED" ELSE @]
    BY <1>4 DEF SetAssignment, Retask
  <2>2. CASE state[d] = "IDLE"
    <3>1. Stages[d] = "none"
      BY <2>2, StageFact DEF Stages
    <3>2. Promise!Enters(d, "approach")
      <4>1. state' = [state EXCEPT ![d] = "ASSIGNED"]
        BY <2>1, <2>2
      <4>2. Stage("ASSIGNED") = "approach"
        BY StageFact DEF DroneState
      <4>3. QED BY <4>1, <4>2, StagesFact DEF Promise!Enters
    <3>3. Promise!Engage(d, t)
      BY <1>0, <2>1, <3>1, <3>2 DEF Promise!Engage
    <3>4. QED BY <1>4, <3>3 DEF Promise!EngagementNext
  <2>3. CASE state[d] # "IDLE"
    <3>1. Stages[d] # "none"
      BY <2>3, StageFact DEF Stages, DroneState, Returning
    <3>2. Stages' = Stages
      BY <2>1, <2>3, StageKept
    <3>3. Promise!Engage(d, t)
      BY <1>0, <2>1, <3>1, <3>2 DEF Promise!Engage
    <3>4. QED BY <1>4, <3>3 DEF Promise!EngagementNext
  <2>4. QED BY <2>2, <2>3
<1>5. QED BY <1>1, <1>2, <1>3, <1>4

\* A lost engagement, and one the safety node ends, is an Abort.
LEMMA LossAborts ==
  ASSUME DroneInv, NEW d \in Drones, state[d] # "IDLE",
         Emit(d, IF assignment[d] = None THEN {} ELSE Report(d, "MISS")),
         \/ ToIdle(d)
         \/ state' = [state EXCEPT ![d] = "FAILED"] /\ UNCHANGED assignment
  PROVE  Promise!EngagementNext
<1> USE DEF DroneInv, DroneTypeOK
<1>1. Stages[d] # "none"
  BY StageFact DEF Stages, DroneState, Returning
<1>2. Promise!Reports(d, IF assignment[d] = None THEN {} ELSE Promise!Outcome(d, "MISS"))
  BY DEF Emit, Report, Promise!Reports, Promise!Outcome
<1>3. Promise!Rests(d) \/ (Promise!Enters(d, "over") /\ UNCHANGED assignment)
  <2>1. CASE ToIdle(d)
    BY <2>1, IdleRests
  <2>2. CASE state' = [state EXCEPT ![d] = "FAILED"] /\ UNCHANGED assignment
    <3>1. Stage("FAILED") = "over"
      BY StageFact DEF DroneState, Returning
    <3>2. QED BY <2>2, <3>1, StagesFact DEF Promise!Enters
  <2>3. QED BY <2>1, <2>2
<1>4. Promise!Abort(d)
  BY <1>1, <1>2, <1>3 DEF Promise!Abort
<1>5. QED BY <1>4 DEF Promise!EngagementNext

\* A tick of quality control keeps the stage or passes to the next.
LEMMA LockAdvances ==
  ASSUME DroneInv, NEW d \in Drones, NEW here \in DroneState, NEW next \in DroneState,
         Stage(here) = Stage(state[d]),
         \/ Stage(here) = "approach" /\ next = "ACQUIRING"
         \/ Stage(here) = "acquire" /\ next = "TERMINAL",
         HoldLock(d, here, next), Emit(d, {}), UNCHANGED assignment
  PROVE  Promise!EngagementNext
<1> USE DEF DroneInv, DroneTypeOK
<1>1. Promise!Reports(d, {})
  BY DEF Emit, Promise!Reports
<1>2. CASE state' = [state EXCEPT ![d] = here]
  <2>1. Promise!Hold(d)
    BY <1>1, <1>2, StageKept DEF Promise!Hold
  <2>2. QED BY <2>1 DEF Promise!EngagementNext
<1>3. CASE state' = [state EXCEPT ![d] = next]
  <2>1. Promise!Enters(d, Stage(next)) /\ Stages[d] = Stage(here)
    BY <1>3, StagesFact DEF Promise!Enters, Stages
  <2>2. Promise!Advance(d)
    BY <1>1, <2>1, StageFact DEF Promise!Advance
  <2>3. QED BY <2>2 DEF Promise!EngagementNext
<1>4. QED BY <1>2, <1>3 DEF HoldLock

\* Every way through step().
LEMMA StepEngages ==
  ASSUME DroneInv, NEW d \in Drones, NEW visible \in SUBSET Targets, Step(d, visible)
  PROVE  Promise!EngagementNext
<1> USE DEF DroneInv, DroneTypeOK
<1>1. CASE RtlStep(d)
  BY <1>1, LossAborts DEF RtlStep, GoHome
<1>2. CASE IdleStep(d)
  <2>1. Promise!Hold(d)
    BY <1>2 DEF IdleStep, Emit, Stages, Promise!Hold, Promise!Reports
  <2>2. QED BY <2>1 DEF Promise!EngagementNext
<1>3. CASE MidcourseStep(d, visible)
  <2>1. Stage("MIDCOURSE") = "approach" /\ Stage(state[d]) = "approach"
    BY <1>3, StageFact DEF MidcourseStep, DroneState
  <2>2. QED BY <1>3, <2>1, LockAdvances DEF MidcourseStep, DroneState
<1>4. CASE AcquiringStep(d, visible)
  <2>1. Stage("ACQUIRING") = "acquire" /\ Stage(state[d]) = "acquire"
    BY <1>4, StageFact DEF AcquiringStep, DroneState
  <2>2. CASE Fail(d)
    BY <1>4, <2>2, LossAborts DEF AcquiringStep, Fail
  <2>3. CASE HoldLock(d, "ACQUIRING", "TERMINAL") /\ Emit(d, {})
    BY <1>4, <2>1, <2>3, LockAdvances DEF AcquiringStep, DroneState
  <2>4. QED BY <1>4, <2>2, <2>3 DEF AcquiringStep
<1>5. CASE TerminalStep(d, visible)
  <2>1. state[d] = "TERMINAL" /\ Stages[d] = "pursue" /\ UNCHANGED assignment
    BY <1>5, StageFact DEF TerminalStep, DroneState, Stages
  <2>2. CASE Fail(d)
    BY <2>1, <2>2, LossAborts DEF Fail
  <2>3. CASE Capture(d)
    <3>1. Promise!Enters(d, "over")
      <4>1. Stage("CAPTURED") = "over"
        BY StageFact DEF DroneState, Returning
      <4>2. QED BY <2>3, <4>1, StagesFact DEF Capture, Promise!Enters
    <3>2. Promise!Reports(d, Promise!Outcome(d, "SUCCESS"))
      BY <2>3 DEF Capture, Emit, Report, Promise!Reports, Promise!Outcome
    <3>3. Promise!Claim(d)
      BY <2>1, <3>1, <3>2 DEF Promise!Claim
    <3>4. QED BY <3>3 DEF Promise!EngagementNext
  <2>4. CASE Pursue(d)
    <3>1. Promise!Hold(d)
      BY <2>1, <2>4 DEF Pursue, Emit, Stages, Promise!Hold, Promise!Reports
    <3>2. QED BY <3>1 DEF Promise!EngagementNext
  <2>5. QED BY <1>5, <2>2, <2>3, <2>4 DEF TerminalStep
<1>6. CASE ReturnStep(d)
  <2>1. Stages[d] = "over" /\ Promise!Reports(d, {})
    BY <1>6, StageFact DEF ReturnStep, Stages, Emit, Promise!Reports
  <2>2. CASE ToIdle(d)
    <3>1. Promise!Rests(d)
      BY <2>2, IdleRests
    <3>2. Promise!Land(d)
      BY <2>1, <3>1 DEF Promise!Land
    <3>3. QED BY <3>2 DEF Promise!EngagementNext
  <2>3. CASE state' = [state EXCEPT ![d] = state[d]] /\ UNCHANGED assignment
    <3>1. Promise!Hold(d)
      BY <2>1, <2>3, StageKept DEF Promise!Hold
    <3>2. QED BY <3>1 DEF Promise!EngagementNext
  <2>4. QED BY <1>6, <2>2, <2>3 DEF ReturnStep, GoHome
<1>7. QED BY <1>1, <1>2, <1>3, <1>4, <1>5, <1>6 DEF Step

LEMMA DroneInitPromises == DroneInit => Promise!EngagementInit
<1>1. Stage("IDLE") = "none"
  BY StageFact DEF DroneState
<1>2. QED BY <1>1 DEF DroneInit, Promise!EngagementInit, Stages

LEMMA DroneNextPromises ==
  DroneInv /\ [DroneNext]_droneVars => [Promise!EngagementNext]_Promise!engagementVars
<1> SUFFICES ASSUME DroneInv, [DroneNext]_droneVars
             PROVE  [Promise!EngagementNext]_Promise!engagementVars
  OBVIOUS
<1>1. ASSUME NEW d \in Drones, Tasked(d) PROVE [Promise!EngagementNext]_Promise!engagementVars
  BY <1>1, TaskingEngages DEF Tasked
<1>2. ASSUME NEW d \in Drones, Stepped(d) PROVE Promise!EngagementNext
  BY <1>2, StepEngages DEF Stepped
<1>3. ASSUME NEW d \in Drones, Switched(d) PROVE UNCHANGED Promise!engagementVars
  BY <1>3 DEF Switched, Kill, SetArmed, Stages, Promise!engagementVars
<1>4. CASE UNCHANGED droneVars
  BY <1>4 DEF droneVars, Stages, Promise!engagementVars
<1>5. QED BY <1>1, <1>2, <1>3, <1>4 DEF DroneNext

\* Onboard autonomy implements Engagement, for every fleet and all its settings: the stages
\* are passed one by one, a success is claimed once, a lost engagement is reported.
THEOREM DronesKeepPromise == DroneSpec => KeepsPromise
<1>1. DroneInv /\ [DroneNext]_droneVars => [Promise!EngagementNext]_Promise!engagementVars
  BY DroneNextPromises
<1>2. QED BY <1>1, DroneInitPromises, DroneInvariant, PTL
          DEF DroneSpec, KeepsPromise, Promise!EngagementSpec

-----------------------------------------------------------------------------
(* Allocator.  The only invariant needed is type correctness: everything    *)
(* else one run of allocate() guarantees follows from its own reading of    *)
(* the roster and the table.                                                *)

\* What allocate() does to the table, spelled out once for the proofs below.
LEMMA AllocationFact ==
  ASSUME NEW r, NEW as \in [Drones -> Targets \cup {None, Absent}], NEW tr \in SUBSET Targets,
         NEW new \in Allocation(r, as, tr)
  PROVE  \E m \in [Drones -> tr \cup {None}] :
           /\ IsMatching(r, Cleared(r, as, tr), tr, m)
           /\ new = Overwrite(Cleared(r, as, tr), m)
BY DEF Allocation

\* Step 1 keeps the table a table.
LEMMA ClearedType ==
  ASSUME NEW r, NEW as \in [Drones -> Targets \cup {None, Absent}], NEW tr
  PROVE  Cleared(r, as, tr) \in [Drones -> Targets \cup {None, Absent}]
BY DEF Cleared

\* So does the whole of allocate().
LEMMA AllocationType ==
  ASSUME NEW r, NEW as \in [Drones -> Targets \cup {None, Absent}], NEW tr \in SUBSET Targets,
         NEW new \in Allocation(r, as, tr)
  PROVE  new \in [Drones -> Targets \cup {None, Absent}]
<1>1. PICK m \in [Drones -> tr \cup {None}] :
        IsMatching(r, Cleared(r, as, tr), tr, m) /\ new = Overwrite(Cleared(r, as, tr), m)
  BY AllocationFact
<1>2. Cleared(r, as, tr) \in [Drones -> Targets \cup {None, Absent}]
  BY ClearedType
<1>3. \A c \in [Drones -> Targets \cup {None, Absent}] :
        Overwrite(c, m) \in [Drones -> Targets \cup {None, Absent}]
  BY DEF Overwrite
<1>4. QED BY <1>1, <1>2, <1>3

LEMMA AllocInitType == AllocInit => AllocTypeOK
BY DEF AllocInit, AllocTypeOK

LEMMA AllocNextType == AllocTypeOK /\ [AllocNext]_allocVars => AllocTypeOK'
<1> SUFFICES ASSUME AllocTypeOK, [AllocNext]_allocVars PROVE AllocTypeOK'
  OBVIOUS
<1>1. CASE UNCHANGED allocVars
  BY <1>1 DEF allocVars, AllocTypeOK
<1>2. CASE Allocate
  <2>1. assignments' \in [Drones -> Targets \cup {None, Absent}]
    BY <1>2, AllocationType DEF Allocate, AllocTypeOK
  <2>2. QED BY <1>2, <2>1 DEF Allocate, AllocTypeOK
<1>3. ASSUME NEW d \in Drones, NEW s \in Reported, UpdateRoster(d, s) PROVE AllocTypeOK'
  BY <1>3 DEF UpdateRoster, Reported, AllocTypeOK
<1>4. ASSUME NEW tr \in SUBSET Targets, Picture(tr) PROVE AllocTypeOK'
  BY <1>4 DEF Picture, AllocTypeOK
<1>5. ASSUME NEW p \in BOOLEAN, Pause(p) PROVE AllocTypeOK'
  BY <1>5 DEF Pause, AllocTypeOK
<1>6. QED BY <1>1, <1>2, <1>3, <1>4, <1>5 DEF AllocNext

\* The roster holds states, the table targets.
THEOREM AllocTypeCorrect == AllocSpec => []AllocTypeOK
BY AllocInitType, AllocNextType, PTL DEF AllocSpec

-----------------------------------------------------------------------------
(* One run of allocate(), for whichever roster, table and tracks it is run *)
(* on: Allocator, Simulation and Fleet each run it on their own.           *)

\* Failed drones and vanished targets lose their entries, whatever the solver does with
\* the drones that are free, and a committed drone keeps its tracked target.
LEMMA EntriesFact ==
  ASSUME NEW r, NEW as \in [Drones -> Targets \cup {None, Absent}], NEW tr \in SUBSET Targets,
         NEW new \in Allocation(r, as, tr)
  PROVE  ReleasesLost(r, as, tr, new) /\ KeepsCommitted(r, as, tr, new)
<1>1. PICK m \in [Drones -> tr \cup {None}] :
        IsMatching(r, Cleared(r, as, tr), tr, m) /\ new = Overwrite(Cleared(r, as, tr), m)
  BY AllocationFact
<1>2. ASSUME NEW d \in Drones, as[d] # Absent, r[d] # Absent
      PROVE  (r[d] \in Dead => new[d] = None) /\ new[d] \in tr \cup {None}
  <2>1. m[d] # None => r[d] \notin Dead /\ m[d] \in tr
    BY <1>1 DEF IsMatching, Available
  <2>2. QED BY <1>1, <1>2, <2>1 DEF Overwrite, Cleared
<1>3. ASSUME NEW d \in Drones, r[d] \in Busy, as[d] \in tr PROVE new[d] = as[d]
  <2>1. m[d] = None
    BY <1>1, <1>3 DEF IsMatching, Available
  <2>2. QED BY <1>1, <1>3, <2>1 DEF Overwrite, Cleared, Busy, Dead
<1>4. QED BY <1>2, <1>3 DEF ReleasesLost, KeepsCommitted

\* FR-ALLOC-2 for one run of allocate(): counting the drones already committed to
\* a target, it adds none beyond the redundancy.
LEMMA PileFact ==
  ASSUME NEW r, NEW as \in [Drones -> Targets \cup {None, Absent}], NEW tr \in SUBSET Targets,
         NEW new \in Allocation(r, as, tr)
  PROVE  PilesOnNone(r, as, new)
<1> SUFFICES ASSUME NEW t \in Targets, Newcomers(as, new, t) # {}
             PROVE  Cardinality(Newcomers(as, new, t) \cup {d \in Drones : r[d] \in Busy /\ new[d] = t})
                      <= Wanted
  BY Zenon DEF PilesOnNone
<1> DEFINE cl == Cleared(r, as, tr)
<1> DEFINE busy == {d \in Drones : cl[d] = t /\ r[d] \in Busy}
<1>1. PICK m \in [Drones -> tr \cup {None}] :
        IsMatching(r, cl, tr, m) /\ new = Overwrite(cl, m)
  BY AllocationFact
<1> DEFINE taken == {d \in Drones : m[d] = t}
<1>2. IsFiniteSet(busy) /\ IsFiniteSet(taken)
  BY AllocatorAssumption, FS_Subset
<1>3. Newcomers(as, new, t) \subseteq taken
  BY <1>1, NoneAssumption, AllocatorAssumption DEF Newcomers, Overwrite, Cleared
<1>4. {d \in Drones : r[d] \in Busy /\ new[d] = t} \subseteq busy \cup taken
  BY <1>1 DEF Overwrite
<1>5. t \in tr
  BY <1>1, <1>3, NoneAssumption
<1>6. Cardinality(taken) <= OpenSlots(r, cl, t)
  BY <1>1, <1>5 DEF IsMatching, Taken
<1>7. Cardinality(taken) # 0
  BY <1>2, <1>3, FS_EmptySet
<1>8. Cardinality(busy) = Coverage(r, cl, t)
  BY DEF Coverage
<1>9. Cardinality(taken) \in Nat /\ Cardinality(busy) \in Nat /\ Wanted \in Nat
  BY <1>2, FS_CardinalityType, AllocatorAssumption DEF Wanted
<1>10. Cardinality(taken) + Cardinality(busy) <= Wanted
  <2>1. OpenSlots(r, cl, t) = IF Cardinality(busy) >= Wanted THEN 0 ELSE Wanted - Cardinality(busy)
    BY <1>8 DEF OpenSlots
  <2> HIDE DEF busy, taken, cl
  <2>2. QED BY <1>6, <1>7, <1>9, <2>1
<1>11. Cardinality(busy \cup taken) <= Cardinality(busy) + Cardinality(taken)
  <2>1. Cardinality(busy \cup taken)
          = Cardinality(busy) + Cardinality(taken) - Cardinality(busy \cap taken)
    BY <1>2, FS_Union
  <2>2. Cardinality(busy \cap taken) \in Nat
    BY <1>2, FS_Intersection, FS_CardinalityType
  <2>3. QED BY <1>9, <2>1, <2>2
<1> DEFINE there == Newcomers(as, new, t) \cup {d \in Drones : r[d] \in Busy /\ new[d] = t}
<1>12. there \subseteq busy \cup taken /\ IsFiniteSet(busy \cup taken)
  BY <1>2, <1>3, <1>4, FS_Union
<1> HIDE DEF there, busy, taken
<1>13. /\ Cardinality(there) <= Cardinality(busy \cup taken)
       /\ Cardinality(there) \in Nat /\ Cardinality(busy \cup taken) \in Nat
  BY <1>12, FS_Subset, FS_CardinalityType
<1>14. Cardinality(there) <= Wanted
  BY <1>9, <1>10, <1>11, <1>13
<1>15. QED BY <1>14 DEF there

\* Work conservation of one run of allocate(): if it leaves an available drone
\* without a target, no tracked target lacks a drone.
LEMMA OpenFact ==
  ASSUME NEW r, NEW as \in [Drones -> Targets \cup {None, Absent}], NEW tr \in SUBSET Targets,
         NEW new \in Allocation(r, as, tr)
  PROVE  LeavesNoneIdle(r, tr, new)
<1> SUFFICES ASSUME NEW d \in Available(r), NEW t \in tr, new[d] \in {None, Absent}
             PROVE  Cardinality({e \in Drones : new[e] = t}) >= Wanted
  BY Zenon DEF LeavesNoneIdle
<1> DEFINE cl == Cleared(r, as, tr)
<1> DEFINE busy == {e \in Drones : cl[e] = t /\ r[e] \in Busy}
<1> DEFINE served == {e \in Drones : new[e] = t}
<1>1. PICK m \in [Drones -> tr \cup {None}] :
        IsMatching(r, cl, tr, m) /\ new = Overwrite(cl, m)
  BY AllocationFact
<1> DEFINE taken == {e \in Drones : m[e] = t}
<1>2. t # None /\ d \in Drones
  BY NoneAssumption DEF Available
<1>3. IsFiniteSet(busy) /\ IsFiniteSet(taken) /\ IsFiniteSet(served)
  BY AllocatorAssumption, FS_Subset
<1>4. m[d] = None
  BY <1>1, <1>2, AllocatorAssumption, NoneAssumption DEF Overwrite
<1>5. Cardinality(taken) = OpenSlots(r, cl, t)
  BY <1>1, <1>4 DEF IsMatching, Taken
<1>6. taken \cap busy = {} /\ taken \cup busy \subseteq served
  BY <1>1, <1>2 DEF IsMatching, Available, Overwrite
<1>7. Cardinality(busy) = Coverage(r, cl, t)
  BY DEF Coverage
<1>8. Cardinality(taken) \in Nat /\ Cardinality(busy) \in Nat /\ Wanted \in Nat
      /\ Cardinality(served) \in Nat
  BY <1>3, FS_CardinalityType, AllocatorAssumption DEF Wanted
<1>9. Cardinality(taken) + Cardinality(busy) >= Wanted
  <2>1. OpenSlots(r, cl, t) = IF Cardinality(busy) >= Wanted THEN 0 ELSE Wanted - Cardinality(busy)
    BY <1>7 DEF OpenSlots
  <2> HIDE DEF busy, taken, cl
  <2>2. QED BY <1>5, <1>8, <2>1
<1>10. Cardinality(taken \cup busy) = Cardinality(taken) + Cardinality(busy)
  <2>1. Cardinality(taken \cup busy)
          = Cardinality(taken) + Cardinality(busy) - Cardinality(taken \cap busy)
    BY <1>3, FS_Union
  <2>2. Cardinality(taken \cap busy) = 0
    BY <1>6, FS_EmptySet
  <2>3. QED BY <1>8, <2>1, <2>2
<1>11. Cardinality(taken \cup busy) <= Cardinality(served)
  BY <1>3, <1>6, FS_Subset
<1>12. QED BY <1>8, <1>9, <1>10, <1>11

\* All that a run of allocate() owes.
LEMMA OwedFact ==
  ASSUME NEW r, NEW as \in [Drones -> Targets \cup {None, Absent}], NEW tr \in SUBSET Targets,
         NEW new \in Allocation(r, as, tr)
  PROVE  Owed(r, as, tr, new)
BY EntriesFact, PileFact, OpenFact DEF Owed

\* Every step that changes the table is a run of allocate().
LEMMA TableChange ==
  AllocTypeOK /\ [AllocNext]_allocVars
    => [Owed(roster, assignments, tracks, assignments')]_assignments
<1> SUFFICES ASSUME AllocTypeOK, [AllocNext]_allocVars, assignments' # assignments
             PROVE  Owed(roster, assignments, tracks, assignments')
  OBVIOUS
<1>1. assignments' \in Allocation(roster, assignments, tracks)
  BY DEF AllocNext, Allocate, UpdateRoster, Picture, Pause, allocVars
<1>2. QED BY <1>1, OwedFact DEF AllocTypeOK

\* FR-ALLOC-4, for any fleet and targets: an entry goes when it must, and only then.
THEOREM EntriesAreKept == AllocSpec => EntriesKept
<1>1. AllocTypeOK /\ [AllocNext]_allocVars =>
        [/\ ReleasesLost(roster, assignments, tracks, assignments')
         /\ KeepsCommitted(roster, assignments, tracks, assignments')]_assignments
  BY TableChange DEF Owed
<1>2. QED BY <1>1, AllocTypeCorrect, PTL DEF AllocSpec, EntriesKept

\* FR-ALLOC-2, for any redundancy.
THEOREM NeverPilesOnTarget == AllocSpec => NeverPilesOn
<1>1. AllocTypeOK /\ [AllocNext]_allocVars =>
        [PilesOnNone(roster, assignments, assignments')]_assignments
  BY TableChange DEF Owed
<1>2. QED BY <1>1, AllocTypeCorrect, PTL DEF AllocSpec, NeverPilesOn

\* The allocator never leaves a drone idle while a tracked target lacks one.
THEOREM NoDroneIdles == AllocSpec => NoIdleWhileOpen
<1>1. AllocTypeOK /\ [AllocNext]_allocVars =>
        [LeavesNoneIdle(roster, tracks, assignments')]_assignments
  BY TableChange DEF Owed
<1>2. QED BY <1>1, AllocTypeCorrect, PTL DEF AllocSpec, NoIdleWhileOpen

-----------------------------------------------------------------------------
(* The two together                                                         *)

\* No step leaves a drone ASSIGNED: what it reports next is a state the roster may hold.
LEMMA StepReports ==
  ASSUME DroneInv, NEW d \in Drones, NEW visible \in SUBSET Targets, Step(d, visible)
  PROVE  state'[d] \in Reported /\ \A e \in Drones \ {d} : state'[e] = state[e]
<1> USE DEF DroneInv, DroneTypeOK, DroneState, Reported
<1>1. CASE RtlStep(d)
  BY <1>1 DEF RtlStep, GoHome, ToIdle
<1>2. CASE IdleStep(d)
  BY <1>2 DEF IdleStep
<1>3. CASE MidcourseStep(d, visible)
  BY <1>3 DEF MidcourseStep, HoldLock
<1>4. CASE AcquiringStep(d, visible)
  BY <1>4 DEF AcquiringStep, HoldLock, Fail
<1>5. CASE TerminalStep(d, visible)
  BY <1>5 DEF TerminalStep, Fail, Capture, Pursue
<1>6. CASE ReturnStep(d)
  BY <1>6 DEF ReturnStep, GoHome, ToIdle, Returning
<1>7. QED BY <1>1, <1>2, <1>3, <1>4, <1>5, <1>6 DEF Step

-----------------------------------------------------------------------------
(* Simulation                                                              *)

\* The drones that have their assignment of this tick, or are not due for one.
Pushed(j) == turn \notin 1 .. j

\* Between its push and its turn to fly, and only then, a drone is ASSIGNED: the roster
\* that GroundStation copies has none.
AssignedInFlight ==
  \A j \in 1 .. N : state[Order[j]] = "ASSIGNED" => turn \in j + 1 .. N + j

\* A drone that has been pushed obeys the table; one without an entry has no target.
PushedObey ==
  \A j \in 1 .. N :
    LET d == Order[j]
    IN  /\ Pushed(j) /\ assignment[d] # None => assignments[d] = assignment[d]
        /\ assignments[d] = Absent => assignment[d] = None

\* What is on its way to a drone in TERMINAL is its own target or none.
TerminalIsKept ==
  \A j \in 1 .. N :
    LET d == Order[j]
    IN  ~Pushed(j) /\ state[d] = "TERMINAL" => assignments[d] \in {assignment[d], None}

SimIInv ==
  /\ DroneInv
  /\ SimInv
  /\ HandoffOnCurrentTarget
  /\ AssignedInFlight
  /\ PushedObey
  /\ TerminalIsKept


\* Every drone has one place in the list.
LEMMA OrderFact ==
  /\ N \in Nat
  /\ Order \in [1 .. N -> Drones]
  /\ \A d \in Drones : \E j \in 1 .. N : Order[j] = d
  /\ \A i, j \in 1 .. N : Order[i] = Order[j] => i = j
BY OrderAssumption DEF N, IsInjective, Range

\* The counter of the tick: 2 * N + 2 turns, and round again.
LEMMA TurnFact ==
  ASSUME turn \in 0 .. 2 * N + 1, NextTurn
  PROVE  /\ turn' \in 0 .. 2 * N + 1
         /\ turn # 2 * N + 1 => turn' = turn + 1
         /\ turn = 2 * N + 1 => turn' = 0
BY OrderFact DEF NextTurn

\* No entry disappears, and that of a committed drone stays or is taken away, but names no
\* other target.
EntriesStay(r, as, tr, new) ==
  \A d \in Drones :
    /\ new[d] = Absent => as[d] = Absent
    /\ r[d] \in Busy /\ as[d] # Absent => new[d] \in {as[d], None}

\* Every run of allocate() keeps to that.
LEMMA AllocationKeeps ==
  ASSUME NEW r, NEW as \in [Drones -> Targets \cup {None, Absent}], NEW tr \in SUBSET Targets,
         NEW new \in Allocation(r, as, tr)
  PROVE  EntriesStay(r, as, tr, new)
<1>1. PICK m \in [Drones -> tr \cup {None}] :
        /\ IsMatching(r, Cleared(r, as, tr), tr, m)
        /\ new = Overwrite(Cleared(r, as, tr), m)
  BY AllocationFact
<1>2. \A d \in Drones : m[d] # None => d \in Available(r) /\ m[d] # Absent
  BY <1>1, AllocatorAssumption DEF IsMatching
<1>3. QED
  BY <1>1, <1>2, AllocatorAssumption DEF EntriesStay, Overwrite, Cleared, Available, Busy

LEMMA SimInitInv == SimInit => SimIInv
<1> SUFFICES ASSUME SimInit PROVE SimIInv
  OBVIOUS
<1>1. DroneInv
  BY DroneInitInv DEF SimInit
<1>2. AllocTypeOK
  BY AllocInitType DEF SimInit
<1>3. Cardinality(Targets) \in Nat
  BY TargetsAssumption, FS_CardinalityType
<1>4. SimInv
  BY <1>1, <1>2, <1>3, OrderFact
  DEF SimInit, AllocInit, SimInv, SimTypeOK, DroneInv, CapturesAreKills, Reported
<1>5. QED
  BY <1>1, <1>4, OrderFact
  DEF SimInit, DroneInit, AllocInit, SimIInv, HandoffOnCurrentTarget, AssignedInFlight,
      PushedObey, TerminalIsKept, Pushed

\* The ground station's turn: no drone is ASSIGNED when the roster is taken, and one in
\* TERMINAL obeyed the table until now.
LEMMA GroundStationInv ==
  ASSUME SimIInv, GroundStation
  PROVE  SimIInv'
<1> USE OrderFact DEF SimIInv, SimInv, SimTypeOK
<1>1. turn = 0 /\ turn' = 1
  BY TurnFact DEF GroundStation
<1>2. DroneInv'
  BY DEF GroundStation, droneVars, DroneInv, DroneTypeOK, TaskConsistent, TrackOfTask, HandoffInTime
<1>3. tracks' \in SUBSET Targets /\ cued' \subseteq Targets /\ alive' \subseteq cued'
  BY DEF GroundStation, FuseTracks, DegradeCues, AllocTypeOK
<1>4. roster' \in [Drones -> Reported]
  <2>1. ASSUME NEW d \in Drones PROVE state[d] \in Reported
    BY <1>1 DEF AssignedInFlight, DroneTypeOK, Reported
  <2>2. QED BY <2>1 DEF GroundStation
<1>5. assignments' \in [Drones -> Targets \cup {None, Absent}]
  BY <1>3, AllocationType DEF GroundStation, AllocTypeOK
<1>6. SimInv'
  BY <1>1, <1>2, <1>3, <1>4, <1>5
  DEF GroundStation, AllocTypeOK, DroneInv, CapturesAreKills, Reported
<1>7. ASSUME NEW j \in 1 .. N
      PROVE  /\ assignments'[Order[j]] = Absent => assignments[Order[j]] = Absent
             /\ state[Order[j]] = "TERMINAL" =>
                  assignments'[Order[j]] \in {assignment[Order[j]], None}
  <2> DEFINE d == Order[j]
  <2>1. d \in Drones /\ roster'[d] = state[d]
    BY DEF GroundStation
  <2>2. /\ assignments'[d] = Absent => assignments[d] = Absent
        /\ roster'[d] \in Busy /\ assignments[d] # Absent =>
             assignments'[d] \in {assignments[d], None}
    <3>1. EntriesStay(roster', assignments, tracks', assignments')
      BY <1>3, AllocationKeeps DEF GroundStation, AllocTypeOK
    <3>2. QED BY <2>1, <3>1 DEF EntriesStay
  <2>3. state[d] = "TERMINAL" => assignments[d] = assignment[d] /\ assignment[d] # Absent
    BY <1>1, <2>1, AllocatorAssumption
    DEF PushedObey, Pushed, DroneInv, DroneTypeOK, TaskConsistent, Engaged
  <2>4. QED BY <2>1, <2>2, <2>3 DEF Busy
<1>8. HandoffOnCurrentTarget' /\ AssignedInFlight'
  <2>1. state' = state /\ lock' = lock
    BY DEF GroundStation, droneVars
  <2>2. HandoffOnCurrentTarget'
    BY <2>1 DEF HandoffOnCurrentTarget
  <2>3. ASSUME NEW j \in 1 .. N PROVE state'[Order[j]] # "ASSIGNED"
    BY <1>1, <2>1 DEF AssignedInFlight
  <2>4. QED BY <2>2, <2>3 DEF AssignedInFlight
<1>9. PushedObey' /\ TerminalIsKept'
  BY <1>1, <1>7 DEF GroundStation, droneVars, PushedObey, TerminalIsKept, Pushed
<1>10. QED BY <1>2, <1>6, <1>8, <1>9

\* What tasking does to one drone: nobody else is touched, and a drone in TERMINAL that
\* keeps its target keeps its lock.
LEMMA SetAssignmentFact ==
  ASSUME DroneInv, NEW d \in Drones, NEW t \in Targets \cup {None}, SetAssignment(d, t)
  PROVE  /\ assignment' = [assignment EXCEPT ![d] = t]
         /\ \A e \in Drones \ {d} : state'[e] = state[e] /\ lock'[e] = lock[e]
         /\ state'[d] = "TERMINAL" =>
              state[d] = "TERMINAL" /\ t # None /\ (t = assignment[d] => lock'[d] = lock[d])
BY NoneAssumption
DEF SetAssignment, Unassign, Retask, ToIdle, ResetTrack, Engaged, DroneInv, DroneTypeOK, DroneState

LEMMA PushInv ==
  ASSUME SimIInv, Push
  PROVE  SimIInv'
<1> USE OrderFact DEF SimIInv, SimInv, SimTypeOK
<1> DEFINE d == Order[turn]
<1>1. turn \in 1 .. N /\ turn' = turn + 1 /\ d \in Drones
  BY TurnFact DEF Push
<1>2. UNCHANGED <<allocVars, alive, cued, captures>>
  BY DEF Push
<1>3. CASE assignments[d] = Absent
  <2>1. UNCHANGED droneVars
    BY <1>3 DEF Push
  <2>2. DroneInv'
    BY <2>1 DEF droneVars, DroneInv, DroneTypeOK, TaskConsistent, TrackOfTask, HandoffInTime
  <2>3. SimInv' /\ HandoffOnCurrentTarget' /\ AssignedInFlight'
    BY <1>1, <1>2, <2>1, <2>2
    DEF droneVars, allocVars, AllocTypeOK, DroneInv, CapturesAreKills, HandoffOnCurrentTarget,
        AssignedInFlight
  <2>4. PushedObey' /\ TerminalIsKept'
    BY <1>1, <1>2, <1>3, <2>1 DEF droneVars, allocVars, PushedObey, TerminalIsKept, Pushed
  <2>5. QED BY <2>2, <2>3, <2>4
<1>4. CASE assignments[d] # Absent
  <2> DEFINE t == assignments[d]
  <2>1. t \in Targets \cup {None} /\ SetAssignment(d, t)
    BY <1>1, <1>4 DEF Push, AllocTypeOK
  <2>2. DroneInv'
    BY <1>1, <2>1, SetAssignmentInv
  <2>3. /\ assignment' = [assignment EXCEPT ![d] = t]
        /\ \A e \in Drones \ {d} : state'[e] = state[e] /\ lock'[e] = lock[e]
        /\ state'[d] = "TERMINAL" =>
             state[d] = "TERMINAL" /\ t # None /\ (t = assignment[d] => lock'[d] = lock[d])
    BY <1>1, <2>1, SetAssignmentFact
  <2>4. SimInv'
    BY <1>1, <1>2, <2>2 DEF allocVars, AllocTypeOK, DroneInv, CapturesAreKills
  <2>5. HandoffOnCurrentTarget'
    <3>1. state'[d] = "TERMINAL" => t = assignment[d]
      BY <1>1, <2>3 DEF TerminalIsKept, Pushed
    <3>2. QED BY <2>3, <3>1 DEF HandoffOnCurrentTarget
  <2>6. AssignedInFlight'
    BY <1>1, <2>3 DEF AssignedInFlight
  <2>7. PushedObey'
    <3>1. ASSUME NEW i \in 1 .. N, NEW e \in Drones, e = Order[i]
          PROVE  /\ Pushed(i)' /\ assignment'[e] # None => assignments[e] = assignment'[e]
                 /\ assignments[e] = Absent => assignment'[e] = None
      <4>1. CASE i = turn
        BY <1>1, <1>4, <2>3, <3>1, <4>1 DEF DroneInv, DroneTypeOK
      <4>2. CASE i # turn
        <5>1. e # d /\ assignment'[e] = assignment[e] /\ (Pushed(i)' => Pushed(i))
          BY <1>1, <2>3, <3>1, <4>2 DEF DroneInv, DroneTypeOK, Pushed
        <5>2. QED BY <3>1, <5>1 DEF PushedObey
      <4>3. QED BY <4>1, <4>2
    <3>2. QED BY <1>2, <3>1 DEF allocVars, PushedObey
  <2>8. TerminalIsKept'
    <3>1. ASSUME NEW i \in 1 .. N, NEW e \in Drones, e = Order[i], ~Pushed(i)',
                 state'[e] = "TERMINAL"
          PROVE  assignments[e] \in {assignment'[e], None}
      <4>1. e # d /\ ~Pushed(i) /\ assignment'[e] = assignment[e] /\ state'[e] = state[e]
        BY <1>1, <2>3, <3>1 DEF DroneInv, DroneTypeOK, Pushed
      <4>2. QED BY <3>1, <4>1 DEF TerminalIsKept
    <3>2. QED BY <1>2, <3>1 DEF allocVars, TerminalIsKept
  <2>9. QED BY <2>2, <2>4, <2>5, <2>6, <2>7, <2>8
<1>5. QED BY <1>3, <1>4

\* What one step does to the target and the lock of one drone: it may drop its target,
\* and it comes to TERMINAL with the lock held for T_lock.
LEMMA StepFact ==
  ASSUME DroneInv, NEW d \in Drones, NEW visible \in SUBSET Targets, Step(d, visible),
         state[d] = "TERMINAL" => lock[d] >= TLock
  PROVE  /\ assignment'[d] \in {assignment[d], None}
         /\ state'[d] = "TERMINAL" => lock'[d] >= TLock
         /\ \A e \in Drones \ {d} : assignment'[e] = assignment[e] /\ lock'[e] = lock[e]
<1> USE DroneAssumption DEF DroneInv, DroneTypeOK, DroneState
<1>1. CASE RtlStep(d)
  BY <1>1 DEF RtlStep, GoHome, ToIdle, ResetTrack
<1>2. CASE IdleStep(d)
  BY <1>2 DEF IdleStep
<1>3. CASE MidcourseStep(d, visible)
  BY <1>3 DEF MidcourseStep, HoldLock
<1>4. CASE AcquiringStep(d, visible)
  BY <1>4 DEF AcquiringStep, HoldLock, Fail
<1>5. CASE TerminalStep(d, visible)
  BY <1>5 DEF TerminalStep
<1>6. CASE ReturnStep(d)
  BY <1>6 DEF ReturnStep, GoHome, ToIdle, ResetTrack, Returning
<1>7. QED BY <1>1, <1>2, <1>3, <1>4, <1>5, <1>6 DEF Step

LEMMA FlyInv ==
  ASSUME SimIInv, Fly
  PROVE  SimIInv'
<1> USE OrderFact DEF SimIInv, SimInv, SimTypeOK
<1> DEFINE j == turn - N
<1> DEFINE d == Order[j]
<1>1. turn \in N + 1 .. 2 * N /\ turn' = turn + 1 /\ j \in 1 .. N /\ d \in Drones
  BY TurnFact DEF Fly
<1>2. UNCHANGED <<allocVars, alive, cued, captures>> /\ Step(d, alive) /\ alive \in SUBSET Targets
  BY DEF Fly
<1>3. DroneInv'
  BY <1>1, <1>2, StepInv
<1>4. state'[d] \in Reported /\ \A e \in Drones \ {d} : state'[e] = state[e]
  BY <1>1, <1>2, StepReports
<1>5. /\ assignment'[d] \in {assignment[d], None}
      /\ state'[d] = "TERMINAL" => lock'[d] >= TLock
      /\ \A e \in Drones \ {d} : assignment'[e] = assignment[e] /\ lock'[e] = lock[e]
  BY <1>1, <1>2, StepFact DEF HandoffOnCurrentTarget
<1>6. SimInv'
  BY <1>1, <1>2, <1>3 DEF allocVars, AllocTypeOK, DroneInv, CapturesAreKills
<1>7. HandoffOnCurrentTarget'
  BY <1>4, <1>5 DEF HandoffOnCurrentTarget
<1>8. AssignedInFlight'
  BY <1>1, <1>4 DEF AssignedInFlight, Reported
<1>9. PushedObey' /\ TerminalIsKept'
  <2>1. \A i \in 1 .. N : Pushed(i) /\ Pushed(i)'
    BY <1>1 DEF Pushed
  <2>2. ASSUME NEW i \in 1 .. N
        PROVE  assignment'[Order[i]] \in {assignment[Order[i]], None}
    BY <1>5
  <2>3. QED BY <1>2, <2>1, <2>2 DEF allocVars, PushedObey, TerminalIsKept
<1>10. QED BY <1>3, <1>6, <1>7, <1>8, <1>9

\* The scoring: each target of the hit is scored once and leaves alive.
LEMMA CollectMetricsInv ==
  ASSUME SimIInv, CollectMetrics
  PROVE  SimIInv'
<1> USE OrderFact DEF SimIInv, SimInv, SimTypeOK
<1>1. turn = 2 * N + 1 /\ turn' = 0
  BY TurnFact DEF CollectMetrics
<1>2. /\ UNCHANGED <<state, assignment, lock, age, trk, low, killed, armed, allocVars, cued>>
      /\ capture_events' = [e \in Drones |-> {}]
  BY DEF CollectMetrics
<1>3. DroneInv'
  BY <1>2 DEF DroneInv, DroneTypeOK, TaskConsistent, TrackOfTask, HandoffInTime
<1>4. PICK hit \in SUBSET {t \in alive : Claims(t) # {}} :
        alive' = alive \ hit /\ captures' = captures + Cardinality(hit)
  BY DEF CollectMetrics
<1>5. /\ Cardinality(hit) \in Nat /\ Cardinality(alive) \in Nat
      /\ Cardinality(alive \ hit) = Cardinality(alive) - Cardinality(hit)
  <2>1. IsFiniteSet(alive) /\ IsFiniteSet(hit) /\ alive \cap hit = hit
    BY TargetsAssumption, FS_Subset
  <2>2. QED BY <2>1, FS_Difference, FS_CardinalityType
<1>6. SimInv'
  BY <1>1, <1>2, <1>3, <1>4, <1>5 DEF allocVars, AllocTypeOK, DroneInv, CapturesAreKills
<1>7. HandoffOnCurrentTarget' /\ AssignedInFlight'
  BY <1>1, <1>2 DEF HandoffOnCurrentTarget, AssignedInFlight
<1>8. PushedObey' /\ TerminalIsKept'
  BY <1>1, <1>2 DEF allocVars, PushedObey, TerminalIsKept, Pushed
<1>9. QED BY <1>3, <1>6, <1>7, <1>8

LEMMA SimNextInv == SimIInv /\ [SimNext]_simVars => SimIInv'
<1>1. ASSUME SimIInv, UNCHANGED simVars PROVE SimIInv'
  BY <1>1
  DEF simVars, droneVars, allocVars, SimIInv, SimInv, SimTypeOK, CapturesAreKills, DroneInv,
      DroneTypeOK, TaskConsistent, TrackOfTask, HandoffInTime, AllocTypeOK,
      HandoffOnCurrentTarget, AssignedInFlight, PushedObey, TerminalIsKept, Pushed
<1>2. QED BY <1>1, GroundStationInv, PushInv, FlyInv, CollectMetricsInv DEF SimNext

\* Every state of the in-process run satisfies the invariant.
THEOREM SimInvariant == SimSpec => []SimIInv
BY SimInitInv, SimNextInv, PTL DEF SimSpec

\* The types of the whole simulation, and PRD 9.3: there are as many captures as
\* attackers have died, whatever the drones claim.
THEOREM CapturesCountKills == SimSpec => []SimInv
<1>1. SimIInv => SimInv
  BY DEF SimIInv
<1>2. QED BY <1>1, SimInvariant, PTL

\* FR-OB-3 in the loop: a drone in TERMINAL has held the lock on the target it pursues
\* now for T_lock, for any number of drones and targets.
THEOREM HandoffIsOnTarget == SimSpec => []HandoffOnCurrentTarget
<1>1. SimIInv => HandoffOnCurrentTarget
  BY DEF SimIInv
<1>2. QED BY <1>1, SimInvariant, PTL

\* FR-ALLOC-3: outside the push loop no drone pursues a target the table does not give it.
THEOREM TableIsObeyedInLoop == SimSpec => []ObeysTable
<1>1. ASSUME SimIInv, turn \notin 1 .. N, NEW d \in Drones, assignment[d] # None
      PROVE  assignments[d] = assignment[d]
  <2>1. PICK j \in 1 .. N : Order[j] = d
    BY OrderFact
  <2>2. Pushed(j)
    BY <1>1, OrderFact DEF Pushed, SimIInv, SimInv, SimTypeOK
  <2>3. QED BY <1>1, <2>1, <2>2 DEF SimIInv, PushedObey
<1>2. SimIInv => ObeysTable
  BY <1>1 DEF ObeysTable
<1>3. QED BY <1>2, SimInvariant, PTL

\* A drone senses its target or it does not: which others are alive makes no difference.
LEMMA StepStepped ==
  ASSUME NEW d \in Drones, NEW visible \in SUBSET Targets, Step(d, visible)
  PROVE  Stepped(d)
<1> DEFINE other == IF assignment[d] \in visible THEN Targets ELSE {}
<1>1. Senses(d, visible) <=> Senses(d, other)
  BY DEF Senses
<1>2. Step(d, other)
  BY <1>1 DEF Step, MidcourseStep, AcquiringStep, TerminalStep, Fuse
<1>3. QED BY <1>2 DEF Stepped

\* The loop does to the drones what Drone says, and drains their reports.
Drains ==
  /\ capture_events' = [d \in Drones |-> {}]
  /\ UNCHANGED <<state, assignment, lock, age, trk, low, killed, armed>>

LEMMA SimStepsDrones ==
  ASSUME SimIInv, [SimNext]_simVars
  PROVE  [DroneNext]_droneVars \/ Drains
<1> USE OrderFact DEF SimIInv, SimInv, SimTypeOK
<1>1. CASE GroundStation \/ UNCHANGED simVars
  BY <1>1 DEF GroundStation, simVars
<1>2. CASE Push
  <2> DEFINE e == Order[turn]
  <2>1. e \in Drones
    BY <1>2 DEF Push
  <2>2. CASE assignments[e] = Absent
    BY <1>2, <2>2 DEF Push
  <2>3. CASE assignments[e] # Absent
    <3>1. assignments[e] \in Targets \cup {None}
      BY <2>1, <2>3 DEF AllocTypeOK
    <3>2. SetAssignment(e, assignments[e])
      BY <1>2, <2>3 DEF Push
    <3>3. QED BY <2>1, <3>1, <3>2 DEF DroneNext, Tasked
  <2>4. QED BY <2>2, <2>3
<1>3. CASE Fly
  <2>1. Order[turn - N] \in Drones
    BY <1>3 DEF Fly
  <2>2. Step(Order[turn - N], alive) /\ alive \in SUBSET Targets
    BY <1>3 DEF Fly
  <2>3. QED BY <2>1, <2>2, StepStepped DEF DroneNext
<1>4. CASE CollectMetrics
  BY <1>4 DEF CollectMetrics, Drains
<1>5. QED BY <1>1, <1>2, <1>3, <1>4 DEF SimNext

\* FR-OB-5 in the loop: every capture is confirmed, with the scoring and the ground
\* station between the drones' steps.
THEOREM SimCaptureConfirmed == SimSpec => CaptureConfirmed
<1>1. ASSUME SimIInv, [SimNext]_simVars, NEW d \in Drones PROVE FiresConfirmed(d)
  <2>1. CASE [DroneNext]_droneVars
    BY <1>1, <2>1, NextFiresConfirmed DEF SimIInv
  <2>2. CASE Drains
    BY <2>2 DEF Drains, FiresConfirmed
  <2>3. QED BY <1>1, <2>1, <2>2, SimStepsDrones
<1>2. SimIInv /\ [SimNext]_simVars => [\A d \in Drones : FiresConfirmed(d)]_droneVars
  BY <1>1
<1>3. QED BY <1>2, SimInvariant, PTL DEF SimSpec, CaptureConfirmed

\* In the loop, too, every engagement keeps to Engagement; the scoring is its Collect.
THEOREM SimKeepsPromise == SimSpec => KeepsPromise
<1>1. ASSUME SimIInv, [SimNext]_simVars PROVE [Promise!EngagementNext]_Promise!engagementVars
  <2>1. CASE [DroneNext]_droneVars
    BY <1>1, <2>1, DroneNextPromises DEF SimIInv
  <2>2. CASE Drains
    <3>1. Promise!Collect
      BY <2>2 DEF Drains, Stages, Promise!Collect
    <3>2. QED BY <3>1 DEF Promise!EngagementNext
  <2>3. QED BY <1>1, <2>1, <2>2, SimStepsDrones
<1>2. SimInit => Promise!EngagementInit
  BY DroneInitPromises DEF SimInit
<1>3. SimIInv /\ [SimNext]_simVars => [Promise!EngagementNext]_Promise!engagementVars
  BY <1>1
<1>4. QED BY <1>2, <1>3, SimInvariant, PTL DEF SimSpec, KeepsPromise, Promise!EngagementSpec

\* FR-ALLOC-2 and FR-ALLOC-4 in the loop: each turn of the ground station gives the drones
\* what allocate() owes for their states and the tracks of this very tick.
THEOREM LoopIsAllocated ==
  SimSpec => [][Owed(roster', assignments, tracks', assignments')]_assignments
<1>1. ASSUME SimIInv, [SimNext]_simVars, assignments' # assignments
      PROVE  Owed(roster', assignments, tracks', assignments')
  <2> USE DEF SimIInv, SimInv, SimTypeOK
  <2>1. GroundStation
    BY <1>1 DEF SimNext, Push, Fly, CollectMetrics, simVars, allocVars
  <2>2. tracks' \in SUBSET Targets
    BY <1>1, <2>1 DEF GroundStation, FuseTracks, AllocTypeOK
  <2>3. QED BY <1>1, <2>1, <2>2, OwedFact DEF GroundStation, AllocTypeOK
<1>2. SimIInv /\ [SimNext]_simVars =>
        [Owed(roster', assignments, tracks', assignments')]_assignments
  BY <1>1
<1>3. QED BY <1>2, SimInvariant, PTL DEF SimSpec

-----------------------------------------------------------------------------
(* Fleet                                                                   *)

\* What does not depend on the order of the messages.  A drone no status was ever heard
\* of is in no message either.
FleetTyped ==
  /\ DroneInv /\ FleetTypeOK
  /\ \A d \in Drones : \A i \in DOMAIN assignQ[d] : assignments[assignQ[d][i].drone] # Absent

\* The messages a queue of this depth loses to take some more.
Excess(q, ms, depth) == IF Len(q) + Len(ms) > depth THEN Len(q) + Len(ms) - depth ELSE 0

\* A full queue loses its oldest messages to take the newest.
LEMMA EnqueueFact ==
  ASSUME NEW S, NEW q \in Seq(S), NEW ms \in Seq(S), NEW depth \in Nat, Len(q) <= depth
  PROVE  /\ Enqueue(q, ms, depth) \in Seq(S)
         /\ Len(Enqueue(q, ms, depth)) <= depth
         /\ Excess(q, ms, depth) \in Nat
         /\ Len(Enqueue(q, ms, depth)) = Len(q) + Len(ms) - Excess(q, ms, depth)
         /\ \A i \in DOMAIN Enqueue(q, ms, depth) :
              Enqueue(q, ms, depth)[i] = IF i + Excess(q, ms, depth) <= Len(q)
                                         THEN q[i + Excess(q, ms, depth)]
                                         ELSE ms[(i + Excess(q, ms, depth)) - Len(q)]
<1> DEFINE s == q \o ms
           n == Len(q) + Len(ms)
           k == Excess(q, ms, depth)
<1>1. Len(q) \in Nat /\ Len(ms) \in Nat /\ k \in Nat /\ n \in Nat /\ k <= n /\ n - k <= depth
  BY DEF Excess
<1>2. /\ s \in Seq(S) /\ Len(s) = n
      /\ \A i \in 1 .. n : s[i] \in S /\ s[i] = IF i <= Len(q) THEN q[i] ELSE ms[i - Len(q)]
  OBVIOUS
<1>3. Enqueue(q, ms, depth) = SubSeq(s, k + 1, n)
  BY <1>1, <1>2 DEF Enqueue, Excess
<1> HIDE DEF s, n, k
<1>4. /\ SubSeq(s, k + 1, n) \in Seq(S)
      /\ Len(SubSeq(s, k + 1, n)) = n - k
      /\ \A i \in 1 .. n - k : SubSeq(s, k + 1, n)[i] = s[i + k]
  <2>1. k + 1 \in Int /\ n \in Int /\ \A i \in k + 1 .. n : s[i] \in S
    BY <1>1, <1>2
  <2>2. /\ SubSeq(s, k + 1, n) \in Seq(S)
        /\ Len(SubSeq(s, k + 1, n)) = IF k + 1 <= n THEN n - (k + 1) + 1 ELSE 0
        /\ \A i \in 1 .. n - (k + 1) + 1 : SubSeq(s, k + 1, n)[i] = s[(k + 1) + i - 1]
    BY <2>1, SubSeqProperties
  <2>3. n - (k + 1) + 1 = n - k /\ (IF k + 1 <= n THEN n - (k + 1) + 1 ELSE 0) = n - k
    BY <1>1
  <2>4. \A i \in 1 .. n - k : (k + 1) + i - 1 = i + k
    BY <1>1
  <2>5. QED BY <2>2, <2>3, <2>4
<1>5. ASSUME NEW i \in DOMAIN SubSeq(s, k + 1, n)
      PROVE  SubSeq(s, k + 1, n)[i] = IF i + k <= Len(q) THEN q[i + k] ELSE ms[(i + k) - Len(q)]
  <2>1. i \in 1 .. n - k /\ i + k \in 1 .. n
    BY <1>1, <1>4
  <2>2. s[i + k] = IF i + k <= Len(q) THEN q[i + k] ELSE ms[(i + k) - Len(q)]
    BY <1>2, <2>1, Zenon
  <2>3. SubSeq(s, k + 1, n)[i] = s[i + k]
    BY <1>4, <2>1, Zenon
  <2>4. QED BY <2>2, <2>3, Zenon
<1>6. QED BY <1>1, <1>3, <1>4, <1>5 DEF n, k

\* A queue that is read from its head keeps its newest messages, and what is read last of
\* a drone was the newest.
LEMMA ReadFact ==
  ASSUME NEW S, NEW q \in Seq(S), q # <<>>, NEW d
  PROVE  /\ Tail(q) \in Seq(S) /\ Len(Tail(q)) = Len(q) - 1
         /\ \A i \in DOMAIN Tail(q) : i + 1 \in DOMAIN q /\ Tail(q)[i] = q[i + 1]
         /\ \A i \in DOMAIN Tail(q) : Newest(Tail(q), d, i) => Newest(q, d, i + 1)
         /\ Places(Tail(q), d) = {} =>
              IF Head(q).drone = d THEN Newest(q, d, 1) ELSE Places(q, d) = {}
         /\ 1 \in DOMAIN q /\ Head(q) = q[1]
<1>1. /\ Len(q) \in Nat \ {0} /\ DOMAIN q = 1 .. Len(q) /\ Head(q) = q[1]
      /\ Tail(q) \in Seq(S) /\ Len(Tail(q)) = Len(q) - 1 /\ DOMAIN Tail(q) = 1 .. Len(q) - 1
      /\ \A i \in 1 .. Len(q) - 1 : Tail(q)[i] = q[i + 1]
  OBVIOUS
<1>2. \A j \in Places(q, d) : j = 1 \/ j - 1 \in Places(Tail(q), d)
  <2>1. TAKE j \in Places(q, d)
  <2>2. j \in 1 .. Len(q) /\ q[j].drone = d
    BY <1>1 DEF Places
  <2>3. j # 1 => j - 1 \in 1 .. Len(q) - 1 /\ Tail(q)[j - 1] = q[j]
    BY <1>1, <2>2
  <2>4. QED BY <1>1, <2>2, <2>3 DEF Places
<1>3. ASSUME NEW i \in DOMAIN Tail(q), Newest(Tail(q), d, i)
      PROVE  Newest(q, d, i + 1)
  <2>1. i \in 1 .. Len(q) - 1 /\ i + 1 \in 1 .. Len(q) /\ q[i + 1].drone = d
    BY <1>1, <1>3 DEF Newest, Places
  <2>2. \A j \in Places(q, d) : j \in 1 .. Len(q)
    BY <1>1 DEF Places
  <2>3. \A j \in Places(q, d) : j <= i + 1
    BY <1>1, <1>2, <1>3, <2>1, <2>2 DEF Newest
  <2>4. QED BY <1>1, <2>1, <2>3 DEF Newest, Places
<1>4. ASSUME Places(Tail(q), d) = {}
      PROVE  IF Head(q).drone = d THEN Newest(q, d, 1) ELSE Places(q, d) = {}
  <2>1. \A j \in Places(q, d) : j = 1
    BY <1>2, <1>4
  <2>2. 1 \in 1 .. Len(q) /\ 1 <= 1
    BY <1>1
  <2>3. 1 \in Places(q, d) <=> Head(q).drone = d
    BY <1>1, <2>2 DEF Places
  <2>4. CASE Head(q).drone = d
    BY <2>1, <2>2, <2>3, <2>4 DEF Newest
  <2>5. CASE Head(q).drone # d
    BY <2>1, <2>3, <2>5
  <2>6. QED BY <2>4, <2>5
<1>5. QED BY <1>1, <1>3, <1>4

\* What is published to an aircraft: a burst with each drone of the table once.  Nothing
\* that is in its queue afterwards is of another drone than before or of the table, and
\* the newest message for a drone of the table is the one just published.
LEMMA PublishFact ==
  ASSUME FleetTyped,
         NEW table \in [Drones -> Targets \cup {None, Absent}],
         Publish(table),
         NEW e \in Drones
  PROVE  /\ assignQ'[e] \in Seq(AssignmentMsg) /\ Len(assignQ'[e]) <= AssignDepth
         /\ assignQ' = [d \in Drones |-> assignQ'[d]]
         /\ \A i \in DOMAIN assignQ'[e] :
              \/ table[assignQ'[e][i].drone] # Absent
              \/ \E j \in DOMAIN assignQ[e] : assignQ'[e][i] = assignQ[e][j]
         /\ \A d \in Drones : table[d] # Absent =>
              /\ Places(assignQ'[e], d) # {}
              /\ \A i \in DOMAIN assignQ'[e] :
                   Newest(assignQ'[e], d, i) => assignQ'[e][i].target = table[d]
<1> DEFINE listed == {d \in Drones : table[d] # Absent}
           n == Cardinality(listed)
<1>1. PICK order \in Bijection(1 .. n, listed) :
        assignQ' = [d \in Drones |->
          Enqueue(assignQ[d], [i \in DOMAIN order |-> [drone |-> order[i], target |-> table[order[i]]]],
                  AssignDepth)]
  BY Zenon DEF Publish, Send
<1>2. n \in Nat /\ n <= AssignDepth
  <2>1. listed \in SUBSET Drones /\ IsFiniteSet(Drones)
    BY DepthAssumption
  <2>2. IsFiniteSet(listed) /\ n <= Cardinality(Drones)
    BY <2>1, FS_Subset
  <2>3. n \in Nat /\ Cardinality(Drones) \in Nat
    BY <2>1, <2>2, FS_CardinalityType
  <2>4. QED BY <2>2, <2>3, DepthAssumption
<1>3. order \in [1 .. n -> listed] /\ \A d \in listed : \E j \in 1 .. n : order[j] = d
  BY Zenon DEF Bijection, Injection, Surjection
<1> DEFINE words == [i \in 1 .. n |-> [drone |-> order[i], target |-> table[order[i]]]]
           q == assignQ[e]
           new == Enqueue(q, words, AssignDepth)
           k == Excess(q, words, AssignDepth)
<1>4. assignQ'[e] = new /\ assignQ' = [d \in Drones |-> assignQ'[d]]
  BY <1>1, <1>3
<1> HIDE DEF n
<1>5. /\ words \in Seq(AssignmentMsg) /\ Len(words) = n
      /\ \A i \in 1 .. n : words[i].drone = order[i] /\ words[i].target = table[order[i]]
  <2>1. \A i \in 1 .. n : words[i] \in AssignmentMsg
    BY <1>3 DEF AssignmentMsg
  <2>2. words \in [1 .. n -> AssignmentMsg]
    BY <2>1
  <2> HIDE DEF words
  <2>3. words \in Seq(AssignmentMsg) /\ Len(words) = n
    BY <1>2, <2>2
  <2>4. QED BY <2>3 DEF words
<1>6. q \in Seq(AssignmentMsg) /\ Len(q) \in Nat /\ Len(q) <= AssignDepth /\ AssignDepth \in Nat \ {0}
  BY DepthAssumption DEF FleetTyped, FleetTypeOK
<1> HIDE DEF listed, words, q
<1>7. /\ new \in Seq(AssignmentMsg) /\ Len(new) <= AssignDepth
      /\ k \in Nat /\ Len(new) = Len(q) + n - k
      /\ \A i \in DOMAIN new : new[i] = IF i + k <= Len(q) THEN q[i + k] ELSE words[(i + k) - Len(q)]
  BY <1>5, <1>6, EnqueueFact
<1>8. k <= Len(q)
  BY <1>2, <1>5, <1>6 DEF Excess
<1> HIDE DEF new, k
<1>9. DOMAIN new = 1 .. Len(q) + n - k
  BY <1>7
<1>10. ASSUME NEW i \in DOMAIN new
       PROVE  \/ table[new[i].drone] # Absent
              \/ \E j \in DOMAIN q : new[i] = q[j]
  <2>1. i \in 1 .. Len(q) + n - k
    BY <1>9
  <2>2. CASE i + k <= Len(q)
    BY <1>6, <1>7, <2>1, <2>2
  <2>3. CASE i + k > Len(q)
    <3>1. (i + k) - Len(q) \in 1 .. n /\ new[i] = words[(i + k) - Len(q)]
      <4>1. (i + k) - Len(q) \in 1 .. n /\ ~(i + k <= Len(q))
        <5>1. k \in Nat /\ Len(q) \in Nat
          BY <1>6, <1>7, Zenon
        <5>2. QED BY <1>2, <2>1, <2>3, <5>1
      <4>2. new[i] = IF i + k <= Len(q) THEN q[i + k] ELSE words[(i + k) - Len(q)]
        BY <1>7, Zenon
      <4>3. QED BY <4>1, <4>2
    <3>2. order[(i + k) - Len(q)] \in listed
      BY <1>3, <3>1
    <3>3. QED BY <1>5, <3>1, <3>2 DEF listed
  <2>4. QED BY <1>6, <1>7, <2>1, <2>2, <2>3
<1>11. ASSUME NEW d \in Drones, table[d] # Absent
       PROVE  /\ Places(new, d) # {}
              /\ \A i \in DOMAIN new : Newest(new, d, i) => new[i].target = table[d]
  <2>1. PICK j \in 1 .. n : order[j] = d
    BY <1>3, <1>11 DEF listed
  <2> DEFINE p == Len(q) + j - k
  <2>2. p \in 1 .. Len(q) + n - k /\ p + k > Len(q) /\ p + k - Len(q) = j
    BY <1>2, <1>6, <1>7, <1>8
  <2>3. new[p] = words[j]
    BY <1>6, <1>7, <1>9, <2>2
  <2>4. p \in Places(new, d)
    BY <1>5, <1>9, <2>1, <2>2, <2>3 DEF Places
  <2>5. ASSUME NEW i \in DOMAIN new, Newest(new, d, i) PROVE new[i].target = table[d]
    <3>1. i \in 1 .. Len(q) + n - k /\ p <= i /\ new[i].drone = d
      BY <1>9, <2>4, <2>5 DEF Newest, Places
    <3>2. i + k > Len(q) /\ ~(i + k <= Len(q)) /\ (i + k) - Len(q) \in 1 .. n
      <4>1. i \in Int /\ p \in Int /\ k \in Int /\ Len(q) \in Int /\ n \in Int
        BY <1>2, <1>6, <1>7, <2>2, <3>1
      <4>2. i <= Len(q) + n - k /\ p <= i /\ p + k > Len(q)
        BY <1>2, <1>6, <1>7, <2>2, <3>1
      <4> HIDE DEF p
      <4>3. QED BY <4>1, <4>2
    <3>3. new[i] = words[(i + k) - Len(q)]
      BY <1>7, <3>2
    <3>4. QED BY <1>5, <3>1, <3>2, <3>3
  <2>6. QED BY <2>4, <2>5
<1>12. QED BY <1>4, <1>7, <1>10, <1>11 DEF listed, q

LEMMA FleetInitInv == FleetInit => FleetTyped
BY DroneInitInv, AllocInitType, DepthAssumption
DEF FleetInit, AllocInit, FleetTyped, FleetTypeOK, DroneInv

\* What an aircraft does is a step of Drone, what the allocator does touches no drone.
LEMMA FleetStepsDrones ==
  ASSUME FleetTyped, [FleetNext]_fleetVars
  PROVE  [DroneNext]_droneVars
<1>1. ASSUME NEW d \in Drones, OnAssign(d) PROVE DroneNext \/ UNCHANGED droneVars
  <2>1. Head(assignQ[d]) \in AssignmentMsg
    BY <1>1 DEF OnAssign, FleetTyped, FleetTypeOK
  <2>2. Head(assignQ[d]).target \in Targets \cup {None}
    BY <2>1 DEF AssignmentMsg
  <2>3. QED BY <1>1, <2>2 DEF OnAssign, DroneNext, Tasked
<1>2. ASSUME NEW d \in Drones, AircraftClock(d) PROVE DroneNext
  BY <1>2 DEF AircraftClock, DroneNext
<1>3. OnStatus => UNCHANGED droneVars
  BY DEF OnStatus
<1>4. ASSUME NEW t \in Targets, OnTrack(t) PROVE UNCHANGED droneVars
  BY <1>4 DEF OnTrack
<1>5. AllocatorClock \/ UNCHANGED fleetVars => UNCHANGED droneVars
  BY DEF AllocatorClock, fleetVars
<1>6. QED BY <1>1, <1>2, <1>3, <1>4, <1>5 DEF FleetNext

\* The queues hold what their topics carry.
LEMMA FleetNextInv == FleetTyped /\ [FleetNext]_fleetVars => FleetTyped'
<1> SUFFICES ASSUME FleetTyped, [FleetNext]_fleetVars PROVE FleetTyped'
  OBVIOUS
<1>1. DroneInv'
  BY FleetStepsDrones, DroneNextInv DEF FleetTyped
<1>2. DroneTypeOK'
  BY <1>1 DEF DroneInv
<1> USE <1>1, <1>2 DEF FleetTyped, FleetTypeOK
<1>3. ASSUME NEW d \in Drones, OnAssign(d) PROVE FleetTyped'
  <2>1. /\ assignQ[d] \in Seq(AssignmentMsg) /\ assignQ[d] # <<>> /\ assignQ'[d] = Tail(assignQ[d])
        /\ assignQ' \in [Drones -> Seq(AssignmentMsg)]
        /\ \A e \in Drones \ {d} : assignQ'[e] = assignQ[e]
    BY <1>3 DEF OnAssign
  <2>2. /\ Len(assignQ'[d]) <= AssignDepth
        /\ \A i \in DOMAIN assignQ'[d] : i + 1 \in DOMAIN assignQ[d] /\ assignQ'[d][i] = assignQ[d][i + 1]
    BY <2>1, ReadFact, DepthAssumption
  <2>3. \A e \in Drones : Len(assignQ'[e]) <= AssignDepth
    BY <2>1, <2>2
  <2>4. UNCHANGED <<roster, assignments, tracks, paused, statusQ, overrun>>
    BY <1>3 DEF OnAssign, allocVars
  <2>5. ASSUME NEW e \in Drones, NEW i \in DOMAIN assignQ'[e]
        PROVE  assignments'[assignQ'[e][i].drone] # Absent
    <3>1. CASE e = d
      BY <2>2, <2>4, <3>1
    <3>2. CASE e # d
      BY <2>1, <2>4, <3>2
    <3>3. QED BY <3>1, <3>2
  <2>6. QED BY <2>1, <2>3, <2>4, <2>5 DEF AllocTypeOK
<1>4. ASSUME NEW d \in Drones, AircraftClock(d) PROVE FleetTyped'
  <2>1. state'[d] \in Reported
    BY <1>4, StepReports DEF AircraftClock, Stepped
  <2>2. <<[drone |-> d, state |-> state'[d]]>> \in Seq(StatusMsg)
    BY <2>1 DEF StatusMsg
  <2>3. statusQ' \in Seq(StatusMsg) /\ Len(statusQ') <= StatusDepth
    BY <1>4, <2>2, EnqueueFact, DepthAssumption DEF AircraftClock
  <2>4. overrun' \in SUBSET Drones
    BY <1>4 DEF AircraftClock
  <2>5. UNCHANGED <<roster, assignments, tracks, paused, assignQ>>
    BY <1>4 DEF AircraftClock, allocVars
  <2>6. QED BY <2>3, <2>4, <2>5 DEF AllocTypeOK
<1>5. CASE OnStatus
  <2>1. Head(statusQ) \in StatusMsg /\ statusQ # <<>> /\ statusQ' = Tail(statusQ)
    BY <1>5 DEF OnStatus
  <2>2. Head(statusQ).drone \in Drones /\ Head(statusQ).state \in Reported
    BY <2>1 DEF StatusMsg
  <2>3. roster' \in [Drones -> Reported \cup {Absent}]
    BY <1>5, <2>2 DEF OnStatus
  <2>4. statusQ' \in Seq(StatusMsg) /\ Len(statusQ') <= StatusDepth
    BY <2>1, ReadFact, DepthAssumption
  <2>5. UNCHANGED <<assignments, tracks, paused, assignQ, overrun>>
    BY <1>5 DEF OnStatus
  <2>6. AllocTypeOK'
    BY <2>3, <2>5 DEF AllocTypeOK, Reported
  <2>7. QED BY <2>3, <2>4, <2>5, <2>6
<1>6. ASSUME NEW t \in Targets, OnTrack(t) PROVE FleetTyped'
  BY <1>6 DEF OnTrack, busVars, AllocTypeOK
<1>7. CASE AllocatorClock
  <2>1. tracks' \in SUBSET Targets
    BY <1>7 DEF AllocatorClock, AllocTypeOK
  <2>2. assignments' \in [Drones -> Targets \cup {None, Absent}]
    BY <1>7, <2>1, AllocationType DEF AllocatorClock, AllocTypeOK
  <2>3. Publish(assignments')
    BY <1>7 DEF AllocatorClock
  <2>4. /\ \A e \in Drones : assignQ'[e] \in Seq(AssignmentMsg) /\ Len(assignQ'[e]) <= AssignDepth
        /\ \A e \in Drones : assignQ' = [d \in Drones |-> assignQ'[d]]
        /\ \A e \in Drones : \A i \in DOMAIN assignQ'[e] :
             \/ assignments'[assignQ'[e][i].drone] # Absent
             \/ \E j \in DOMAIN assignQ[e] : assignQ'[e][i] = assignQ[e][j]
    BY <2>2, <2>3, PublishFact
  <2>5. assignQ' = [d \in Drones |-> assignQ'[d]]
    BY <2>3 DEF Publish, Send
  <2>6. assignQ' \in [Drones -> Seq(AssignmentMsg)]
    BY <2>4, <2>5
  <2>7. ASSUME NEW e \in Drones, NEW i \in DOMAIN assignQ'[e]
        PROVE  assignments'[assignQ'[e][i].drone] # Absent
    <3>1. CASE \E j \in DOMAIN assignQ[e] : assignQ'[e][i] = assignQ[e][j]
      <4>1. PICK j \in DOMAIN assignQ[e] : assignQ'[e][i] = assignQ[e][j]
        BY <3>1
      <4>2. assignQ[e][j].drone \in Drones /\ assignments[assignQ[e][j].drone] # Absent
        <5>1. assignQ[e] \in Seq(AssignmentMsg)
          OBVIOUS
        <5>2. assignQ[e][j] \in AssignmentMsg
          BY <5>1
        <5>3. QED BY <5>2 DEF AssignmentMsg
      <4>3. EntriesStay(roster, assignments, tracks', assignments')
        BY <1>7, <2>1, AllocationKeeps DEF AllocatorClock, AllocTypeOK
      <4>4. QED BY <4>1, <4>2, <4>3 DEF EntriesStay
    <3>2. QED BY <2>4, <3>1
  <2>8. QED BY <1>7, <2>1, <2>2, <2>4, <2>6, <2>7 DEF AllocatorClock, AllocTypeOK
<1>8. CASE UNCHANGED fleetVars
  BY <1>8 DEF fleetVars, allocVars, busVars, AllocTypeOK
<1>9. QED BY <1>3, <1>4, <1>5, <1>6, <1>7, <1>8 DEF FleetNext

\* After set_assignment a drone has no target but the one it was told.
LEMMA ToldFact ==
  ASSUME DroneInv, NEW d \in Drones, NEW t \in Targets \cup {None}, SetAssignment(d, t)
  PROVE  /\ assignment'[d] # None => assignment'[d] = t
         /\ \A e \in Drones \ {d} : assignment'[e] = assignment[e]
BY DEF SetAssignment, Unassign, Retask, ToIdle, DroneInv, DroneTypeOK

\* A tick leaves every drone its target or takes it away.
LEMMA StepKeepsTarget ==
  ASSUME DroneInv, NEW d \in Drones, Stepped(d)
  PROVE  \A e \in Drones : assignment'[e] # None => assignment'[e] = assignment[e]
<1> USE DEF DroneInv, DroneTypeOK
<1>1. PICK visible \in {{}, Targets} : Step(d, visible)
  BY DEF Stepped
<1>2. CASE RtlStep(d) \/ ReturnStep(d)
  BY <1>2 DEF RtlStep, ReturnStep, GoHome, ToIdle
<1>3. CASE ~(RtlStep(d) \/ ReturnStep(d))
  BY <1>1, <1>3 DEF Step, IdleStep, MidcourseStep, AcquiringStep, TerminalStep
<1>4. QED BY <1>2, <1>3

\* The queues are written with the table and read from their head, so the newest message
\* stays what the table says, and what was read last was the newest.
LEMMA LatestWordNext ==
  ASSUME FleetTyped, LatestWord, [FleetNext]_fleetVars
  PROVE  LatestWord'
<1> USE DEF FleetTyped, FleetTypeOK
<1>1. ASSUME NEW d \in Drones, OnAssign(d) PROVE LatestWord'
  <2> DEFINE m == Head(assignQ[d])
  <2>1. assignments' = assignments
    BY <1>1 DEF OnAssign, allocVars
  <2>2. /\ assignQ[d] \in Seq(AssignmentMsg) /\ assignQ[d] # <<>>
        /\ assignQ'[d] = Tail(assignQ[d])
        /\ m \in AssignmentMsg
        /\ \A e \in Drones \ {d} : assignQ'[e] = assignQ[e]
    BY <1>1 DEF OnAssign
  <2>3. m.target \in Targets \cup {None}
    BY <2>2 DEF AssignmentMsg
  <2>4. /\ m.drone = d => (assignment'[d] # None => assignment'[d] = m.target)
        /\ m.drone # d => assignment'[d] = assignment[d]
        /\ \A e \in Drones \ {d} : assignment'[e] = assignment[e]
    <3>1. CASE m.drone = d
      <4>1. SetAssignment(d, m.target)
        BY <1>1, <3>1 DEF OnAssign
      <4>2. QED BY <2>3, <3>1, <4>1, ToldFact
    <3>2. CASE m.drone # d
      BY <1>1, <3>2 DEF OnAssign, droneVars
    <3>3. QED BY <3>1, <3>2
  <2>5. /\ \A i \in DOMAIN Tail(assignQ[d]) :
             /\ i + 1 \in DOMAIN assignQ[d] /\ Tail(assignQ[d])[i] = assignQ[d][i + 1]
             /\ Newest(Tail(assignQ[d]), d, i) => Newest(assignQ[d], d, i + 1)
        /\ Places(Tail(assignQ[d]), d) = {} =>
             IF m.drone = d THEN Newest(assignQ[d], d, 1) ELSE Places(assignQ[d], d) = {}
        /\ 1 \in DOMAIN assignQ[d] /\ m = assignQ[d][1]
    BY <2>2, ReadFact
  <2> HIDE DEF m
  <2>6. Places(assignQ'[d], d) = {} /\ assignment'[d] # None => assignments'[d] = assignment'[d]
    <3>1. SUFFICES ASSUME Places(Tail(assignQ[d]), d) = {}, assignment'[d] # None
                   PROVE  assignments[d] = assignment'[d]
      BY <2>1, <2>2
    <3>2. CASE m.drone = d
      <4>1. assignQ[d][1].target = assignments[d]
        BY <2>5, <3>1, <3>2 DEF LatestWord
      <4>2. QED BY <2>4, <2>5, <3>1, <3>2, <4>1
    <3>3. CASE m.drone # d
      BY <2>4, <2>5, <3>1, <3>3 DEF LatestWord
    <3>4. QED BY <3>2, <3>3
  <2>7. \A i \in DOMAIN assignQ'[d] :
          Newest(assignQ'[d], d, i) => assignQ'[d][i].target = assignments'[d]
    BY <2>1, <2>2, <2>5 DEF LatestWord
  <2>8. ASSUME NEW e \in Drones, e # d
        PROVE  /\ Places(assignQ'[e], e) = {} /\ assignment'[e] # None => assignments'[e] = assignment'[e]
               /\ \A i \in DOMAIN assignQ'[e] :
                    Newest(assignQ'[e], e, i) => assignQ'[e][i].target = assignments'[e]
    <3>1. assignQ'[e] = assignQ[e] /\ assignment'[e] = assignment[e]
      BY <2>2, <2>4, <2>8
    <3>2. /\ Places(assignQ[e], e) = {} /\ assignment[e] # None => assignments[e] = assignment[e]
          /\ \A i \in DOMAIN assignQ[e] : Newest(assignQ[e], e, i) => assignQ[e][i].target = assignments[e]
      BY Zenon DEF LatestWord
    <3>3. Places(assignQ'[e], e) = {} /\ assignment'[e] # None => assignments'[e] = assignment'[e]
      <4>1. Places(assignQ'[e], e) = Places(assignQ[e], e)
        BY <3>1, Zenon
      <4>2. QED BY <2>1, <3>1, <3>2, <4>1
    <3>4. \A i \in DOMAIN assignQ'[e] :
            Newest(assignQ'[e], e, i) => assignQ'[e][i].target = assignments'[e]
      BY <2>1, <3>1, <3>2, Zenon
    <3>5. QED BY <3>3, <3>4, Zenon
  <2>9. ASSUME NEW e \in Drones
        PROVE  /\ Places(assignQ'[e], e) = {} /\ assignment'[e] # None => assignments'[e] = assignment'[e]
               /\ \A i \in DOMAIN assignQ'[e] :
                    Newest(assignQ'[e], e, i) => assignQ'[e][i].target = assignments'[e]
    <3>1. CASE e = d
      BY <2>6, <2>7, <3>1, Zenon
    <3>2. CASE e # d
      BY <2>8, <3>2, Zenon
    <3>3. QED BY <3>1, <3>2
  <2>10. QED BY <2>9, Zenon DEF LatestWord
<1>2. ASSUME NEW d \in Drones, AircraftClock(d) PROVE LatestWord'
  <2>1. UNCHANGED <<assignments, assignQ>>
    BY <1>2 DEF AircraftClock, allocVars
  <2>2. \A e \in Drones : assignment'[e] # None => assignment'[e] = assignment[e]
    BY <1>2, StepKeepsTarget DEF AircraftClock
  <2>3. QED BY <2>1, <2>2 DEF LatestWord
<1>3. CASE AllocatorClock
  <2>1. assignment' = assignment /\ Publish(assignments')
    BY <1>3 DEF AllocatorClock, droneVars
  <2>2. tracks' \in SUBSET Targets
    BY <1>3 DEF AllocatorClock, AllocTypeOK
  <2>3. assignments' \in [Drones -> Targets \cup {None, Absent}]
    BY <1>3, <2>2, AllocationType DEF AllocatorClock, AllocTypeOK
  <2>4. ASSUME NEW e \in Drones
        PROVE  /\ Places(assignQ'[e], e) = {} /\ assignment'[e] # None => assignments'[e] = assignment'[e]
               /\ \A i \in DOMAIN assignQ'[e] :
                    Newest(assignQ'[e], e, i) => assignQ'[e][i].target = assignments'[e]
    <3>1. CASE assignments'[e] # Absent
      <4>1. /\ Places(assignQ'[e], e) # {}
            /\ \A i \in DOMAIN assignQ'[e] :
                 Newest(assignQ'[e], e, i) => assignQ'[e][i].target = assignments'[e]
        BY <2>1, <2>3, <3>1, PublishFact
      <4>2. QED BY <4>1, Zenon
    <3>2. CASE assignments'[e] = Absent
      <4>1. assignments[e] = Absent
        <5>1. EntriesStay(roster, assignments, tracks', assignments')
          BY <1>3, <2>2, AllocationKeeps DEF AllocatorClock, AllocTypeOK
        <5>2. QED BY <3>2, <5>1 DEF EntriesStay
      <4>2. Places(assignQ[e], e) = {}
        BY <4>1 DEF Places
      <4>3. Places(assignQ'[e], e) = {}
        <5>1. \A i \in DOMAIN assignQ'[e] :
                \/ assignments'[assignQ'[e][i].drone] # Absent
                \/ \E j \in DOMAIN assignQ[e] : assignQ'[e][i] = assignQ[e][j]
          BY <2>1, <2>3, PublishFact
        <5>2. SUFFICES ASSUME NEW i \in DOMAIN assignQ'[e], assignQ'[e][i].drone = e PROVE FALSE
          BY DEF Places
        <5>3. \E j \in DOMAIN assignQ[e] : assignQ'[e][i] = assignQ[e][j]
          BY <3>2, <5>1, <5>2
        <5>4. QED BY <4>2, <5>2, <5>3 DEF Places
      <4>4. assignment[e] = None
        BY <4>1, <4>2, AllocatorAssumption DEF LatestWord, DroneInv, DroneTypeOK
      <4>5. QED BY <2>1, <4>3, <4>4 DEF Newest
    <3>3. QED BY <3>1, <3>2
  <2>5. QED BY <2>4 DEF LatestWord
<1>4. CASE UNCHANGED <<assignment, assignments, assignQ>>
  BY <1>4 DEF LatestWord
<1>5. OnStatus => UNCHANGED <<assignment, assignments, assignQ>>
  BY DEF OnStatus, droneVars
<1>6. ASSUME NEW t \in Targets, OnTrack(t) PROVE UNCHANGED <<assignment, assignments, assignQ>>
  BY <1>6 DEF OnTrack, droneVars, busVars
<1>7. CASE UNCHANGED fleetVars
  BY <1>4, <1>7 DEF fleetVars, droneVars, allocVars, busVars
<1>8. QED BY <1>1, <1>2, <1>3, <1>4, <1>5, <1>6, <1>7 DEF FleetNext

\* Tasking leaves a drone in its state, or idle, or ASSIGNED.
LEMMA ToldStates ==
  ASSUME DroneInv, NEW d \in Drones, NEW t \in Targets \cup {None}, SetAssignment(d, t)
  PROVE  \A e \in Drones : state'[e] \notin {"IDLE", "ASSIGNED"} => state'[e] = state[e]
BY DEF SetAssignment, Unassign, Retask, ToIdle, DroneInv, DroneTypeOK

\* A drone reports at the end of every tick, what happens to it between two is only that
\* it is tasked, and the reports of others only push its own out of the queue.
LEMMA LatestReportNext ==
  ASSUME FleetTyped, LatestReport, [FleetNext]_fleetVars
  PROVE  LatestReport'
<1> USE DEF FleetTyped, FleetTypeOK
<1> DEFINE Known(e) == /\ Places(statusQ, e) = {} /\ e \notin overrun => state[e] = roster[e]
                       /\ \A i \in DOMAIN statusQ : Newest(statusQ, e, i) => statusQ[i].state = state[e]
<1>1. ASSUME NEW d \in Drones, OnAssign(d) PROVE LatestReport'
  <2>1. UNCHANGED <<roster, statusQ, overrun>>
    BY <1>1 DEF OnAssign, allocVars
  <2>2. Head(assignQ[d]) \in AssignmentMsg
    BY <1>1 DEF OnAssign
  <2>3. Head(assignQ[d]).target \in Targets \cup {None}
    BY <2>2 DEF AssignmentMsg
  <2>4. \A e \in Drones : state'[e] \notin {"IDLE", "ASSIGNED"} => state'[e] = state[e]
    BY <1>1, <2>3, ToldStates DEF OnAssign, droneVars
  <2>5. QED BY <2>1, <2>4 DEF LatestReport
<1>2. ASSUME NEW d \in Drones, AircraftClock(d) PROVE LatestReport'
  <2> DEFINE q == statusQ
             m == [drone |-> d, state |-> state'[d]]
             new == Enqueue(q, <<m>>, StatusDepth)
             k == Excess(q, <<m>>, StatusDepth)
  <2>1. /\ statusQ' = new /\ roster' = roster
        /\ overrun' = (overrun \ {d}) \cup {e \in Drones : Places(q, e) # {} /\ Places(new, e) = {}}
    BY <1>2 DEF AircraftClock, allocVars
  <2>2. state'[d] \in Reported /\ \A e \in Drones \ {d} : state'[e] = state[e]
    BY <1>2, StepReports DEF AircraftClock, Stepped
  <2>3. m \in StatusMsg /\ <<m>> \in Seq(StatusMsg) /\ Len(<<m>>) = 1 /\ <<m>>[1] = m
    BY <2>2 DEF StatusMsg
  <2>4. m.drone = d /\ m.state = state'[d]
    OBVIOUS
  <2>5. q \in Seq(StatusMsg) /\ Len(q) \in Nat /\ Len(q) <= StatusDepth /\ StatusDepth \in Nat \ {0}
    BY DepthAssumption
  <2> HIDE DEF q, m
  <2>6. /\ new \in Seq(StatusMsg) /\ k \in Nat /\ Len(new) = Len(q) + 1 - k
        /\ \A i \in DOMAIN new : new[i] = IF i + k <= Len(q) THEN q[i + k] ELSE <<m>>[(i + k) - Len(q)]
    <3>1. /\ new \in Seq(StatusMsg) /\ k \in Nat /\ Len(new) = Len(q) + Len(<<m>>) - k
          /\ \A i \in DOMAIN new : new[i] = IF i + k <= Len(q) THEN q[i + k] ELSE <<m>>[(i + k) - Len(q)]
      <4> DEFINE ms == <<m>>
      <4>1. ms \in Seq(StatusMsg)
        BY <2>3
      <4> HIDE DEF ms
      <4>2. /\ Enqueue(q, ms, StatusDepth) \in Seq(StatusMsg)
            /\ Excess(q, ms, StatusDepth) \in Nat
            /\ Len(Enqueue(q, ms, StatusDepth)) = Len(q) + Len(ms) - Excess(q, ms, StatusDepth)
            /\ \A i \in DOMAIN Enqueue(q, ms, StatusDepth) :
                 Enqueue(q, ms, StatusDepth)[i] =
                   IF i + Excess(q, ms, StatusDepth) <= Len(q) THEN q[i + Excess(q, ms, StatusDepth)]
                   ELSE ms[(i + Excess(q, ms, StatusDepth)) - Len(q)]
        BY <2>5, <4>1, EnqueueFact
      <4>3. QED BY <4>2 DEF ms
    <3>2. QED BY <2>3, <3>1
  <2>7. k <= Len(q)
    BY <2>3, <2>5 DEF Excess
  <2> HIDE DEF new, k
  <2>8. DOMAIN new = 1 .. Len(q) + 1 - k /\ DOMAIN q = 1 .. Len(q)
    BY <2>5, <2>6
  <2>9. /\ Len(q) + 1 - k \in DOMAIN new /\ new[Len(q) + 1 - k] = m
        /\ \A i \in DOMAIN new \ {Len(q) + 1 - k} : i + k \in DOMAIN q /\ new[i] = q[i + k]
    <3>1. /\ Len(q) + 1 - k \in 1 .. Len(q) + 1 - k
          /\ ~((Len(q) + 1 - k) + k <= Len(q)) /\ ((Len(q) + 1 - k) + k) - Len(q) = 1
      BY <2>5, <2>6, <2>7
    <3>2. \A i \in (1 .. Len(q) + 1 - k) \ {Len(q) + 1 - k} : i + k \in 1 .. Len(q) /\ i + k <= Len(q)
      BY <2>5, <2>6, <2>7
    <3>3. new[Len(q) + 1 - k] = <<m>>[1]
      BY <2>6, <2>8, <3>1
    <3>4. QED BY <2>3, <2>6, <2>8, <3>1, <3>2, <3>3
  <2>10. ASSUME NEW i \in DOMAIN new, Newest(new, d, i) PROVE new[i].state = state'[d]
    <3>1. Len(q) + 1 - k \in Places(new, d)
      BY <2>4, <2>9 DEF Places
    <3>2. i = Len(q) + 1 - k
      BY <2>5, <2>6, <2>8, <2>10, <3>1 DEF Newest
    <3>3. QED BY <2>4, <2>9, <3>2
  <2>11. ASSUME NEW e \in Drones \ {d}, NEW i \in DOMAIN new, Newest(new, e, i)
         PROVE  i + k \in DOMAIN q /\ new[i] = q[i + k] /\ Newest(q, e, i + k)
    <3>1. i # Len(q) + 1 - k
      BY <2>4, <2>9, <2>11 DEF Newest, Places
    <3>2. i + k \in DOMAIN q /\ new[i] = q[i + k] /\ q[i + k].drone = e
      BY <2>9, <2>11, <3>1 DEF Newest, Places
    <3>3. ASSUME NEW j \in Places(q, e) PROVE j <= i + k
      <4>1. j \in 1 .. Len(q) /\ q[j].drone = e /\ i \in 1 .. Len(q) + 1 - k
        BY <2>8 DEF Places
      <4>2. CASE j <= k
        BY <2>6, <4>1, <4>2
      <4>3. CASE j > k
        <5>1. j - k \in DOMAIN new /\ j - k # Len(q) + 1 - k /\ (j - k) + k = j
          BY <2>5, <2>6, <2>8, <4>1, <4>3
        <5>2. j - k \in Places(new, e)
          BY <2>9, <4>1, <5>1 DEF Places
        <5>3. QED BY <2>6, <2>11, <4>1, <5>2 DEF Newest
      <4>4. QED BY <2>6, <4>1, <4>2, <4>3
    <3>4. QED BY <3>2, <3>3 DEF Newest, Places
  <2>12. Places(new, d) # {}
    BY <2>4, <2>9 DEF Places
  <2>13. ASSUME NEW e \in Drones, state'[e] \notin {"IDLE", "ASSIGNED"} PROVE Known(e)'
    <3>1. CASE e = d
      BY <2>1, <2>10, <2>12, <3>1
    <3>2. CASE e # d
      <4>1. state'[e] = state[e] /\ Known(e)
        BY <2>2, <2>13, <3>2 DEF LatestReport
      <4>2. Places(new, e) = {} /\ e \notin overrun' => Places(q, e) = {} /\ e \notin overrun
        BY <2>1, <3>2
      <4>3. \A i \in DOMAIN new : Newest(new, e, i) => new[i].state = state[e]
        BY <2>11, <3>2, <4>1 DEF q
      <4>4. QED BY <2>1, <4>1, <4>2, <4>3 DEF q
    <3>3. QED BY <3>1, <3>2
  <2>14. QED BY <2>13 DEF LatestReport
<1>3. CASE OnStatus
  <2> DEFINE m == Head(statusQ)
  <2>1. /\ state' = state /\ overrun' = overrun
        /\ statusQ \in Seq(StatusMsg) /\ statusQ # <<>> /\ statusQ' = Tail(statusQ)
        /\ roster' = [roster EXCEPT ![m.drone] = m.state]
    BY <1>3 DEF OnStatus, droneVars
  <2>2. m \in StatusMsg
    BY <2>1
  <2>3. m.drone \in Drones /\ m.state \in Reported
    BY <2>2 DEF StatusMsg
  <2>4. roster'[m.drone] = m.state /\ \A e \in Drones \ {m.drone} : roster'[e] = roster[e]
    BY <2>1, <2>3
  <2> HIDE DEF m
  <2>5. ASSUME NEW e \in Drones, state'[e] \notin {"IDLE", "ASSIGNED"} PROVE Known(e)'
    <3>1. /\ \A i \in DOMAIN Tail(statusQ) :
               /\ i + 1 \in DOMAIN statusQ /\ Tail(statusQ)[i] = statusQ[i + 1]
               /\ Newest(Tail(statusQ), e, i) => Newest(statusQ, e, i + 1)
          /\ Places(Tail(statusQ), e) = {} =>
               IF m.drone = e THEN Newest(statusQ, e, 1) ELSE Places(statusQ, e) = {}
          /\ 1 \in DOMAIN statusQ /\ m = statusQ[1]
      BY <2>1, ReadFact DEF m
    <3>2. Known(e)
      BY <2>1, <2>5 DEF LatestReport
    <3>3. Places(Tail(statusQ), e) = {} /\ e \notin overrun => state[e] = roster'[e]
      <4>1. CASE m.drone = e
        BY <2>4, <3>1, <3>2, <4>1
      <4>2. CASE m.drone # e
        BY <2>4, <3>1, <3>2, <4>2
      <4>3. QED BY <4>1, <4>2
    <3>4. \A i \in DOMAIN Tail(statusQ) : Newest(Tail(statusQ), e, i) => Tail(statusQ)[i].state = state[e]
      BY <3>1, <3>2
    <3>5. QED BY <2>1, <3>3, <3>4
  <2>6. QED BY <2>5 DEF LatestReport
<1>4. CASE UNCHANGED <<state, roster, statusQ, overrun>>
  BY <1>4 DEF LatestReport
<1>5. ASSUME NEW t \in Targets, OnTrack(t) PROVE UNCHANGED <<state, roster, statusQ, overrun>>
  BY <1>5 DEF OnTrack, droneVars, busVars
<1>6. CASE AllocatorClock \/ UNCHANGED fleetVars
  BY <1>4, <1>6 DEF AllocatorClock, fleetVars, droneVars, allocVars, busVars
<1>7. QED BY <1>1, <1>2, <1>3, <1>4, <1>5, <1>6 DEF FleetNext

FleetIInv == FleetTyped /\ LatestWord /\ LatestReport

\* Every state of the distributed run satisfies the invariant.
THEOREM FleetInvariant == FleetSpec => []FleetIInv
<1>1. FleetInit => FleetIInv
  BY FleetInitInv DEF FleetIInv, FleetInit, LatestWord, LatestReport, DroneInit, Newest, Places
<1>2. FleetIInv /\ [FleetNext]_fleetVars => FleetIInv'
  BY FleetNextInv, LatestWordNext, LatestReportNext DEF FleetIInv
<1>3. QED BY <1>1, <1>2, PTL DEF FleetSpec

\* For any number of aircraft that share the queues of allocator_node.py and
\* aircraft_node.py, as long as the table fits into one: the queues hold what their topics
\* carry, no report says ASSIGNED, an aircraft that has read the messages for it obeys the
\* table (FR-ALLOC-3), and the allocator has or is yet to read how each engagement stands,
\* unless the reports of others have filled its queue since.
THEOREM LatestWordStands == FleetSpec => []FleetInv
<1>1. FleetIInv => FleetInv
  BY DEF FleetIInv, FleetTyped, FleetInv
<1>2. QED BY <1>1, FleetInvariant, PTL

\* The aircraft of the distributed run are the drones of Drone, whatever is lost or late
\* between them and the allocator.
THEOREM FleetImplementsDrones == FleetSpec => DroneSpec
<1>1. FleetInit => DroneInit
  BY DEF FleetInit
<1>2. FleetIInv /\ [FleetNext]_fleetVars => [DroneNext]_droneVars
  BY FleetStepsDrones DEF FleetIInv
<1>3. QED BY <1>1, <1>2, FleetInvariant, PTL DEF FleetSpec, DroneSpec

\* Hence FR-OB-5 and the consistency of task and track hold in the fleet as well.
THEOREM FleetCaptureConfirmed == FleetSpec => CaptureConfirmed /\ []TaskAndTrack
BY FleetImplementsDrones, CaptureIsConfirmed, TaskAndTrackConsistent, PTL

\* So do the engagements: no message the topics lose, delay or repeat makes a drone claim
\* twice, skip a stage or lose an engagement without a report.
THEOREM FleetKeepsPromise == FleetSpec => KeepsPromise
BY FleetImplementsDrones, DronesKeepPromise, PTL

\* FR-ALLOC-2 and FR-ALLOC-4 in the fleet: the allocator owes the same, for the states it
\* was last told of and the tracks it still receives.
THEOREM FleetIsAllocated ==
  FleetSpec => [][Owed(roster, assignments, tracks', assignments')]_assignments
<1>1. ASSUME FleetTyped, [FleetNext]_fleetVars, assignments' # assignments
      PROVE  Owed(roster, assignments, tracks', assignments')
  <2>1. AllocatorClock
    BY <1>1 DEF FleetNext, OnAssign, AircraftClock, OnStatus, OnTrack, fleetVars, allocVars
  <2>2. AllocTypeOK /\ tracks' \in SUBSET Targets
    BY <1>1, <2>1 DEF AllocatorClock, FleetTyped, FleetTypeOK, AllocTypeOK
  <2>3. QED BY <2>1, <2>2, OwedFact DEF AllocatorClock, AllocTypeOK
<1>2. FleetIInv /\ [FleetNext]_fleetVars =>
        [Owed(roster, assignments, tracks', assignments')]_assignments
  BY <1>1 DEF FleetIInv
<1>3. QED BY <1>2, FleetInvariant, PTL DEF FleetSpec

=============================================================================
