----------------------------- MODULE Simulation -----------------------------
(***************************************************************************)
(* The in-process run of the whole system: Simulation.step of mics/sim.py  *)
(* drives the ground station and every drone from one loop.  A tick is cut *)
(* at the points where the loop hands over: the ground station's turn, one *)
(* turn per drone for the push of its assignment, one turn per drone for   *)
(* its step, and the scoring at the end.  "turn" is the position in the    *)
(* tick.                                                                   *)
(*                                                                         *)
(* Of the cue degrader and the track manager only the set of tracks that   *)
(* results is modelled: a cue may be dropped, delayed past its target's    *)
(* death or associated to another track, a track may age out or be kept    *)
(* alive by another target's cues.                                         *)
(***************************************************************************)
EXTENDS Drone, Allocator, Sequences, Functions

CONSTANT Order  \* Simulation.drones, in list order

ASSUME OrderAssumption ==
  Order \in Seq(Drones) /\ IsInjective(Order) /\ Range(Order) = Drones

ASSUME TargetsAssumption == IsFiniteSet(Targets)

VARIABLES
  turn,      \* where in the tick the loop is
  alive,     \* the attackers that are alive
  cued,      \* the targets of which a cue can still be released
  captures   \* metrics.captures

simVars == <<droneVars, allocVars, turn, alive, cued, captures>>

N == Len(Order)

SimTypeOK ==
  /\ DroneTypeOK
  /\ AllocTypeOK
  /\ roster \in [Drones -> Reported \cup {Absent}]
  /\ turn \in 0 .. 2 * N + 1
  /\ alive \subseteq cued /\ cued \subseteq Targets
  /\ captures \in Nat

SimInit ==
  /\ DroneInit
  /\ AllocInit
  /\ turn = 0
  /\ alive = Targets
  /\ cued = Targets
  /\ captures = 0

NextTurn == turn' = IF turn = 2 * N + 1 THEN 0 ELSE turn + 1

\* A cue can come from a live attacker, and from a dead one while one of its cues
\* is still in the latency buffer.
DegradeCues == cued' \in {c \in SUBSET cued : alive \subseteq c}

\* A released cue opens or refreshes a track or is associated to another one; a
\* track without a recent cue ages out.
FuseTracks == tracks' \in SUBSET (tracks \cup cued)

\* Attackers move, cues are degraded, tracks are fused and aged, and allocate()
\* runs on the drones' states of this instant.  The run ends with the attackers.
GroundStation ==
  /\ turn = 0
  /\ alive # {}
  /\ DegradeCues
  /\ FuseTracks
  /\ roster' = [d \in Drones |-> state[d]]
  /\ assignments' \in Allocation(roster', assignments, tracks')
  /\ NextTurn
  /\ UNCHANGED <<droneVars, paused, alive, captures>>

\* Mutant: an entry with target 0 is not pushed.
PushTargetsOnly ==
  /\ turn \in 1 .. N
  /\ LET d == Order[turn]
     IN  IF assignments[d] \in {Absent, None}
         THEN UNCHANGED droneVars
         ELSE SetAssignment(d, assignments[d])
  /\ NextTurn
  /\ UNCHANGED <<allocVars, alive, cued, captures>>

Push ==
  /\ turn \in 1 .. N
  /\ LET d == Order[turn]
     IN  IF assignments[d] = Absent
         THEN UNCHANGED droneVars
         ELSE SetAssignment(d, assignments[d])
  /\ NextTurn
  /\ UNCHANGED <<allocVars, alive, cued, captures>>

Fly ==
  /\ turn \in N + 1 .. 2 * N
  /\ Step(Order[turn - N], alive)
  /\ NextTurn
  /\ UNCHANGED <<allocVars, alive, cued, captures>>

\* Truth decides which of the declared captures are real: the target must be
\* alive and within range of the engagement point.  The first real one kills the
\* target, every other SUCCESS is a false fire.
Claims(t) == {d \in Drones : [target |-> t, result |-> "SUCCESS"] \in capture_events[d]}

\* Mutant: a claim counts as a capture whether its target was alive or not.
CollectMetricsByClaim ==
  /\ turn = 2 * N + 1
  /\ \E hit \in SUBSET {t \in Targets : Claims(t) # {}} :
       /\ alive' = alive \ hit
       /\ captures' = captures + Cardinality(hit)
  /\ capture_events' = [d \in Drones |-> {}]
  /\ NextTurn
  /\ UNCHANGED <<state, assignment, lock, age, trk, low, killed, armed, allocVars, cued>>

CollectMetrics ==
  /\ turn = 2 * N + 1
  /\ \E hit \in SUBSET {t \in alive : Claims(t) # {}} :
       /\ alive' = alive \ hit
       /\ captures' = captures + Cardinality(hit)
  /\ capture_events' = [d \in Drones |-> {}]
  /\ NextTurn
  /\ UNCHANGED <<state, assignment, lock, age, trk, low, killed, armed, allocVars, cued>>

SimNext == GroundStation \/ Push \/ Fly \/ CollectMetrics

SimSpec == SimInit /\ [][SimNext]_simVars

\* The loop runs on, and a drone that flies home arrives.
SimArrives(d) == Fly /\ Order[turn - N] = d /\ state[d] \in Returning /\ state'[d] = "IDLE"

SimFairSpec ==
  /\ SimSpec
  /\ WF_simVars(SimNext)
  /\ \A d \in Drones : SF_simVars(SimArrives(d))

-----------------------------------------------------------------------------

\* A drone in TERMINAL has held the lock on the target it is pursuing now for
\* T_lock (FR-OB-3): in this loop the roster is exact when allocate() runs, so no
\* drone is handed another target once it is committed.
HandoffOnCurrentTarget ==
  \A d \in Drones : state[d] = "TERMINAL" => lock[d] >= TLock

\* Outside the push loop every drone that has a target has the one the table
\* gives it (FR-ALLOC-3), also after it failed, captured or was tasked on its way
\* home.
ObeysTable ==
  turn \notin 1 .. N =>
    \A d \in Drones : assignment[d] # None => assignments[d] = assignment[d]

\* A capture is scored once for every attacker killed and never for a second
\* claim on the same one: false fires are not captures (PRD 9.3).
CapturesAreKills == captures + Cardinality(alive) = Cardinality(Targets)

SimInv == SimTypeOK /\ CapturesAreKills

\* Never two committed drones on one target beyond the redundancy (FR-ALLOC-2).
Committed(t) == {d \in Drones : state[d] \in Busy /\ assignment[d] = t}

NeverDoubleCommitted == \A t \in Targets : Cardinality(Committed(t)) <= Wanted

\* When one track is left and its target lives, drones commit to it over and over
\* until it is captured, however often they lose it.
TrackedIsEngaged ==
  \A t \in Targets :
    <>[](tracks = {t} /\ t \in alive) => []<>(\E d \in Drones : state[d] \in Busy /\ assignment[d] = t)

=============================================================================
