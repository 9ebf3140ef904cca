------------------------------- MODULE Scoring -------------------------------
(***************************************************************************)
(* Who decides that a target is captured, in the distributed run:          *)
(* attacker_sim_node.py owns the truth and kills targets, monitor_node.py  *)
(* keeps the score and ends the run.  Both judge every capture event on    *)
(* their own, the one by where the attacker is when the event reaches it,  *)
(* the other by the last truth that has reached it; only topics connect    *)
(* them.                                                                   *)
(*                                                                         *)
(* Under the profile software-sim the attacker simulation moves the        *)
(* attackers and owns the clock.  Under gazebo the physics does both: the  *)
(* attacker simulation commands velocities and learns from odometry where  *)
(* the models are, and clock_bridge_node.py sends the clock to everybody.  *)
(*                                                                         *)
(* Positions are points of a line and an attacker moves by one point in a  *)
(* tick: every profile flies at constant speed, only its heading varies.   *)
(* The metrics that neither a capture nor the end of the run depends on    *)
(* (handoffs, reassignments, separation, times) are left out.              *)
(***************************************************************************)
EXTENDS Msgs, Integers, Sequences, FiniteSets, SequencesExt

CONSTANTS
  Profiles,  \* the profiles a run may have
  MaxTime,   \* cfg.max_time_s, in ticks
  Headings,  \* the ways an attacker may fly
  Reach,     \* r_capture_m + 0.5
  Offsets,   \* how far a drone's estimate may be off its target when it declares
  Margin,    \* what is left of the reach is for what the judges do not know yet
  MaxLag,    \* bound: ticks a message may be under way
  MaxClaims  \* bound on the capture events of a run, for each profile

\* Where an attacker can get in a run.
Point == -MaxTime - MaxLag .. MaxTime + MaxLag

ASSUME ScoringAssumption ==
  /\ Profiles \subseteq {"software-sim", "gazebo"} /\ MaxClaims \in [Profiles -> Nat]
  /\ MaxTime \in Nat \ {0} /\ Reach \in Nat /\ Margin \in Nat \ {0}
  /\ MaxLag \in Nat \ {0} /\ Margin + MaxLag < Reach
  /\ "gazebo" \in Profiles => Margin + 2 * MaxLag < Reach
  /\ Headings \subseteq {-1, 1} /\ Headings # {} /\ Offsets \subseteq Int
  /\ None \notin Point
  /\ IsFiniteSet(Drones) /\ IsFiniteSet(Targets)

VARIABLES
  profile,
  sent,        \* ticks sent on /sim/clock
  body,        \* where Gazebo's models are
  cmd,         \* and the heading they were last told to fly, 0 before
  odom,        \* AttackerSimNode._aodom
  time,        \* AttackerSimNode.t
  pos, alive,  \* the attackers
  done,        \* /sim/done has been sent
  claimsA,     \* /capture_events from each drone to attacker_sim
  claimsM,     \* and to the monitor
  truthM,      \* /sim/truth to the monitor, cut by target
  clock,       \* MonitorNode.t
  truth,       \* MonitorNode._truth
  captured,    \* MonitorNode._captured
  falseFires,  \* MonitorNode.false_fires
  ended,       \* the reason given to _finish, "no" before
  claims,      \* capture events so far
  shots,       \* those of them that say SUCCESS
  unclear      \* history: the targets of those that were neither clearly in reach nor
               \* clearly out of it

gazebo == <<profile, body, cmd, odom>>
world == <<time, pos, alive, done>>
score == <<clock, truth, captured, falseFires, ended>>
fired == <<claims, shots, unclear>>
scoringVars == <<gazebo, sent, world, score, fired, claimsA, claimsM, truthM>>

Claim == [target : Targets, result : {"SUCCESS", "MISS"}, point : Int, at : Nat]
Truth == [point : Point, at : Nat]

ScoringTypeOK ==
  /\ profile \in Profiles
  /\ clock \in 0 .. MaxTime /\ sent \in clock .. clock + MaxLag /\ time \in sent - MaxLag .. sent
  /\ body \in [Targets -> Point] /\ cmd \in [Targets -> Headings \cup {0}]
  /\ odom \in [Targets -> Point \cup {None}]
  /\ pos \in [Targets -> Point] /\ alive \subseteq Targets /\ done \in BOOLEAN
  /\ claimsA \in [Drones -> Seq(Claim)] /\ claimsM \in [Drones -> Seq(Claim)]
  /\ truthM \in [Targets -> Seq(Truth)] /\ truth \in [Targets -> Point \cup {None}]
  /\ captured \subseteq Targets /\ falseFires \in Nat
  /\ ended \in {"no", "neutralised", "max_time"}
  /\ claims \in 0 .. MaxClaims[profile] /\ shots \in 0 .. claims /\ unclear \subseteq Targets

ScoringInit ==
  /\ profile \in Profiles /\ sent = 0
  /\ body = [t \in Targets |-> 0] /\ cmd = [t \in Targets |-> 0] /\ odom = [t \in Targets |-> None]
  /\ time = 0 /\ pos = [t \in Targets |-> 0] /\ alive = Targets /\ done = FALSE
  /\ claimsA = [d \in Drones |-> <<>>] /\ claimsM = [d \in Drones |-> <<>>]
  /\ truthM = [t \in Targets |-> <<>>]
  /\ clock = 0 /\ truth = [t \in Targets |-> None]
  /\ captured = {} /\ falseFires = 0 /\ ended = "no"
  /\ claims = 0 /\ shots = 0 /\ unclear = {}

InReach(p, q) == p - q \in -Reach .. Reach

-----------------------------------------------------------------------------
(* attacker_sim_node.py                                                    *)

\* Bound: no message is under way for longer than MaxLag ticks.
Young(q) == \A m \in ToSet(q) : sent - m.at < MaxLag

InTime ==
  /\ sent - clock < MaxLag
  /\ \A d \in Drones : Young(claimsA[d]) /\ Young(claimsM[d])
  /\ \A t \in Targets : Young(truthM[t])

\* Attacker.step: whatever its profile, an attacker that lives flies on at its speed.
\* No scenario gives a path to replay.
Flown(place, heading) ==
  [t \in Targets |-> IF t \in alive THEN place[t] + heading[t] ELSE place[t]]

\* The truth of the attackers that live is published, and when none is left /sim/done is.
Publish(place) ==
  /\ truthM' = [t \in Targets |->
       IF t \in alive THEN Append(truthM[t], [point |-> place[t], at |-> sent']) ELSE truthM[t]]
  /\ done' = (done \/ alive = {})

\* Mutant: nothing is published once no attacker lives.
TickWhileAlive ==
  /\ ended = "no" /\ profile = "software-sim" /\ InTime /\ alive # {}
  /\ sent' = sent + 1 /\ time' = time + 1
  /\ \E heading \in [Targets -> Headings] : pos' = Flown(pos, heading)
  /\ Publish(pos')
  /\ UNCHANGED <<gazebo, alive, score, fired, claimsA, claimsM>>

\* AttackerSimNode._tick: the clock is published and the attackers move.
Tick ==
  /\ ended = "no" /\ profile = "software-sim" /\ InTime
  /\ sent' = sent + 1 /\ time' = time + 1
  /\ \E heading \in [Targets -> Headings] : pos' = Flown(pos, heading)
  /\ Publish(pos')
  /\ UNCHANGED <<gazebo, alive, score, fired, claimsA, claimsM>>

\* One dt of Gazebo's time: the models fly as they were told, dead ones included, and
\* ClockBridgeNode._on_clock makes one tick of it.  Bound: once the run has started, the
\* odometry of one dt arrives before the next has passed.
GazeboStep ==
  /\ ended = "no" /\ profile = "gazebo" /\ InTime /\ sent - time < MaxLag
  /\ \A t \in alive : odom[t] = body[t] \/ sent < MaxLag
  /\ sent' = sent + 1
  /\ body' = [t \in Targets |-> body[t] + cmd[t]]
  /\ UNCHANGED <<profile, cmd, odom, world, score, fired, claimsA, claimsM, truthM>>

\* The place of a dead target is not read again.
OnOdom(t) ==
  /\ ended = "no" /\ profile = "gazebo" /\ t \in alive
  /\ odom' = [odom EXCEPT ![t] = body[t]]
  /\ UNCHANGED <<profile, body, cmd, sent, world, score, fired, claimsA, claimsM, truthM>>

\* AttackerSimNode._on_clock_tick: the script flies on from the model's place, which is
\* the truth that is published.
OnClockTick ==
  /\ ended = "no" /\ profile = "gazebo" /\ time < sent
  /\ time' = time + 1 /\ UNCHANGED sent
  /\ LET known == [t \in Targets |-> IF t \in alive /\ odom[t] # None THEN odom[t] ELSE pos[t]]
     IN  /\ \E heading \in [Targets -> Headings] :
              /\ pos' = Flown(known, heading)
              /\ cmd' = [t \in Targets |-> IF t \in alive THEN heading[t] ELSE cmd[t]]
         /\ Publish([t \in Targets |-> IF odom[t] # None THEN odom[t] ELSE pos'[t]])
  /\ UNCHANGED <<profile, body, odom, alive, score, fired, claimsA, claimsM>>

\* Mutant: the attacker is killed wherever it is.
OnCaptureAnywhere(d) ==
  /\ ended = "no" /\ claimsA[d] # <<>>
  /\ LET m == Head(claimsA[d])
     IN  alive' = IF m.result = "SUCCESS" THEN alive \ {m.target} ELSE alive
  /\ claimsA' = [claimsA EXCEPT ![d] = Tail(@)]
  /\ UNCHANGED <<gazebo, sent, time, pos, done, score, fired, claimsM, truthM>>

\* AttackerSimNode._on_capture
OnCapture(d) ==
  /\ ended = "no" /\ claimsA[d] # <<>>
  /\ LET m == Head(claimsA[d])
     IN  alive' = IF m.result = "SUCCESS" /\ InReach(pos[m.target], m.point)
                  THEN alive \ {m.target} ELSE alive
  /\ claimsA' = [claimsA EXCEPT ![d] = Tail(@)]
  /\ UNCHANGED <<gazebo, sent, time, pos, done, score, fired, claimsM, truthM>>

-----------------------------------------------------------------------------
(* monitor_node.py                                                         *)

OnTruth(t) ==
  /\ ended = "no" /\ truthM[t] # <<>>
  /\ truth' = [truth EXCEPT ![t] = Head(truthM[t]).point]
  /\ truthM' = [truthM EXCEPT ![t] = Tail(@)]
  /\ UNCHANGED <<gazebo, sent, world, clock, captured, falseFires, ended, fired, claimsA, claimsM>>

\* MonitorNode._on_capture
OnEvent(d) ==
  /\ ended = "no" /\ claimsM[d] # <<>>
  /\ LET m == Head(claimsM[d])
         hit == /\ m.result = "SUCCESS"
                /\ truth[m.target] # None /\ InReach(truth[m.target], m.point)
                /\ m.target \notin captured
     IN  /\ captured' = IF hit THEN captured \cup {m.target} ELSE captured
         /\ falseFires' = IF m.result = "SUCCESS" /\ ~hit THEN falseFires + 1 ELSE falseFires
  /\ claimsM' = [claimsM EXCEPT ![d] = Tail(@)]
  /\ UNCHANGED <<gazebo, sent, world, clock, truth, ended, fired, claimsA, truthM>>

OnDone ==
  /\ ended = "no" /\ done
  /\ ended' = "neutralised"
  /\ UNCHANGED <<gazebo, sent, world, clock, truth, captured, falseFires, fired, claimsA, claimsM, truthM>>

OnClock ==
  /\ ended = "no" /\ clock < sent
  /\ clock' = clock + 1
  /\ ended' = IF clock' >= MaxTime THEN "max_time" ELSE "no"
  /\ UNCHANGED <<gazebo, sent, world, truth, captured, falseFires, fired, claimsA, claimsM, truthM>>

-----------------------------------------------------------------------------

Place(t) == IF profile = "gazebo" THEN body[t] ELSE pos[t]

\* So near the target, or so far from it, that the reach covers all that moves and all
\* that is late meanwhile.
Clear(off) == off \in -Margin .. Margin \/ off \notin Margin - 2 * Reach .. 2 * Reach - Margin

\* A drone declares a capture or a miss, at the place of its estimate of the target,
\* which is off by anything.  It has held the lock for T_lock by then, longer than the
\* first odometry, a truth made of it and that truth's delivery need.
Declare(d) ==
  /\ ended = "no" /\ claims < MaxClaims[profile] /\ time > 3 * MaxLag
  /\ \E t \in Targets, r \in {"SUCCESS", "MISS"}, off \in Offsets :
       LET m == [target |-> t, result |-> r, point |-> Place(t) + off, at |-> sent]
       IN  /\ claimsA' = [claimsA EXCEPT ![d] = Append(@, m)]
           /\ claimsM' = [claimsM EXCEPT ![d] = Append(@, m)]
           /\ shots' = IF r = "SUCCESS" THEN shots + 1 ELSE shots
           /\ unclear' = IF r = "SUCCESS" /\ ~Clear(off) THEN unclear \cup {t} ELSE unclear
  /\ claims' = claims + 1
  /\ UNCHANGED <<gazebo, sent, world, score, truthM>>

ScoringNext ==
  \/ Tick \/ GazeboStep \/ OnClockTick
  \/ \E d \in Drones : Declare(d) \/ OnCapture(d) \/ OnEvent(d)
  \/ \E t \in Targets : OnTruth(t) \/ OnOdom(t)
  \/ OnDone \/ OnClock

ScoringSpec == ScoringInit /\ [][ScoringNext]_scoringVars

\* The timer fires, and every process works its queues off.
ScoringFairSpec ==
  /\ ScoringSpec
  /\ WF_scoringVars(Tick) /\ WF_scoringVars(OnClock)
  /\ WF_scoringVars(GazeboStep) /\ WF_scoringVars(OnClockTick)
  /\ \A d \in Drones : WF_scoringVars(OnCapture(d)) /\ WF_scoringVars(OnEvent(d))
  /\ \A t \in Targets : WF_scoringVars(OnTruth(t)) /\ WF_scoringVars(OnOdom(t))

-----------------------------------------------------------------------------

\* An event that hits its target, on its way in queue q.
Coming(q, t) ==
  \E d \in Drones : \E m \in ToSet(q[d]) :
    m.target = t /\ m.result = "SUCCESS" /\ InReach(pos[t], m.point)

\* The two judges agree up to what is still on its way, as long as nothing takes
\* longer than the reach allows for, on every target whose captures were all declared
\* clearly in its reach or clearly out of it: the score counts the targets that were
\* killed, "truth-validated" (monitor_node.py).  And whatever was declared, the run is
\* called neutralised only if they all were.
JudgesAgree ==
  /\ \A t \in Targets \ unclear :
       /\ t \in captured => t \notin alive \/ Coming(claimsA, t)
       /\ t \notin alive => t \in captured \/ Coming(claimsM, t)
  /\ ended = "neutralised" => alive = {}

\* Every SUCCESS is scored once, as the capture of a target or as a false fire
\* (PRD 9.3).
Unscored ==
  Cardinality({c \in Drones \X (1 .. MaxClaims[profile]) :
                 c[2] \in DOMAIN claimsM[c[1]] /\ claimsM[c[1]][c[2]].result = "SUCCESS"})

ShotsScoredOnce == Cardinality(captured) + falseFires + Unscored = shots

ScoringInv == ScoringTypeOK /\ JudgesAgree /\ ShotsScoredOnce

\* Every run ends, whatever the drones do ("when max_time is reached",
\* monitor_node.py).
RunEnds == <>(ended # "no")

=============================================================================
