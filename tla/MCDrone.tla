------------------------------ MODULE MCDrone ------------------------------
(* One drone and two targets: no action of Drone reads another drone.       *)
(*                                                                          *)
(* "beat" changes with every tick of the drone.  Without it a tick that     *)
(* changes nothing, such as one in which a lost target is still not seen,   *)
(* would be no step, and fairness would promise that it will be seen.       *)
EXTENDS Drone

VARIABLE beat

beatVars == <<droneVars, beat>>

BeatInit == DroneInit /\ beat = [d \in Drones |-> FALSE]

Ticked(d) == Stepped(d) /\ beat' = [beat EXCEPT ![d] = ~@]

BeatNext ==
  \E d \in Drones :
    \/ Ticked(d)
    \/ (Tasked(d) \/ Switched(d)) /\ UNCHANGED beat

\* A tick that ends the flight home, which cruise speed brings about.
Arrives(d) == state[d] \in Returning /\ Ticked(d) /\ state'[d] = "IDLE"

\* The caller ticks every drone for ever, and a drone that flies home arrives.
BeatFairSpec ==
  /\ BeatInit /\ [][BeatNext]_beatVars
  /\ \A d \in Drones : WF_beatVars(Ticked(d)) /\ WF_beatVars(Arrives(d))
=============================================================================
