----------------------------- MODULE Engagement -----------------------------
(***************************************************************************)
(* What the ground station and the scorer may rely on of a drone, from its *)
(* stage, its target and what it reports: an engagement passes its stages  *)
(* one by one and in order, claims a success at most once, from pursuit    *)
(* and on the target of the moment, and is over with it; one that ends     *)
(* without a success and without being withdrawn is reported as a miss;    *)
(* and the next begins only after the drone was back with nothing.         *)
(***************************************************************************)
EXTENDS Msgs

VARIABLES
  stage,   \* "none", "approach", "acquire", "pursue", "over"
  target,  \* None when there is none
  report   \* what the drone's last tick reports

engagementVars == <<stage, target, report>>

UnderWay == {"approach", "acquire", "pursue"}

EngagementInit ==
  /\ stage = [d \in Drones |-> "none"]
  /\ target = [d \in Drones |-> None]
  /\ report = [d \in Drones |-> {}]

Enters(d, s) == stage' = [stage EXCEPT ![d] = s]

Reports(d, events) == report' = [report EXCEPT ![d] = events]

Outcome(d, result) == {[target |-> target[d], result |-> result]}

\* Back home, or called off: no engagement and no target.
Rests(d) == Enters(d, "none") /\ target' = [target EXCEPT ![d] = None]

-----------------------------------------------------------------------------
(* The ground station.                                                     *)

\* A drone without an engagement begins one; any other is sent after the new
\* target in the stage it is in, or told of it on its way home.
Engage(d, t) ==
  /\ target' = [target EXCEPT ![d] = t]
  /\ IF stage[d] = "none" THEN Enters(d, "approach") ELSE UNCHANGED stage
  /\ UNCHANGED report

Withdraw(d) ==
  /\ \/ stage[d] \in UnderWay /\ Rests(d)
     \/ stage[d] = "over" /\ target' = [target EXCEPT ![d] = None] /\ UNCHANGED stage
  /\ UNCHANGED report

\* The reports are drained.
Collect == report' = [d \in Drones |-> {}] /\ UNCHANGED <<stage, target>>

-----------------------------------------------------------------------------
(* The drone.                                                              *)

Hold(d) == Reports(d, {}) /\ UNCHANGED <<stage, target>>

Advance(d) ==
  /\ \/ stage[d] = "approach" /\ Enters(d, "acquire")
     \/ stage[d] = "acquire" /\ Enters(d, "pursue")
  /\ Reports(d, {})
  /\ UNCHANGED target

Claim(d) ==
  /\ stage[d] = "pursue" /\ Enters(d, "over")
  /\ Reports(d, Outcome(d, "SUCCESS"))
  /\ UNCHANGED target

\* The engagement is lost.  The safety node may also turn a drone back that is on its
\* way home: that, too, is reported, tick by tick, for as long as it has a target.
Abort(d) ==
  /\ stage[d] # "none"
  /\ Reports(d, IF target[d] = None THEN {} ELSE Outcome(d, "MISS"))
  /\ \/ Enters(d, "over") /\ UNCHANGED target
     \/ Rests(d)

Land(d) == stage[d] = "over" /\ Rests(d) /\ Reports(d, {})

EngagementNext ==
  \/ Collect
  \/ \E d \in Drones :
       \/ \E t \in Targets : Engage(d, t)
       \/ Withdraw(d)
       \/ Hold(d) \/ Advance(d) \/ Claim(d) \/ Abort(d) \/ Land(d)

EngagementSpec == EngagementInit /\ [][EngagementNext]_engagementVars

=============================================================================
