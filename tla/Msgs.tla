-------------------------------- MODULE Msgs --------------------------------
(***************************************************************************)
(* The vocabulary every component shares: the values of the messages in    *)
(* mics/msgs.py that the control logic tells apart.  Positions, stamps and *)
(* covariances are data no decision modelled here depends on by value.     *)
(***************************************************************************)

CONSTANTS
  Drones,   \* interceptor ids
  Targets,  \* attacker / track ids, the ones greater than 0
  None      \* target_id 0: "unassigned"

ASSUME NoneAssumption == None \notin Targets

DroneState ==
  {"IDLE", "ASSIGNED", "MIDCOURSE", "ACQUIRING", "TERMINAL", "CAPTURED", "FAILED"}

\* The states of a drone that is flying an engagement, and of one whose
\* engagement is over and that is on its way home.
Engaged   == {"ASSIGNED", "MIDCOURSE", "ACQUIRING", "TERMINAL"}
Returning == {"CAPTURED", "FAILED"}

CaptureEvent == [target : Targets \cup {None}, result : {"SUCCESS", "MISS"}]

=============================================================================
