------------------------------- MODULE Fleet -------------------------------
(***************************************************************************)
(* The distributed run: one process per aircraft (aircraft_node.py) and    *)
(* one for the allocator (allocator_node.py), which only share topics.     *)
(* Every callback is an action; how they interleave is up to the executors *)
(* and the clock ticks each process receives at its own pace.              *)
(*                                                                         *)
(* A topic is one keep-last queue per reader, which holds the messages of  *)
(* all drones: the allocator's holds what any aircraft reports, and every  *)
(* aircraft's what the allocator tells any of them.  A full queue loses    *)
(* its oldest message, whoever it is from or for.                          *)
(***************************************************************************)
EXTENDS Drone, Allocator, Sequences, FiniteSets, Functions

CONSTANTS
  StatusDepth, \* messages the allocator's queue of /state_sharing holds
  AssignDepth  \* messages kept of /assignments for a reader, by it or by the writer

\* The table fits into a queue: the writer keeps its last 10 messages, a reader 50, and no
\* scenario has so many defenders.
ASSUME DepthAssumption ==
  /\ StatusDepth \in Nat \ {0} /\ AssignDepth \in Nat \ {0}
  /\ IsFiniteSet(Drones) /\ Cardinality(Drones) <= AssignDepth

VARIABLES
  statusQ,  \* /state_sharing, to the allocator
  assignQ,  \* /assignments, to each aircraft
  overrun   \* history: the drones whose newest report was lost since they last reported

busVars == <<statusQ, assignQ, overrun>>
fleetVars == <<droneVars, allocVars, busVars>>

StatusMsg == [drone : Drones, state : Reported]
AssignmentMsg == [drone : Drones, target : Targets \cup {None}]

FleetTypeOK ==
  /\ DroneTypeOK
  /\ AllocTypeOK
  /\ statusQ \in Seq(StatusMsg) /\ Len(statusQ) <= StatusDepth
  /\ roster \in [Drones -> Reported \cup {Absent}]
  /\ assignQ \in [Drones -> Seq(AssignmentMsg)] /\ \A d \in Drones : Len(assignQ[d]) <= AssignDepth
  /\ overrun \in SUBSET Drones

FleetInit ==
  /\ DroneInit
  /\ AllocInit
  /\ statusQ = <<>> /\ assignQ = [d \in Drones |-> <<>>]
  /\ overrun = {}

\* Mutant: a full queue keeps what it has.
EnqueueIfRoom(q, ms, depth) ==
  SubSeq(q \o ms, 1, IF Len(q \o ms) > depth THEN depth ELSE Len(q \o ms))

Enqueue(q, ms, depth) ==
  SubSeq(q \o ms, IF Len(q \o ms) > depth THEN Len(q \o ms) - depth + 1 ELSE 1, Len(q \o ms))

\* Where in q are the messages from or for drone d.
Places(q, d) == {i \in DOMAIN q : q[i].drone = d}

-----------------------------------------------------------------------------
(* aircraft_node.py                                                        *)

OnAssign(d) ==
  /\ assignQ[d] # <<>>
  /\ LET m == Head(assignQ[d])
     IN  IF m.drone = d THEN SetAssignment(d, m.target) ELSE UNCHANGED droneVars
  /\ assignQ' = [assignQ EXCEPT ![d] = Tail(@)]
  /\ UNCHANGED <<allocVars, statusQ, overrun>>

\* One clock message: step the drone on the truth it has, publish and drain its
\* capture events, publish its status.  A killed target's truth lingers for
\* truth_ttl, so what is visible is not tied to what is alive.
AircraftClock(d) ==
  /\ Stepped(d)
  /\ statusQ' = Enqueue(statusQ, <<[drone |-> d, state |-> state'[d]]>>, StatusDepth)
  /\ overrun' = (overrun \ {d})
                   \cup {e \in Drones : Places(statusQ, e) # {} /\ Places(statusQ', e) = {}}
  /\ UNCHANGED <<allocVars, assignQ>>

-----------------------------------------------------------------------------
(* allocator_node.py                                                       *)

OnStatus ==
  /\ statusQ # <<>>
  /\ roster' = [roster EXCEPT ![Head(statusQ).drone] = Head(statusQ).state]
  /\ statusQ' = Tail(statusQ)
  /\ UNCHANGED <<droneVars, assignments, tracks, paused, assignQ, overrun>>

OnTrack(t) ==
  /\ tracks' = tracks \cup {t}
  /\ UNCHANGED <<droneVars, roster, assignments, paused, busVars>>

\* The entries of these drones are sent to every aircraft, in some order.
Send(table, drones) ==
  \E order \in Bijection(1 .. Cardinality(drones), drones) :
    LET words == [i \in DOMAIN order |-> [drone |-> order[i], target |-> table[order[i]]]]
    IN  assignQ' = [d \in Drones |-> Enqueue(assignQ[d], words, AssignDepth)]

\* Mutant: only the entries that changed are published.
PublishChanges(table) == Send(table, {d \in Drones : table[d] \notin {Absent, assignments[d]}})

Publish(table) == Send(table, {d \in Drones : table[d] # Absent})

\* One clock message: drop the tracks that are no longer published, allocate,
\* and publish the whole table again, changed or not.
AllocatorClock ==
  /\ tracks' \in SUBSET tracks
  /\ assignments' \in Allocation(roster, assignments, tracks')
  /\ Publish(assignments')
  /\ UNCHANGED <<droneVars, roster, paused, statusQ, overrun>>

-----------------------------------------------------------------------------

FleetNext ==
  \/ \E d \in Drones : OnAssign(d) \/ AircraftClock(d)
  \/ \E t \in Targets : OnTrack(t)
  \/ OnStatus \/ AllocatorClock

FleetSpec == FleetInit /\ [][FleetNext]_fleetVars

\* Every process keeps receiving its clock and works its queues off.
FleetFairSpec ==
  /\ FleetSpec
  /\ WF_fleetVars(AllocatorClock) /\ WF_fleetVars(OnStatus)
  /\ \A d \in Drones : WF_fleetVars(OnAssign(d)) /\ WF_fleetVars(AircraftClock(d))

-----------------------------------------------------------------------------

\* The newest message from or for drone d is in place i.
Newest(q, d, i) == i \in Places(q, d) /\ \A j \in Places(q, d) : j <= i

\* What is lost on the way to an aircraft is never the last word: the newest message for
\* it in its queue is what the table says now, and an aircraft that has read them all
\* pursues nothing but the target the table gives it (FR-ALLOC-3), whatever it failed,
\* captured or was told in between.
LatestWord ==
  \A d \in Drones :
    /\ Places(assignQ[d], d) = {} /\ assignment[d] # None => assignments[d] = assignment[d]
    /\ \A i \in DOMAIN assignQ[d] : Newest(assignQ[d], d, i) => assignQ[d][i].target = assignments[d]

\* Nor is what is lost on the way back, unless the reports of others fill the queue before
\* the drone reports again: of a drone that has left ASSIGNED and is not idle, the state is
\* the newest report the allocator has or has yet to read.
LatestReport ==
  \A d \in Drones :
    state[d] \notin {"IDLE", "ASSIGNED"} =>
      /\ Places(statusQ, d) = {} /\ d \notin overrun => state[d] = roster[d]
      /\ \A i \in DOMAIN statusQ : Newest(statusQ, d, i) => statusQ[i].state = state[d]

FleetInv == FleetTypeOK /\ LatestWord /\ LatestReport

\* Lost and overtaken assignments heal: once the table settles on a target for a
\* drone, no other target survives at the drone, and after each engagement it is
\* given that target again; once the entry stays target 0 the drone has none.
TableIsObeyed ==
  \A d \in Drones, t \in Targets \cup {None} :
    <>[](assignments[d] = t) =>
      <>[](assignment[d] \in {t, None}) /\ []<>(assignment[d] = t)

\* A drone that stays FAILED loses its target in the table, whatever was lost on
\* the way to the allocator (FR-ALLOC-4).
FailedIsReleased ==
  \A d \in Drones, t \in Targets :
    state[d] = "FAILED" /\ assignments[d] = t ~> state[d] # "FAILED" \/ assignments[d] # t

=============================================================================
