----------------------------- MODULE Allocator -----------------------------
(***************************************************************************)
(* Task allocation on the ground station: mics/allocator.py.               *)
(*                                                                         *)
(* Both solvers give each open slot to at most one available drone and     *)
(* leave a drone and a slot over only if there is none of the other kind;  *)
(* which pairs they pick depends on the estimated times to intercept, that *)
(* is on positions and batteries, and is a choice here.  The hysteresis    *)
(* test of _maybe_assign is absent because it is in effect absent from the *)
(* code: _cost_to_target always returns None, so no switch is ever refused.*)
(* _failed_targets is written and never read, and is left out.             *)
(***************************************************************************)
EXTENDS Msgs, Naturals, FiniteSets

CONSTANTS
  Redundancy,  \* AllocatorConfig.redundancy
  Absent       \* no key in the _assignments table, no entry in the roster

ASSUME AllocatorAssumption ==
  /\ Redundancy \in Nat
  /\ Absent \notin Targets \cup {None}
  /\ Absent \notin DroneState
  /\ IsFiniteSet(Drones)

VARIABLES
  roster,       \* _roster: the last state each drone reported
  assignments,  \* _assignments: the target_id of each entry, None for target 0
  tracks,       \* the ids of the tracks handed to allocate()
  paused        \* Allocator.paused

allocVars == <<roster, assignments, tracks, paused>>

\* Mutant: FAILED is not recognised as dead.
NobodyDead == {}

Busy == {"MIDCOURSE", "ACQUIRING", "TERMINAL"}
Dead == {"FAILED"}

AllocTypeOK ==
  /\ roster \in [Drones -> DroneState \cup {Absent}]
  /\ assignments \in [Drones -> Targets \cup {None, Absent}]
  /\ tracks \subseteq Targets
  /\ paused \in BOOLEAN

AllocInit ==
  /\ roster = [d \in Drones |-> Absent]
  /\ assignments = [d \in Drones |-> Absent]
  /\ tracks = {}
  /\ paused = FALSE

-----------------------------------------------------------------------------
(* allocate(), as a relation between the roster r, the live track ids tr,  *)
(* the table as it finds and the table new it leaves.                      *)

\* Mutant: the entry is deleted instead of being replaced by target 0.
ClearedByDeletion(r, as, tr) ==
  [d \in Drones |->
     IF as[d] # Absent /\ r[d] # Absent /\ (r[d] \in Dead \/ as[d] \notin tr)
     THEN Absent ELSE as[d]]

\* Step 1: an entry of a known drone is replaced by target 0 if the drone is
\* dead or its target has no track (target 0 never has one).
Cleared(r, as, tr) ==
  [d \in Drones |->
     IF as[d] # Absent /\ r[d] # Absent /\ (r[d] \in Dead \/ as[d] \notin tr)
     THEN None ELSE as[d]]

\* Mutant: committed drones are available too.
AvailableIfAlive(r) == {d \in Drones : r[d] # Absent /\ r[d] \notin Dead}

\* Step 2: who may be given a target.
Available(r) == {d \in Drones : r[d] # Absent /\ r[d] \notin Busy \cup Dead}

Coverage(r, as, t) == Cardinality({d \in Drones : as[d] = t /\ r[d] \in Busy})

Wanted == IF Redundancy > 1 THEN Redundancy ELSE 1

\* Mutant: a partly covered target gets its full complement again.
OpenSlotsRefilled(r, as, t) == IF Coverage(r, as, t) >= Wanted THEN 0 ELSE Wanted

OpenSlots(r, as, t) ==
  IF Coverage(r, as, t) >= Wanted THEN 0 ELSE Wanted - Coverage(r, as, t)

Taken(m, t) == Cardinality({d \in Drones : m[d] = t})

\* Mutant: the solver gives up before every slot or every drone is used.
IsPartialMatching(r, as, tr, m) ==
  /\ \A d \in Drones : m[d] # None => d \in Available(r) /\ m[d] \in tr
  /\ \A t \in tr : Taken(m, t) <= OpenSlots(r, as, t)

\* A result m of hungarian.solve or of the greedy loop, m[d] = None for a drone
\* that is given no slot.
IsMatching(r, as, tr, m) ==
  /\ \A d \in Drones : m[d] # None => d \in Available(r) /\ m[d] \in tr
  /\ \A t \in tr : Taken(m, t) <= OpenSlots(r, as, t)
  /\ \/ \A d \in Available(r) : m[d] # None
     \/ \A t \in tr : Taken(m, t) = OpenSlots(r, as, t)

\* _maybe_assign writes every matched pair over the drone's entry.  Entries of
\* drones that are not matched stay as step 1 left them.
Overwrite(as, m) == [d \in Drones |-> IF m[d] = None THEN as[d] ELSE m[d]]

Allocation(r, as, tr) ==
  {Overwrite(Cleared(r, as, tr), m) :
     m \in {f \in [Drones -> tr \cup {None}] : IsMatching(r, Cleared(r, as, tr), tr, f)}}

Allocate ==
  /\ \/ paused /\ UNCHANGED assignments
     \/ ~paused /\ assignments' \in Allocation(roster, assignments, tracks)
  /\ UNCHANGED <<roster, tracks, paused>>

-----------------------------------------------------------------------------
(* The allocator under any reports and any track picture.                  *)

\* What a status can say: a drone leaves ASSIGNED in the tick that follows the
\* assignment, before it reports again.
Reported == DroneState \ {"ASSIGNED"}

UpdateRoster(d, s) ==
  /\ roster' = [roster EXCEPT ![d] = s]
  /\ UNCHANGED <<assignments, tracks, paused>>

Picture(tr) ==
  /\ tracks' = tr
  /\ UNCHANGED <<roster, assignments, paused>>

Pause(p) ==
  /\ paused' = p
  /\ UNCHANGED <<roster, assignments, tracks>>

AllocNext ==
  \/ Allocate
  \/ \E d \in Drones, s \in Reported : UpdateRoster(d, s)
  \/ \E tr \in SUBSET Targets : Picture(tr)
  \/ \E p \in BOOLEAN : Pause(p)

AllocSpec == AllocInit /\ [][AllocNext]_allocVars

-----------------------------------------------------------------------------
(* What one run of allocate() owes, in which roster r, table as and tracks *)
(* tr lead to the table new.  A run that changes nothing is a stuttering   *)
(* step, so each property also covers "nothing to do": it is stated for    *)
(* every step in which the table changes.                                  *)

\* A drone that reported FAILED loses its entry, and no drone the ground station
\* knows keeps a target without a track (FR-ALLOC-4, step 1 of allocate).
ReleasesLost(r, as, tr, new) ==
  \A d \in Drones :
    as[d] # Absent /\ r[d] # Absent =>
      /\ r[d] \in Dead => new[d] = None
      /\ new[d] \in tr \cup {None}

\* A drone that is committed to a tracked target is never switched, however the
\* estimated costs move (the anti-thrash aim of the hysteresis).
KeepsCommitted(r, as, tr, new) ==
  \A d \in Drones : r[d] \in Busy /\ as[d] \in tr => new[d] = as[d]

\* No drone is added to a target beyond the redundancy, counting the drones that
\* are already committed to it (FR-ALLOC-2, "never pile idle drones onto an
\* already-serviced target").
Newcomers(as, new, t) == {d \in Drones : new[d] = t /\ as[d] # t}

PilesOnNone(r, as, new) ==
  \A t \in Targets :
    Newcomers(as, new, t) # {} =>
      Cardinality(Newcomers(as, new, t) \cup {d \in Drones : r[d] \in Busy /\ new[d] = t}) <= Wanted

\* The allocator is work-conserving: an available drone is left without a target
\* only if every tracked target has its full complement of drones.
LeavesNoneIdle(r, tr, new) ==
  \A d \in Available(r), t \in tr :
    new[d] \in {None, Absent} => Cardinality({e \in Drones : new[e] = t}) >= Wanted

Owed(r, as, tr, new) ==
  /\ ReleasesLost(r, as, tr, new) /\ KeepsCommitted(r, as, tr, new)
  /\ PilesOnNone(r, as, new)
  /\ LeavesNoneIdle(r, tr, new)

\* An entry goes when it must, and only then: the two hold of the same steps.
EntriesKept ==
  [][/\ ReleasesLost(roster, assignments, tracks, assignments')
     /\ KeepsCommitted(roster, assignments, tracks, assignments')]_assignments

\* FR-ALLOC-2, of every change of the table.
NeverPilesOn == [][PilesOnNone(roster, assignments, assignments')]_assignments

\* Work conservation, of every change of the table.
NoIdleWhileOpen == [][LeavesNoneIdle(roster, tracks, assignments')]_assignments

=============================================================================
