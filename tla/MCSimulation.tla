---------------------------- MODULE MCSimulation ----------------------------
(* Two drones in a fixed list order; targets are interchangeable.           *)
EXTENDS Simulation, TLC
CONSTANTS d1, d2
MCDrones == {d1, d2}
MCOrder == <<d1, d2>>
Symmetry == Permutations(Targets)
=============================================================================
