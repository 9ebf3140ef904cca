---------------------------- MODULE MCAllocator ----------------------------
(***************************************************************************)
(* Targets and drones are interchangeable in Allocator.  The solver it     *)
(* relies on is run here on matrices of every size it builds.              *)
(***************************************************************************)
EXTENDS Allocator, Hungarian, TLC

Symmetry == Permutations(Drones) \cup Permutations(Targets)

\* Times to intercept; larger matrices take fewer values.
Costs(rows, cols) == IF rows * cols <= 9 THEN 0 .. 2 ELSE 0 .. 1

\* Every size, and whether the solver is right on all its matrices.
Verdicts ==
  {<<rows, cols,
     \A cost \in [(1 .. rows) \X (1 .. cols) -> Costs(rows, cols)] : IsOptimal(cost, rows, cols)>> :
     rows \in 1 .. 3, cols \in 1 .. 4}

\* Whatever drones are available and whatever slots are open, hungarian.solve gives
\* every drone a slot of its own, or every slot a drone, and no other way to do so
\* has a smaller total time to intercept (FR-ALLOC-1).
SolverIsOptimal ==
  LET table == Cleared(roster, assignments, tracks)
      rows == Cardinality(Available(roster))
      cols == MapThenSumSet(LAMBDA t : OpenSlots(roster, table, t), tracks)
  IN  ~paused /\ rows > 0 /\ cols > 0 => <<rows, cols, TRUE>> \in Verdicts
=============================================================================
