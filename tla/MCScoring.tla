------------------------------ MODULE MCScoring ------------------------------
(* None is a number no position has.                                         *)
EXTENDS Scoring
Nowhere == 1000
MCOffsets == {-Margin, Margin, Reach, 2 * Reach - Margin + 1}
MCMaxClaims == [p \in Profiles |-> IF p = "gazebo" THEN 1 ELSE 2]
=============================================================================
