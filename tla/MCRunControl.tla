----------------------------- MODULE MCRunControl -----------------------------
(* Two goals that resolve, one with a factor of its own, and one that does  *)
(* not; two callers that want different speeds.                             *)
EXTENDS RunControl
CONSTANTS g1, g2, g3, c1, c2
AllGoals == {g1, g2, g3}
Good == {g1, g2}
AllCallers == {c1, c2}
Asked == [g \in AllGoals |-> IF g = g1 THEN 1 ELSE 0]
Wanted == [c \in AllCallers |-> IF c = c1 THEN 1 ELSE 2]
=============================================================================
