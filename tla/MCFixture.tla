------------------------------ MODULE MCFixture ------------------------------
(* Two pages, of which p2 may come and go.                                   *)
EXTENDS Fixture
CONSTANTS p1, p2, t1, t2
BothPages == {p1, p2}
One == {p1}
BothTargets == {t1, t2}
=============================================================================
