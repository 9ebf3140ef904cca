------------------------------- MODULE MCFeed -------------------------------
(* Two viewers; v2 may come and go where only v1 is steadfast.              *)
EXTENDS Feed
CONSTANTS v1, v2
Both == {v1, v2}
One == {v1}
=============================================================================
