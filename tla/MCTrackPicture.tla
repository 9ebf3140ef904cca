--------------------------- MODULE MCTrackPicture ---------------------------
(* Two targets that fly together.                                           *)
EXTENDS TrackPicture
MCCompany == {Targets}
=============================================================================
