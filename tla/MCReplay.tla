------------------------------- MODULE MCReplay -------------------------------
(* None, where a seek went, is no time.                                      *)
EXTENDS Replay
NoTime == -1
=============================================================================
