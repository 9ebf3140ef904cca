------------------------------ MODULE MCFleet ------------------------------
(* The fleet with its constants given in the .cfg files.                    *)
EXTENDS Fleet
=============================================================================
