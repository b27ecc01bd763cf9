------------------------------- MODULE MCDoor -------------------------------
(* Door checked by TLC on a servo of a few degrees and a short period.     *)
EXTENDS Door
=============================================================================
