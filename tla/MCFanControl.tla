---------------------------- MODULE MCFanControl ----------------------------
(* FanControl checked by TLC on a few commands.                            *)
EXTENDS FanControl
=============================================================================
