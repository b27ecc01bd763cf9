---------------------------- MODULE MCBleBridge -----------------------------
(* BleBridge checked by TLC with short queues and a few writes.            *)
EXTENDS BleBridge
=============================================================================
