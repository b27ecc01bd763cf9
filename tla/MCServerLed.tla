---------------------------- MODULE MCServerLed -----------------------------
(* ServerLed checked by TLC on a few messages for two rooms.               *)
EXTENDS ServerLed

MCStateValues == {"on", "2"}    \* "state 2" passes the validation as well
MCModeValues  == {"2", "on"}    \* and so does "mode on"
=============================================================================
