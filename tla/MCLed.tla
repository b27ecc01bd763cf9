------------------------------- MODULE MCLed --------------------------------
(* Led checked by TLC with the byte, the rooms and the modes of LED.h.     *)
EXTENDS Led

MCModes   == {{0, 1, 2}, {0, 2}, {0}}     \* 0x07, 0x05, 0x01
MCForeign == {{1, 6}}                     \* 0x42
MCPowerUp == {{}, {0, 3, 7}}
=============================================================================
