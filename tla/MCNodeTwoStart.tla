--------------------------- MODULE MCNodeTwoStart ---------------------------
(* NodeTwoStart, and the Wi-Fi station within it, checked by TLC.           *)
EXTENDS NodeTwoStart
=============================================================================
