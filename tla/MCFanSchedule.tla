--------------------------- MODULE MCFanSchedule ----------------------------
(* FanSchedule checked by TLC on a short day.                              *)
EXTENDS FanSchedule

\* Neighbours and twins, overlapping, across midnight, and an empty run.
MCSchedules == {[start |-> 3, duration |-> 1, speed |-> 100],
                [start |-> 0, duration |-> 0, speed |-> 100],
                [start |-> 1, duration |-> 0, speed |-> 100]}
=============================================================================
