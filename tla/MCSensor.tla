------------------------------ MODULE MCSensor ------------------------------
(* Sensor with two measurements of a room and one of a frosty balcony.      *)
EXTENDS Sensor

MCMeasurements ==
  {[hum |-> 40, temp |-> 25, dec |-> 3], [hum |-> 83, temp |-> 32, dec |-> 0],
   [hum |-> 61, temp |-> 0, dec |-> 8]}
=============================================================================
