\* Scaled down: a sweep takes 3 ticks, the period is longer than two sweeps.
CONSTANTS
  SERVO_MAX_DEGREE = 2
  SERVO_MIN_PULSEWIDTH = 1650
  SERVO_MAX_PULSEWIDTH = 4850
  Period = 7
SPECIFICATION Spec
INVARIANTS
  TypeOK
  OpenFlagMeansOpen
  OpenIsBounded
PROPERTY
  OpenDoorIsClosed
