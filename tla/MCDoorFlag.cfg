\* The claim of the comment on is_door_open, on the bounds of MCDoor.cfg.
CONSTANTS
  SERVO_MAX_DEGREE = 2
  SERVO_MIN_PULSEWIDTH = 1650
  SERVO_MAX_PULSEWIDTH = 4850
  Period = 7
SPECIFICATION Spec
PROPERTY FlagTracksDoor
