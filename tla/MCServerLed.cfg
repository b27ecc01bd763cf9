\* Three messages for two rooms, two of them under way at once.
CONSTANTS
  Locations = {"bedroom", "livingroom"}
  StateValues <- MCStateValues
  ModeValues <- MCModeValues
  MaxMessages = 3
  MaxClock = 3
  Overlap = 2
SPECIFICATION Spec
INVARIANTS
  TypeOK
  RoomsDoNotMix
  AloneReflectsBoth
\* The bounds stop the run.
CHECK_DEADLOCK FALSE
