\* The claim of the comment in the handler, with two messages under way.
CONSTANTS
  Locations = {"bedroom"}
  StateValues <- MCStateValues
  ModeValues <- MCModeValues
  MaxMessages = 2
  MaxClock = 2
  Overlap = 2
SPECIFICATION Spec
INVARIANT LatestReflectsBoth
\* The bounds stop the run.
CHECK_DEADLOCK FALSE
