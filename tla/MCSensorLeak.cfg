\* The claim of README.md, on the bounds of MCSensor.cfg.
CONSTANTS
  Measurements <- MCMeasurements
  Window = 2
  MaxRound = 1
  Nap = 2
  Heap = 40
SPECIFICATION Spec
PROPERTY DataIsPushed
