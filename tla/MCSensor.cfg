\* Scaled down: a tick is a second; the heap lasts for little more than a round.
CONSTANTS
  Measurements <- MCMeasurements
  Window = 2
  MaxRound = 1
  Nap = 2
  Heap = 40
SPECIFICATION Spec
INVARIANTS
  TypeOK
  ReportedIsSent
  DisplayMatchesReport
PROPERTY SensorReports
