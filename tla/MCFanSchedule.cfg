\* A day of four seconds, so that runs meet, overlap and pass midnight.
CONSTANTS
  Day = 4
  MaxDuration = 1
  Schedules <- MCSchedules
  Speeds = {100}
  MaxMonitors = 2
  retry_count = 2
  MaxClockSteps = 1
  Timers = {t1, t2}
SPECIFICATION Spec
INVARIANTS
  TypeOK
  NoUseAfterDelete
  RunHasItsTimer
  RunningFanIsTimed
PROPERTIES
  OnlyNeighboursRace
  RunLastsItsDuration
  RunEnds
  StartUpEnds
