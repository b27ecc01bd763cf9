\* Stop, a speed, and one that the server refuses and the node accepts.
CONSTANTS
  Speeds = {0, 50, 150}
  MaxCommands = 3
  MaxBreaks = 1
SPECIFICATION Spec
INVARIANTS
  TypeOK
  FanSettles
  LogMatchesFan
PROPERTY EchoesEnd
\* The client stops after MaxCommands.
CHECK_DEADLOCK FALSE
