\* The constants of LED.h.
CONSTANTS
  NUMBER_OF_BIT = 8
  NUMBER_OF_LED = 3
  NUMBER_OF_ID = 2
  Modes <- MCModes
  Foreign <- MCForeign
  PowerUp <- MCPowerUp
SPECIFICATION Spec
INVARIANTS
  TypeOK
  IdleShowsLeds
PROPERTIES
  NoTornOutput
  RoomsAreIsolated
  ImplementsPanel
