SPECIFICATION Spec
CONSTANTS
  NumPorts = 1
  TestNum = 1
  MaxReset = 1
  CountMod = 4
  RebootDelay = 1
  Day = 2
  Configs <- AllTests
  AdminStates <- MayBeDisabled
  MaxCommands = 1
  MaxRestarts = 1
INVARIANTS
  TypeOK
  AutoCyclesBounded
  PowerAccountedFor
PROPERTIES
  ImplementsPowerCycle
