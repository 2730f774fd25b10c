SPECIFICATION PingSpec
CONSTANTS
  NumPorts = 1
  TestNum = 2
  MaxReset = 1
  CountMod = 4
  RebootDelay = 1
  Day = 3
  Configs <- PingOnly
  AdminStates <- AlwaysEnabled
  MaxCommands = 0
  MaxRestarts = 0
INVARIANTS
  SilentHostGivenUp
