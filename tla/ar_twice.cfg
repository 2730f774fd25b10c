SPECIFICATION FairSpec
CONSTANTS
  NumPorts = 1
  TestNum = 1
  MaxReset = 1
  CountMod = 4
  RebootDelay = 1
  Day = 3
  Configs <- LinkOnly
  AdminStates <- AlwaysEnabled
  MaxCommands = 2
  MaxRestarts = 0
PROPERTIES
  RebootEnds
