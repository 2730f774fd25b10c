SPECIFICATION Spec
CONSTANTS
  Table <- RelayOnly
  HiRegs = {"relay"}
  LowRegs = {}
  Settable = {"relay"}
  Watched = {}
  Wide = {}
  MaxValue = 1
  HiPeriod = 1
  LowPeriod = 2
  MaxI2cError = 3
  Pace = 8
  MaxTransfer = 2
  MaxCalls = 2
  MaxChanges = 0
  MaxOutages = 1
  MaxJumps = 1
VIEW SetsView
INVARIANTS
  WatchdogIsAsleep
  SetsDelivered
  PacedSetsDoNotMeet
