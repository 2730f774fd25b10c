SPECIFICATION FairSpec
CONSTANTS
  Table <- TamperOnly
  HiRegs = {}
  LowRegs = {"tamper"}
  Settable = {"tamper"}
  Watched = {"tamper"}
  Wide = {}
  MaxValue = 1
  HiPeriod = 1
  LowPeriod = 2
  MaxI2cError = 5
  Pace = 0
  MaxTransfer = 1
  MaxCalls = 1
  MaxChanges = 2
  MaxOutages = 1
  MaxJumps = 0
INVARIANTS
  TypeOK
  NoPhantomEvents
PROPERTIES
  ReportsConverge
  MailboxDrains
