SPECIFICATION FairSpec
CONSTANTS
  PortCount = 1
  SeqMod = 4
  MaxRetries = 1
  RawCommands <- SwitchRaw
  MaxPending = 8
  MaxCalls = 1
  MaxFaults = 0
  MaxRestarts = 1
INVARIANTS
  ManageObeyed
PROPERTIES
  SwitchFinishes
  ReportCatchesUp
