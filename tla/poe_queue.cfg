SPECIFICATION Spec
CONSTANTS
  PortCount = 2
  SeqMod = 4
  MaxRetries = 1
  RawCommands <- SwitchRaw
  MaxPending = 9
  MaxCalls = 1
  MaxFaults = 2
  MaxRestarts = 0
INVARIANTS
  TypeOK
  OneExchange
  NeverStuck
  RightAnswer
  ManageObeyed
CHECK_DEADLOCK FALSE
