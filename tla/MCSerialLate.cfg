SPECIFICATION LinkSpec
CONSTANTS
  Byte = {0, 1, 2, 3}
  CmdStart = 3
  CmdSync1 = 1
  CmdSync2 = 2
  PayloadLen = 3
  CrcZero = 0
  CrcUpdate <- MCCrcUpdate
  IdleReport = 4
  Populate <- MCPopulate
  PauseTicks = 1
  HomeTicks = 2
  PressedTicks = 1
  HostPayload <- MCHostPayload
  MaxAttempts = 3
  QuietSuffices = FALSE
  TxCap = 8
  RxCap = 5
  MaxFaults = 1
  MaxRestarts = 1
  MaxResets = 1
INVARIANTS
  CleanSessionIsAligned
PROPERTIES
  SessionIsAPipe
