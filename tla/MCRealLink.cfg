SPECIFICATION LinkSpec
CONSTANTS
  Byte <- ByteValue
  CmdStart = 255
  CmdSync1 = 51
  CmdSync2 = 204
  PayloadLen = 8
  CrcZero = 0
  CrcUpdate <- Crc8Update
  IdleReport <- BlankReport
  Populate <- PopulateReport
  PauseTicks = 15
  HomeTicks = 100
  PressedTicks = 25
  HostPayload <- MCHostPayload
  MaxAttempts = 3
  QuietSuffices = TRUE
  TxCap = 9
  RxCap = 12
  MaxFaults = 1
  MaxRestarts = 0
  MaxResets = 0
INVARIANTS
  OnlyWrittenPacketsAreDecoded
