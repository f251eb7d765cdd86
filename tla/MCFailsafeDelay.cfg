SPECIFICATION DelaySpec
CONSTANTS
  Byte = {0, 1, 2, 3}
  CmdStart = 3
  CmdSync1 = 1
  CmdSync2 = 2
  PayloadLen = 2
  CrcZero = 0
  CrcUpdate <- MCCrcUpdate
  IdleReport <- MCIdleReport
  Populate <- MCPopulate
  PauseTicks = 2
  HomeTicks = 4
  PressedTicks = 2
INVARIANTS
  OldPacketIsNotRepeated
