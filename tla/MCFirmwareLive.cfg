SPECIFICATION FwFairSpec
CONSTANTS
  Byte = {0, 1, 2, 3}
  CmdStart = 3
  CmdSync1 = 1
  CmdSync2 = 2
  PayloadLen = 1
  CrcZero = 0
  CrcUpdate <- MCCrcUpdate
  IdleReport = 4
  Populate <- MCOneReport
  PauseTicks = 1
  HomeTicks = 2
  PressedTicks = 1
  Subcommand = {"s"}
  CounterSize = 2
  MaxBusResets = 0
PROPERTIES
  UsbTaskKeepsRunning
