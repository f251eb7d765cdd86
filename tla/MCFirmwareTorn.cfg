SPECIFICATION FwSpec
CONSTANTS
  Byte = {0, 1, 2, 3}
  CmdStart = 3
  CmdSync1 = 1
  CmdSync2 = 2
  PayloadLen = 1
  CrcZero = 0
  CrcUpdate <- MCCrcUpdate
  IdleReport = 4
  Populate <- MCPopulate
  PauseTicks = 1
  HomeTicks = 2
  PressedTicks = 1
  Subcommand = {"s"}
  CounterSize = 2
  MaxBusResets = 1
INVARIANTS
  ReportsAreWhole
