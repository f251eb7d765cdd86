SPECIFICATION Spec
CONSTANTS
  MaxRead = 44
  Offset = {0, 1}
  Slot = {"0"}
  Port = {"COM3"}
  Key = {"host", "port"}
  Value = {"a", "b"}
  MaxLines = 3
INVARIANTS
  ConsoleReadsWhatWasPacked
  AxesKeepOrder
  OneAlteredByteIsRejected
  
  
PROPERTIES
  EnvIsLoaded
