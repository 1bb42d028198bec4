SPECIFICATION Spec
CONSTANTS
  Faults = TRUE
  EeSize = 4
  WordSize = 16
  EePage = 2
  MaxTransfer = 3
  FileMax = 5
  Floating = 255
  Garbage <- GarbageIds
  MaxCommands = 2
  Rigs <- Benches
  Lines <- BenchLines
INVARIANTS
  TypeOK
  RightPart
  FreshCommand
  ConnstringGiven
  SpiTouchedOnRequest
  CleanExit
  EepromOkIsDone
PROPERTIES
  EepromConfined
  Terminates
