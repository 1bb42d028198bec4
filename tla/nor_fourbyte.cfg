SPECIFICATION Spec
CONSTANTS
  NumRegions = 2
  RegionSize = 4
  WordSize = 16
  PageSize = 2
  ReadChunk = 4
  PollLimit = 2
  Addr4b = TRUE
  Vendor = "winbond"
  HasBp = FALSE
  Faults = TRUE
  BpAtStart = {0}
  Requests <- FourByteRequests
INVARIANTS
  BusyChipLeftAlone
  AddressModeAgrees
  ExitLeavesChipIdle
PROPERTIES
  Confined
  Terminates
  ImplementsFlashCommand
