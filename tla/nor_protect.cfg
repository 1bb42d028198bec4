SPECIFICATION Spec
CONSTANTS
  NumRegions = 4
  RegionSize = 2
  WordSize = 16
  PageSize = 2
  ReadChunk = 4
  PollLimit = 2
  Addr4b = FALSE
  Vendor = "other"
  HasBp = TRUE
  Faults = FALSE
  BpAtStart = {0, 7, 8, 15}
  Requests <- BpRequests
INVARIANTS
  TypeOK
  BusyChipLeftAlone
  AcceptedWriteUnprotected
  ReportedOkIsDone
  PrintedStatusIsCurrent
  AbortStopsSoon
PROPERTIES
  Confined
  LockAsAsked
