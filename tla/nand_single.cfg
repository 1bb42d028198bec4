SPECIFICATION Spec
CONSTANTS
  NumRegions = 2
  RegionSize = 4
  WordSize = 16
  PageSize = 2
  NumDies = 1
  Worn = {1}
  Weak = {1}
  BpAtStart = {3, 15}
  DieSelect = FALSE
  HasCallbacks = TRUE
  WeAfter = FALSE
  BlankPages = {2}
  Faults = FALSE
  Requests <- SingleRequests
INVARIANTS
  TypeOK
  BusyChipLeftAlone
  VerifiedIsWritten
  EraseOkIsErased
  ReadFaithful
  AbortStopsSoon
  IdentifyLeavesOtp
PROPERTIES
  Confined
