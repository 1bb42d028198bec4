SPECIFICATION Spec
CONSTANTS
  NumRegions = 2
  RegionSize = 2
  WordSize = 16
  PageSize = 2
  NumDies = 1
  Worn = {}
  Weak = {}
  BpAtStart = {0}
  DieSelect = FALSE
  HasCallbacks = TRUE
  WeAfter = FALSE
  BlankPages = {}
  Faults = FALSE
  Requests <- PartialPageRequests
PROPERTIES
  SpareUntouched
