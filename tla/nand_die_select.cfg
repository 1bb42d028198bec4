SPECIFICATION Spec
CONSTANTS
  NumRegions = 2
  RegionSize = 2
  WordSize = 16
  PageSize = 2
  NumDies = 2
  Worn = {}
  Weak = {}
  BpAtStart = {0}
  DieSelect = TRUE
  HasCallbacks = TRUE
  WeAfter = FALSE
  BlankPages = {}
  Faults = FALSE
  Requests <- FirstDieRequests
INVARIANTS
  VerifiedIsWritten
