SPECIFICATION Spec
CONSTANTS
  NumRegions = 2
  RegionSize = 1
  WordSize = 16
  PageSize = 1
  NumDies = 2
  Worn = {}
  Weak = {}
  BpAtStart = {0}
  DieSelect = TRUE
  HasCallbacks = FALSE
  WeAfter = TRUE
  BlankPages = {}
  Faults = TRUE
  Requests <- DieRequests
INVARIANTS
  RightDie
  EccOnEveryDie
PROPERTIES
  Terminates
