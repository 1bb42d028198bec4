SPECIFICATION Spec
CONSTANTS
  PollLimit = 2
  Benches <- Parts
  Requests <- Calls
INVARIANTS
  TypeOK
  MwOkIsDone
  OnlyBlanked
  WriteDisabledAtExit
  BusyPartLeftAlone
PROPERTIES
  Terminates
