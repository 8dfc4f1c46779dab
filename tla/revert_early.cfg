SPECIFICATION Spec
CONSTANTS
  Changes = {c1, c2}
  NoFile = NoFile
  Pristine = Pristine
  Mixed = Mixed
  Deadly <- Anywhere
  MaxFaults = 0
CHECK_DEADLOCK FALSE
PROPERTY ConfirmedStays
