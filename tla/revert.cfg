SPECIFICATION FairSpec
CONSTANTS
  Changes = {c1, c2}
  NoFile = NoFile
  Pristine = Pristine
  Mixed = Mixed
  Deadly <- Anywhere
  MaxFaults = 2
CHECK_DEADLOCK FALSE
INVARIANTS TypeOK OneWriter Guarded
PROPERTIES KeptHolds RevertRestores Unattended TrialSpec
