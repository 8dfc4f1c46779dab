SPECIFICATION LiveSpec
CONSTANTS
  Configs = {c1, c2}
  NoFile = NoFile
  Faulty <- Calls
  MaxFaults = 3
PROPERTY RetrySucceeds
