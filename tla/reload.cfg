SPECIFICATION Spec
CONSTANTS
  c1 = c1
  c2 = c2
  d1 = d1
  d2 = d2
  Clients <- MCClients
  Daemons <- MCDaemons
  None = None
  SignalCap = 4
  MaxDeaths = 1
INVARIANTS TypeOK OneDaemon ToldTheTruth NeverApplied
SYMMETRY MCSymmetry
CHECK_DEADLOCK FALSE
