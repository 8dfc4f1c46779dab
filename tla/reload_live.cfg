SPECIFICATION FairSpec
CONSTANTS
  c1 = c1
  c2 = c2
  d1 = d1
  d2 = d2
  Clients <- MCClients
  Daemons = {d1}
  None = None
  SignalCap = 4
  MaxDeaths = 0
PROPERTIES Answered Settles
CHECK_DEADLOCK FALSE
