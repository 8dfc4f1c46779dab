SPECIFICATION FairSpec
CONSTANTS
  Clients = {c1, c2}
  Servers = {s1}
  Addrs = {a1, a2}
  None = None
  Worlds <- SmallWorlds
  Life = 3
  Grace = 2
  Attempts = 2
  MaxExchanges = 3
  MaxAnswers = 3
  c1 = c1
  c2 = c2
  h1 = h1
  h2 = h2
INVARIANTS TypeOK Entitled
PROPERTIES Ends
