SPECIFICATION FairSpec
CONSTANTS
  Offers <- V4Offers
  Scripts <- V4Scripts
  None = None
  MaxFaults = 2
  a = a
  b = b
  p = p
  q = q
  r1 = r1
  r2 = r2
  d1 = d1
  d2 = d2
INVARIANTS TypeOK ConfiguredAsLeased Findable Paced
PROPERTIES LeaseRecovered MainReturns
