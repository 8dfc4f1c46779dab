SPECIFICATION Spec
CONSTANTS
  Offers <- BothOffers
  Scripts <- BothScripts
  None = None
  MaxFaults = 1
  a = a
  b = b
  p = p
  q = q
  r1 = r1
  r2 = r2
  d1 = d1
  d2 = d2
INVARIANTS ConfiguredAsLeased
PROPERTIES StoppedClean
SYMMETRY Symmetric
