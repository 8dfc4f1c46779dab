SPECIFICATION Spec
CONSTANTS
  s4 = s4
  s6 = s6
  n = n
  a = a
  b = b
  Sources = {s4, s6}
  StaticLists <- MCStaticLists
  LeaseLists <- MCLeaseLists
  None = None
  Absent = Absent
  Original = Original
  Torn = Torn
  MaxFaults = 2
SYMMETRY MCSymmetry
INVARIANTS TypeOK InForce Pristine
