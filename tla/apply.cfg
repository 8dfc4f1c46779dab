SPECIFICATION Spec
CONSTANTS
  Links <- MCLinks
  Rigid = {sit}
  Factory <- MCFactory
  OnLink <- MCOnLink
  Forever = 99
  None = None
  Listing <- MCListing
  Configs <- AllConfigs
  Machines <- AllMachines
  Wireless = eth
  Pids = {p1, p2, p3}
  MaxMishaps = 1
  MaxTime = 1
  MaxStops = 2
  eth = eth
  sit = sit
  br = br
  lan = lan
  wan = wan
  tun = tun
  x = x
  y = y
  gw = gw
  net0 = net0
  rule0 = rule0
  rule1 = rule1
INVARIANTS TypeOK Truthful StopConverges OneClient
PROPERTIES NoStranger
SYMMETRY Symmetric
