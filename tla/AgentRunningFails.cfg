SPECIFICATION Spec
CONSTANTS
  v = v
  s = s
  m = m
  f1 = f1
  f2 = f2
  g1 = g1
  g2 = g2
  vni = vni
  VPCs = {v}
  Subnets = {s}
  VMs = {}
  FIPs = {}
  NATGWs = {}
  VNIs = {}
  Placements <- PairPlacements
  Handlers = {h1, h2}
  Workers = {w1, w2}
  Capacity = 2
  Patient = FALSE
PROPERTY RunningNeverFails
