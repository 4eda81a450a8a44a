SPECIFICATION AttachmentSpec
CONSTANTS
  v = v
  s = s
  m = m
  f1 = f1
  f2 = f2
  g1 = g1
  g2 = g2
  vni = vni
  VPCs = {v}
  Subnets = {s}
  VMs = {m}
  FIPs = {f1, f2}
  NATGWs = {g1, g2}
  VNIs = {vni}
  Placements <- AttachmentPlacements
  Handlers = {h1, h2}
  Workers = {w1, w2}
  Capacity = 2
  Patient = TRUE
INVARIANT InterruptedDeletionRestarts
