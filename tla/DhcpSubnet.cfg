SPECIFICATION Spec
CONSTANTS
  m1 = m1
  m2 = m2
  v = v
  Net = net
  None = None
  Missing = Missing
  Configs = {c1, c2}
  Macs = {m1, m2}
  Hosts = {h1}
  VMs = {v}
  Clients = {net, v}
  Nics <- MCNics
  MaxCalls = 2
INVARIANTS
  TypeOK
  FileHoldsTable
  RunningIsServed
  GoneIsNotServed
  ReplyMatchesDatabase
  AlarmsAreCaused
  SubnetInv
PROPERTIES
  ImplementsTable
SYMMETRY ConfigSymmetry
