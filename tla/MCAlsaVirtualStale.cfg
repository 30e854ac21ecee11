SPECIFICATION Spec
CONSTANTS
  c1 = c1
  Ports = {p1}
  Clients = {c1}
  ClientOf <- MCClientOf
  CapSets <- MCCapSets
  MaxStarts = 0
  MaxVirtual = 2
  MaxPorts = 2
INVARIANTS
  VirtualListed
