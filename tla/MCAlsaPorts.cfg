SPECIFICATION Spec
CONSTANTS
  c1 = c1
  Ports = {p1}
  Clients = {c1}
  ClientOf <- MCClientOf
  CapSets <- MCCapSets
  MaxStarts = 2
  MaxVirtual = 2
  MaxPorts = 3
INVARIANTS
  ExternalListed
  ToldWhenGone
  SubscribedExactly
  SubscriberAgrees
  VirtualPortsExact
