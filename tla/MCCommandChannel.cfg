SPECIFICATION Spec
CONSTANTS
  Tasks = {t1, t2}
  Ports = {p1}
  Capacity = 2
  MayCancel = TRUE
  MaxRequests = 4
  MaxSeqEvents = 1
INVARIANTS
  OneOwner
  GuardMeansConnected
  ConnectionOwned
PROPERTIES
  RequestAnswered
  DropStopsThread
  ImplementsService
CHECK_DEADLOCK FALSE
