SPECIFICATION Spec
CONSTANTS
  Tasks = {t1}
  Ports = {p1}
  Capacity = 4
  MayCancel = TRUE
  MaxRequests = 4
  MaxSeqEvents = 0
PROPERTIES
  RejectedUntilDrop
CHECK_DEADLOCK FALSE
