SPECIFICATION Spec
CONSTANTS
  Tasks = {t1, t2}
  Inputs = {}
  Outputs = {o1}
  Watched = {o1}
  MaxRequests = 2
  MaxPlugs = 0
INVARIANTS
  SecondRejectedUntilDrop
CHECK_DEADLOCK FALSE
