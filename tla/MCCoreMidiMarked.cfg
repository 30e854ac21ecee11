SPECIFICATION Spec
CONSTANTS
  Sources = {}
  Destinations = {d1}
  Virtual = {}
  Connectable = {d1}
  RemovedKnown = FALSE
  MaxGens = 2
  MaxConnects = 2
INVARIANTS
  LiveNotMarked
CHECK_DEADLOCK FALSE
