SPECIFICATION Spec
CONSTANTS
  Sources = {s1}
  Destinations = {d1, d2, d3}
  Virtual = {d1}
  Connectable = {s1, d1}
  RemovedKnown = FALSE
  MaxGens = 2
  MaxConnects = 2
INVARIANTS
  ListExact
  HandlerOrTold
  EveryTold
  HandlersReleased
  SubscriberAgrees
SYMMETRY Symmetry
CHECK_DEADLOCK FALSE
