SPECIFICATION Spec
CONSTANTS
  Tasks = {t1, t2}
  Inputs = {i1}
  Outputs = {o1}
  Watched = {o1}
  MaxRequests = 2
  MaxPlugs = 2
INVARIANTS
  OwnsOrLost
  HearsConnected
  RemovalSeen
  Released
  SubscriberAgrees
PROPERTIES
  RequestAnswered
CHECK_DEADLOCK FALSE
