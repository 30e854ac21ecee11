SPECIFICATION Spec
CONSTANTS
  QueueCapacity = 1
  Reporters = {notifier}
  MaxEvents = 5
  MaxReports = 1
INVARIANTS
  TypeOK
  LossAccounted
  NoUnderflow
  StreamsExact
PROPERTIES
  EmitterReturns
CHECK_DEADLOCK FALSE
