SPECIFICATION HSpec
CONSTANTS
  MaxSysexBytes = 1
  OrphanPrefixBytes = 2
  MaxOrphans = 7
  MaxWire = 6
  Bytes <- MCBytes
INVARIANTS
  OneMode
  NeverWedged
  SysexContained
  OrphanPrefixExact
PROPERTIES
  ImplementsMidiStream
CHECK_DEADLOCK FALSE
