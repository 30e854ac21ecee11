SPECIFICATION Spec
CONSTANTS
  Writers = {w1, w2}
  Virtuals = {v1}
  MaxWrites = 4
  MaxConnects = 2
SYMMETRY MCSymmetry
INVARIANTS
  ConnectionExact
  VirtualExact
  SysexWhole
CHECK_DEADLOCK FALSE
