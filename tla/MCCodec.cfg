SPECIFICATION Spec
CONSTANTS
  MaxSysexBytes = 1
  MaxWire = 4
  Alphabet <- MCAlphabet
  MCData = {0, 1, 127}
  MCValues = {0, 1, 127, 128, 8192, 16383}
  MCChannels = {0, 9, 15, 16, 255}
  MCFields <- MCEventFields
INVARIANTS
  RoundTrips
  Unambiguous
  SentArrives
  EventKeptOrRefused
  FourteenBitsArrive
CHECK_DEADLOCK FALSE
