\* Four processes on one log; each may be killed, or meet a full disk.
SPECIFICATION Spec
CONSTANTS
  Runs = {r1, r2, r3, r4}
  Header = Header
  Garbled = Garbled
SYMMETRY Symmetry
INVARIANTS TypeOK HeaderSurvives SavedRowsSurvive
CHECK_DEADLOCK FALSE
