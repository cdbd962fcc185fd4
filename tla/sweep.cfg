\* Two sweeps of the three tests, one run each, and up to two faults.
SPECIFICATION Spec
CONSTANTS
  Tests <- AllTests
  Points = 1
  MaxSweeps = 2
  FaultBudget = 2
INVARIANTS TypeOK LogsMatchManifest SummariesAreCurrent EveryRunIsRecorded
PROPERTIES TroubleSpoilsOneMore
CHECK_DEADLOCK FALSE
