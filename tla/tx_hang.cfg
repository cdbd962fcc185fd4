\* One run, one fault: the trigger is lost.
SPECIFICATION FairSpec
CONSTANTS
  Counts = {1}
  Payloads = {256}
  QuietTime = 2
  FaultBudget = 1
  MaxRuns = 1
PROPERTY RunEnds
CHECK_DEADLOCK FALSE
