\* One probe and three packets; two echoes may be odd, two left by an earlier run; the command ends.
SPECIFICATION FairSpec
CONSTANTS
  Probes = 1
  PacketCount = 3
  OddBudget = 2
  OldBudget = 2
INVARIANTS TypeOK SamplesAreOwn DeceptionIsExposed EndsAsPromised
PROPERTIES OnlyOddDatagramsAbort Terminates
CHECK_DEADLOCK FALSE
