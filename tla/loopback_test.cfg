\* One run, three packets, up to two faults; the command stops when it is over.
SPECIFICATION FairSpec
CONSTANTS
  PacketCount = 3
  DrainEvery = 2
  QuietTime = 2
  MaxWait = 3
  SocketRoom = 1
  FaultBudget = 2
  Flood = FALSE
  CountCap = 0
INVARIANTS TypeOK GapsLocateLosses NothingDisappears LossNeverUnderstated EndsAsPromised
PROPERTY Terminates
CHECK_DEADLOCK FALSE
