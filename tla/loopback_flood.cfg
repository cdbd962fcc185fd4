\* The FPGA floods the port while the test drains it.
SPECIFICATION FairSpec
CONSTANTS
  PacketCount = 1
  DrainEvery = 2
  QuietTime = 2
  MaxWait = 3
  SocketRoom = 1
  FaultBudget = 0
  Flood = TRUE
  CountCap = 4
PROPERTY DrainEnds
CHECK_DEADLOCK FALSE
