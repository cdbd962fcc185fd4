\* Two runs on one FPGA that starts in any state, up to two faults.
SPECIFICATION FairSpec
CONSTANTS
  Counts = {1, 2}
  Payloads = {256, 1440}
  QuietTime = 2
  FaultBudget = 2
  MaxRuns = 2
INVARIANTS TypeOK RowReportsLosses SuccessRestoresContent
PROPERTIES TriggeredAsAsked EndsAsPromised EndsAfterFirstPacket
CHECK_DEADLOCK FALSE
