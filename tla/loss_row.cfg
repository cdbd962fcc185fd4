\* Counters of the FPGA anywhere, two resets, two unreadable files.
SPECIFICATION Spec
CONSTANTS
  Uint64 = 64
  Uint40 = 8
  FirstCounts = {0, 3, 6, 7}
  HostCounts = {5}
  Packets = 2
  Background = 2
  Resets = 2
  Unreadables = 2
INVARIANTS TypeOK RowIsExact InventedFramesShow ResetOnlyMisplaces
CHECK_DEADLOCK FALSE
