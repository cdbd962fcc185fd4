\* Three runs of any of the commands, up to two writes lost in them.
SPECIFICATION FairSpec
CONSTANTS
  Polls = 1
  LossBudget = 2
  MaxRuns = 3
  Checked = {0, 8}
INVARIANTS TypeOK DamageIsConfined ReadBackIsTrue StalePinShows
PROPERTIES RunEnds
CHECK_DEADLOCK FALSE
