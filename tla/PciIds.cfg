\* Files of up to six lines, with two IDs on every level.
CONSTANTS
  Ids = {0, 1}
  MaxLines = 6
SPECIFICATION IdsSpec
INVARIANTS
  NothingLost
  NothingMisfiled
CHECK_DEADLOCK FALSE
