SPECIFICATION Spec
CONSTANTS
  Unit = 1
  Reward = 2
  MaxEarned = 6
INVARIANTS TypeOK NothingForNothing OnlyStaleCopiesLose
CHECK_DEADLOCK FALSE
