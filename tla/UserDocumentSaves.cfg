SPECIFICATION Spec
CONSTANTS
  Unit = 1
  Reward = 2
  MaxEarned = 6
PROPERTY SavesKeep
CHECK_DEADLOCK FALSE
