SPECIFICATION Spec
CONSTANT WinScore = 5
INVARIANT EndedIsStopped
CHECK_DEADLOCK FALSE
