SPECIFICATION AISpec
CONSTANT WinScore = 5
INVARIANTS ClockRunsWithRound RunningRoundIsTimed SceneClockNeverDangles
CHECK_DEADLOCK FALSE
