SPECIFICATION SettingsSpec
CONSTANTS WinScore = 2 MaxDue = 3 MaxVerdicts = 2
INVARIANTS NeverStranded SettingsStayInPause
PROPERTIES CalmPlayIsTheRound
CHECK_DEADLOCK FALSE
