SPECIFICATION FairSpec
CONSTANT WinScore = 5
INVARIANTS TypeOK EndScreenExact OnePathEach PausedIsFrozen DeathEndsAlone FirstVerdictStands 
PROPERTIES ImplementsMatch EndScreenAppears RoundEnds
CHECK_DEADLOCK FALSE
