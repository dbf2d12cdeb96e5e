SPECIFICATION FairSpec
CONSTANTS
  WinScore = 3
  FullHealth = 2
  Tiles = {t1}
  MaxQueue = 4
INVARIANTS TypeOK DefeatIsReal ScoresCatchUp
PROPERTIES CrashNeedsTheOther WinIsHeard
CONSTRAINTS FewUnderWay FewLooseEnds
CHECK_DEADLOCK FALSE
