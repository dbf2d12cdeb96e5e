SPECIFICATION FairSpec
INVARIANTS TypeOK SameMaze
PROPERTIES CrashNeedsTwoOffers StartedTogether
CHECK_DEADLOCK FALSE
