SPECIFICATION FairSpec
CONSTANT WinScore = 5
INVARIANTS VerdictsAreEarned
PROPERTY FifthIsAnswered
CHECK_DEADLOCK FALSE
