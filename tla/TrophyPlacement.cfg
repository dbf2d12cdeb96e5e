SPECIFICATION TrophySpec
CONSTANTS Height = 5
          Width = 9
          MinLength = 4
          Similar = 2
          Near = 2
          Far = 1
INVARIANTS SearchesAreShortest TrophyIsFairIfItCan
CHECK_DEADLOCK FALSE
