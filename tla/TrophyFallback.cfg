SPECIFICATION TrophySpec
CONSTANTS Height = 5
          Width = 7
          MinLength = 3
          Similar = 2
          Near = 2
          Far = 1
INVARIANT FallbackFindsASpace
CHECK_DEADLOCK FALSE
