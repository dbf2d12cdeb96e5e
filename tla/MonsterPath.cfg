SPECIFICATION MonsterFairSpec
CONSTANTS Height = 7
          Width = 11
          Margin = 1
          Steps = 5
INVARIANTS TypeOK NeverPeeksEmpty TreeThenConnected EveryCellIsSpace JoinerRebuildsTheMaze StaysInTheMaze WalksPart
PROPERTY GenerationEnds
CHECK_DEADLOCK FALSE
