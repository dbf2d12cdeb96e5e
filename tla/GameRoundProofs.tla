-------------------------- MODULE GameRoundProofs --------------------------
(***************************************************************************)
(* Proofs about GameRound, and that it implements Match, for every WinScore. *)
(***************************************************************************)
EXTENDS GameRound, TLAPS

\* A frame is open only while the scene plays
FrameOpen == updating => status = "playing"

\* endGame stopped the monsters, and only Try Again starts them
MonstersStopAtEnd == pauseHidden => monsterPaths = 0

\* A player that has not moved since its respawn is next to no trophy, and the respawn
\* itself leads to one contact at most
SpawnReach ==
  atSpawn => "player" \notin reach /\ ~("monster" \in reach /\ "monster" \in flags)

\* After the end of a round the player can be hit while it lands on its spawn tile, but
\* never often enough to lose the three lives endGame gave it
HitBudget ==
  pauseHidden /\ ("monster" \in flags \/ "monster" \in reach) =>
    playerHealth = 3 \/ (atSpawn /\ playerHealth = 2)

\* Nothing restarts the AI after a death, and the death's screen stands alone
DeathIsQuiet ==
  pending["died"] > 0 \/ overlay = "died" =>
    /\ "opponent" \notin flags
    /\ overlay \notin WinScreens
    /\ status = "left" => isPausing

\* A scene is left from the pause menu or from the screen of a verdict
LeftIsOver == status = "left" => isPausing \/ pauseHidden

IInv ==
  /\ TypeOK
  /\ FrameOpen
  /\ MonstersStopAtEnd
  /\ SpawnReach
  /\ HitBudget
  /\ EndScreenExact
  /\ OnePathEach
  /\ PausedIsFrozen
  /\ HeartsShowLives
  /\ DeathEndsAlone
  /\ DeathIsQuiet
  /\ FirstVerdictStands
  /\ CrashNeedsARace
  /\ LeftIsOver

----------------------------------------------------------------------------
(* Type correctness is inductive by itself *)

LEMMA InitType == Init => TypeOK
<1> SUFFICES ASSUME Init PROVE TypeOK
  OBVIOUS
<1>1. CountsOK
  BY WinScoreAssumption DEF Init, CountsOK, FullHealth
<1>2. ContactsOK /\ MotionOK
  BY DEF Init, ContactsOK, MotionOK
<1>3. StageOK
  BY DEF Init, StageOK, FullHealth
<1>4. pending \in [EndScreens -> Nat]
  BY DEF Init
<1>5. QED
  BY <1>1, <1>2, <1>3, <1>4 DEF TypeOK

LEMMA TypeStep == TypeOK /\ [Next]_vars => TypeOK'
<1> SUFFICES ASSUME TypeOK, [Next]_vars PROVE TypeOK'
  OBVIOUS
<1>t. CountsOK /\ ContactsOK /\ MotionOK /\ StageOK /\ pending \in [EndScreens -> Nat]
  BY DEF TypeOK
<1> USE DEF scoreVars, labelVars, motionVars, menuVars
<1>1. CASE BeginFrame
  <2>1. CountsOK'
    BY <1>t, <1>1 DEF CountsOK, BeginFrame
  <2>2. ContactsOK'
    BY <1>t, <1>1 DEF ContactsOK, BeginFrame
  <2>3. MotionOK'
    BY <1>t, <1>1 DEF MotionOK, BeginFrame
  <2>4. StageOK'
    BY <1>t, <1>1 DEF StageOK, BeginFrame
  <2>5. pending' \in [EndScreens -> Nat]
    BY <1>t, <1>1 DEF BeginFrame
  <2>6. QED
    BY <2>1, <2>2, <2>3, <2>4, <2>5 DEF TypeOK
<1>2. CASE PlayerCollisionResponse
  <2>1. CountsOK'
    BY <1>t, <1>2, WinScoreAssumption DEF CountsOK, FullHealth,
       PlayerCollisionResponse, EndGame
  <2>2. ContactsOK'
    BY <1>t, <1>2 DEF ContactsOK, PlayerCollisionResponse, RelocateTrophy
  <2>3. MotionOK'
    BY <1>t, <1>2 DEF MotionOK, PlayerCollisionResponse, EndGame, RestartAI
  <2>4. StageOK'
    BY <1>t, <1>2 DEF StageOK, FullHealth, EndScreens, PlayerCollisionResponse, EndGame
  <2>5. pending' \in [EndScreens -> Nat]
    BY <1>t, <1>2 DEF PlayerCollisionResponse, Schedule
  <2>6. QED
    BY <2>1, <2>2, <2>3, <2>4, <2>5 DEF TypeOK
<1>3. CASE OpponentCollisionResponse
  <2>1. CountsOK'
    BY <1>t, <1>3, WinScoreAssumption DEF CountsOK, FullHealth,
       OpponentCollisionResponse, EndGame
  <2>2. ContactsOK'
    BY <1>t, <1>3 DEF ContactsOK, OpponentCollisionResponse, RelocateTrophy
  <2>3. MotionOK'
    BY <1>t, <1>3 DEF MotionOK, OpponentCollisionResponse, EndGame, RestartAI
  <2>4. StageOK'
    BY <1>t, <1>3 DEF StageOK, FullHealth, EndScreens, OpponentCollisionResponse,
       EndGame
  <2>5. pending' \in [EndScreens -> Nat]
    BY <1>t, <1>3 DEF OpponentCollisionResponse, Schedule
  <2>6. QED
    BY <2>1, <2>2, <2>3, <2>4, <2>5 DEF TypeOK
<1>4. CASE MonsterCollisionResponse
  <2>1. CountsOK'
    BY <1>t, <1>4, WinScoreAssumption DEF CountsOK, FullHealth,
       MonsterCollisionResponse, EndGame, LivesLeft
  <2>2. ContactsOK'
    BY <1>t, <1>4 DEF ContactsOK, MonsterCollisionResponse, HittingMonster
  <2>3. MotionOK'
    BY <1>t, <1>4 DEF MotionOK, MonsterCollisionResponse, EndGame
  <2>4. StageOK'
    BY <1>t, <1>4 DEF StageOK, FullHealth, EndScreens, MonsterCollisionResponse,
       EndGame, ChangeHealth
  <2>5. pending' \in [EndScreens -> Nat]
    BY <1>t, <1>4 DEF MonsterCollisionResponse, Schedule
  <2>6. QED
    BY <2>1, <2>2, <2>3, <2>4, <2>5 DEF TypeOK
<1>5. ASSUME NEW c \in SUBSET Flags, DidBegin(c) PROVE TypeOK'
  <2>1. CountsOK'
    BY <1>t, <1>5 DEF CountsOK, DidBegin
  <2>2. ContactsOK'
    BY <1>t, <1>5 DEF ContactsOK, DidBegin
  <2>3. MotionOK'
    BY <1>t, <1>5 DEF MotionOK, DidBegin
  <2>4. StageOK'
    BY <1>t, <1>5 DEF StageOK, FullHealth, EndScreens, DidBegin
  <2>5. pending' \in [EndScreens -> Nat]
    BY <1>t, <1>5 DEF DidBegin
  <2>6. QED
    BY <2>1, <2>2, <2>3, <2>4, <2>5 DEF TypeOK
<1>6. CASE Walk
  <2>1. CountsOK'
    BY <1>t, <1>6 DEF CountsOK, Walk
  <2>2. ContactsOK'
    BY <1>t, <1>6 DEF ContactsOK, Flags, Walk
  <2>3. MotionOK'
    BY <1>t, <1>6 DEF MotionOK, Walk
  <2>4. StageOK'
    BY <1>t, <1>6 DEF StageOK, Walk
  <2>5. pending' \in [EndScreens -> Nat]
    BY <1>t, <1>6 DEF Walk
  <2>6. QED
    BY <2>1, <2>2, <2>3, <2>4, <2>5 DEF TypeOK
<1>7. CASE TouchPause \/ TouchPlay
  <2>1. CountsOK'
    BY <1>t, <1>7 DEF CountsOK, TouchPause, TouchPlay
  <2>2. ContactsOK'
    BY <1>t, <1>7 DEF ContactsOK, Flags, TouchPause, TouchPlay
  <2>3. MotionOK'
    BY <1>t, <1>7 DEF MotionOK, TouchPause, TouchPlay
  <2>4. StageOK'
    BY <1>t, <1>7 DEF StageOK, FullHealth, EndScreens, TouchPause, TouchPlay
  <2>5. pending' \in [EndScreens -> Nat]
    BY <1>t, <1>7 DEF TouchPause, TouchPlay
  <2>6. QED
    BY <2>1, <2>2, <2>3, <2>4, <2>5 DEF TypeOK
<1>8. CASE TouchTryAgain
  <2>1. CountsOK'
    BY <1>t, <1>8, WinScoreAssumption DEF CountsOK, FullHealth, TouchTryAgain
  <2>2. ContactsOK'
    BY <1>t, <1>8 DEF ContactsOK, TouchTryAgain
  <2>3. MotionOK'
    BY <1>t, <1>8 DEF MotionOK, TouchTryAgain
  <2>4. StageOK'
    BY <1>t, <1>8 DEF StageOK, FullHealth, EndScreens, TouchTryAgain, ChangeHealth
  <2>5. pending' \in [EndScreens -> Nat]
    BY <1>t, <1>8 DEF TouchTryAgain
  <2>6. QED
    BY <2>1, <2>2, <2>3, <2>4, <2>5 DEF TypeOK
<1>9. CASE TouchLeave
  <2>1. CountsOK'
    BY <1>t, <1>9 DEF CountsOK, TouchLeave
  <2>2. ContactsOK'
    BY <1>t, <1>9 DEF ContactsOK, TouchLeave
  <2>3. MotionOK'
    BY <1>t, <1>9 DEF MotionOK, TouchLeave
  <2>4. StageOK'
    BY <1>t, <1>9 DEF StageOK, TouchLeave
  <2>5. pending' \in [EndScreens -> Nat]
    BY <1>t, <1>9 DEF TouchLeave
  <2>6. QED
    BY <2>1, <2>2, <2>3, <2>4, <2>5 DEF TypeOK
<1>10. ASSUME NEW s \in EndScreens, ShowEndScreen(s) PROVE TypeOK'
  <2>1. CountsOK'
    BY <1>t, <1>10 DEF CountsOK, ShowEndScreen, Crash
  <2>2. ContactsOK'
    BY <1>t, <1>10 DEF ContactsOK, Flags, ShowEndScreen, Crash
  <2>3. MotionOK'
    BY <1>t, <1>10 DEF MotionOK, ShowEndScreen, Crash
  <2>4. StageOK'
    BY <1>t, <1>10 DEF StageOK, FullHealth, EndScreens, ShowEndScreen, Crash
  <2>5. pending' \in [EndScreens -> Nat]
    BY <1>t, <1>10 DEF ShowEndScreen, Due, Crash
  <2>6. QED
    BY <2>1, <2>2, <2>3, <2>4, <2>5 DEF TypeOK
<1>11. ASSUME NEW s \in EndScreens, LateEndScreen(s) PROVE TypeOK'
  <2>1. CountsOK'
    BY <1>t, <1>11 DEF CountsOK, LateEndScreen, Crash
  <2>2. ContactsOK'
    BY <1>t, <1>11 DEF ContactsOK, Flags, LateEndScreen, Crash
  <2>3. MotionOK'
    BY <1>t, <1>11 DEF MotionOK, LateEndScreen, Crash
  <2>4. StageOK'
    BY <1>t, <1>11 DEF StageOK, FullHealth, EndScreens, LateEndScreen, Crash
  <2>5. pending' \in [EndScreens -> Nat]
    BY <1>t, <1>11 DEF LateEndScreen, Crash
  <2>6. QED
    BY <2>1, <2>2, <2>3, <2>4, <2>5 DEF TypeOK
<1>l. CASE LateFrame
  <2>1. CountsOK'
    BY <1>t, <1>l DEF CountsOK, LateFrame, Crash
  <2>2. ContactsOK'
    BY <1>t, <1>l DEF ContactsOK, Flags, LateFrame, Crash
  <2>3. MotionOK'
    BY <1>t, <1>l DEF MotionOK, LateFrame, Crash
  <2>4. StageOK'
    BY <1>t, <1>l DEF StageOK, LateFrame, Crash
  <2>5. pending' \in [EndScreens -> Nat]
    BY <1>t, <1>l DEF LateFrame, Crash
  <2>6. QED
    BY <2>1, <2>2, <2>3, <2>4, <2>5 DEF TypeOK
<1>12. CASE UNCHANGED vars
  <2>1. CountsOK'
    BY <1>t, <1>12 DEF CountsOK, vars
  <2>2. ContactsOK'
    BY <1>t, <1>12 DEF ContactsOK, vars
  <2>3. MotionOK'
    BY <1>t, <1>12 DEF MotionOK, vars
  <2>4. StageOK'
    BY <1>t, <1>12 DEF StageOK, vars
  <2>5. pending' \in [EndScreens -> Nat]
    BY <1>t, <1>12 DEF vars
  <2>6. QED
    BY <2>1, <2>2, <2>3, <2>4, <2>5 DEF TypeOK
<1>13. QED
  BY <1>1, <1>2, <1>3, <1>4, <1>5, <1>6, <1>7, <1>8, <1>9, <1>10, <1>11, <1>12,
     <1>l DEF Next, Frame

\* Every variable keeps its type; in particular no score of WinScore and no life count
\* of zero outlives the handler that produced it.
THEOREM TypeCorrect == Spec => []TypeOK
<1>1. QED
  BY InitType, TypeStep, PTL DEF Spec

----------------------------------------------------------------------------
LEMMA InitInv == Init => IInv
<1> SUFFICES ASSUME Init PROVE IInv
  OBVIOUS
<1>1. TypeOK
  BY InitType
<1>2. QED
  BY <1>1 DEF Init, IInv, LeftIsOver, FrameOpen, MonstersStopAtEnd, OnePathEach, SpawnReach,
     HitBudget, FirstVerdictStands, EndScreenExact, PausedIsFrozen, DeathEndsAlone,
     DeathIsQuiet, CrashNeedsARace, HeartsShowLives, EndScreens

LEMMA InvStep == IInv /\ [Next]_vars => IInv'
<1> SUFFICES ASSUME IInv, [Next]_vars PROVE IInv'
  OBVIOUS
<1>t. TypeOK'
  BY TypeStep DEF IInv
<1>i. /\ TypeOK /\ CountsOK /\ ContactsOK /\ MotionOK /\ StageOK
      /\ pending \in [EndScreens -> Nat]
      /\ FrameOpen /\ MonstersStopAtEnd /\ OnePathEach /\ SpawnReach /\ HitBudget
      /\ FirstVerdictStands /\ EndScreenExact /\ PausedIsFrozen /\ DeathEndsAlone
      /\ DeathIsQuiet /\ CrashNeedsARace /\ HeartsShowLives /\ LeftIsOver
  BY DEF IInv, TypeOK
<1> USE DEF scoreVars, labelVars, motionVars, menuVars
<1>1. CASE BeginFrame
  BY <1>t, <1>1 DEF IInv, LeftIsOver, FrameOpen, MonstersStopAtEnd, OnePathEach, SpawnReach,
     HitBudget, FirstVerdictStands, EndScreenExact, PausedIsFrozen, DeathEndsAlone,
     DeathIsQuiet, CrashNeedsARace, HeartsShowLives, BeginFrame
<1>2. CASE PlayerCollisionResponse
  <2>1. FrameOpen' /\ MonstersStopAtEnd' /\ OnePathEach' /\ LeftIsOver'
    BY <1>i, <1>2 DEF FrameOpen, MonstersStopAtEnd, OnePathEach, LeftIsOver,
       PlayerCollisionResponse, EndGame, RestartAI
  <2>2. SpawnReach' /\ FirstVerdictStands'
    BY <1>i, <1>2 DEF SpawnReach, FirstVerdictStands, PlayerCollisionResponse,
       EndGame, RelocateTrophy
  <2>3. HitBudget'
    BY <1>t, <1>i, <1>2 DEF CountsOK, ContactsOK, HitBudget, SpawnReach,
       MonstersStopAtEnd, PausedIsFrozen, FullHealth, PlayerCollisionResponse, EndGame,
       Schedule, RestartAI, RelocateTrophy
  <2>4. EndScreenExact'
    BY <1>i, <1>2 DEF EndScreenExact, EndScreens, PlayerCollisionResponse, EndGame,
       Schedule
  <2>5. PausedIsFrozen'
    BY <1>i, <1>2 DEF PausedIsFrozen, PlayerCollisionResponse, EndGame
  <2>6. DeathEndsAlone' /\ DeathIsQuiet'
    BY <1>i, <1>2 DEF DeathEndsAlone, DeathIsQuiet, FrameOpen, EndScreenExact,
       FirstVerdictStands, EndScreens, PlayerCollisionResponse, Schedule
  <2>7. CrashNeedsARace'
    BY <1>i, <1>2 DEF CrashNeedsARace, FrameOpen, PlayerCollisionResponse
  <2>8. HeartsShowLives'
    BY <1>i, <1>2 DEF HeartsShowLives, PlayerCollisionResponse, EndGame
  <2>9. QED
    BY <1>t, <2>1, <2>2, <2>3, <2>4, <2>5, <2>6, <2>7, <2>8 DEF IInv
<1>3. CASE OpponentCollisionResponse
  <2>1. FrameOpen' /\ MonstersStopAtEnd' /\ OnePathEach' /\ LeftIsOver'
    BY <1>i, <1>3 DEF FrameOpen, MonstersStopAtEnd, OnePathEach, LeftIsOver,
       OpponentCollisionResponse, EndGame, RestartAI
  <2>2. SpawnReach' /\ FirstVerdictStands'
    BY <1>i, <1>3 DEF SpawnReach, FirstVerdictStands, OpponentCollisionResponse,
       EndGame, RelocateTrophy
  <2>3. HitBudget'
    BY <1>t, <1>i, <1>3 DEF CountsOK, ContactsOK, HitBudget, SpawnReach,
       MonstersStopAtEnd, PausedIsFrozen, FullHealth, OpponentCollisionResponse, EndGame,
       Schedule, RestartAI, RelocateTrophy
  <2>4. EndScreenExact'
    BY <1>i, <1>3 DEF EndScreenExact, EndScreens, OpponentCollisionResponse, EndGame,
       Schedule
  <2>5. PausedIsFrozen'
    BY <1>i, <1>3 DEF PausedIsFrozen, OpponentCollisionResponse, EndGame
  <2>6. DeathEndsAlone' /\ DeathIsQuiet'
    BY <1>i, <1>3 DEF DeathEndsAlone, DeathIsQuiet, EndScreens,
       OpponentCollisionResponse, Schedule
  <2>7. CrashNeedsARace'
    BY <1>i, <1>3 DEF CrashNeedsARace, FrameOpen, OpponentCollisionResponse
  <2>8. HeartsShowLives'
    BY <1>i, <1>3 DEF HeartsShowLives, OpponentCollisionResponse, EndGame
  <2>9. QED
    BY <1>t, <2>1, <2>2, <2>3, <2>4, <2>5, <2>6, <2>7, <2>8 DEF IInv
<1>4. CASE MonsterCollisionResponse
  <2>1. FrameOpen' /\ MonstersStopAtEnd' /\ OnePathEach' /\ LeftIsOver'
    BY <1>i, <1>4 DEF FrameOpen, MonstersStopAtEnd, OnePathEach, LeftIsOver,
       MonsterCollisionResponse, EndGame
  <2>2. SpawnReach' /\ FirstVerdictStands'
    BY <1>i, <1>4 DEF SpawnReach, FirstVerdictStands, MonsterCollisionResponse,
       EndGame, HittingMonster
  <2>3. HitBudget'
    <3>1. CASE LivesLeft = 0
      BY <1>4, <3>1 DEF HitBudget, MonsterCollisionResponse, EndGame, FullHealth
    <3>2. CASE LivesLeft # 0
      <4>1. playerHealth \in 2 .. 3 /\ playerHealth' = playerHealth - 1
        BY <1>i, <1>4, <3>2 DEF CountsOK, FullHealth, MonsterCollisionResponse,
           LivesLeft
      <4>2. atSpawn' = TRUE /\ flags' = {} /\ reach' = IF atSpawn THEN reach ELSE {"monster"}
        BY <1>4 DEF MonsterCollisionResponse, HittingMonster
      <4>3. flags = {"monster"} /\ pauseHidden' = pauseHidden
        BY <1>4, <3>2 DEF MonsterCollisionResponse
      <4>4. "monster" \notin reach' \/ ~atSpawn
        BY <1>i, <4>2, <4>3 DEF SpawnReach
      <4>5. SUFFICES ASSUME pauseHidden', "monster" \in reach'
                     PROVE  playerHealth' = 2
        BY <4>2 DEF HitBudget
      <4>6. pauseHidden /\ ~atSpawn
        BY <4>3, <4>4, <4>5
      <4>7. playerHealth = 3
        BY <1>i, <4>3, <4>6 DEF HitBudget
      <4>8. QED
        BY <4>1, <4>7
    <3>3. QED
      BY <3>1, <3>2
  <2>4. EndScreenExact'
    BY <1>i, <1>4 DEF EndScreenExact, EndScreens, MonsterCollisionResponse, EndGame,
       Schedule
  <2>5. PausedIsFrozen'
    BY <1>i, <1>4 DEF PausedIsFrozen, MonsterCollisionResponse, EndGame
  <2>6. DeathEndsAlone' /\ DeathIsQuiet'
    BY <1>i, <1>4 DEF DeathEndsAlone, DeathIsQuiet, FrameOpen, EndScreenExact,
       HitBudget, EndScreens, WinScreens, MonsterCollisionResponse, EndGame, Schedule,
       LivesLeft
  <2>7. CrashNeedsARace'
    BY <1>i, <1>4 DEF CrashNeedsARace, FrameOpen, MonsterCollisionResponse
  <2>8. HeartsShowLives'
    <3>1. CASE LivesLeft = 0
      BY <1>4, <3>1 DEF HeartsShowLives, MonsterCollisionResponse, EndGame
    <3>2. CASE LivesLeft # 0 /\ ~pauseHidden
      <4>1. /\ playerHealth \in 2 .. 3 /\ playerHealth' = playerHealth - 1
            /\ hearts' = hearts \ {playerHealth}
        BY <1>i, <1>4, <3>2 DEF CountsOK, FullHealth, MonsterCollisionResponse,
           LivesLeft, ChangeHealth
      <4>2. hearts = 1 .. playerHealth
        BY <1>i, <3>2 DEF HeartsShowLives
      <4>3. QED
        BY <4>1, <4>2 DEF HeartsShowLives
    <3>3. CASE LivesLeft # 0 /\ pauseHidden
      BY <1>4, <3>3 DEF HeartsShowLives, MonsterCollisionResponse
    <3>4. QED
      BY <3>1, <3>2, <3>3
  <2>9. QED
    BY <1>t, <2>1, <2>2, <2>3, <2>4, <2>5, <2>6, <2>7, <2>8 DEF IInv
<1>5. ASSUME NEW c \in SUBSET Flags, DidBegin(c) PROVE IInv'
  <2>1. FrameOpen' /\ MonstersStopAtEnd' /\ OnePathEach' /\ LeftIsOver'
    BY <1>i, <1>5 DEF FrameOpen, MonstersStopAtEnd, OnePathEach, LeftIsOver, DidBegin
  <2>2. SpawnReach' /\ FirstVerdictStands'
    BY <1>i, <1>5 DEF SpawnReach, FirstVerdictStands, DidBegin, Touching
  <2>3. HitBudget'
    BY <1>i, <1>5 DEF HitBudget, MonstersStopAtEnd, DidBegin, Touching
  <2>4. EndScreenExact'
    BY <1>i, <1>5 DEF EndScreenExact, DidBegin
  <2>5. PausedIsFrozen'
    BY <1>i, <1>5 DEF PausedIsFrozen, DidBegin
  <2>6. DeathEndsAlone' /\ DeathIsQuiet'
    BY <1>i, <1>5 DEF ContactsOK, DeathEndsAlone, DeathIsQuiet, DidBegin, Touching
  <2>7. CrashNeedsARace'
    BY <1>i, <1>5 DEF CrashNeedsARace, DidBegin
  <2>8. HeartsShowLives'
    BY <1>i, <1>5 DEF HeartsShowLives, DidBegin
  <2>9. QED
    BY <1>t, <2>1, <2>2, <2>3, <2>4, <2>5, <2>6, <2>7, <2>8 DEF IInv
<1>6. CASE Walk
  BY <1>t, <1>6 DEF IInv, LeftIsOver, FrameOpen, MonstersStopAtEnd, OnePathEach, SpawnReach,
     HitBudget, FirstVerdictStands, EndScreenExact, PausedIsFrozen, DeathEndsAlone,
     DeathIsQuiet, CrashNeedsARace, HeartsShowLives, Walk, BetweenFrames
<1>7. CASE TouchPause
  BY <1>i, <1>t, <1>7 DEF IInv, LeftIsOver, StageOK, FrameOpen, MonstersStopAtEnd, OnePathEach,
     SpawnReach, HitBudget, FirstVerdictStands, EndScreenExact, PausedIsFrozen,
     DeathEndsAlone, DeathIsQuiet, CrashNeedsARace, HeartsShowLives, EndScreens,
     TouchPause
<1>8. CASE TouchPlay
  BY <1>t, <1>8 DEF IInv, LeftIsOver, FrameOpen, MonstersStopAtEnd, OnePathEach, SpawnReach,
     HitBudget, FirstVerdictStands, EndScreenExact, PausedIsFrozen, DeathEndsAlone,
     DeathIsQuiet, CrashNeedsARace, HeartsShowLives, EndScreens, TouchPlay, BetweenFrames
<1>9. CASE TouchTryAgain
  <2>1. FrameOpen' /\ MonstersStopAtEnd' /\ OnePathEach' /\ LeftIsOver'
    BY <1>i, <1>9 DEF FrameOpen, MonstersStopAtEnd, OnePathEach, LeftIsOver, DeathEndsAlone,
       TouchTryAgain, BetweenFrames
  <2>2. SpawnReach' /\ FirstVerdictStands'
    BY <1>i, <1>9 DEF SpawnReach, FirstVerdictStands, TouchTryAgain
  <2>3. HitBudget'
    BY <1>9 DEF HitBudget, TouchTryAgain
  <2>4. EndScreenExact'
    BY <1>i, <1>9 DEF EndScreenExact, DeathEndsAlone, EndScreens, TouchTryAgain
  <2>5. PausedIsFrozen'
    BY <1>i, <1>9 DEF PausedIsFrozen, TouchTryAgain
  <2>6. DeathEndsAlone' /\ DeathIsQuiet'
    BY <1>i, <1>9 DEF DeathEndsAlone, DeathIsQuiet, EndScreens, TouchTryAgain
  <2>7. CrashNeedsARace'
    BY <1>i, <1>9 DEF CrashNeedsARace, TouchTryAgain, BetweenFrames
  <2>8. HeartsShowLives'
    BY <1>9 DEF HeartsShowLives, FullHealth, TouchTryAgain, ChangeHealth
  <2>9. QED
    BY <1>t, <2>1, <2>2, <2>3, <2>4, <2>5, <2>6, <2>7, <2>8 DEF IInv
<1>10. CASE TouchLeave
  <2>1. FrameOpen' /\ MonstersStopAtEnd' /\ OnePathEach' /\ LeftIsOver'
    BY <1>i, <1>10 DEF FrameOpen, MonstersStopAtEnd, OnePathEach, LeftIsOver, PausedIsFrozen,
       EndScreenExact, EndScreens, WinScreens, TouchLeave, BetweenFrames
  <2>2. SpawnReach' /\ FirstVerdictStands'
    BY <1>i, <1>10 DEF SpawnReach, FirstVerdictStands, TouchLeave
  <2>3. HitBudget'
    BY <1>i, <1>10 DEF HitBudget, TouchLeave
  <2>4. EndScreenExact'
    BY <1>10 DEF EndScreenExact, TouchLeave
  <2>5. PausedIsFrozen'
    BY <1>10 DEF PausedIsFrozen, TouchLeave
  <2>6. DeathEndsAlone' /\ DeathIsQuiet'
    BY <1>i, <1>10 DEF DeathEndsAlone, DeathIsQuiet, PausedIsFrozen, TouchLeave,
       BetweenFrames, WinScreens
  <2>7. CrashNeedsARace'
    BY <1>10 DEF CrashNeedsARace, TouchLeave
  <2>8. HeartsShowLives'
    BY <1>i, <1>10 DEF HeartsShowLives, TouchLeave
  <2>9. QED
    BY <1>t, <2>1, <2>2, <2>3, <2>4, <2>5, <2>6, <2>7, <2>8 DEF IInv
<1>11. ASSUME NEW s \in EndScreens, ShowEndScreen(s) PROVE IInv'
  <2>1. FrameOpen' /\ MonstersStopAtEnd' /\ OnePathEach' /\ LeftIsOver'
    BY <1>i, <1>11 DEF FrameOpen, MonstersStopAtEnd, OnePathEach, LeftIsOver, ShowEndScreen,
       BetweenFrames, Crash
  <2>2. SpawnReach' /\ FirstVerdictStands'
    BY <1>i, <1>11 DEF SpawnReach, FirstVerdictStands, ShowEndScreen, Crash
  <2>3. HitBudget'
    <3>1. UNCHANGED <<pauseHidden, flags, reach, atSpawn, playerHealth>>
      BY <1>11 DEF ShowEndScreen, Crash
    <3>2. QED
      BY <1>i, <3>1 DEF HitBudget
  <2>4. EndScreenExact'
    BY <1>i, <1>11 DEF EndScreenExact, ShowEndScreen, Due, Crash
  <2>5. PausedIsFrozen'
    BY <1>i, <1>11 DEF PausedIsFrozen, EndScreens, ShowEndScreen, Crash
  <2>6. DeathEndsAlone' /\ DeathIsQuiet'
    BY <1>i, <1>11 DEF DeathEndsAlone, DeathIsQuiet, EndScreens, WinScreens,
       ShowEndScreen, Due, Crash
  <2>7. CrashNeedsARace'
    BY <1>i, <1>11 DEF StageOK, CrashNeedsARace, DeathEndsAlone, DeathIsQuiet,
       PausedIsFrozen, EndScreens, WinScreens, ShowEndScreen, BetweenFrames, Due, Crash
  <2>8. HeartsShowLives'
    BY <1>i, <1>11 DEF HeartsShowLives, ShowEndScreen, Crash
  <2>9. QED
    BY <1>t, <2>1, <2>2, <2>3, <2>4, <2>5, <2>6, <2>7, <2>8 DEF IInv
<1>12. ASSUME NEW s \in EndScreens, LateEndScreen(s) PROVE IInv'
  <2>1. FrameOpen' /\ MonstersStopAtEnd' /\ OnePathEach' /\ LeftIsOver'
    BY <1>i, <1>12 DEF FrameOpen, MonstersStopAtEnd, OnePathEach, LeftIsOver, LateEndScreen, Crash
  <2>2. SpawnReach' /\ FirstVerdictStands'
    BY <1>i, <1>12 DEF SpawnReach, FirstVerdictStands, LateEndScreen, Crash
  <2>3. HitBudget'
    <3>1. UNCHANGED <<pauseHidden, flags, reach, atSpawn, playerHealth>>
      BY <1>12 DEF LateEndScreen, Crash
    <3>2. QED
      BY <1>i, <3>1 DEF HitBudget
  <2>4. EndScreenExact'
    BY <1>12 DEF EndScreenExact, LateEndScreen, Crash
  <2>5. PausedIsFrozen'
    BY <1>12 DEF PausedIsFrozen, LateEndScreen, Crash
  <2>6. DeathEndsAlone' /\ DeathIsQuiet'
    BY <1>i, <1>12 DEF DeathEndsAlone, DeathIsQuiet, EndScreens, LateEndScreen, Crash
  <2>7. CrashNeedsARace'
    BY <1>i, <1>12 DEF CrashNeedsARace, DeathIsQuiet, EndScreens, LateEndScreen, Crash
  <2>8. HeartsShowLives'
    BY <1>i, <1>12 DEF HeartsShowLives, LateEndScreen, Crash
  <2>9. QED
    BY <1>t, <2>1, <2>2, <2>3, <2>4, <2>5, <2>6, <2>7, <2>8 DEF IInv
<1>l. CASE LateFrame
  <2>1. FrameOpen' /\ MonstersStopAtEnd' /\ OnePathEach' /\ LeftIsOver'
    BY <1>i, <1>l DEF FrameOpen, MonstersStopAtEnd, OnePathEach, LeftIsOver, LateFrame,
       Crash
  <2>2. SpawnReach' /\ FirstVerdictStands'
    BY <1>i, <1>l DEF SpawnReach, FirstVerdictStands, LateFrame, Crash
  <2>3. HitBudget'
    <3>1. /\ UNCHANGED <<pauseHidden, reach, atSpawn, playerHealth>>
          /\ flags' = flags \/ flags' = {}
      BY <1>l DEF LateFrame, Crash
    <3>2. QED
      BY <1>i, <3>1 DEF HitBudget
  <2>4. EndScreenExact'
    BY <1>l DEF EndScreenExact, LateFrame, Crash
  <2>5. PausedIsFrozen'
    BY <1>l DEF PausedIsFrozen, LateFrame, Crash
  <2>6. DeathEndsAlone' /\ DeathIsQuiet'
    BY <1>i, <1>l DEF DeathEndsAlone, DeathIsQuiet, LateFrame, Crash
  <2>7. CrashNeedsARace'
    <3>1. CASE EndsRound /\ Crash
      <4>1. UNCHANGED <<isPausing, pauseHidden, flags, pending>>
        BY <3>1 DEF Crash
      <4>2. CASE isPausing
        BY <4>1, <4>2 DEF CrashNeedsARace
      <4>3. CASE ~isPausing
        <5>1. pauseHidden /\ "player" \notin flags
          BY <1>i, <1>l, <4>3 DEF LateFrame, LeftIsOver, FirstVerdictStands
        <5>2. "monster" \in flags => LivesLeft # 0
          BY <1>i, <5>1 DEF HitBudget, LivesLeft
        <5>3. "opponent" \in flags
          BY <3>1, <5>1, <5>2 DEF EndsRound
        <5>4. QED
          BY <4>1, <5>1, <5>3 DEF CrashNeedsARace
      <4>4. QED
        BY <4>2, <4>3
    <3>2. CASE status' = status
      BY <1>l, <3>2 DEF CrashNeedsARace, LateFrame
    <3>3. QED
      BY <1>l, <3>1, <3>2 DEF LateFrame
  <2>8. HeartsShowLives'
    BY <1>i, <1>l DEF HeartsShowLives, LateFrame, Crash
  <2>9. QED
    BY <1>t, <2>1, <2>2, <2>3, <2>4, <2>5, <2>6, <2>7, <2>8 DEF IInv
<1>13. CASE UNCHANGED vars
  BY <1>t, <1>13 DEF IInv, LeftIsOver, FrameOpen, MonstersStopAtEnd, OnePathEach, SpawnReach,
     HitBudget, FirstVerdictStands, EndScreenExact, PausedIsFrozen, DeathEndsAlone,
     DeathIsQuiet, CrashNeedsARace, HeartsShowLives, vars
<1>q. QED
  BY <1>1, <1>2, <1>3, <1>4, <1>5, <1>6, <1>7, <1>8, <1>9, <1>10, <1>11, <1>12, <1>13,
     <1>l DEF Next, Frame

\* The inductive invariant holds of every reachable state.
LEMMA InvCorrect == Spec => []IInv
<1>1. QED
  BY InitInv, InvStep, PTL DEF Spec

----------------------------------------------------------------------------
(* The properties the inductive invariant carries *)

\* The pause button is hidden exactly while an end screen is up or on its way: no ended
\* round without a screen, no screen left to pop up over a running one.
THEOREM EndScreenIsExact == Spec => []EndScreenExact
<1>1. IInv => EndScreenExact
  BY DEF IInv
<1>2. QED
  BY <1>1, InvCorrect, PTL

\* Try Again, which stops nobody, never lets the AI or a monster follow two paths.
THEOREM NoSecondPath == Spec => []OnePathEach
<1>1. IInv => OnePathEach
  BY DEF IInv
<1>2. QED
  BY <1>1, InvCorrect, PTL

\* Nothing moves behind the pause menu and nobody stays frozen after it, also when the
\* round ends behind it.
THEOREM PauseFreezes == Spec => []PausedIsFrozen
<1>1. IInv => PausedIsFrozen
  BY DEF IInv
<1>2. QED
  BY <1>1, InvCorrect, PTL

\* The hearts drawn are the lives left as long as the round runs.
THEOREM HeartsAreLives == Spec => []HeartsShowLives
<1>1. IInv => HeartsShowLives
  BY DEF IInv
<1>2. QED
  BY <1>1, InvCorrect, PTL

\* A death is followed by one "You Died!" screen and by no other.
THEOREM DeathStandsAlone == Spec => []DeathEndsAlone
<1>1. IInv => DeathEndsAlone
  BY DEF IInv
<1>2. QED
  BY <1>1, InvCorrect, PTL

\* After the end of a round the player scores no more.
THEOREM NoSecondWinOfThePlayer == Spec => []FirstVerdictStands
<1>1. IInv => FirstVerdictStands
  BY DEF IInv
<1>2. QED
  BY <1>1, InvCorrect, PTL

\* The program dies only by the pause menu over an ending round, or after the player's
\* win: by the AI playing on, or as the scene is left before the last screen.
THEOREM CrashesAreRaces == Spec => []CrashNeedsARace
<1>1. IInv => CrashNeedsARace
  BY DEF IInv
<1>2. QED
  BY <1>1, InvCorrect, PTL
----------------------------------------------------------------------------
(* GameRound implements Match *)

LEMMA InitMaps == Init => M!Init
<1> SUFFICES ASSUME Init PROVE M!Init
  OBVIOUS
<1>1. On /\ ~Over /\ playerScore = 0 /\ opponentScore = 0 /\ playerHealth = FullHealth
  BY DEF Init, On, Over
<1>2. Points = M!NoPoints
  BY <1>1 DEF Points, M!NoPoints, M!Sides, WinScreens
<1>3. QED
  BY <1>1, <1>2 DEF M!Init, Phase, Lives, Verdict, Announced

\* Steps that leave the round as it is for an onlooker
Stutter == UNCHANGED M!vars

LEMMA SameView ==
  ASSUME UNCHANGED <<status, pauseHidden, scoreVars, playerHealth, pending>>,
         UNCHANGED overlay \/ ~pauseHidden
  PROVE  Stutter
<1>1. (On <=> On') /\ (Over <=> Over')
  BY DEF On, Over
<1>2. UNCHANGED Verdict /\ UNCHANGED Announced
  BY <1>1 DEF Verdict, Announced, Over
<1>3. UNCHANGED <<Phase, Points, Lives>>
  BY <1>1 DEF Phase, Points, Lives, scoreVars
<1>4. QED
  BY <1>2, <1>3 DEF Stutter, M!vars

\* The views of a running and of an ended round
LEMMA RunningView ==
  On => /\ ~Over /\ Phase = "on" /\ Verdict = "none" /\ Announced = FALSE
        /\ Points = [s \in WinScreens |-> IF s = "player" THEN playerScore ELSE opponentScore]
        /\ Lives = playerHealth
  BY DEF On, Over, Phase, Verdict, Announced, Points, Lives

LEMMA EndedView ==
  Over => /\ Phase = "over" /\ Points = M!NoPoints /\ Lives = FullHealth
          /\ Announced <=> overlay \in EndScreens
  BY DEF On, Over, Phase, Announced, Points, Lives, M!NoPoints, M!Sides, WinScreens

LEMMA GoneView ==
  status # "playing" =>
    /\ Phase = "gone" /\ Points = M!NoPoints /\ Lives = FullHealth
    /\ Verdict = "none" /\ Announced = FALSE
  BY DEF On, Over, Phase, Announced, Points, Lives, Verdict, M!NoPoints, M!Sides, WinScreens

\* A round that ends with verdict v, when no other end screen was on its way
LEMMA EndView ==
  ASSUME IInv, On, NEW v \in EndScreens, EndGame, Schedule(v), UNCHANGED <<status, overlay>>
  PROVE  M!End(v)
<1>1. overlay \notin EndScreens /\ \A s \in EndScreens : pending[s] = 0
  <2>1. overlay \notin EndScreens /\ \A s \in EndScreens : ~(pending[s] > 0)
    BY DEF IInv, EndScreenExact, On
  <2>2. \A s \in EndScreens : pending[s] \in Nat
    BY DEF IInv, TypeOK
  <2>3. QED
    BY <2>1, <2>2
<1>2. \A s \in EndScreens : pending'[s] = IF s = v THEN 1 ELSE 0
  BY <1>1 DEF Schedule, IInv, TypeOK
<1>3. Over' /\ overlay' \notin EndScreens
  BY <1>1 DEF EndGame, On, Over
<1>4. Verdict' = v
  BY <1>2, <1>3 DEF Verdict, EndScreens
<1>5. Announced' = FALSE
  BY <1>3 DEF Announced
<1>6. (Phase = "over" /\ Points = M!NoPoints /\ Lives = FullHealth)'
  BY <1>3 DEF On, Over, Phase, Points, Lives, M!NoPoints, M!Sides, WinScreens
<1>7. QED
  BY <1>4, <1>5, <1>6 DEF M!End

LEMMA StepMaps == IInv /\ IInv' /\ [Next]_vars => [M!Next]_(M!vars)
<1> SUFFICES ASSUME IInv, IInv', [Next]_vars PROVE M!Next \/ Stutter
  BY DEF Stutter
<1>i. /\ CountsOK /\ CountsOK' /\ StageOK /\ FrameOpen /\ EndScreenExact /\ DeathEndsAlone
      /\ HitBudget /\ FirstVerdictStands /\ pending \in [EndScreens -> Nat]
      /\ PausedIsFrozen
  BY DEF IInv, TypeOK
<1>1. CASE BeginFrame \/ Walk \/ UNCHANGED vars
  BY <1>1, SameView DEF BeginFrame, Walk, vars, scoreVars, menuVars
<1>2. CASE TouchPause \/ TouchPlay
  BY <1>2, SameView DEF TouchPause, TouchPlay, scoreVars
<1>3. ASSUME NEW c \in SUBSET Flags, DidBegin(c) PROVE Stutter
  BY <1>3, SameView DEF DidBegin, scoreVars, menuVars
<1>4. CASE PlayerCollisionResponse
  <2>1. On /\ status' = status /\ overlay' = overlay
    BY <1>4, <1>i DEF PlayerCollisionResponse, On, FrameOpen, FirstVerdictStands, menuVars
  <2>2. CASE playerScore + 1 = WinScore
    <3>1. EndGame /\ Schedule("player")
      BY <1>4, <2>2 DEF PlayerCollisionResponse
    <3>2. M!End("player")
      BY <2>1, <3>1, EndView DEF EndScreens
    <3>3. Phase = "on" /\ Points["player"] = playerScore
      BY <2>1, RunningView DEF WinScreens
    <3>4. M!Collect("player")
      BY <1>i, <2>2, <3>2, <3>3, WinScoreAssumption DEF M!Collect, CountsOK
    <3>5. QED
      BY <3>4 DEF M!Next, M!Sides
  <2>3. CASE playerScore + 1 # WinScore
    <3>1. /\ playerScore' = playerScore + 1 /\ opponentScore' = opponentScore
          /\ playerHealth' = playerHealth /\ pauseHidden' = pauseHidden
      BY <1>4, <2>3 DEF PlayerCollisionResponse
    <3>2. On' /\ ~Over'
      BY <2>1, <3>1 DEF On, Over
    <3>3. /\ Phase' = Phase /\ Lives' = Lives /\ Verdict' = Verdict /\ Announced' = Announced
      BY <2>1, <3>1, <3>2 DEF On, Over, Phase, Lives, Verdict, Announced
    <3>4. Phase = "on" /\ Points["player"] = playerScore /\ Points["player"] + 1 < WinScore
      BY <1>i, <2>1, <2>3, RunningView, WinScoreAssumption DEF WinScreens, CountsOK
    <3>5. Points' = [Points EXCEPT !["player"] = @ + 1]
      BY <2>1, <3>1, <3>2 DEF Points, WinScreens
    <3>6. QED
      BY <3>3, <3>4, <3>5 DEF M!Next, M!Collect, M!Sides
  <2>4. QED
    BY <2>2, <2>3
<1>5. CASE OpponentCollisionResponse
  <2>1. status = "playing" /\ status' = status /\ overlay' = overlay
    BY <1>5, <1>i DEF OpponentCollisionResponse, FrameOpen, menuVars
  <2>2. CASE pauseHidden
    <3>1. pauseHidden' = TRUE
      BY <1>5, <2>2 DEF OpponentCollisionResponse, EndGame
    <3>2. \A s \in {"died", "player"} : pending'[s] = pending[s]
      BY <1>5, <1>i DEF OpponentCollisionResponse, Schedule, EndScreens
    <3>3. Over /\ Over' /\ ~On /\ ~On'
      BY <2>1, <2>2, <3>1 DEF On, Over
    <3>4. UNCHANGED Verdict /\ UNCHANGED Announced
      BY <2>1, <3>2, <3>3 DEF Verdict, Announced
    <3>5. UNCHANGED <<Phase, Points, Lives>>
      BY <3>3 DEF Phase, Points, Lives
    <3>6. QED
      BY <3>4, <3>5 DEF Stutter, M!vars
  <2>3. CASE ~pauseHidden /\ opponentScore + 1 >= WinScore
    <3>1. EndGame /\ Schedule("opponent") /\ On
      BY <1>i, <1>5, <2>1, <2>3, WinScoreAssumption DEF OpponentCollisionResponse, On, CountsOK
    <3>2. M!End("opponent")
      BY <2>1, <3>1, EndView DEF EndScreens
    <3>3. Phase = "on" /\ Points["opponent"] = opponentScore
      BY <3>1, RunningView DEF WinScreens
    <3>4. QED
      BY <2>3, <3>2, <3>3 DEF M!Collect, M!Next, M!Sides
  <2>4. CASE ~pauseHidden /\ ~(opponentScore + 1 >= WinScore)
    <3>1. /\ opponentScore' = opponentScore + 1 /\ playerScore' = playerScore
          /\ playerHealth' = playerHealth /\ pauseHidden' = pauseHidden
          /\ opponentScore + 1 < WinScore
      BY <1>5, <2>4 DEF OpponentCollisionResponse
    <3>2. On /\ On' /\ ~Over'
      BY <2>1, <2>4, <3>1 DEF On, Over
    <3>3. Phase' = Phase /\ Lives' = Lives /\ Verdict' = Verdict /\ Announced' = Announced
      BY <2>1, <3>1, <3>2 DEF On, Over, Phase, Lives, Verdict, Announced
    <3>4. Phase = "on" /\ Points["opponent"] = opponentScore
      BY <3>2, RunningView DEF WinScreens
    <3>5. Points' = [Points EXCEPT !["opponent"] = @ + 1]
      BY <3>1, <3>2 DEF Points, WinScreens
    <3>6. QED
      BY <3>1, <3>3, <3>4, <3>5 DEF M!Next, M!Collect, M!Sides
  <2>5. QED
    BY <2>2, <2>3, <2>4
<1>6. CASE MonsterCollisionResponse
  <2>1. status = "playing" /\ status' = status /\ overlay' = overlay
    BY <1>6, <1>i DEF MonsterCollisionResponse, FrameOpen, menuVars
  <2>2. CASE pauseHidden
    <3>1. LivesLeft # 0
      BY <1>6, <1>i, <2>2 DEF MonsterCollisionResponse, HitBudget, LivesLeft
    <3>2. pauseHidden' = pauseHidden /\ pending' = pending
      BY <1>6, <3>1 DEF MonsterCollisionResponse
    <3>3. Over /\ Over' /\ ~On /\ ~On'
      BY <2>1, <2>2, <3>2 DEF On, Over
    <3>4. UNCHANGED Verdict /\ UNCHANGED Announced
      BY <2>1, <3>2, <3>3 DEF Verdict, Announced
    <3>5. UNCHANGED <<Phase, Points, Lives>>
      BY <3>3 DEF Phase, Points, Lives
    <3>6. QED
      BY <3>4, <3>5 DEF Stutter, M!vars
  <2>3. CASE ~pauseHidden /\ LivesLeft = 0
    <3>1. EndGame /\ Schedule("died") /\ On
      BY <1>6, <2>1, <2>3 DEF MonsterCollisionResponse, On
    <3>2. M!End("died")
      BY <2>1, <3>1, EndView DEF EndScreens
    <3>3. Phase = "on" /\ Lives = playerHealth
      BY <3>1, RunningView
    <3>4. playerHealth = 1
      BY <1>i, <2>3 DEF LivesLeft, CountsOK, FullHealth
    <3>5. QED
      BY <3>2, <3>3, <3>4 DEF M!Hit, M!Next
  <2>4. CASE ~pauseHidden /\ LivesLeft # 0
    <3>1. /\ playerHealth' = playerHealth - 1 /\ pauseHidden' = pauseHidden
          /\ playerHealth > 1
      BY <1>6, <1>i, <2>4 DEF MonsterCollisionResponse, LivesLeft, CountsOK, FullHealth
    <3>s. playerScore' = playerScore /\ opponentScore' = opponentScore
      BY <1>6, <2>4 DEF MonsterCollisionResponse, scoreVars
    <3>2. On /\ On' /\ ~Over'
      BY <2>1, <2>4, <3>1 DEF On, Over
    <3>3. Phase' = Phase /\ Verdict' = Verdict /\ Announced' = Announced
      BY <2>1, <3>2 DEF On, Over, Phase, Verdict, Announced
    <3>4. Points' = Points
      BY <3>s, <3>2 DEF Points
    <3>5. Phase = "on" /\ Lives = playerHealth /\ Lives' = playerHealth'
      BY <3>2 DEF Phase, Lives
    <3>6. QED
      BY <3>1, <3>3, <3>4, <3>5 DEF M!Next, M!Hit
  <2>5. QED
    BY <2>2, <2>3, <2>4
<1>7. CASE TouchTryAgain
  <2>1. /\ status = "playing" /\ status' = status /\ overlay = "died" /\ overlay' = "none"
        /\ pauseHidden' = FALSE /\ playerScore' = 0 /\ opponentScore' = 0
        /\ playerHealth' = FullHealth
    BY <1>7 DEF TouchTryAgain, BetweenFrames
  <2>2. Over /\ ~On /\ On' /\ ~Over'
    BY <2>1, <1>i DEF EndScreenExact, EndScreens, On, Over
  <2>3. Phase = "over" /\ Announced /\ Verdict = "died"
    BY <2>1, <2>2 DEF Phase, Announced, Verdict, EndScreens
  <2>4. Phase' = "on" /\ Verdict' = "none" /\ Announced' = FALSE
    BY <2>1, <2>2 DEF Phase, Announced, Verdict, EndScreens
  <2>5. Lives' = Lives
    BY <2>1, <2>2 DEF Lives
  <2>6. Points' = Points
    BY <2>1, <2>2 DEF Points, WinScreens
  <2>7. QED
    BY <2>3, <2>4, <2>5, <2>6 DEF M!Next, M!Retry
<1>8. ASSUME status = "playing", status' # "playing" PROVE M!Go
  <2>1. ~On' /\ ~Over'
    BY <1>8 DEF On, Over
  <2>2. Phase' = "gone" /\ Verdict' = "none" /\ Announced' = FALSE /\ Lives' = FullHealth
    BY <2>1 DEF Phase, Verdict, Announced, Lives
  <2>3. Points' = M!NoPoints
    BY <2>1 DEF Points, M!NoPoints, M!Sides, WinScreens
  <2>4. Phase # "gone"
    BY <1>8 DEF Phase, On, Over
  <2>5. QED
    BY <2>2, <2>3, <2>4 DEF M!Go
<1>9. CASE TouchLeave
  BY <1>8, <1>9 DEF TouchLeave, BetweenFrames, M!Next
<1>10. ASSUME NEW s \in EndScreens, ShowEndScreen(s) PROVE M!Next
  <2>1. status = "playing" /\ Due(s)
    BY <1>10 DEF ShowEndScreen, BetweenFrames
  <2>2. CASE overlay # "none"
    BY <1>8, <1>10, <2>1, <2>2 DEF ShowEndScreen, Crash, M!Next
  <2>3. CASE overlay = "none"
    <3>1. /\ status' = status /\ pauseHidden' = pauseHidden /\ overlay' = s
          /\ pending[s] > 0
      BY <1>10, <2>1, <2>3 DEF ShowEndScreen, Due, Crash
    <3>2. Over /\ Over' /\ ~On /\ ~On'
      BY <1>i, <2>1, <3>1 DEF EndScreenExact, On, Over
    <3>3. overlay \notin EndScreens
      BY <2>3 DEF EndScreens
    <3>4. Phase = "over" /\ Announced = FALSE /\ Announced' = TRUE
      BY <3>1, <3>2, <3>3 DEF Phase, Announced
    <3>5. UNCHANGED <<Phase, Points, Lives>>
      BY <3>2 DEF Phase, Points, Lives
    <3>6. Verdict' = s
      BY <3>1, <3>2 DEF Verdict
    <3>7. Verdict = s
      <4>1. CASE s = "died"
        BY <3>1, <3>2, <3>3, <4>1 DEF Verdict
      <4>2. CASE s = "player"
        <5>1. pending["died"] \in Nat /\ ~(pending["died"] > 0)
          BY <1>i, <3>1, <4>2 DEF DeathEndsAlone, EndScreens
        <5>2. QED
          BY <3>1, <3>2, <3>3, <4>2, <5>1 DEF Verdict
      <4>3. CASE s = "opponent"
        <5>1. ~(pending["died"] > 0)
          BY <1>i, <3>1, <4>3 DEF DeathEndsAlone
        <5>2. ~(pending["player"] > 0)
          BY <2>1, <4>3 DEF Due
        <5>3. QED
          BY <3>2, <3>3, <4>3, <5>1, <5>2 DEF Verdict
      <4>4. QED
        BY <4>1, <4>2, <4>3 DEF EndScreens
    <3>8. QED
      BY <3>4, <3>5, <3>6, <3>7 DEF M!Announce, M!Next
  <2>4. QED
    BY <2>2, <2>3
<1>11. ASSUME NEW s \in EndScreens, LateEndScreen(s) PROVE Stutter
  <2>1. status # "playing" /\ status' # "playing"
    BY <1>11 DEF LateEndScreen, Crash
  <2>2. ~On /\ ~Over /\ ~On' /\ ~Over'
    BY <2>1 DEF On, Over
  <2>3. QED
    BY <2>2 DEF Stutter, M!vars, Phase, Points, Lives, Verdict, Announced
<1>l. CASE LateFrame
  <2>1. ~On /\ ~Over /\ ~On' /\ ~Over'
    BY <1>l DEF LateFrame, Crash, On, Over
  <2>2. Stutter
    BY <2>1 DEF Stutter, M!vars, Phase, Points, Lives, Verdict, Announced
  <2>3. QED
    BY <2>2
<1>12. QED
  BY <1>1, <1>2, <1>3, <1>4, <1>5, <1>6, <1>7, <1>9, <1>10, <1>11, <1>l DEF Next, Frame

\* The round implements Match: for every WinScore, whatever the interleaving of frames,
\* touches and delayed blocks, it is a behaviour of the abstract round.
THEOREM RoundImplementsMatch == Spec => ImplementsMatch
<1>1. QED
  BY InitMaps, InvCorrect, StepMaps, PTL DEF Spec, ImplementsMatch, M!Spec
==============================================================================
