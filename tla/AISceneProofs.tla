--------------------------- MODULE AISceneProofs ---------------------------
(***************************************************************************)
(* AIGameScene keeps GameScene's behaviour, and its clock follows the round. *)
(***************************************************************************)
EXTENDS AIScene, GameRoundProofs

\* An action of AIGameScene is an action of GameScene or leaves its state alone
LEMMA StepIsRoundStep == [AINext]_sceneVars => [Next]_vars
<1> SUFFICES ASSUME [AINext]_sceneVars PROVE [Next]_vars
  OBVIOUS
<1>1. CASE RunFrame \/ OnPlayerTrophy \/ OnOpponentTrophy \/ OnMonsterHit \/ EndFrame
  BY <1>1 DEF RunFrame, OnPlayerTrophy, OnOpponentTrophy, OnMonsterHit, EndFrame,
     Next, Frame
<1>2. CASE RunLateFrame \/ WalkOn \/ Pause \/ Play \/ TryAgain \/ Leave \/ Screens
  BY <1>2 DEF RunLateFrame, WalkOn, Pause, Play, TryAgain, Leave, Screens, Next
<1>3. CASE ResignActive \/ DidEnterBackground \/ DidBecomeActive \/ AdLoaded \/ AdClosed
  BY <1>3 DEF ResignActive, DidEnterBackground, DidBecomeActive, AdLoaded, AdClosed
<1>4. CASE UNCHANGED sceneVars
  BY <1>4 DEF sceneVars
<1>5. QED
  BY <1>1, <1>2, <1>3, <1>4 DEF AINext

\* Every override calls the handler it overrides and changes nothing of the round
\* besides: whatever AIGameScene does is a behaviour of GameRound, so all that is
\* proved of the round holds of the solo mode.
THEOREM SceneKeepsTheRound == AISpec => Spec
<1>1. AIInit => Init
  BY DEF AIInit
<1>2. QED
  BY <1>1, StepIsRoundStep, PTL DEF AISpec, Spec

----------------------------------------------------------------------------
(* The inductive invariant of the clock *)

\* The scene's own timer only ticks while the round runs unpaused
SceneClockMeansRunning ==
  status = "playing" /\ clock = "scene" => ~isPausing /\ ~pauseHidden

\* The ad covers a round only once the round is over
AdOnlyAfterEnd == status = "playing" /\ ad = "up" => pauseHidden

\* Leaving for the background stopped the clock, unless it had stopped before
BackgroundClock ==
  status = "playing" /\ app = "background" /\ ~reactivated => orphans = {} /\ clock = "none"

ClockInv ==
  /\ ClockTypeOK
  /\ SceneClockMeansRunning
  /\ AdOnlyAfterEnd
  /\ BackgroundClock
  /\ ClockRunsWithRound
  /\ RunningRoundIsTimed
  /\ SceneClockNeverDangles

LEMMA InitClock == AIInit => ClockInv
  BY DEF AIInit, Init, ClockInv, ClockTypeOK, SceneClockMeansRunning, AdOnlyAfterEnd,
         BackgroundClock, ClockRunsWithRound, RunningRoundIsTimed, SceneClockNeverDangles

LEMMA ClockStep == IInv /\ IInv' /\ ClockInv /\ [AINext]_sceneVars => ClockInv'
<1> SUFFICES ASSUME IInv, IInv', ClockInv, [AINext]_sceneVars PROVE ClockInv'
  OBVIOUS
<1>i. StageOK /\ StageOK' /\ CountsOK /\ FrameOpen /\ PausedIsFrozen /\ EndScreenExact
  BY DEF IInv, TypeOK
<1> USE DEF ClockInv, ClockTypeOK, SceneClockMeansRunning, AdOnlyAfterEnd, BackgroundClock,
            ClockRunsWithRound, RunningRoundIsTimed, SceneClockNeverDangles,
            clockVars, menuVars
<1>1. CASE RunFrame
  BY <1>1 DEF RunFrame, BeginFrame
<1>2. CASE OnPlayerTrophy
  <2>1. UNCHANGED <<status, updating, isPausing, frozen, overlay, app, reactivated>>
    BY <1>2 DEF OnPlayerTrophy, PlayerCollisionResponse
  <2>2. \/ pauseHidden' = TRUE /\ clock' = "none" /\ orphans' = orphans
        \/ pauseHidden' = pauseHidden /\ clock' = clock /\ orphans' = orphans /\ ad' = ad
    BY <1>2 DEF OnPlayerTrophy, PlayerCollisionResponse, StopClockAtEnd, Invalidate,
       EndGame
  <2>3. ad' \in {"none", "loading", "ready", "up"}
    BY <1>2 DEF OnPlayerTrophy, StopClockAtEnd, PresentAd
  <2>4. QED
    BY <1>i, <2>1, <2>2, <2>3 DEF StageOK
<1>3. CASE OnOpponentTrophy
  <2>1. UNCHANGED <<status, updating, isPausing, frozen, overlay, app, reactivated>>
    BY <1>3 DEF OnOpponentTrophy, OpponentCollisionResponse
  <2>2. \/ pauseHidden' = TRUE /\ clock' = "none" /\ orphans' = orphans
        \/ pauseHidden' = pauseHidden /\ clock' = clock /\ orphans' = orphans /\ ad' = ad
    BY <1>3, WinScoreAssumption DEF OnOpponentTrophy, OpponentCollisionResponse,
       StopClockAtEnd, Invalidate, EndGame
  <2>3. ad' \in {"none", "loading", "ready", "up"}
    BY <1>3 DEF OnOpponentTrophy, StopClockAtEnd, PresentAd
  <2>4. QED
    BY <1>i, <2>1, <2>2, <2>3 DEF StageOK
<1>4. CASE OnMonsterHit
  <2>1. UNCHANGED <<status, updating, isPausing, frozen, overlay, app, reactivated>>
    BY <1>4 DEF OnMonsterHit, MonsterCollisionResponse
  <2>2. \/ pauseHidden' = TRUE /\ clock' = "none" /\ orphans' = orphans
        \/ pauseHidden' = pauseHidden /\ clock' = clock /\ orphans' = orphans /\ ad' = ad
    BY <1>4 DEF OnMonsterHit, MonsterCollisionResponse, StopClockAtEnd, Invalidate,
       EndGame
  <2>3. ad' \in {"none", "loading", "ready", "up"}
    BY <1>4 DEF OnMonsterHit, StopClockAtEnd, PresentAd
  <2>4. QED
    BY <1>i, <2>1, <2>2, <2>3 DEF StageOK
<1>5. CASE EndFrame
  BY <1>5 DEF EndFrame, DidBegin
<1>6. CASE WalkOn
  BY <1>6 DEF WalkOn, Walk
<1>7. CASE Pause
  BY <1>7 DEF Pause, TouchPause, Invalidate
<1>8. CASE Play
  BY <1>8 DEF Play, Touchable, TouchPlay, BetweenFrames, Install
<1>9. CASE TryAgain
  BY <1>i, <1>9 DEF StageOK, PausedIsFrozen, EndScreenExact, TryAgain, Touchable,
     TouchTryAgain, BetweenFrames, Install
<1>10. CASE Leave
  BY <1>i, <1>10 DEF StageOK, PausedIsFrozen, EndScreenExact, Leave, TouchLeave,
     BetweenFrames, WinScreens
<1>11. CASE Screens
  BY <1>11 DEF Screens, ShowEndScreen, LateEndScreen, Crash
<1>l. CASE RunLateFrame
  BY <1>l DEF RunLateFrame, LateFrame, Crash
<1>12. CASE ResignActive
  BY <1>12 DEF ResignActive, vars
<1>13. CASE DidEnterBackground
  BY <1>i, <1>13, WinScoreAssumption DEF StageOK, CountsOK, FrameOpen, PausedIsFrozen,
     EndScreenExact, DidEnterBackground, BetweenFrames, OnTop, Invalidate, vars,
     EndScreens, WinScreens
<1>14. CASE DidBecomeActive
  <2>1. /\ status = "playing" /\ app' = "active"
        /\ UNCHANGED <<status, isPausing, pauseHidden, orphans, ad>>
    BY <1>14 DEF DidBecomeActive, BetweenFrames, vars
  <2>2. CASE OnTop
    BY <1>i, <1>14, <2>1, <2>2 DEF DidBecomeActive, OnTop, StageOK
  <2>3. CASE ~OnTop
    <3>1. UNCHANGED <<clock, reactivated>> /\ ad = "up"
      BY <1>14, <2>3 DEF DidBecomeActive, OnTop
    <3>2. pauseHidden
      BY <2>1, <3>1
    <3>3. QED
      BY <2>1, <3>1
  <2>4. QED
    BY <2>2, <2>3
<1>15. CASE AdLoaded
  BY <1>15 DEF AdLoaded, vars
<1>16. CASE AdClosed
  BY <1>16 DEF AdClosed, vars
<1>17. CASE UNCHANGED sceneVars
  BY <1>17 DEF sceneVars, vars
<1>18. QED
  BY <1>1, <1>2, <1>3, <1>4, <1>5, <1>6, <1>7, <1>8, <1>9, <1>10, <1>11,
     <1>12, <1>13, <1>14, <1>15, <1>16, <1>17, <1>l DEF AINext

\* Unless the app was sent away and brought back, exactly one timer is live while the
\* round runs unpaused, and none while it is paused or over (AIGameScene's overrides).
THEOREM ClockFollowsTheRound == AISpec => []ClockRunsWithRound
<1>1. AISpec => []IInv
  BY SceneKeepsTheRound, InvCorrect, PTL
<1>2. AISpec => []ClockInv
  BY InitClock, ClockStep, <1>1, PTL DEF AISpec
<1>3. ClockInv => ClockRunsWithRound
  BY DEF ClockInv
<1>4. QED
  BY <1>2, <1>3, PTL

\* No timer that holds the scene unowned is live once the scene was left, and none is
\* ever lost, whatever the app does meanwhile.
THEOREM SceneClockIsSafe == AISpec => []SceneClockNeverDangles
<1>1. AISpec => []IInv
  BY SceneKeepsTheRound, InvCorrect, PTL
<1>2. AISpec => []ClockInv
  BY InitClock, ClockStep, <1>1, PTL DEF AISpec
<1>3. ClockInv => SceneClockNeverDangles
  BY DEF ClockInv
<1>4. QED
  BY <1>2, <1>3, PTL

\* A round that runs in front of the player is timed, after any number of trips to the
\* background.
THEOREM RunningRoundHasAClock == AISpec => []RunningRoundIsTimed
<1>1. AISpec => []IInv
  BY SceneKeepsTheRound, InvCorrect, PTL
<1>2. AISpec => []ClockInv
  BY InitClock, ClockStep, <1>1, PTL DEF AISpec
<1>3. ClockInv => RunningRoundIsTimed
  BY DEF ClockInv
<1>4. QED
  BY <1>2, <1>3, PTL
=============================================================================
