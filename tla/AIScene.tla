------------------------------ MODULE AIScene ------------------------------
(***************************************************************************)
(* AIGameScene: the round of GameRound with the clock of the solo mode, the *)
(* interstitial ad, and the app's life cycle as AppDelegate handles it.     *)
(* Every override calls the handler of GameScene it overrides, so every     *)
(* action here is an action of GameRound joined with what the override and  *)
(* the delegate do to the clock.                                            *)
(*                                                                          *)
(* `clock' is the repeating Timer the scene's variable `timer' refers to:   *)
(* "scene" was scheduled by the scene and holds it unowned, "delegate" was  *)
(* scheduled by AppDelegate and holds the screen strongly.  A timer that is *)
(* still live when the variable is overwritten stays live: `orphans' holds  *)
(* the kinds that were lost so (how many of a kind does not matter).        *)
(***************************************************************************)
EXTENDS GameRound

VARIABLES
  clock,         \* "none" (invalidated), "scene" or "delegate"
  orphans,       \* kinds of live timers nothing refers to
  app,           \* "active", "inactive" or "background"
  reactivated,   \* applicationDidBecomeActive has run over this screen
  ad             \* the interstitial: "none", "loading", "ready" or "up"

clockVars == <<clock, orphans>>
sceneVars == <<vars, clockVars, app, reactivated, ad>>

ClockTypeOK ==
  /\ clock \in {"none", "scene", "delegate"}
  /\ orphans \subseteq {"scene", "delegate"}
  /\ app \in {"active", "inactive", "background"}
  /\ reactivated \in BOOLEAN
  /\ ad \in {"none", "loading", "ready", "up"}

\* sceneDidLoad starts the clock; the ad is requested on the toss of a coin
AIInit == /\ Init
          /\ clock = "scene" /\ orphans = {}
          /\ app = "active" /\ reactivated = FALSE
          /\ ad \in {"none", "loading"}

----------------------------------------------------------------------------
\* Variants: the timer is not stopped; the clock is not restarted
KeepTicking == UNCHANGED clockVars
NotInstalled(kind) == UNCHANGED clockVars

\* timer.invalidate()
Invalidate == clock' = "none" /\ UNCHANGED orphans

\* timer = Timer.scheduledTimer(...): a live timer it referred to is not stopped
Install(kind) ==
  /\ clock' = kind
  /\ orphans' = IF clock = "none" THEN orphans ELSE orphans \cup {clock}

\* presentAd: shown when it is loaded; it is loaded at most once
PresentAd == ad' = IF ad = "ready" THEN "up" ELSE ad

\* What onPlayerWin, onMonsterWin and checkOpponentWin add when the round ends
StopClockAtEnd(ends) ==
  \/ ends /\ Invalidate /\ PresentAd
  \/ ~ends /\ UNCHANGED <<clockVars, ad>>

OnPlayerTrophy ==
  /\ PlayerCollisionResponse
  /\ StopClockAtEnd(playerScore + 1 = WinScore)
  /\ UNCHANGED <<app, reactivated>>

OnOpponentTrophy ==
  /\ OpponentCollisionResponse
  /\ StopClockAtEnd(opponentScore + 1 >= WinScore)
  /\ UNCHANGED <<app, reactivated>>

OnMonsterHit ==
  /\ MonsterCollisionResponse
  /\ StopClockAtEnd(LivesLeft = 0)
  /\ UNCHANGED <<app, reactivated>>

\* SpriteKit renders, and the display link moves the player, in an active app only
RunFrame == /\ BeginFrame /\ app = "active"
            /\ UNCHANGED <<clockVars, app, reactivated, ad>>
EndFrame == /\ \E contacts \in SUBSET Flags : DidBegin(contacts)
            /\ UNCHANGED <<clockVars, app, reactivated, ad>>
RunLateFrame == /\ LateFrame /\ app = "active"
                /\ UNCHANGED <<clockVars, app, reactivated, ad>>
WalkOn == /\ Walk /\ app = "active"
          /\ UNCHANGED <<clockVars, app, reactivated, ad>>

\* Touches reach the scene in an active app with no ad over it
Touchable == app = "active" /\ ad # "up"

Pause == /\ Touchable /\ TouchPause
         /\ Invalidate
         /\ UNCHANGED <<app, reactivated, ad>>
Play == /\ Touchable /\ TouchPlay
        /\ Install("scene")
        /\ UNCHANGED <<app, reactivated, ad>>
TryAgain == /\ Touchable /\ TouchTryAgain
            /\ Install("scene")
            /\ UNCHANGED <<app, reactivated, ad>>
Leave == /\ Touchable /\ TouchLeave
         /\ UNCHANGED <<clockVars, app, reactivated, ad>>

Screens == /\ \E screen \in EndScreens : ShowEndScreen(screen) \/ LateEndScreen(screen)
           /\ UNCHANGED <<clockVars, app, reactivated, ad>>

----------------------------------------------------------------------------
(* The app's life cycle, between frames.  The delegate acts only while the   *)
(* game screen is the topmost one: not under an ad                           *)
OnTop == ad # "up"

\* applicationWillResignActive does nothing
ResignActive ==
  /\ BetweenFrames /\ app = "active"
  /\ app' = "inactive"
  /\ UNCHANGED <<vars, clockVars, reactivated, ad>>

DidEnterBackground ==
  /\ BetweenFrames /\ app = "inactive"
  /\ app' = "background"
  /\ \/ OnTop /\ Invalidate
     \/ ~OnTop /\ UNCHANGED clockVars
  /\ UNCHANGED <<vars, reactivated, ad>>

\* The old timer is invalidated and a new one scheduled, whatever the round is doing
DidBecomeActive ==
  /\ BetweenFrames /\ app # "active"
  /\ app' = "active"
  /\ \/ OnTop /\ clock' = "delegate" /\ reactivated' = TRUE
     \/ ~OnTop /\ UNCHANGED <<clock, reactivated>>
  /\ UNCHANGED <<vars, orphans, ad>>

\* The ad network's side
AdLoaded == /\ BetweenFrames /\ ad = "loading"
            /\ ad' = "ready"
            /\ UNCHANGED <<vars, clockVars, app, reactivated>>
AdClosed == /\ BetweenFrames /\ ad = "up"
            /\ ad' = "none"
            /\ UNCHANGED <<vars, clockVars, app, reactivated>>

----------------------------------------------------------------------------
AINext ==
  \/ RunFrame \/ OnPlayerTrophy \/ OnOpponentTrophy \/ OnMonsterHit \/ EndFrame
  \/ RunLateFrame
  \/ WalkOn \/ Pause \/ Play \/ TryAgain \/ Leave \/ Screens
  \/ ResignActive \/ DidEnterBackground \/ DidBecomeActive
  \/ AdLoaded \/ AdClosed

AISpec == AIInit /\ [][AINext]_sceneVars

----------------------------------------------------------------------------
(* Properties *)

\* As long as the app was not sent away and brought back, exactly one timer is live
\* while the round runs unpaused, and none while it is paused or over.
ClockRunsWithRound ==
  status = "playing" /\ ~reactivated /\ app # "background" =>
    /\ orphans = {}
    /\ clock = IF isPausing \/ pauseHidden THEN "none" ELSE "scene"

\* A round that runs in front of the player is always timed, also after any number of
\* trips to the background.
RunningRoundIsTimed ==
  status = "playing" /\ app = "active" /\ ~isPausing /\ ~pauseHidden => clock # "none"

\* The scene's own timers hold it unowned: none is live once the scene was left, and
\* none is ever lost, so no tick touches a scene that is gone.
SceneClockNeverDangles ==
  /\ "scene" \notin orphans
  /\ status = "left" => clock # "scene"

\* Coming back from the background only undoes what leaving for it did: a paused
\* round's clock, stopped before, stays stopped.
PausedClockStaysStopped == status = "playing" /\ isPausing => clock = "none"
=============================================================================
