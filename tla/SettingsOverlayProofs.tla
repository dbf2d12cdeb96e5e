----------------------- MODULE SettingsOverlayProofs -----------------------
(***************************************************************************)
(* The settings never take the menu away for good, and a player who lets    *)
(* each transition finish plays the round of GameRound.                     *)
(***************************************************************************)
EXTENDS SettingsOverlay, TLAPS

----------------------------------------------------------------------------
(* What the invariants rest on *)

\* The queues the properties look at
QueuesOK == due \in Seq({"add", "show"}) /\ pending \in [EndScreens -> Nat]

StrandedInv == QueuesOK /\ NeverStranded

LEMMA StrandedInit == SettingsInit => StrandedInv
  BY DEF SettingsInit, Init, StrandedInv, QueuesOK, NeverStranded

\* An end screen that is scheduled shows: the counter of its blocks changes
LEMMA ScheduleChanges ==
  ASSUME pending \in [EndScreens -> Nat], NEW screen \in EndScreens, Schedule(screen)
  PROVE  pending' # pending /\ pending' \in [EndScreens -> Nat]
<1>1. pending'[screen] = pending[screen] + 1 /\ pending[screen] \in Nat
  BY DEF Schedule
<1>2. pending' \in [EndScreens -> Nat]
  BY DEF Schedule
<1>3. QED
  BY <1>1, <1>2

\* The pause button is hidden by the ends that schedule a screen, and by nothing else
\* the collisions do
LEMMA ResponsesEnd ==
  ASSUME pending \in [EndScreens -> Nat],
         PlayerCollisionResponse \/ OpponentCollisionResponse \/ MonsterCollisionResponse
  PROVE  /\ pending' \in [EndScreens -> Nat]
         /\ UNCHANGED <<status, overlay, isPausing>>
         /\ \/ pauseHidden' = TRUE /\ pending' # pending
            \/ UNCHANGED <<pauseHidden, pending>>
<1> USE DEF menuVars, EndScreens
<1>1. CASE PlayerCollisionResponse
  BY <1>1, ScheduleChanges DEF PlayerCollisionResponse, EndGame
<1>2. CASE OpponentCollisionResponse
  BY <1>2, ScheduleChanges DEF OpponentCollisionResponse, EndGame
<1>3. CASE MonsterCollisionResponse
  BY <1>3, ScheduleChanges DEF MonsterCollisionResponse, EndGame
<1>4. QED
  BY <1>1, <1>2, <1>3

\* What else the round does leaves the pause button alone, and puts a screen on an empty
\* darkBackground only
LEMMA RoundRunsQuietly ==
  ASSUME pending \in [EndScreens -> Nat],
         BeginFrame \/ FollowContacts \/ Walk
           \/ \E screen \in EndScreens : ShowEndScreen(screen)
  PROVE  /\ pending' \in [EndScreens -> Nat]
         /\ UNCHANGED pauseHidden
         /\ \/ status' = "crashed"
            \/ /\ UNCHANGED <<status, isPausing>>
               /\ overlay' = overlay \/ overlay = "none"
<1>1. CASE BeginFrame \/ Walk
  BY <1>1 DEF BeginFrame, Walk, menuVars
<1>2. CASE FollowContacts
  BY <1>2 DEF FollowContacts, DidBegin, menuVars
<1>3. CASE \E screen \in EndScreens : ShowEndScreen(screen)
  BY <1>3 DEF ShowEndScreen, Crash, BetweenFrames, Due, menuVars
<1>4. QED
  BY <1>1, <1>2, <1>3

----------------------------------------------------------------------------
(* Nobody is stranded *)

LEMMA StrandedStep == StrandedInv /\ [SettingsNext]_overlayVars => StrandedInv'
<1> SUFFICES ASSUME StrandedInv, [SettingsNext]_overlayVars PROVE StrandedInv'
  OBVIOUS
<1> USE DEF StrandedInv, QueuesOK, NeverStranded, settingsVars, historyVars
<1>1. CASE RoundRuns
  BY <1>1, RoundRunsQuietly DEF RoundRuns
<1>2. CASE RoundMayEnd
  <2>1. UNCHANGED <<labels, returnHidden, due>>
    BY <1>2 DEF RoundMayEnd
  <2>2. over \/ pending' # pending => over'
    BY <1>2, Zenon DEF RoundMayEnd
  <2>3. PlayerCollisionResponse \/ OpponentCollisionResponse \/ MonsterCollisionResponse
    BY <1>2 DEF RoundMayEnd
  <2>4. /\ pending' \in [EndScreens -> Nat] /\ UNCHANGED status
        /\ \/ pauseHidden' = TRUE /\ pending' # pending
           \/ UNCHANGED <<pauseHidden, pending>>
    BY <2>3, ResponsesEnd
  <2>5. pauseHidden' => pauseHidden \/ pending' # pending
    BY <2>4, Zenon
  <2>6. NeverStranded'
    BY <2>1, <2>2, <2>4, <2>5, Zenon
  <2>7. QED
    BY <2>1, <2>4, <2>6
<1>3. CASE PauseTouched
  BY <1>3 DEF PauseTouched, TouchPause, Crash
<1>4. CASE PlayTouched
  BY <1>4 DEF PlayTouched, TouchPlay
<1>5. CASE TryAgainTouched
  BY <1>5 DEF TryAgainTouched, TouchTryAgain
<1>6. CASE LeaveTouched
  BY <1>6 DEF LeaveTouched, TouchLeave
<1>7. CASE GoToSettings
  BY <1>7 DEF GoToSettings
<1>8. CASE ExitSettings
  BY <1>8 DEF ExitSettings, vars
<1>9. CASE AddLabels
  BY <1>9 DEF AddLabels, Crash, vars
<1>10. CASE ShowMenu
  BY <1>10 DEF ShowMenu
<1>11. CASE LateBlock
  BY <1>11 DEF LateBlock, LateEndScreen, LateFrame, Crash, vars
<1>12. CASE UNCHANGED overlayVars
  BY <1>12 DEF overlayVars, vars
<1>13. QED
  BY <1>1, <1>2, <1>3, <1>4, <1>5, <1>6, <1>7, <1>8, <1>9, <1>10, <1>11, <1>12
  DEF SettingsNext

\* However the touches on "Settings" and "Back" fall between their delayed blocks, a
\* hidden way out of the menu comes back (goToSettings, exitSettings).
THEOREM NobodyIsStranded == SettingsSpec => []NeverStranded
<1>1. StrandedInv => NeverStranded
  BY DEF StrandedInv
<1>2. QED
  BY StrandedInit, StrandedStep, <1>1, PTL DEF SettingsSpec

----------------------------------------------------------------------------
(* Calm settings stay in the pause menu *)

StayInv == QueuesOK /\ SettingsStayInPause

LEMMA StayInit == SettingsInit => StayInv
  BY DEF SettingsInit, Init, StayInv, QueuesOK, SettingsStayInPause

LEMMA StayStep == StayInv /\ [SettingsNext]_overlayVars => StayInv'
<1> SUFFICES ASSUME StayInv, [SettingsNext]_overlayVars PROVE StayInv'
  OBVIOUS
<1> USE DEF StayInv, QueuesOK, SettingsStayInPause, settingsVars, historyVars
<1>1. CASE RoundRuns
  BY <1>1, RoundRunsQuietly DEF RoundRuns
<1>2. CASE RoundMayEnd
  BY <1>2, ResponsesEnd DEF RoundMayEnd
<1>3. CASE PauseTouched
  BY <1>3 DEF PauseTouched, TouchPause, Crash
<1>4. CASE PlayTouched
  BY <1>4 DEF PlayTouched, TouchPlay
<1>5. CASE TryAgainTouched
  BY <1>5 DEF TryAgainTouched, TouchTryAgain
<1>6. CASE LeaveTouched
  BY <1>6 DEF LeaveTouched, TouchLeave
<1>7. CASE GoToSettings
  <2>1. calm' => calm /\ due = << >> /\ ~labels
    BY <1>7, Zenon DEF GoToSettings
  <2>2. QED
    BY <1>7, <2>1 DEF GoToSettings, menuVars
<1>8. CASE ExitSettings
  BY <1>8 DEF ExitSettings, vars, menuVars
<1>9. CASE AddLabels
  BY <1>9 DEF AddLabels, Crash, vars, menuVars
<1>10. CASE ShowMenu
  BY <1>10 DEF ShowMenu, menuVars
<1>11. CASE LateBlock
  <2>1. status' # "playing"
    BY <1>11 DEF LateBlock, LateEndScreen, LateFrame, Crash, vars
  <2>2. QueuesOK'
    BY <1>11 DEF LateBlock, LateEndScreen, LateFrame, Crash, vars
  <2>3. QED
    BY <2>1, <2>2
<1>12. CASE UNCHANGED overlayVars
  BY <1>12 DEF overlayVars, vars, menuVars
<1>13. QED
  BY <1>1, <1>2, <1>3, <1>4, <1>5, <1>6, <1>7, <1>8, <1>9, <1>10, <1>11, <1>12
  DEF SettingsNext

\* Settings opened from a settled menu are never seen over the running game, and at most
\* one of their blocks is on its way.
THEOREM CalmSettingsStay == SettingsSpec => []SettingsStayInPause
<1>1. StayInv => SettingsStayInPause
  BY DEF StayInv
<1>2. QED
  BY StayInit, StayStep, <1>1, PTL DEF SettingsSpec

----------------------------------------------------------------------------
(* Calm settings change nothing about the round *)

\* What GameRoundProofs proves, with the end of the round read as the pause button
RP == INSTANCE GameRoundProofs WITH pauseHidden <- over

\* What the round knows of itself, as long as the settings are calm
CalmRound == calm => RP!IInv

\* The pause button is hidden by the end of the round or by the settings, and these
\* stand over a round that goes on; what was left has no block of theirs coming
CalmButton ==
  calm =>
    /\ status = "playing" => (pauseHidden <=> over \/ labels \/ due # << >>)
    /\ status = "playing" /\ isPausing => ~over
    /\ status = "left" => due = << >>

CalmInv == StayInv /\ CalmRound /\ CalmButton

\* The two instances of GameRound name the same steps
LEMMA SameStep == [Round!Next]_(Round!vars) => [RP!Next]_(RP!vars)
<1> USE DEF Round!scoreVars, RP!scoreVars, Round!labelVars, RP!labelVars,
            Round!motionVars, RP!motionVars, Round!menuVars, RP!menuVars,
            Round!Flags, RP!Flags, Round!EndScreens, RP!EndScreens,
            Round!FullHealth, RP!FullHealth
<1>1. Round!BeginFrame => RP!BeginFrame
  BY DEF Round!BeginFrame, RP!BeginFrame
<1>2. Round!PlayerCollisionResponse => RP!PlayerCollisionResponse
  BY DEF Round!PlayerCollisionResponse, Round!RelocateTrophy, Round!EndGame,
     Round!Schedule, Round!RestartAI, RP!PlayerCollisionResponse, RP!RelocateTrophy,
     RP!EndGame, RP!Schedule, RP!RestartAI
<1>3. Round!OpponentCollisionResponse => RP!OpponentCollisionResponse
  BY DEF Round!OpponentCollisionResponse, Round!RelocateTrophy, Round!EndGame,
     Round!Schedule, Round!RestartAI, RP!OpponentCollisionResponse, RP!RelocateTrophy,
     RP!EndGame, RP!Schedule, RP!RestartAI
<1>4. Round!MonsterCollisionResponse => RP!MonsterCollisionResponse
  BY DEF Round!MonsterCollisionResponse, Round!ChangeHealth, Round!HittingMonster,
     Round!LivesLeft, Round!EndGame, Round!Schedule, RP!MonsterCollisionResponse,
     RP!ChangeHealth, RP!HittingMonster, RP!LivesLeft, RP!EndGame, RP!Schedule
<1>5. Round!Walk => RP!Walk
  BY DEF Round!Walk, Round!BetweenFrames, RP!Walk, RP!BetweenFrames
<1>6. Round!TouchPause => RP!TouchPause
  BY DEF Round!TouchPause, Round!BetweenFrames, RP!TouchPause, RP!BetweenFrames
<1>7. Round!TouchPlay => RP!TouchPlay
  BY DEF Round!TouchPlay, Round!BetweenFrames, RP!TouchPlay, RP!BetweenFrames
<1>8. Round!TouchTryAgain => RP!TouchTryAgain
  BY DEF Round!TouchTryAgain, Round!BetweenFrames, Round!ChangeHealth, RP!TouchTryAgain,
     RP!BetweenFrames, RP!ChangeHealth
<1>9. Round!TouchLeave => RP!TouchLeave
  BY DEF Round!TouchLeave, Round!BetweenFrames, Round!WinScreens, RP!TouchLeave,
     RP!BetweenFrames, RP!WinScreens
<1>10. ASSUME NEW contacts \in SUBSET Flags, Round!DidBegin(contacts)
       PROVE  RP!DidBegin(contacts)
  BY <1>10 DEF Round!DidBegin, Round!Touching, RP!DidBegin, RP!Touching
<1>11. ASSUME NEW screen \in EndScreens, Round!ShowEndScreen(screen)
       PROVE  RP!ShowEndScreen(screen)
  BY <1>11 DEF Round!ShowEndScreen, Round!BetweenFrames, Round!Due, Round!Crash,
     RP!ShowEndScreen, RP!BetweenFrames, RP!Due, RP!Crash
<1>12. ASSUME NEW screen \in EndScreens, Round!LateEndScreen(screen)
       PROVE  RP!LateEndScreen(screen)
  BY <1>12 DEF Round!LateEndScreen, Round!Crash, RP!LateEndScreen, RP!Crash
<1>l. Round!LateFrame => RP!LateFrame
  BY DEF Round!LateFrame, Round!EndsRound, Round!LivesLeft, Round!Crash, RP!LateFrame,
     RP!EndsRound, RP!LivesLeft, RP!Crash
<1>13. Round!Next => RP!Next
  BY <1>1, <1>2, <1>3, <1>4, <1>5, <1>6, <1>7, <1>8, <1>9, <1>10, <1>11, <1>12, <1>l
  DEF Round!Next, RP!Next, Round!Frame, RP!Frame, Flags, EndScreens
<1>14. UNCHANGED Round!vars => UNCHANGED RP!vars
  BY DEF Round!vars, RP!vars
<1>15. QED
  BY <1>13, <1>14

LEMMA CalmRoundStep ==
  ASSUME RP!IInv, [Round!Next]_(Round!vars)
  PROVE  RP!IInv'
<1>1. RP!WinScoreAssumption
  BY WinScoreAssumption DEF RP!WinScoreAssumption
<1>2. QED
  BY <1>1, SameStep, RP!InvStep

\* An action of the round that leaves the pause button alone is one of the round whose
\* end is `over', when it leaves that alone too
LEMMA QuietActions ==
  ASSUME UNCHANGED over
  PROVE  /\ BeginFrame => Round!BeginFrame
         /\ Walk => Round!Walk
         /\ \A contacts \in SUBSET Flags : DidBegin(contacts) => Round!DidBegin(contacts)
         /\ \A screen \in EndScreens :
              /\ ShowEndScreen(screen) => Round!ShowEndScreen(screen)
              /\ LateEndScreen(screen) => Round!LateEndScreen(screen)
         /\ TouchLeave => Round!TouchLeave
         /\ LateFrame => Round!LateFrame
         /\ ~over => (TouchPause => Round!TouchPause) /\ (TouchPlay => Round!TouchPlay)
<1> USE DEF scoreVars, Round!scoreVars, labelVars, Round!labelVars, motionVars,
            Round!motionVars, menuVars, Round!menuVars, BetweenFrames, Round!BetweenFrames
<1>1. BeginFrame => Round!BeginFrame
  BY DEF BeginFrame, Round!BeginFrame
<1>2. Walk => Round!Walk
  BY DEF Walk, Round!Walk
<1>3. ASSUME NEW contacts \in SUBSET Flags, DidBegin(contacts)
      PROVE  Round!DidBegin(contacts)
  BY <1>3 DEF DidBegin, Round!DidBegin, Touching, Round!Touching
<1>4. ASSUME NEW screen \in EndScreens, ShowEndScreen(screen)
      PROVE  Round!ShowEndScreen(screen)
  BY <1>4 DEF ShowEndScreen, Round!ShowEndScreen, Due, Round!Due, Crash, Round!Crash
<1>5. ASSUME NEW screen \in EndScreens, LateEndScreen(screen)
      PROVE  Round!LateEndScreen(screen)
  BY <1>5 DEF LateEndScreen, Round!LateEndScreen, Crash, Round!Crash
<1>6. TouchLeave => Round!TouchLeave
  BY DEF TouchLeave, Round!TouchLeave, WinScreens, Round!WinScreens
<1>l. LateFrame => Round!LateFrame
  BY DEF LateFrame, Round!LateFrame, EndsRound, Round!EndsRound, LivesLeft,
     Round!LivesLeft, Crash, Round!Crash
<1>7. ~over => (TouchPause => Round!TouchPause)
  BY DEF TouchPause, Round!TouchPause
<1>8. ~over => (TouchPlay => Round!TouchPlay)
  BY DEF TouchPlay, Round!TouchPlay
<1>9. QED
  BY <1>1, <1>2, <1>3, <1>4, <1>5, <1>6, <1>7, <1>8, <1>l

\* A collision that ends the round ends it in both readings
LEMMA EndingActions ==
  ASSUME pending \in [EndScreens -> Nat],
         over \in BOOLEAN, over' = (over \/ pending' # pending),
         PlayerCollisionResponse \/ OpponentCollisionResponse \/ MonsterCollisionResponse
  PROVE  \/ Round!PlayerCollisionResponse \/ Round!OpponentCollisionResponse
         \/ Round!MonsterCollisionResponse
<1> USE DEF scoreVars, Round!scoreVars, labelVars, Round!labelVars, motionVars,
            Round!motionVars, menuVars, Round!menuVars, EndScreens, RelocateTrophy,
            Round!RelocateTrophy, RestartAI, Round!RestartAI, FullHealth,
            Round!FullHealth
<1>1. pending' # pending => over' = TRUE
  BY Zenon
<1>2. pending' = pending => over' = over
  BY Zenon
<1>3. \A screen \in EndScreens : Schedule(screen) => pending' # pending
  BY ScheduleChanges
<1>4. \A screen \in EndScreens : EndGame /\ Schedule(screen)
                                   => Round!EndGame /\ Round!Schedule(screen)
  BY <1>1, <1>3 DEF EndGame, Round!EndGame, Schedule, Round!Schedule
<1>5. CASE PlayerCollisionResponse
  BY <1>2, <1>4, <1>5 DEF PlayerCollisionResponse, Round!PlayerCollisionResponse
<1>6. CASE OpponentCollisionResponse
  BY <1>2, <1>4, <1>6 DEF OpponentCollisionResponse, Round!OpponentCollisionResponse
<1>7. CASE MonsterCollisionResponse
  BY <1>2, <1>4, <1>7 DEF MonsterCollisionResponse, Round!MonsterCollisionResponse,
     LivesLeft, Round!LivesLeft, HittingMonster, Round!HittingMonster, ChangeHealth,
     Round!ChangeHealth
<1>8. QED
  BY <1>5, <1>6, <1>7

\* What the round knows of its menu
LEMMA RoundFacts ==
  ASSUME RP!IInv
  PROVE  /\ over \in BOOLEAN
         /\ overlay \in {"none", "pause"} \cup EndScreens
         /\ updating => status = "playing"
         /\ status = "playing" => /\ isPausing <=> overlay = "pause"
                                  /\ overlay \in EndScreens => over
<1>1. RP!StageOK /\ RP!FrameOpen /\ RP!PausedIsFrozen /\ RP!EndScreenExact
  BY DEF RP!IInv, RP!TypeOK
<1>2. over \in BOOLEAN /\ overlay \in {"none", "pause"} \cup EndScreens
  BY <1>1 DEF RP!StageOK, RP!EndScreens, EndScreens
<1>3. updating => status = "playing"
  BY <1>1 DEF RP!FrameOpen
<1>4. status = "playing" => (isPausing <=> overlay = "pause")
  BY <1>1 DEF RP!PausedIsFrozen
<1>5. status = "playing" => (overlay \in EndScreens => over)
  BY <1>1 DEF RP!EndScreenExact, RP!EndScreens, EndScreens
<1>6. QED
  BY <1>2, <1>3, <1>4, <1>5

\* A step after which the settings are still calm is one of the round
LEMMA CalmStep ==
  ASSUME CalmInv, calm', [SettingsNext]_overlayVars
  PROVE  calm /\ [Round!Next]_(Round!vars)
<1> USE DEF settingsVars, historyVars
<1>1. calm
  BY Zenon DEF SettingsNext, RoundRuns, RoundMayEnd, PauseTouched, PlayTouched,
     TryAgainTouched, LeaveTouched, GoToSettings, ExitSettings, AddLabels, ShowMenu,
     LateBlock, overlayVars
<1>2. RP!IInv /\ QueuesOK
  BY <1>1 DEF CalmInv, CalmRound, StayInv
<1>3. /\ status = "playing" => (pauseHidden <=> over \/ labels \/ due # << >>)
      /\ status = "playing" /\ isPausing => ~over
      /\ status = "left" => due = << >>
  BY <1>1 DEF CalmInv, CalmButton
<1>4. status = "playing" =>
        /\ labels \/ due # << >> => overlay = "pause" /\ pauseHidden /\ returnHidden
        /\ Len(due) <= (IF labels THEN 0 ELSE 1)
  BY <1>1 DEF CalmInv, StayInv, SettingsStayInPause
<1>5. CASE RoundRuns
  BY <1>5, QuietActions DEF RoundRuns, FollowContacts, Round!Next, Round!Frame, Flags,
     Round!Flags, EndScreens, Round!EndScreens
<1>6. CASE RoundMayEnd
  BY <1>6, <1>2, RoundFacts, EndingActions DEF RoundMayEnd, QueuesOK, Round!Next,
     Round!Frame
<1>7. CASE PauseTouched
  <2>1. BetweenFrames /\ ~pauseHidden /\ ~isPausing
    BY <1>7 DEF PauseTouched, TouchPause
  <2>2. status = "playing" /\ ~over
    BY <2>1, <1>3 DEF BetweenFrames
  <2>3. overlay = "none"
    BY <2>1, <2>2, <1>2, RoundFacts
  <2>4. TouchPause /\ UNCHANGED over
    BY <1>7, <2>3 DEF PauseTouched
  <2>5. QED
    BY <1>1, <2>2, <2>4, QuietActions DEF Round!Next
<1>8. CASE PlayTouched
  <2>1. TouchPlay /\ UNCHANGED over
    BY <1>8 DEF PlayTouched
  <2>2. ~over
    BY <2>1, <1>3 DEF TouchPlay, BetweenFrames
  <2>3. QED
    BY <1>1, <2>1, <2>2, QuietActions DEF Round!Next
<1>9. CASE TryAgainTouched
  <2>1. Round!TouchTryAgain
    BY <1>9 DEF TryAgainTouched, TouchTryAgain, Round!TouchTryAgain, BetweenFrames,
       Round!BetweenFrames, ChangeHealth, Round!ChangeHealth, FullHealth,
       Round!FullHealth, labelVars, Round!labelVars
  <2>2. QED
    BY <1>1, <2>1 DEF Round!Next
<1>10. CASE LeaveTouched
  BY <1>10, QuietActions DEF LeaveTouched, Round!Next
<1>11. CASE GoToSettings
  BY <1>11 DEF GoToSettings, Round!vars, scoreVars, Round!scoreVars, labelVars,
     Round!labelVars, motionVars, Round!motionVars, menuVars, Round!menuVars
<1>12. CASE ExitSettings
  BY <1>12 DEF ExitSettings, vars, Round!vars, scoreVars, Round!scoreVars, labelVars,
     Round!labelVars, motionVars, Round!motionVars, menuVars, Round!menuVars
<1>13. CASE AddLabels
  <2>1. ~labels
    BY <1>13, <1>2, <1>4 DEF AddLabels, BetweenFrames, QueuesOK
  <2>2. QED
    BY <1>13, <2>1 DEF AddLabels, vars, Round!vars, scoreVars, Round!scoreVars,
       labelVars, Round!labelVars, motionVars, Round!motionVars, menuVars, Round!menuVars
<1>14. CASE ShowMenu
  BY <1>14 DEF ShowMenu, Round!vars, scoreVars, Round!scoreVars, labelVars,
     Round!labelVars, motionVars, Round!motionVars, menuVars, Round!menuVars
<1>15. CASE LateBlock
  BY <1>15, <1>3, QuietActions DEF LateBlock, Round!Next, EndScreens, Round!EndScreens
<1>16. CASE UNCHANGED overlayVars
  BY <1>16 DEF overlayVars, vars, Round!vars, scoreVars, Round!scoreVars,
     labelVars, Round!labelVars, motionVars, Round!motionVars, menuVars, Round!menuVars
<1>17. QED
  BY <1>1, <1>5, <1>6, <1>7, <1>8, <1>9, <1>10, <1>11, <1>12, <1>13, <1>14, <1>15, <1>16
  DEF SettingsNext

LEMMA CalmButtonStep ==
  ASSUME CalmInv, calm', [SettingsNext]_overlayVars
  PROVE  CalmButton'
<1> USE DEF CalmButton, settingsVars, historyVars
<1>1. calm /\ RP!IInv /\ QueuesOK
  BY CalmStep DEF CalmInv, CalmRound, StayInv
<1>2. /\ status = "playing" => (pauseHidden <=> over \/ labels \/ due # << >>)
      /\ status = "playing" /\ isPausing => ~over
      /\ status = "left" => due = << >>
  BY <1>1 DEF CalmInv
<1>3. status = "playing" =>
        /\ labels \/ due # << >> => overlay = "pause" /\ pauseHidden /\ returnHidden
        /\ Len(due) <= (IF labels THEN 0 ELSE 1)
  BY <1>1 DEF CalmInv, StayInv, SettingsStayInPause
<1>4. status = "playing" => (isPausing <=> overlay = "pause")
  BY <1>1, RoundFacts
<1>5. CASE RoundRuns
  BY <1>1, <1>2, <1>5, RoundRunsQuietly DEF RoundRuns, QueuesOK
<1>6. CASE RoundMayEnd
  BY <1>1, <1>2, <1>6, ResponsesEnd DEF RoundMayEnd, QueuesOK
<1>7. CASE PauseTouched
  BY <1>1, <1>2, <1>7 DEF PauseTouched, TouchPause, Crash, menuVars
<1>8. CASE PlayTouched
  BY <1>1, <1>2, <1>8 DEF PlayTouched, TouchPlay
<1>9. CASE TryAgainTouched
  BY <1>1, <1>2, <1>3, <1>9 DEF TryAgainTouched, TouchTryAgain, BetweenFrames
<1>10. CASE LeaveTouched
  BY <1>1, <1>3, <1>10 DEF LeaveTouched, TouchLeave, BetweenFrames, WinScreens
<1>11. CASE GoToSettings
  BY <1>1, <1>2, <1>4, <1>11 DEF GoToSettings, BetweenFrames, QueuesOK, menuVars
<1>12. CASE ExitSettings
  BY <1>1, <1>2, <1>3, <1>12 DEF ExitSettings, BetweenFrames, QueuesOK, vars, menuVars
<1>13. CASE AddLabels
  <2>1. status = "playing" /\ due # << >> /\ ~labels
    BY <1>1, <1>3, <1>13 DEF AddLabels, BetweenFrames, QueuesOK
  <2>2. labels' = TRUE /\ UNCHANGED <<status, over, pauseHidden, isPausing>>
    BY <1>13, <2>1 DEF AddLabels, vars, menuVars
  <2>3. QED
    BY <1>2, <2>1, <2>2
<1>14. CASE ShowMenu
  BY <1>1, <1>2, <1>3, <1>4, <1>14 DEF ShowMenu, BetweenFrames, QueuesOK, menuVars
<1>15. CASE LateBlock
  BY <1>1, <1>2, <1>15 DEF LateBlock, LateEndScreen, LateFrame, Crash, vars
<1>16. CASE UNCHANGED overlayVars
  BY <1>1, <1>2, <1>16 DEF overlayVars, vars, menuVars
<1>17. QED
  BY <1>5, <1>6, <1>7, <1>8, <1>9, <1>10, <1>11, <1>12, <1>13, <1>14, <1>15, <1>16
  DEF SettingsNext

LEMMA CalmInit == SettingsInit => CalmInv
<1> SUFFICES ASSUME SettingsInit PROVE CalmInv
  OBVIOUS
<1>1. RP!Init
  BY DEF SettingsInit, Init, RP!Init, EndScreens, RP!EndScreens, FullHealth,
     RP!FullHealth
<1>2. RP!IInv
  BY <1>1, RP!InitInv, WinScoreAssumption DEF RP!WinScoreAssumption
<1>3. CalmButton
  BY DEF SettingsInit, Init, CalmButton
<1>4. QED
  BY <1>2, <1>3, StayInit DEF CalmInv, CalmRound

LEMMA CalmInvStep == CalmInv /\ [SettingsNext]_overlayVars => CalmInv'
<1> SUFFICES ASSUME CalmInv, [SettingsNext]_overlayVars PROVE CalmInv'
  OBVIOUS
<1>1. StayInv'
  BY StayStep DEF CalmInv
<1>2. ASSUME calm' PROVE RP!IInv' /\ CalmButton'
  BY <1>2, CalmStep, CalmButtonStep, CalmRoundStep DEF CalmInv, CalmRound
<1>3. QED
  BY <1>1, <1>2 DEF CalmInv, CalmRound, CalmButton

\* A player who lets each transition of the settings finish, and whose round does not end
\* behind them, plays the round of GameRound: what is proved of it holds under the
\* settings, with the pause button read as the end of the round leaves it.
THEOREM CalmSettingsKeepTheRound == SettingsSpec => CalmPlayIsTheRound
<1>1. CalmInv /\ [SettingsNext]_overlayVars => [calm' => [Round!Next]_(Round!vars)]_overlayVars
  BY CalmStep
<1>2. QED
  BY CalmInit, CalmInvStep, <1>1, PTL DEF SettingsSpec, CalmPlayIsTheRound
=============================================================================
