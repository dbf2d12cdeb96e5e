----------------------------- MODULE GameRound -----------------------------
(***************************************************************************)
(* One round of Relic Race as GameScene plays it against the AI: the two    *)
(* scores, the player's lives, the contact flags that physics raises and    *)
(* update() consumes, the paths the AI and the monsters follow, the pause   *)
(* menu, and the end screens that are shown by delayed main-queue blocks.   *)
(*                                                                          *)
(* Everything runs on the main thread.  A frame is one indivisible call:    *)
(* update() handles the raised flags in a fixed order, then the actions and *)
(* the physics advance and may raise new flags.  Touches, joystick moves    *)
(* and delayed blocks run between two frames.  `updating' is TRUE inside a  *)
(* frame.                                                                   *)
(***************************************************************************)
EXTENDS Naturals, FiniteSets

CONSTANT WinScore          \* trophies that win the round (5 in the code)

ASSUME WinScoreAssumption == WinScore \in Nat \ {0}

FullHealth == 3            \* lives at the start of a round

Flags == {"player", "opponent", "monster"}      \* the three contact flags
EndScreens == {"player", "opponent", "died"}    \* who won, or "You Died!"
WinScreens == {"player", "opponent"}

VARIABLES
  status,         \* "playing", "left" (scene dismissed) or "crashed"
  updating,       \* inside a frame
  playerScore, opponentScore,
  playerHealth,
  flags,          \* contact flags raised and not yet handled
  reach,          \* contacts the player's moves since the last physics step may begin
  atSpawn,        \* the player stands where it respawned
  aiPaths,        \* move sequences the opponent node is running
  monsterPaths,   \* move sequences each monster node is running
  joystickOn,     \* ~joystick.disabled
  pauseHidden,    \* pause.isHidden: set by endGame, cleared by a new round
  isPausing,
  frozen,         \* isPaused of the opponent and monster nodes
  overlay,        \* what stands on darkBackground: "none", "pause" or an end screen
  pending,        \* scheduled blocks that will show an end screen
  hearts,         \* hearts drawn
  playerLabel, opponentLabel   \* scores drawn

scoreVars == <<playerScore, opponentScore>>
labelVars == <<playerLabel, opponentLabel>>
motionVars == <<aiPaths, monsterPaths>>
menuVars == <<isPausing, frozen, overlay>>
vars == <<status, updating, scoreVars, playerHealth, flags, reach, atSpawn,
          motionVars, joystickOn, pauseHidden, menuVars, pending, hearts,
          labelVars>>

CountsOK ==
  /\ playerScore \in 0 .. WinScore - 1 /\ opponentScore \in 0 .. WinScore - 1
  /\ playerHealth \in 1 .. FullHealth
  /\ playerLabel \in 0 .. WinScore /\ opponentLabel \in 0 .. WinScore

ContactsOK ==
  /\ flags \subseteq Flags
  /\ reach \subseteq {"player", "monster"}
  /\ atSpawn \in BOOLEAN

MotionOK == aiPaths \in Nat /\ monsterPaths \in Nat

StageOK ==
  /\ status \in {"playing", "left", "crashed"}
  /\ updating \in BOOLEAN /\ frozen \in BOOLEAN /\ joystickOn \in BOOLEAN
  /\ pauseHidden \in BOOLEAN /\ isPausing \in BOOLEAN
  /\ overlay \in {"none", "pause"} \cup EndScreens
  /\ hearts \subseteq 1 .. FullHealth

\* Every variable keeps its type; in particular no score of WinScore and no life count
\* of zero outlives the handler that produced it
TypeOK ==
  CountsOK /\ ContactsOK /\ MotionOK /\ StageOK /\ pending \in [EndScreens -> Nat]

\* setupGame: characters spawned, monsters and AI on their first path, HUD drawn
Init ==
  /\ status = "playing"
  /\ updating = FALSE
  /\ playerScore = 0 /\ opponentScore = 0
  /\ playerHealth = FullHealth
  /\ flags = {} /\ reach = {} /\ atSpawn = TRUE
  /\ aiPaths = 1 /\ monsterPaths = 1
  /\ joystickOn = TRUE /\ pauseHidden = FALSE
  /\ isPausing = FALSE /\ frozen = FALSE /\ overlay = "none"
  /\ pending = [s \in EndScreens |-> 0]
  /\ hearts = 1 .. FullHealth
  /\ playerLabel = 0 /\ opponentLabel = 0

----------------------------------------------------------------------------
(* Pieces shared by the handlers *)

\* An Objective-C exception or a failed unwrap ends the program
Crash == /\ status' = "crashed"
         /\ UNCHANGED <<updating, scoreVars, playerHealth, flags, reach, atSpawn,
                        motionVars, joystickOn, pauseHidden, menuVars, pending,
                        hearts, labelVars>>

\* changeHealth: for 2, 1 and 0 it hides the heart above that number; any other value
\* shows all three
ChangeHealth(health) ==
  hearts' = IF health \in 0 .. 2 THEN hearts \ {health + 1} ELSE 1 .. FullHealth

\* Variants of RestartAI: stop() forgotten, or the new path
RestartAIWithoutStop == aiPaths' = aiPaths + 1
StopAIOnly == aiPaths' = 0

\* opponent.stop() and then a fresh shortest path to the relocated trophy
RestartAI == aiPaths' = 1

\* Variant: the trophy stays where it was collected
TrophyStays == UNCHANGED reach

\* trophy.setRandomPosition(): the player no longer stands near it
RelocateTrophy == reach' = reach \ {"player"}

\* Variants of endGame: the pause button stays, the monsters go on, health is not reset
EndGameShowsPause ==
  /\ joystickOn' = FALSE /\ pauseHidden' = FALSE
  /\ aiPaths' = 0 /\ monsterPaths' = 0
  /\ playerScore' = 0 /\ opponentScore' = 0 /\ playerHealth' = FullHealth
EndGameKeepsMonsters ==
  /\ joystickOn' = FALSE /\ pauseHidden' = TRUE
  /\ aiPaths' = 0 /\ monsterPaths' = monsterPaths
  /\ playerScore' = 0 /\ opponentScore' = 0 /\ playerHealth' = FullHealth
EndGameKeepsHealth ==
  /\ joystickOn' = FALSE /\ pauseHidden' = TRUE
  /\ aiPaths' = 0 /\ monsterPaths' = 0
  /\ playerScore' = 0 /\ opponentScore' = 0
  /\ playerHealth' = IF flags = {"monster"} THEN playerHealth - 1 ELSE playerHealth

\* endGame: inputs off, everyone stopped, scores and health reset
EndGame ==
  /\ joystickOn' = FALSE
  /\ pauseHidden' = TRUE
  /\ aiPaths' = 0
  /\ monsterPaths' = 0
  /\ playerScore' = 0 /\ opponentScore' = 0
  /\ playerHealth' = FullHealth

\* Variant: no block is scheduled
NotScheduled(screen) == UNCHANGED pending

\* asyncAfter: the end screen is built 1 to 1.5 seconds later
Schedule(screen) == pending' = [pending EXCEPT ![screen] = @ + 1]

----------------------------------------------------------------------------
(* The frame *)

\* update() starts: the flags raised since the last frame are what it will see
BeginFrame ==
  /\ status = "playing" /\ ~updating
  /\ updating' = TRUE
  /\ UNCHANGED <<status, scoreVars, playerHealth, flags, reach, atSpawn, motionVars,
                 joystickOn, pauseHidden, menuVars, pending, hearts, labelVars>>

\* playerCollisionResponse, with playerToTrophyResponse and onPlayerWin
PlayerCollisionResponse ==
  /\ updating /\ "player" \in flags
  /\ flags' = flags \ {"player"}
  /\ RelocateTrophy
  /\ playerLabel' = playerScore + 1
  /\ \/ /\ playerScore + 1 = WinScore
        /\ EndGame
        /\ Schedule("player")
     \/ /\ playerScore + 1 # WinScore
        /\ playerScore' = playerScore + 1
        /\ RestartAI
        /\ UNCHANGED <<opponentScore, playerHealth, monsterPaths, joystickOn,
                       pauseHidden, pending>>
  /\ UNCHANGED <<status, updating, atSpawn, menuVars, hearts, opponentLabel>>

\* opponentCollisionResponse, with opponentToTrophyResponse and checkOpponentWin
OpponentCollisionResponse ==
  /\ updating /\ "player" \notin flags /\ "opponent" \in flags
  /\ flags' = flags \ {"opponent"}
  /\ RelocateTrophy
  /\ opponentLabel' = opponentScore + 1
  /\ \/ /\ opponentScore + 1 >= WinScore
        /\ EndGame
        /\ Schedule("opponent")
     \/ /\ opponentScore + 1 < WinScore
        /\ opponentScore' = opponentScore + 1
        /\ RestartAI
        /\ UNCHANGED <<playerScore, playerHealth, monsterPaths, joystickOn,
                       pauseHidden, pending>>
  /\ UNCHANGED <<status, updating, atSpawn, menuVars, hearts, playerLabel>>

\* hittingMonster: back to the spawn tile; arriving there may begin a new contact
HittingMonster ==
  /\ atSpawn' = TRUE
  /\ reach' = IF atSpawn THEN reach ELSE {"monster"}

\* Variant: a hit counts twice
DoubleHit == IF playerHealth > 0 THEN playerHealth - 2 ELSE playerHealth

\* decreaseHealth
LivesLeft == IF playerHealth > 0 THEN playerHealth - 1 ELSE playerHealth

\* monsterCollisionResponse, with onMonsterWin
MonsterCollisionResponse ==
  /\ updating /\ flags = {"monster"}
  /\ flags' = {}
  /\ ChangeHealth(LivesLeft)
  /\ HittingMonster
  /\ \/ /\ LivesLeft = 0
        /\ EndGame
        /\ Schedule("died")
     \/ /\ LivesLeft # 0
        /\ playerHealth' = LivesLeft
        /\ UNCHANGED <<scoreVars, motionVars, joystickOn, pauseHidden, pending>>
  /\ UNCHANGED <<status, updating, menuVars, labelVars>>

\* What can come into contact in this frame: what the player's moves reached, the
\* trophy at the end of the AI's path, a monster on its rounds
Touching ==
  reach \cup (IF aiPaths > 0 /\ ~frozen THEN {"opponent"} ELSE {})
        \cup (IF monsterPaths > 0 /\ ~frozen THEN {"monster"} ELSE {})

\* All flags handled: actions and physics advance, didBegin raises the flags of the
\* contacts that begin, and the frame ends
DidBegin(contacts) ==
  /\ updating /\ flags = {}
  /\ contacts \subseteq Touching
  /\ flags' = contacts
  /\ reach' = {}
  /\ updating' = FALSE
  /\ UNCHANGED <<status, scoreVars, playerHealth, atSpawn, motionVars, joystickOn,
                 pauseHidden, menuVars, pending, hearts, labelVars>>

----------------------------------------------------------------------------
(* Between frames *)

BetweenFrames == status = "playing" /\ ~updating

\* trackingHandler: the joystick moves the player
Walk ==
  /\ BetweenFrames /\ joystickOn
  /\ reach' = {"player", "monster"}
  /\ atSpawn' = FALSE
  /\ UNCHANGED <<status, updating, scoreVars, playerHealth, flags, motionVars,
                 joystickOn, pauseHidden, menuVars, pending, hearts, labelVars>>

\* Touch on the pause button while the game runs: pauseGame.  It adds darkBackground,
\* which has no parent here (EndScreenExact and PausedIsFrozen)
TouchPause ==
  /\ BetweenFrames /\ ~pauseHidden /\ ~isPausing
  /\ overlay' = "pause"
  /\ joystickOn' = FALSE
  /\ frozen' = TRUE
  /\ isPausing' = TRUE
  /\ UNCHANGED <<status, updating, scoreVars, playerHealth, flags, reach, atSpawn,
                 motionVars, pauseHidden, pending, hearts, labelVars>>

\* Variant: the hidden button still answers
TouchHiddenPlay ==
  /\ BetweenFrames /\ isPausing
  /\ overlay' = "none"
  /\ joystickOn' = TRUE
  /\ frozen' = FALSE
  /\ isPausing' = FALSE
  /\ UNCHANGED <<status, updating, scoreVars, playerHealth, flags, reach, atSpawn,
                 motionVars, pauseHidden, pending, hearts, labelVars>>

\* Touch on the same button while paused: removePauseGame
TouchPlay ==
  /\ BetweenFrames /\ ~pauseHidden /\ isPausing
  /\ overlay' = "none"
  /\ joystickOn' = TRUE
  /\ frozen' = FALSE
  /\ isPausing' = FALSE
  /\ UNCHANGED <<status, updating, scoreVars, playerHealth, flags, reach, atSpawn,
                 motionVars, pauseHidden, pending, hearts, labelVars>>

\* Touch on "Try Again": resetGameAfterPlayerDied.  Neither actor is stopped first,
\* and the score labels are left alone
TouchTryAgain ==
  /\ BetweenFrames /\ overlay = "died"
  /\ playerScore' = 0 /\ opponentScore' = 0
  /\ playerHealth' = FullHealth
  /\ overlay' = "none"
  /\ ChangeHealth(FullHealth)
  /\ joystickOn' = TRUE
  /\ aiPaths' = aiPaths + 1
  /\ pauseHidden' = FALSE
  /\ monsterPaths' = monsterPaths + 1
  /\ UNCHANGED <<status, updating, flags, reach, atSpawn, isPausing, frozen, pending,
                 labelVars>>

\* Touch on "Return To Menu" or "Exit": leave() empties and dismisses the scene
TouchLeave ==
  /\ BetweenFrames /\ overlay \in {"pause"} \cup WinScreens
  /\ status' = "left"
  /\ overlay' = "none"
  /\ UNCHANGED <<updating, scoreVars, playerHealth, flags, reach, atSpawn, motionVars,
                 joystickOn, pauseHidden, isPausing, frozen, pending, hearts, labelVars>>

\* Variant: the younger of two blocks may run first
DueInAnyOrder(screen) == pending[screen] > 0

\* A delayed block runs playerDiedDisplay or roundWinDisplay, which add
\* darkBackground to the scene.  Both win screens wait 1.5 seconds, so the older
\* one comes first; only the opponent can win after somebody else did
\* (FirstVerdictStands), hence the guard
Due(screen) == /\ pending[screen] > 0
               /\ screen = "opponent" => pending["player"] = 0

ShowEndScreen(screen) ==
  /\ BetweenFrames /\ Due(screen)
  /\ \/ /\ overlay # "none"
        /\ Crash
     \/ /\ overlay = "none"
        /\ overlay' = screen
        /\ pending' = [pending EXCEPT ![screen] = @ - 1]
        /\ UNCHANGED <<status, updating, scoreVars, playerHealth, flags, reach, atSpawn,
                       motionVars, joystickOn, pauseHidden, isPausing, frozen, hearts,
                       labelVars>>

\* The block runs after leave(): its [unowned self] may be gone, or the scene may
\* still be on its way out
LateEndScreen(screen) ==
  /\ status = "left" /\ pending[screen] > 0
  /\ \/ Crash
     \/ /\ pending' = [pending EXCEPT ![screen] = @ - 1]
        /\ UNCHANGED <<status, updating, scoreVars, playerHealth, flags, reach, atSpawn,
                       motionVars, joystickOn, pauseHidden, menuVars, hearts, labelVars>>

\* One of the raised flags is a last trophy or a last life
EndsRound ==
  \/ "player" \in flags /\ playerScore + 1 = WinScore
  \/ "opponent" \in flags /\ opponentScore + 1 >= WinScore
  \/ "monster" \in flags /\ LivesLeft = 0

\* A frame may still come after leave(), which removed the bodies, so nothing touches
\* any more, and let go of the joystick: endGame's joystick! then ends the program.
\* Counts that go on changing in a scene nobody sees are left out
LateFrame ==
  /\ status = "left" /\ flags # {}
  /\ \/ EndsRound /\ Crash
     \/ /\ ~EndsRound
        /\ flags' = {}
        /\ UNCHANGED <<status, updating, scoreVars, playerHealth, reach, atSpawn,
                       motionVars, joystickOn, pauseHidden, menuVars, pending, hearts,
                       labelVars>>

----------------------------------------------------------------------------
Frame ==
  \/ BeginFrame
  \/ PlayerCollisionResponse
  \/ OpponentCollisionResponse
  \/ MonsterCollisionResponse
  \/ \E contacts \in SUBSET Flags : DidBegin(contacts)

Next ==
  \/ Frame
  \/ Walk
  \/ TouchPause \/ TouchPlay \/ TouchTryAgain \/ TouchLeave
  \/ \E screen \in EndScreens : ShowEndScreen(screen) \/ LateEndScreen(screen)
  \/ LateFrame

\* The display link keeps calling update() and a frame, once begun, completes.  The
\* main queue runs a due block between frames, so a block that is due again and
\* again is run (strong fairness: each frame interrupts its being enabled).  An AI
\* that keeps walking its path arrives at the trophy at the end of it.
Fairness ==
  /\ WF_vars(Frame)
  /\ \A screen \in EndScreens : SF_vars(ShowEndScreen(screen))
  /\ SF_vars(\E contacts \in SUBSET Flags :
               "opponent" \in contacts /\ DidBegin(contacts))

Spec == Init /\ [][Next]_vars
FairSpec == Spec /\ Fairness

----------------------------------------------------------------------------
(* Properties *)

\* The pause button is hidden exactly when an end screen is up or on its way: a round
\* that ended never strands the player without a screen, and no screen is left to
\* pop up over a running round.
EndScreenExact ==
  status = "playing" =>
    (pauseHidden <=> overlay \in EndScreens \/ \E s \in EndScreens : pending[s] > 0)

\* Try Again starts a path without stopping the old one, so it relies on endGame (and
\* on nothing restarting the AI after a death): no actor ever follows two paths.
OnePathEach == aiPaths <= 1 /\ monsterPaths <= 1

\* While the pause menu is up nothing moves, also when a flag raised before the touch
\* is handled behind the menu; and nobody stays frozen after it.
PausedIsFrozen ==
  status = "playing" =>
    /\ isPausing <=> overlay = "pause"
    /\ isPausing <=> frozen
    /\ joystickOn <=> ~isPausing /\ ~pauseHidden

\* The hearts drawn are the lives left for as long as the round runs, across hits,
\* the end of a round and Try Again.
HeartsShowLives == ~pauseHidden => hearts = 1 .. playerHealth

\* A round that ends by death is always followed by one "You Died!" screen alone:
\* hits after the end never make a second death, and no win screen joins it.
DeathEndsAlone ==
  pending["died"] > 0 \/ overlay = "died" =>
    /\ aiPaths = 0 /\ monsterPaths = 0
    /\ pending["died"] + (IF overlay = "died" THEN 1 ELSE 0) = 1
    /\ pending["player"] = 0 /\ pending["opponent"] = 0

\* The program only crashes when the pause menu was opened over a round about to end, or
\* after the player's win: when the AI plays on to a win of its own, or a verdict is
\* still to be shown as the scene is left.
CrashNeedsARace ==
  status = "crashed" =>
    \/ isPausing
    \/ pending["opponent"] + pending["player"] > 0
    \/ pauseHidden /\ "opponent" \in flags

\* Once somebody has won, the player scores no more: the one verdict that can still
\* follow another is the AI's, after the player's.
FirstVerdictStands ==
  pauseHidden => "player" \notin flags \cup reach /\ playerScore = 0

\* The round implements Match: trophies and lives as they count, one verdict per
\* round, announced by its own screen, retried only after a death and then from zero.
On == status = "playing" /\ ~pauseHidden
Over == status = "playing" /\ pauseHidden

Verdict ==
  CASE ~Over -> "none"
    [] Over /\ overlay \in EndScreens -> overlay
    [] Over /\ overlay \notin EndScreens ->
         IF pending["died"] > 0 THEN "died"
         ELSE IF pending["player"] > 0 THEN "player" ELSE "opponent"

Phase == IF On THEN "on" ELSE IF Over THEN "over" ELSE "gone"
Points == [s \in WinScreens |->
             IF ~On THEN 0 ELSE IF s = "player" THEN playerScore ELSE opponentScore]
Lives == IF On THEN playerHealth ELSE FullHealth
Announced == Over /\ overlay \in EndScreens

M == INSTANCE Match WITH Lives <- FullHealth, phase <- Phase, points <- Points,
                         lives <- Lives, verdict <- Verdict, announced <- Announced

ImplementsMatch == M!Spec

\* Every round that ended gets its end screen, unless the program dies or is left.
EndScreenAppears ==
  pauseHidden ~> (overlay \in EndScreens \/ status # "playing")

\* A round that is not kept paused ends: the AI alone brings it to an end.
RoundEnds ==
  <>[](status = "playing" /\ ~isPausing) => []<>pauseHidden

\* endGame stops everything for good until the game is reset.
EndedIsStopped ==
  pauseHidden /\ status = "playing" /\ ~updating => aiPaths = 0 /\ monsterPaths = 0

\* The score labels show the scores of the running round.
LabelsShowScores ==
  ~pauseHidden => playerLabel = playerScore /\ opponentLabel = opponentScore
=============================================================================
