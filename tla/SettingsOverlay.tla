-------------------------- MODULE SettingsOverlay --------------------------
(***************************************************************************)
(* The settings a player can open from the pause menu (InfoDisplay), on top *)
(* of the round of GameRound.  Opening and closing them hides and shows the *)
(* pause menu at once, or half a second later in a block of the main queue, *)
(* and shares the visibility of the pause button with the end of a round.   *)
(* Every action of the round is taken from GameRound; here `pauseHidden' is *)
(* what the three writers of pause.isHidden made of it.                     *)
(***************************************************************************)
EXTENDS GameRound, Sequences

CONSTANTS
  MaxDue,        \* bound: settings blocks on their way at once
  MaxVerdicts    \* bound: end screens on their way when contacts are still followed

ASSUME SettingsAssumption == MaxDue \in Nat \ {0} /\ MaxVerdicts \in Nat \ {0}

VARIABLES
  labels,         \* the ten settings labels are in the scene
  returnHidden,   \* returnLabel.isHidden
  due,            \* the half-second blocks on their way, oldest first: "add" or "show"
  over,           \* history: the round has ended and was not tried again
  calm            \* history: "Settings" was only tapped in a settled pause menu, and no
                  \* round ended behind one

settingsVars == <<labels, returnHidden, due>>
historyVars == <<over, calm>>
overlayVars == <<vars, settingsVars, historyVars>>

SettingsTypeOK ==
  /\ TypeOK
  /\ labels \in BOOLEAN /\ returnHidden \in BOOLEAN
  /\ due \in Seq({"add", "show"}) /\ Len(due) <= MaxDue
  /\ over \in BOOLEAN /\ calm \in BOOLEAN

SettingsInit ==
  /\ Init
  /\ labels = FALSE /\ returnHidden = FALSE /\ due = << >>
  /\ over = FALSE /\ calm = TRUE

----------------------------------------------------------------------------
(* The round goes on underneath *)

VerdictsComing == pending["player"] + pending["opponent"] + pending["died"]

\* A round resumed behind its own end lasts a second and a half: the player does not
\* win it while the opponent's screen is coming (so Due keeps the order of the two)
FollowContacts ==
  \E contacts \in SUBSET Flags :
    /\ VerdictsComing >= MaxVerdicts => contacts = {}
    /\ pending["opponent"] > 0 => "player" \notin contacts
    /\ DidBegin(contacts)

RoundRuns ==
  /\ \/ BeginFrame \/ FollowContacts \/ Walk
     \/ \E screen \in EndScreens : ShowEndScreen(screen)
  /\ UNCHANGED <<settingsVars, historyVars>>

\* endGame is run exactly when an end screen is scheduled
RoundMayEnd ==
  /\ \/ PlayerCollisionResponse \/ OpponentCollisionResponse
     \/ MonsterCollisionResponse
  /\ over' = (over \/ pending' # pending)
  /\ calm' = (calm /\ (isPausing => pending' = pending))
  /\ UNCHANGED settingsVars

\* The pause button: darkBackground is added although it may stand in the scene
PauseTouched ==
  /\ \/ overlay = "none" /\ TouchPause
     \/ /\ BetweenFrames /\ ~pauseHidden /\ ~isPausing /\ overlay # "none"
        /\ Crash
  /\ UNCHANGED <<settingsVars, historyVars>>

\* removePauseGame knows nothing of the settings
PlayTouched == TouchPlay /\ UNCHANGED <<settingsVars, historyVars>>

TryAgainTouched ==
  /\ TouchTryAgain
  /\ over' = FALSE
  /\ UNCHANGED <<settingsVars, calm>>

\* leave() removes every child of the scene; a hidden "Return To Menu" takes no touch
LeaveTouched ==
  /\ overlay = "pause" => ~returnHidden
  /\ TouchLeave
  /\ labels' = FALSE
  /\ UNCHANGED <<returnHidden, due, historyVars>>

----------------------------------------------------------------------------
(* The settings *)

\* Variant: the pause button stays where it is
GoToSettingsButtonStays ==
  /\ BetweenFrames /\ overlay = "pause" /\ Len(due) < MaxDue
  /\ returnHidden' = TRUE
  /\ due' = Append(due, "add")
  /\ calm' = (calm /\ due = << >> /\ ~labels)
  /\ UNCHANGED <<vars, labels, over>>

\* Touch on "Settings": goToSettings.  The label becomes the title of the settings and
\* stays in reach of the next touch
GoToSettings ==
  /\ BetweenFrames /\ overlay = "pause" /\ Len(due) < MaxDue
  /\ returnHidden' = TRUE
  /\ pauseHidden' = TRUE
  /\ due' = Append(due, "add")
  /\ calm' = (calm /\ due = << >> /\ ~labels)
  /\ UNCHANGED <<status, updating, scoreVars, playerHealth, flags, reach, atSpawn,
                 motionVars, joystickOn, menuVars, pending, hearts, labelVars, labels,
                 over>>

\* Variant: the rest of the menu is not brought back
ExitSettingsOnly ==
  /\ BetweenFrames /\ labels
  /\ labels' = FALSE
  /\ UNCHANGED <<vars, due, returnHidden, historyVars>>

\* Touch on "Back": exitSettings
ExitSettings ==
  /\ BetweenFrames /\ labels /\ Len(due) < MaxDue
  /\ labels' = FALSE
  /\ due' = Append(due, "show")
  /\ UNCHANGED <<vars, returnHidden, historyVars>>

\* The block of goToSettings: addChild of a node that has a parent is an exception
AddLabels ==
  /\ BetweenFrames /\ due # << >> /\ Head(due) = "add"
  /\ \/ labels /\ Crash /\ UNCHANGED labels
     \/ ~labels /\ labels' = TRUE /\ UNCHANGED vars
  /\ due' = Tail(due)
  /\ UNCHANGED <<returnHidden, historyVars>>

\* Variant: the joystick comes back with the menu
ShowMenuAndJoystick ==
  /\ BetweenFrames /\ due # << >> /\ Head(due) = "show"
  /\ returnHidden' = FALSE
  /\ pauseHidden' = FALSE /\ joystickOn' = TRUE
  /\ due' = Tail(due)
  /\ UNCHANGED <<status, updating, scoreVars, playerHealth, flags, reach, atSpawn,
                 motionVars, menuVars, pending, hearts, labelVars, labels, historyVars>>

\* The block of exitSettings shows the pause button whatever became of the round
ShowMenu ==
  /\ BetweenFrames /\ due # << >> /\ Head(due) = "show"
  /\ returnHidden' = FALSE
  /\ pauseHidden' = FALSE
  /\ due' = Tail(due)
  /\ UNCHANGED <<status, updating, scoreVars, playerHealth, flags, reach, atSpawn,
                 motionVars, joystickOn, menuVars, pending, hearts, labelVars, labels,
                 historyVars>>

\* A block that runs after leave(): its weak parent may be gone, or on its way out; or
\* a frame that does
LateBlock ==
  /\ status = "left"
  /\ \/ /\ due # << >>
        /\ due' = Tail(due)
        /\ Crash \/ UNCHANGED vars
     \/ /\ LateFrame \/ \E screen \in EndScreens : LateEndScreen(screen)
        /\ UNCHANGED due
  /\ UNCHANGED <<labels, returnHidden, historyVars>>

----------------------------------------------------------------------------
SettingsNext ==
  \/ RoundRuns \/ RoundMayEnd
  \/ PauseTouched \/ PlayTouched \/ TryAgainTouched \/ LeaveTouched
  \/ GoToSettings \/ ExitSettings \/ AddLabels \/ ShowMenu \/ LateBlock

SettingsSpec == SettingsInit /\ [][SettingsNext]_overlayVars

----------------------------------------------------------------------------
(* Properties *)

\* However the player hammers on "Settings" and "Back", a menu that lost its way out is
\* getting one: the labels with "Back" are up, or a block is coming; the pause button
\* is only missing for good when the round is over.
NeverStranded ==
  status = "playing" =>
    /\ returnHidden => labels \/ due # << >>
    /\ pauseHidden => over \/ labels \/ due # << >>

\* With "Settings" tapped in settled menus only, the settings stay inside the pause
\* menu: the game never runs under them, and the button that would make it run is
\* hidden from the first touch until "Back" has taken effect.
SettingsStayInPause ==
  calm /\ status = "playing" =>
    /\ labels \/ due # << >> => overlay = "pause" /\ pauseHidden /\ returnHidden
    /\ Len(due) <= (IF labels THEN 0 ELSE 1)

\* As long as that is so, the settings change nothing about the round: with the pause
\* button read as the end of the round leaves it, every step is one of GameRound (no
\* exception of the labels' own, no Play over an ended round).
Round == INSTANCE GameRound WITH pauseHidden <- over
CalmPlayIsTheRound == [][calm' => [Round!Next]_(Round!vars)]_overlayVars

\* The settings are only ever seen over the pause menu.
SettingsOnlyOverPause == status = "playing" /\ labels => overlay = "pause"
=============================================================================
