# Relic Race: TLA+ models, checks and proofs

Relic Race (`src/Maze-Snake`) is an iOS game written in Swift with SpriteKit: a
player and an opponent (the AI, or another device over MultipeerConnectivity) race
through a generated maze for trophies, five of which win the round; four monsters
patrol the maze and take one of the player's three lives at each touch. All paths
below are relative to `src/Maze-Snake/Maze-Snake/`.

## Inventory

| Part | State it keeps | Operations | Talks to |
|---|---|---|---|
| **Round** — `Game Screen/Base Game/*`, `Utility/InfoDisplay.swift`, `Game Mechanics/Player Model/*` | scores, lives, three contact flags, actions running on the AI and monsters, joystick, pause, what lies on `darkBackground`, delayed blocks | `update`, `didBegin`, the three collision responses, the touches (pause, play, try again, return, exit), the delayed end screens, the joystick | SpriteKit calls it on the main thread; it calls the trophy, AI, monsters and display |
| **Solo mode** — `Game Screen/Scene/AIGameScene.swift`, `AppDelegate.swift`, `GameViewController.swift` | the round, a repeating timer, the interstitial, a copy of the user document | overrides of the round's handlers, app life-cycle callbacks, ad callbacks | super calls into the round; Firestore; AdMob |
| **PvP mode** — `PvPGameScene`, `PvPConnectionExt`, `PvPStreamDelegate`, `GameEncodingBuffer` | the round, the session, the received bytes and checksum | host, join, next, receive data/stream/state, the overrides that send | the other device, reliable messages and a stream |
| **Maze generation** — `Game Mechanics/Maze Generation/Maze.swift`, `NodeToDir.swift`, `Stack.swift` | cells, visited map, stack, graph | carve, openUpMap, rebuild from tiles | read by everything that moves |
| **Trophy placement** — `Trophy.swift`, `Circle.swift`, `Queue.swift` | position | two breadth-first searches, the choice of a fair tile, two fallbacks | reads graph and positions |
| **Monster paths** — `Monster.swift` | path | generatePath | reads graph |
| **User document** — `AIGameScene.storeToServer`, `AppDelegate` reward, `StoreViewController`, `SignUpViewController` | one Firestore document per user, and the copies each screen holds | read, overwrite | concurrent writers |
| **Settings** — `InfoDisplay.goToSettings/exitSettings`, `SettingsViewController` | overlay labels, which menu nodes are hidden, preferences | open, close, toggle | delayed blocks; shares the pause button with the end of the round |
| **Leaderboard, menus, tiles, minimap, sound** | view state | presentation | Firebase, SpriteKit |

What is hard here. A round is a conversation between frames, touches, delayed blocks,
timers, ad callbacks and app life-cycle callbacks that interleave freely on the main
thread. A contact is a flag raised in one frame and handled in the next, whatever
happened in between; an end screen is a block that runs 1 to 1.5 s after the round
ended; timers hold the scene `unowned`. In PvP the same round runs twice, kept together
by messages, and `MCSession` calls its delegate on a queue of its own: the scores are
then shared by two threads without a lock. The user's document has three writers that
each write back a whole copy. The list of hazards with their lines is in `PROJECT.json`.

What makes each part correct:

* Round: one verdict per round, told by one screen; inputs, paths and pause agree
  with it; a retry starts clean; somebody always wins.
* Solo: one live timer exactly while the round runs.
* Maze: the walk visits every cell and ends; every space is reachable; both devices
  hold the same graph.
* PvP: both devices agree who won; no packet decides twice. User document: no relic
  is lost or spent twice. Monster paths: each returns to where it began. Trophy: the
  tile chosen is a space, a fair one if there is one.
* Settings: the menu always comes back, and the round underneath is the same round.

## Modules

| Module | Kind | Models |
|---|---|---|
| `Match` | abstract specification | what a round promises: count, end with one verdict, announce it, retry only after a death |
| `GameRound` | component | `GameScene` against the AI |
| `GameRoundProofs` | proofs | the inductive invariant of `GameRound`, what follows from it, and that `GameRound` implements `Match` |
| `AIScene` | composition | `GameRound` with the solo clock, the ad and the app's life cycle |
| `AISceneProofs` | proofs | solo mode is a round; the clock follows it |
| `SettingsOverlay` | composition | `GameRound` with the settings over its pause menu |
| `SettingsOverlayProofs` | proofs | the menu comes back; under calm settings the round is `GameRound`'s |
| `Maze` | component | `Maze(width:height:)`, `openUpMap` and `Maze(from:)` |
| `MonsterPath` | composition | `setRandomPosition` and `generatePath` in the maze that `Maze` finished |
| `TrophyPlacement` | composition | `Trophy.setRandomPosition` in the maze that `Maze` finished |
| `MazeProofs` | proofs | the maze is right on every grid; paths of monsters stay in it; searches are exact and trophies fair |
| `PvPHandshake` | component | host, join, "Next", checksum and stream, up to `setupGame` on both phones |
| `PvPHandshakeProofs` | proofs | one offer each, one maze for both, no lonely crash |
| `PvPMatch` | composition | the rounds of two phones and the messages between them |
| `PvPMatchProofs` | proofs | types, that a defeat on one phone was a victory on the other, that crashes need the other, that no score overtakes another |
| `PvPThreads` | component | the main thread and the session's queue inside one phone |
| `PvPThreadsProofs` | proofs | types, and that every verdict was earned under any interleaving |
| `UserDocument` | composition | the document, and the solo game, store and reward that write it |
| `UserDocumentProofs` | proofs | types, that nobody owns more than was earned, and that only stale copies and late answers lose |

### GameRound

Time is cut where the code can be interrupted. `update()` is one call on the main
thread: `BeginFrame`, then the raised flags in the order of the code's three `if`s
(player, opponent, monster), then `DidBegin`, the physics step that may raise new
flags and ends the frame. `updating` is TRUE in between; touches, joystick moves and
delayed blocks require it FALSE.

| Code | Model |
|---|---|
| `player1CollisionFlag`, `opponentCollisionFlag`, `monsterCollisionFlag` | `flags` |
| actions running on the AI / on each monster | `aiPaths`, `monsterPaths` (how many) |
| `joystick.disabled`, `pause.isHidden`, `isPausing`, `isPaused` of the characters | `joystickOn` (negated), `pauseHidden`, `isPausing`, `frozen` |
| the one `darkBackground` node and what is shown on it | `overlay` |
| `asyncAfter` blocks not yet run | `pending` |
| `heart1..3.isHidden`, the label texts | `hearts`, `playerLabel`, `opponentLabel` |
| scene dismissed; uncaught exception or failed unwrap | `status` |

Positions are abstracted to the contacts they allow. `reach` holds the contacts the
player's moves since the last physics step may begin, `atSpawn` says that it stands
where a monster's touch puts it. The trophy is placed away from both sides when it is
collected, so it leaves `reach` (a fair tile always is; the last fallback of
`TrophyPlacement` may take `tiles[1][1]` whoever stands there, and is left out here); a
respawn from elsewhere may meet a monster at the
spawn tile, a respawn in place begins no new contact. An AI that has a path can reach
the trophy at its end at any frame, a monster with a path the player.

Adding `darkBackground` while it still has a parent is an Objective-C exception
(`ShowEndScreen`'s first disjunct). A block that runs after `leave()` finds the scene
gone (its `[unowned self]` traps) or not yet gone (`LateEndScreen`). A frame that still
comes after `leave()` finds no bodies, so no new contact, and no joystick: when a flag
raised before would end the round, `endGame`'s `joystick!` ends the program
(`LateFrame`); counts that go on in a scene nobody sees are left out. A hidden pause node
is not found by `atPoint`, so it cannot be tapped. Drawing, sounds and HUD placement are
left out; the settings are `SettingsOverlay`'s.

### AIScene

Every override calls the handler it overrides, so each action is an action of
`GameRound` conjoined with what happens to the clock. `clock` is what the variable
`timer` refers to; a live timer that is overwritten is not stopped and moves to
`orphans`, of which only the kinds matter. `reactivated` is a history variable:
`applicationDidBecomeActive` has run over this screen. Frames and touches need an
active app. The delegate looks at the topmost view controller, so it does nothing
under an ad. `DidBecomeActive` is modelled with its effect on the timer; `isPaused` of
the scene is only ever TRUE in the background, where no frame runs anyway.

### SettingsOverlay

| Code | Model |
|---|---|
| the ten settings labels in the scene | `labels` |
| `returnLabel.isHidden`, `pause.isHidden` | `returnHidden`, `pauseHidden` |
| half-second blocks of `goToSettings` and `exitSettings` not yet run | `due`, in order |

Every action of the round is taken from `GameRound`, conjoined with what happens to the
settings. `pause.isHidden` has three writers here: the end of a round, `goToSettings` at
once, and the block of `exitSettings`, which shows the button whatever became of the
round. So `pauseHidden` no longer says that the round is over; the history variable
`over` does. `calm` says that "Settings" was only tapped in a menu that had settled, and
that no round ended behind one. Adding a label that is in the scene, or
`darkBackground` a second time, ends the program. "Settings" becomes the title of the
settings and can be tapped again; a hidden "Return To Menu" cannot.

### Maze

A tile is `<<row, column>>`. `Carve(d)` and `Backtrack` are the branches of
the loop in `carve`; `OpenUp` is one iteration of `openUpMap`. Its inner loop over
directions is one step because no direction changes a degree another one reads.
`NodeDirections` has the code's left and right, which are swapped. `JoinerConnections`
is the graph `Maze(from:)` builds on the other device.

### MonsterPath

Extends `Maze`: when `phase = "done"`, one monster (any number from 1 to 4) picks a
start, a space of more than two ways in its quarter or `tiles[1][1]`, and makes its two
walks a step at a time. `walking` is where `generatePath` is, `path1`, `path2`,
`firstDirection` and `path` are its variables. The monsters a joiner rebuilds
(`GameEncodingBuffer.getMonsters`) make a path of their own too before they are stopped
and given the host's; their number 0 means the quarter of number 4. Rows and columns
are compared with the middle tile where the code compares positions; `Margin` is the
two tiles it leaves free. The motion along the path is SpriteKit's.

### TrophyPlacement

Extends `Maze`: when `phase = "done"`, the two sides stand on any two spaces and the
trophy is placed once. `placing` is where `setRandomPosition` is, `queue` and `dist` are
those of the two searches, which start with `MeasureDistances`; `Expand` is one turn of
the loop, with the new neighbours in any order. Both sides stand in the middle of tiles, as the AI on its path and a player
that has not moved do. Two circles whose diameter is the greater distance along the axes
touch midway if the sides are aligned and do not meet otherwise, so the branch for two
solutions is not reached. `ChangeToNeighbour` tries the directions the code tries, in
its order; an index outside of the tiles and a missing neighbour end the program
(`placing = "failed"`). `MinLength`, `Similar`, `Near` and `Far` are the code's 36, 7, 7
and 8, made smaller with the maze.

### PvPHandshake

| Code | Model |
|---|---|
| the prompt, the browser, "Next" | `status`, `browsing`, `next` of a phone |
| `checksumHash`, `streamedMap`, the `graph` played on | `checksumHash`, `streamedMap`, `maze` (who made it) |
| an alert presented, or lost because something is presented already | `alert`, `Present` |
| message and stream on their way | `mail`, `streams`: two ways, either may be first |

A map is abstracted to its maker and whether it came whole (`write` may take fewer bytes
than it is given, PvPGameScene.swift:93). `notice` is the session's `.notConnected`
callback that is still to come. `TouchNext` has three outcomes: both messages leave and
the game is set up; no peer is left, so `connectedPeers[0]` ends the program; or the
peer is lost after the stream was opened, so that `send` throws, the maze just made stays
and "Next" too (PvPGameScene.swift:100).

### PvPMatch

Each phone is a record with the fields of `GameRound` that another phone can change or
notice. A handler is one step here: `Update` runs the raised flags in the code's order
and sends what the overrides send, `Receive` is `session(didReceive:)`. `deaths` and
`verdicts` are the delayed blocks, of 1 and 1.5 s, so a death may overtake a verdict
but verdicts keep their order. A send without a peer throws and is dropped. `LateUpdate`
is the frame after `leave()`, as in `GameRound`; it sends nothing that is read. `fresh` is a
history variable: no round has ended on this phone. Opponent positions are left out:
they move a sprite.

### PvPThreads

One step is one access to a shared field; `+=` is a load and a store. `endGame` runs on
either thread and is four steps (`EndGame`): the joystick and the actors are stopped, then
the score, the health and the opponent's score are stored, in the code's order; `stores`
counts how far each thread is. `main` and `queue` are the two program counters. The first round only, with an opponent
that collects and does not die; screens, deaths and the session's end are `PvPMatch`'s.
`told`, `heard` and `contact` are history variables.

### UserDocument

| Code | Model |
|---|---|
| the Firestore document | `doc`; a missing field reads as its default everywhere, so the two are one value |
| `gameData`, the store's and the reward's dictionaries | `copy` |
| `getDocument` under way, answered and not yet called back | `asked`, `answer` |
| button titles in the store | `titles`, which the code's decisions are read from |

Every `setData` replaces the document by a copy. `unsaved`, `earned`, `current` and
`careful` are history variables: relics collected since the last save, relics earned in
all, whose copy was made from the document as it is, and whether every write so far came
from such a copy. One registered user on one device; an app that is ended keeps what was
written.

## Runs

| Run | Checks | Bounds |
|---|---|---|
| `round` | `TypeOK` and six safety invariants, `ImplementsMatch`, `EndScreenAppears`, `RoundEnds` | `WinScore = 5` and three lives as in the code; nothing else is bounded, paths and pending blocks stay finite because of the invariants |
| `round_ended` | `EndedIsStopped` fails | finding |
| `solo` | the clock's three invariants over the composition | `WinScore = 5`, app and ad unrestricted |
| `settings` | `NeverStranded`, `SettingsStayInPause`, `CalmPlayIsTheRound` | `WinScore = 2`, `MaxDue = 3` settings blocks on their way, `MaxVerdicts = 2` end screens on their way |
| `maze` | the walk, the tree, reachability, the joiner's graph, termination; monsters' paths | 7 x 11 tiles, that is 3 x 5 cells: corners, edges and inner cells in both directions, quarters with and without a crossing, dead ends that stay; all mazes, all paths of up to five steps |
| `trophy` | `SearchesAreShortest`, `TrophyIsFairIfItCan` | 5 x 9 tiles, that is 2 x 4 cells: all mazes, with loops, all two places, all orders of neighbours; `MinLength = 4`, `Similar = 2`, `Near = 2`, `Far = 1`, so that there are mazes with and without a fair tile and every fallback is taken |
| `trophy_fallback` | `FallbackFindsASpace` fails | finding, 5 x 7 tiles, `MinLength = 3` |
| `pvp_match` | `TypeOK`, `ScoresCatchUp`, `DefeatIsReal`, `CrashNeedsTheOther`, `WinIsHeard` | `WinScore = 3`, two lives, one place of the trophy, `MaxQueue = 4`; `FewUnderWay`, `FewLooseEnds` (below) |
| `handshake` | `TypeOK`, `SameMaze`, `CrashNeedsTwoOffers`, `StartedTogether` | none: each phone offers one map |
| `threads` | `VerdictsAreEarned`, `FifthIsAnswered` | `WinScore = 5`, one round |
| `document` | `TypeOK`, `NothingForNothing`, `OnlyStaleCopiesLose` | `Unit = 1`, `Reward = 2`, `MaxEarned = 6`: prices 3 and 5, so one skin, the other, or a skin and relics; one outstanding video |
| `document_saves` | `SavesKeep` fails | finding |

Six more invariants are in the modules and hold, but are not asked of a run:
`HeartsShowLives`, which is proved; the type invariants `ClockTypeOK`,
`SettingsTypeOK`, `PathTypeOK`, `TrophyTypeOK`; and `TypeOK` of `PvPThreads`, which is
proved.

A scene that was left, a finished maze or a program that crashed does nothing more, so
deadlock is not checked.

Why the bounds of `pvp_match` are enough. Scores below the winning one, the winning one
and two lives give every branch of the handlers. `FullHealth >= 2` keeps one thing out: a
contact handled after an end never kills, because at most one is left over
(`DeathStandsAlone` proves it of `GameRound`). `MaxQueue` is what may be under way to one
phone, an `Update` is taken when what it sends fits; with 4 it takes away nothing the
rest of the bounds leaves. While both rounds are fresh every number of scores may be
under way in both directions: 1 behind nothing, 2 behind 1, 2 making up for a 1 that was
dropped because the host had not set up its game. After that `FewUnderWay` keeps two
messages in all: a winning score behind the one before it or crossing another winning
score, a score overtaken by a death, a winning score before a death. When the link is gone
the phones no longer meet; `FewLooseEnds` then leaves out pauses and contacts on both
phones at once. No fair action leads out of the bounds, so they cut no promised step off.

The same properties hold without the two constraints at `WinScore = 2`, `MaxQueue = 2`
(1 891 811 states, 5 minutes), the safety properties with two messages under way to each
phone and no paused phone without a link at `WinScore = 3` (3 595 439 states), and `ScoresCatchUp` in the first round with
the code's five trophies and three lives (216 360 states). `ScoresCatchUp`,
`DefeatIsReal` and `CrashNeedsTheOther` are proved for all bounds, below.

Why the bounds of `settings` are enough. Three blocks are opened, closed and opened again
within half a second; `NeverStranded` only looks at whether one is coming. What is
proved of it (below) uses neither bound. One case is left out by a guard: a round
resumed behind its own end lasts 1.5 s, and the player does not win it while the
opponent's screen is coming (`FollowContacts`), so that `Due` keeps the order of the two.

What the runs show.

* *Round.* A round has one verdict, except for one race: the player's fifth trophy and a
  contact of the AI in the same frame. `opponentToTrophyResponse` then restarts the AI
  after `endGame`; it plays on behind the end screen, and five trophies later a second
  end screen adds `darkBackground` again and ends the program (`CrashNeedsARace`,
  `FirstVerdictStands` and `ImplementsMatch` say that this, a pause menu opened over
  an ending round, and leaving the end screen just before the AI's fifth contact is
  handled, which `LateFrame` then does, are the only ways). `Due` relies on the order of two blocks with the
  same delay. Hits that arrive after a death are harmless only because `endGame` refills
  the lives and the respawn tile limits them (`HitBudget` in the proofs): with the lives
  not refilled the program crashes.
* *Settings.* No order of taps and blocks strands the player: a menu that lost its way out
  is getting one. A player who lets each transition finish plays `GameRound`'s round
  (`CalmPlayIsTheRound`). A hasty one does not: "Settings" tapped twice adds the labels
  twice and ends the program, and a round that ends behind the menu gets its pause
  button back, so that Play resumes an ended round.
* *Trophy.* The searches are exact in mazes with loops, and the trophy is fair when the
  maze allows it, where fair is what the code tests: *more* than 36 tiles away from both
  sides (`MinLength`). The comment before the function says "Atleast 36"; in a maze whose
  only suitable tiles are exactly that far away they are refused, and the fallback takes a
  nearer one (`AtLeastIsEnough`, below). When no tile is fair and the sides are aligned, the point drawn may be
  a wall none of whose tried neighbours is a space, or lie in the outermost row, and the
  program ends.
* *Maze and monsters.* The mazes are right in spite of the swapped directions of
  `nodeDirections`, which only leaves dead ends closed. A monster never walks through a
  wall, the return from the last tile of its path to the first included; its two walks
  part unless the first one ran into a dead end.
* *PvP.* Two phones that play, play on one maze. A connected phone crashes only when both
  tapped "Next"; without a link the tap itself ends the program (`NextHasAPeer`, below). A score is never late by more than what
  is under way, "Opponent won!" is never shown to somebody who did not lose, and a crash
  by two screens needs the other player's round to have ended or a pause menu. Both
  players may win: after two simultaneous fifth trophies each phone schedules "You won!"
  and then, told of the other's score, "Opponent won!" too, and the second screen ends
  the program unless the player left in between.
* *Threads.* With the code's unlocked scores no verdict is given without its score; a
  fifth trophy may be answered by a defeat or a death, never by nothing.
* *Document.* Whatever is lost, nothing is gained: no interleaving of reads and writes
  gives relics or skins for free. Losses need a stale copy or a late answer
  (`OnlyStaleCopiesLose`); `document_saves` shows one.

### Known disagreements without a run

These formulas are in the modules and false; each is reproduced by naming it as the
INVARIANT of the run's configuration.

| Formula | Configuration | What TLC shows | The code's own words |
|---|---|---|---|
| `PausedClockStaysStopped` (`AIScene`) | `AIScene.cfg` | coming back to the app starts the clock of a paused round | AppDelegate.swift:58 "here you can undo many of the changes made on entering the background" |
| `SettingsOnlyOverPause` (`SettingsOverlay`) | `SettingsOverlay.cfg` | Pause, "Settings" twice, "Back" between their two blocks: the second block shows the labels again, the menu's block the pause button, and Play leaves the labels over the running game | InfoDisplay.swift:273-288, the labels of the settings |
| `FirstPathNotTaken` (`MonsterPath`) | `MonsterPath.cfg` | a first walk that meets a dead end late forgets its first direction, and the second walk takes it again | Monster.swift:129 "Remove Possibility of Traversing First Path" |
| `OnlyExistingFiltered` (`Maze`) | `MonsterPath.cfg` | a dead end that can be opened on one side only is not, and its existing direction is tried again: left and right mean the opposite in `nodeDirections` | Maze.swift:297 "Make sure possibilities already to don exist" |
| `LabelsShowScores` (`GameRound`) | `GameRound.cfg` | `resetGameAfterPlayerDied` zeroes the scores and leaves the labels | GameSceneExt.swift:157 "Reset the game after user decides to try again after died" |
| `WinScreenEndsRound` (`PvPMatch`) | `PvPMatch.cfg` | the byte of a death shows the win screen over a round that goes on | PvPConnectionExt.swift:83 |
| `OneTrophy` (`PvPMatch`) | `PvPMatch.cfg`, with two `Tiles` | each phone places its first trophy itself | GameSceneExt.swift:68 |
| `AtLeastIsEnough` (`TrophyPlacement`) | `TrophyFallback.cfg` | a tile exactly `MinLength` (36) away from a side is not viable (Trophy.swift:73-74 test for more than 36), so in a maze without a farther one the trophy may lie nearer | Trophy.swift:53 "Atleast 36 tiles away from each player" |
| `NextHasAPeer` (`PvPHandshake`) | `PvPHandshake.cfg`, as a PROPERTY | "Next" stays after the link is lost; tapping it reads `connectedPeers[0]` of an empty array (PvPStreamDelegate.swift:16) and ends the program | PvPGameScene.swift:78 "Executed when two devices are connected" |
| `MismatchMeansDamage` (`PvPHandshake`) | `PvPHandshake.cfg` | the stream ends before the checksum message is handled: a whole map is refused | PvPStreamDelegate.swift:52 "Checksums did not match" |
| `ResponseNeedsContact` (`PvPThreads`) | `PvPThreads.cfg` | the empty override leaves the opponent's flag raised for ever | PvPGameScene.swift:149 |

### Fairness

* `WF_vars(Frame)`: the display link calls `update()` as long as the scene is shown,
  and a frame, once begun, completes: it is one call.
* `SF_vars(ShowEndScreen(s))`: the main queue runs a due block between two frames. The
  block is disabled inside every frame, hence strong fairness.
* strong fairness of a physics step in which the AI touches the trophy: the AI walks a
  shortest path of finite length and the trophy lies at its end.
* No fairness for touches. `RoundEnds` therefore assumes that the round is not kept
  paused, and says that the AI alone ends it.
* Weak fairness of the whole next-state relation in `MonsterPath`: the initializers are
  single calls.
* `PvPMatch`: `Receive` and `NotConnected` (the session delivers what was sent reliably
  or reports that the peer is gone), `ShowEndScreen`. No fairness for players, for the
  start of the host's game or for the link, which may break at any time.
* `PvPHandshake`: `ReceiveChecksum`, `EndEncountered`, `NotConnected`; none for touches.
* `PvPThreads`: each thread finishes what it began; no score need ever arrive.

## Proofs

TLAPS checks the following for every value of the constants that satisfies the named
assumption.

**The round** (`WinScoreAssumption`: `WinScore` in `Nat \ {0}`).

* `TypeCorrect`: `TypeOK` is inductive. It contains that no score of `WinScore` and no
  life count of zero survives the handler that produced it.
* The invariants of `round`, and `HeartsShowLives`, follow from `IInv`
  (`GameRoundProofs`), which adds what they rest on: frames are open only while the
  scene plays; monsters stay stopped from the end to a retry; a player that did not move
  is next to nothing (`SpawnReach`), hence at most two hits can follow an end
  (`HitBudget`), so no second death; after a death the AI has no flag raised and nobody
  restarts it (`DeathIsQuiet`); a scene is left from the pause menu or from the
  screen of a verdict (`LeftIsOver`), so a frame after that finds a last trophy of the AI only. `InvStep` has a step per action and one per part of
  `IInv`.
* `RoundImplementsMatch`: initial states map to `Match`'s, and every step under `IInv`
  is a step of `Match` or leaves its variables alone (`StepMaps`). The mapping is
  `Phase`, `Points`, `Lives`, `Verdict` and `Announced` in `GameRound`.
* `SceneKeepsTheRound`: each step of `AIScene` is a step of `GameRound` or leaves it
  unchanged, so everything above holds in solo mode. `ClockFollowsTheRound`,
  `SceneClockIsSafe` and `RunningRoundHasAClock` then follow from `ClockInv` and `IInv`
  together.

**The settings** (also `SettingsAssumption`).

* `NobodyIsStranded` and `CalmSettingsStay` need little more than the property itself:
  that the queue of blocks holds what it should, and that an end screen is scheduled
  exactly when the button is hidden by the end of a round (`ScheduleChanges`).
* `CalmSettingsKeepTheRound` is a refinement under a condition: while the player is calm,
  every step is a step of `GameRound` with `over` for `pauseHidden`. The proof
  instantiates `GameRoundProofs` with that substitution, so that `IInv` of the round,
  read through the mapping, is kept by its own `InvStep`; `CalmInv` adds that the button
  is hidden exactly when the round is over or the settings are on, and that a paused
  round is not over. Then everything proved of `GameRound` holds under calm settings.

**The handshake** (no constants).

* `OneOfferEach`, `OneMaze`, `CrashIsMutual` follow from one invariant. Its parts: "Next"
  comes when the browser is closed for good and is gone once tapped (`OfferIsLast`);
  what is under way to a phone the other one offered (`OfferedByOther`); a phone plays
  on its own offer or on the other's, or has lost its link for good over a maze it could
  not send (`PlaysOfferedMaze`). `SameMaze` is not inductive:
  two phones that both offered do play on different mazes for a while. `BothOffered`
  says why that never lasts: a map that will end one program or be refused with an alert
  is still under way, or the alert is up.

**The match** (`PvPAssumption`: `WinScore >= 2`, `FullHealth >= 2`).

* `MatchIsTyped` and `DefeatsAreReal`. `DefeatIsReal` relates two phones that only
  messages connect, so its invariant says what the messages mean: a winning score under
  way was scored (`MailIsTrue`), and the phone that scored it cannot go back to playing
  (`Stands`). That takes `RoundsOK`: a verdict for the player excludes a death before it
  (`EndsOK`), and a contact left over from an ended round finds the scores and lives of
  a new one, so it decides nothing (`LeftOver`); this is where the two assumptions are
  used. `MaxQueue` is any value: the bound in `Update` is not used.
* `CrashesNeedTheOther`. Two screens cannot meet on a phone whose peer has ended no round,
  a pause menu aside: `Quiet` says that such a phone shows no screen of the peer's, that
  at most one of its own is scheduled, and that this one finds no other up. It stays so
  because nothing under way to it ends a round (`AloneOK`), which is where the mail of
  the two phones comes in again, and because trying again follows a shown death only.
* `ScoresAreTrue`. `ScoresCatchUp` speaks of a whole queue, first message to last, which
  makes it inductive up to one fact: a lobby has no scores and a phone whose round is
  over is not `fresh` (`FreshOK`). A score sent is above those before it (`CatchUpSent`),
  one received takes the place of the score shown, and a message of any other kind ends
  a round of its sender first. Of `MatchInv` it uses the types and that trying again
  follows an end (`EndsOK`).

**The threads** (`ThreadsAssumption`: `WinScore >= 2`).

* `FieldsAreTyped` and `VerdictsEarned`. `ThreadsInv` follows the main thread from the
  score it stored to the flag it lowers, and the queue from the score it heard to the
  defeat: between any two of these steps the other thread may reset a field. `EndsInOrder`
  adds what the main thread has already stored when it is in the middle of `endGame`.

**The user document** (`DocumentAssumption`: `Unit`, `Reward`, `MaxEarned` in `Nat`).

* `DocumentIsTyped` and `NobodyGetsRich`. A stale copy may be written at any time, so
  `NothingForNothing` is not inductive: `WorthIsCovered` bounds every copy and answer
  that may still reach the document, the game's by what was earned, the others by what
  was earned and saved. The lemmas say what the changes made to a copy are worth: a
  purchase pays its price (`PurchaseIsPaid`), equipping is free, a trophy and a video
  add what was earned.
* `LossesAreExplained`. As long as every writer was careful, a copy marked current equals
  the document (the game's: the document with the relics not yet saved), and a skin the
  store offers at its price is not owned (`CopiesAreCurrent`). So a write puts back what
  is there, and what is owned and unsaved stays what was earned.

**The maze** (`MazeAssumption`: both sides odd and at least 5. They are odd because the
walk moves two tiles at a time between two walls; on a side of 3 `openUpMap` would look
beyond the other wall. The code has 21 and 37.)

* `MazeInvariant` carries all of it. Spaces are *cells*, with two odd coordinates, or
  *halls*, with one; the two ends of a hall that is a space are spaces, and the
  connections are exactly the doors of halls to their ends (`Shape`). A set of spaces
  that holds the start and is closed under connections is the whole maze (`Whole`): this
  says "every space can be reached" without a recursive definition. While the walk is
  under way the maze is a tree, and a visited tile off the stack has no neighbour left
  to visit (`CarvingOK`). `Carve` and `OpenUp` are the same operation, a hall dug from a
  cell of the maze to a cell, so one lemma serves both (`Dug`).
* `MazeTypes`, `WalkNeverPeeksEmpty`, `CellsAreSpaces`: with an empty stack no cell is
  left, because the one nearest to the start would have a visited neighbour off the
  stack (`CellBefore`). `openUpMap` stays inside the outer walls because a dead end
  has a cell on the other side of the tile that is opened (`OpenedInside`).
* `MazeIsConnected`: `TreeThenConnected` uses a recursive function that collects a
  neighbourhood at a time. `ReachedFromDef` shows that the function exists. Of the sets
  from which not every space is reached take a largest: if it is closed it is the whole
  maze, otherwise its neighbourhood is a larger one (`AllReached`).
* `JoinerHasTheSameMaze`: by `Shape` spaces determine connections, and two spaces side by
  side are always a hall and an end of it.

**The monsters** (also `MonsterAssumption`: `Margin` a natural number, `Steps` positive).

* `MonstersKeepTheMaze`: a monster's steps are stutters of `Maze`, so all of the above
  holds here. `MonstersStayInTheMaze`: a walk is a sequence of neighbours (`WalksOn`), so
  is its way back (`WayBack`), and two of them that begin at one tile make a ring.
* `WalksOfMonstersPart` has the hypothesis `Steps <= 5`, which is the code's number. Cells and
  halls alternate on a walk (`Alternate`), two halls never join the same two cells
  (`HallsApart`), so there is no ring of four tiles (`NoSquares`), and a walk of at most
  five spaces that cannot go on stands in a dead end of the maze (`DeadEnds`). A longer
  one could run into itself round a wall.

**The trophy** (also `TrophyAssumption`: the four measures are natural numbers).

* `DistancesAreShortest`: the invariant of breadth-first search: distances in the queue
  rise by at most one, tiles before its head have all their neighbours measured, and a
  measured tile other than the start has a neighbour nearer by one. When the queue is
  empty the measured tiles are closed under connections, so by `Whole` they are all
  spaces (`ClosedIsAll`). `ShortestFrom` is stated locally, neighbour by neighbour;
  `OneShortestMap` shows that it determines the map, by the tile nearest by one of two
  maps that differ, so the search can have found nothing else.
* `TrophyIsFair`: the trophy is drawn among the viable tiles if there are any, and those
  are the fair ones, because the two maps are the shortest.

Induction. The SMT and Zenon backends cannot instantiate the library's induction
theorems, which take an operator as a parameter. Where an argument needs one it takes a
least counterexample instead: a nonempty set of natural numbers has a smallest element
(`LeastNumber`), and of sets of spaces one is largest; both follow from the library's
`FS_StrictSubsetOrderingWellFounded` and `WFMin`. This is enough for everything above, which is induction
over tiles and distances; it is not a way to unfold a `RECURSIVE` operator, so the
modules have none.

Only model-checked:

* liveness: `EndScreenAppears`, `RoundEnds`, `GenerationEnds`, `WinIsHeard`,
  `StartedTogether`, `FifthIsAnswered`. TLAPS has neither fairness nor ENABLED. That the
  walk ends rests on a measure (tiles left to visit, then the stack's length) that the
  proofs do not state.
* the violated formulas of the findings and of the table above, which are shown false by
  a behaviour and need no proof.

Every invariant a run checks, every action property and both refinements are
proved.

## Not modelled

* In PvP: opponent positions, which move a sprite and decide nothing; the decoding
  failure that goes on into `setupGame` (PvPStreamDelegate.swift:66), which needs a
  stream that has the right checksum and cannot be decoded; the alert of a scene that was left,
  and `done`, which decides whether it is presented; monsters that differ after one
  phone's Try Again (GameSceneExt.swift:178).
* In solo mode: the start of `GameViewController`, before the scene exists
  (AppDelegate.swift:53 unwraps `aiGame` then); music, which the app's life cycle stops.
* Of the settings: the three preferences, which are assignments to globals.
* Of `Trophy.swift`: the branch for circles that meet in two points, which circles of
  this size never do, and two strategies nothing calls. Sides that stand between tiles.
* The document on two devices of one user, and the leaderboard that reads it.
* Proofs that would come next: the type invariants of the compositions that no run asks
  for (`ClockTypeOK`, `SettingsTypeOK`, `PathTypeOK`, `TrophyTypeOK`; the last bounds a
  distance by the number of spaces), and the measure under which generation ends.

A run asks several questions of one state space where that is affordable: new components
join an existing run through composition, as `MonsterPath` does with `Maze`.

Left out for good: drawing and geometry (tiles, minimap, joystick graphics), sounds,
menus that only forward to Firebase, the vendored Pods.
