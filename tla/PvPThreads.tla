----------------------------- MODULE PvPThreads -----------------------------
(***************************************************************************)
(* The two threads inside one phone of a match.  update() runs on the main   *)
(* thread; MCSession calls session(didReceive:) on a queue of its own        *)
(* (external), and the code does not move it to the main one, so both read   *)
(* and write the scores and both may end the round, without a lock.          *)
(*                                                                          *)
(* One step is one access to a shared field: `+=' is a load and a store.     *)
(* The first round of the match is modelled, with an opponent that collects  *)
(* trophies and does not die (deaths, screens and the session are in         *)
(* PvPMatch, where handlers are atomic).                                     *)
(***************************************************************************)
EXTENDS Naturals

CONSTANT WinScore      \* trophies that win the round (5 in the code)

ASSUME ThreadsAssumption == WinScore \in Nat /\ WinScore >= 2

FullHealth == 3
Winners == {"player", "opponent"}
Threads == {"main", "queue"}

VARIABLES
  main,                          \* where the main thread is
  queue,                         \* where the session's queue is
  score, opponentScore, health,  \* shared
  register,                      \* what the main thread loaded
  stores,                        \* how many stores of endGame each thread has done
  player1CollisionFlag, opponentCollisionFlag, monsterCollisionFlag,
  ended,                         \* inputs off, actors stopped
  scheduled,                     \* win screens scheduled
  deaths,                        \* "You Died!" screens scheduled
  told, heard,                   \* history: the score last sent, last received
  contact                        \* history: the opponent met the trophy since the last response

shared == <<score, opponentScore, health, ended, scheduled>>
local == <<register, stores>>
flagVars == <<player1CollisionFlag, opponentCollisionFlag, monsterCollisionFlag>>
vars == <<main, queue, shared, local, flagVars, deaths, told, heard, contact>>

SwitchesOK ==
  /\ player1CollisionFlag \in BOOLEAN /\ opponentCollisionFlag \in BOOLEAN
  /\ monsterCollisionFlag \in BOOLEAN
  /\ ended \in BOOLEAN /\ contact \in BOOLEAN

\* Every field and program counter keeps its type
TypeOK ==
  /\ SwitchesOK
  /\ main \in {"idle", "player", "store", "send", "check", "win", "opponent",
               "checkOpponent", "opponentWin", "monster", "hurt", "respawn", "died", "contacts"}
  /\ queue \in {"idle", "checkOpponent", "opponentWin"}
  /\ score \in 0 .. WinScore /\ opponentScore \in 0 .. WinScore
  /\ health \in 0 .. FullHealth
  /\ register \in Nat /\ stores \in [Threads -> 0 .. 4]
  /\ scheduled \in [Winners -> Nat] /\ deaths \in Nat
  /\ told \in 0 .. WinScore /\ heard \in 0 .. WinScore

Init ==
  /\ main = "idle" /\ queue = "idle"
  /\ score = 0 /\ opponentScore = 0 /\ health = FullHealth
  /\ register = 0 /\ stores = [t \in Threads |-> 0]
  /\ player1CollisionFlag = FALSE /\ opponentCollisionFlag = FALSE
  /\ monsterCollisionFlag = FALSE
  /\ ended = FALSE
  /\ scheduled = [w \in Winners |-> 0] /\ deaths = 0
  /\ told = 0 /\ heard = 0
  /\ contact = FALSE

\* endGame on one of the threads: the joystick and the actors are stopped, then the three
\* fields are stored one after the other
EndGame(t) ==
  /\ stores[t] < 4
  /\ stores' = [stores EXCEPT ![t] = @ + 1]
  /\ ended' = (ended \/ stores[t] = 0)
  /\ score' = IF stores[t] = 1 THEN 0 ELSE score
  /\ health' = IF stores[t] = 2 THEN FullHealth ELSE health
  /\ opponentScore' = IF stores[t] = 3 THEN 0 ELSE opponentScore

GameEnded(t) == stores[t] = 4 /\ stores' = [stores EXCEPT ![t] = 0]

Schedule(winner) == scheduled' = [scheduled EXCEPT ![winner] = @ + 1]

----------------------------------------------------------------------------
(* The main thread: update(), step by step *)

Step(from, to) == main = from /\ main' = to

BeginFrame ==
  /\ Step("idle", "player")
  /\ UNCHANGED <<queue, shared, local, flagVars, deaths, told, heard, contact>>

\* player_Score += 1
LoadScore ==
  /\ player1CollisionFlag /\ Step("player", "store")
  /\ register' = score
  /\ UNCHANGED <<queue, shared, stores, flagVars, deaths, told, heard, contact>>

NoPlayerContact ==
  /\ ~player1CollisionFlag /\ Step("player", "opponent")
  /\ UNCHANGED <<queue, shared, local, flagVars, deaths, told, heard, contact>>

StoreScore ==
  /\ Step("store", "send")
  /\ score' = register + 1
  /\ player1CollisionFlag' = FALSE
  /\ UNCHANGED <<queue, opponentScore, health, ended, scheduled, local,
                 opponentCollisionFlag, monsterCollisionFlag, deaths, told, heard, contact>>

\* Variant: the packet has the score as it was loaded
SendRegister ==
  /\ Step("send", "check")
  /\ told' = register
  /\ UNCHANGED <<queue, shared, local, flagVars, deaths, heard, contact>>

\* The packet reads the score again ...
SendScore ==
  /\ Step("send", "check")
  /\ told' = score
  /\ UNCHANGED <<queue, shared, local, flagVars, deaths, heard, contact>>

\* ... and so does the check
CheckWin ==
  /\ Step("check", IF score = WinScore THEN "win" ELSE "opponent")
  /\ UNCHANGED <<queue, shared, local, flagVars, deaths, told, heard, contact>>

\* Each of the three ends calls endGame before it schedules its screen
MainEndsGame ==
  /\ main \in {"win", "opponentWin", "died"} /\ EndGame("main")
  /\ UNCHANGED <<main, queue, scheduled, register, flagVars, deaths, told, heard, contact>>

OnPlayerWin ==
  /\ Step("win", "opponent")
  /\ GameEnded("main") /\ Schedule("player")
  /\ UNCHANGED <<queue, score, opponentScore, health, ended, register, flagVars, deaths,
                 told, heard, contact>>

\* The response to the opponent's contact is overridden by an empty one, which leaves
\* the flag raised; checkOpponentWin follows in every frame from then on
OpponentCollisionResponse ==
  /\ Step("opponent", IF opponentCollisionFlag THEN "checkOpponent" ELSE "monster")
  /\ UNCHANGED <<queue, shared, local, flagVars, deaths, told, heard, contact>>

MainChecksOpponent ==
  /\ Step("checkOpponent", IF opponentScore >= WinScore THEN "opponentWin" ELSE "monster")
  /\ contact' = FALSE
  /\ UNCHANGED <<queue, shared, local, flagVars, deaths, told, heard>>

MainEndsForOpponent ==
  /\ Step("opponentWin", "monster")
  /\ GameEnded("main") /\ Schedule("opponent")
  /\ UNCHANGED <<queue, score, opponentScore, health, ended, register, flagVars, deaths,
                 told, heard, contact>>

\* decreaseHealth, again a load and a store
LoadHealth ==
  /\ Step("monster", IF monsterCollisionFlag THEN "hurt" ELSE "contacts")
  /\ register' = IF monsterCollisionFlag THEN health ELSE register
  /\ UNCHANGED <<queue, shared, stores, flagVars, deaths, told, heard, contact>>

StoreHealth ==
  /\ Step("hurt", "respawn")
  /\ health' = IF register > 0 THEN register - 1 ELSE health
  /\ monsterCollisionFlag' = FALSE
  /\ UNCHANGED <<queue, score, opponentScore, ended, scheduled, local,
                 player1CollisionFlag, opponentCollisionFlag, deaths, told, heard, contact>>

CheckHealth ==
  /\ Step("respawn", IF health = 0 THEN "died" ELSE "contacts")
  /\ UNCHANGED <<queue, shared, local, flagVars, deaths, told, heard, contact>>

OnMonsterWin ==
  /\ Step("died", "contacts")
  /\ GameEnded("main")
  /\ deaths' = deaths + 1
  /\ UNCHANGED <<queue, shared, register, flagVars, told, heard, contact>>

\* didBegin: the player and the monsters only move while the round runs, the
\* opponent's sprite is put where the other phone says
DidBegin ==
  /\ Step("contacts", "idle")
  /\ \E player, opponent, monster \in BOOLEAN :
       /\ ended => ~player /\ ~monster
       /\ player1CollisionFlag' = (player1CollisionFlag \/ player)
       /\ opponentCollisionFlag' = (opponentCollisionFlag \/ opponent)
       /\ monsterCollisionFlag' = (monsterCollisionFlag \/ monster)
       /\ contact' = (contact \/ opponent)
  /\ UNCHANGED <<queue, shared, local, deaths, told, heard>>

Main ==
  \/ BeginFrame \/ LoadScore \/ NoPlayerContact \/ StoreScore \/ SendScore
  \/ CheckWin \/ MainEndsGame \/ OnPlayerWin
  \/ OpponentCollisionResponse \/ MainChecksOpponent \/ MainEndsForOpponent
  \/ LoadHealth \/ StoreHealth \/ CheckHealth \/ OnMonsterWin
  \/ DidBegin

----------------------------------------------------------------------------
(* The session's queue *)

\* A score packet: the opponent collects one trophy after the other
ReceiveScore ==
  /\ queue = "idle" /\ heard < WinScore
  /\ heard' = heard + 1
  /\ opponentScore' = heard + 1
  /\ queue' = "checkOpponent"
  /\ UNCHANGED <<main, score, health, ended, scheduled, local, flagVars, deaths,
                 told, contact>>

QueueChecksOpponent ==
  /\ queue = "checkOpponent"
  /\ queue' = IF opponentScore >= WinScore THEN "opponentWin" ELSE "idle"
  /\ UNCHANGED <<main, shared, local, flagVars, deaths, told, heard, contact>>

QueueEndsGame ==
  /\ queue = "opponentWin" /\ EndGame("queue")
  /\ UNCHANGED <<main, queue, scheduled, register, flagVars, deaths, told, heard, contact>>

\* Variant: the screen is left to the main thread
QueueEndsQuietly ==
  /\ queue = "opponentWin" /\ queue' = "idle"
  /\ GameEnded("queue")
  /\ UNCHANGED <<main, shared, register, flagVars, deaths, told, heard, contact>>

QueueEndsForOpponent ==
  /\ queue = "opponentWin" /\ queue' = "idle"
  /\ GameEnded("queue") /\ Schedule("opponent")
  /\ UNCHANGED <<main, score, opponentScore, health, ended, register, flagVars, deaths,
                 told, heard, contact>>

\* checkOpponentWin on the queue, once a score packet was taken
QueueGoesOn == QueueChecksOpponent \/ QueueEndsGame \/ QueueEndsForOpponent

Queue == ReceiveScore \/ QueueGoesOn

Next == Main \/ Queue

\* Both threads go on with what they began
Fairness == WF_vars(Main) /\ WF_vars(QueueGoesOn)

Spec == Init /\ [][Next]_vars
FairSpec == Spec /\ Fairness

----------------------------------------------------------------------------
(* Properties *)

\* However the threads interleave, "You won!" is scheduled once at most and only after
\* the other phone was told the winning score, and "Opponent won!" only for a winning
\* score that was received: twice only if the opponent's flag is stuck.
VerdictsAreEarned ==
  /\ scheduled["player"] > 0 => scheduled["player"] = 1 /\ told = WinScore
  /\ scheduled["opponent"] > 0 => heard = WinScore
  /\ scheduled["opponent"] > 1 => opponentCollisionFlag

\* A player who collected the last trophy is answered by a screen, be it the wrong one:
\* the race may lose the win to a defeat or a death, never to nothing.
FifthIsAnswered ==
  main = "send" /\ score = WinScore
    ~> (scheduled["player"] + scheduled["opponent"] + deaths > 0)

\* A frame responds to the opponent's contact with the trophy only when there was one
ResponseNeedsContact == main = "checkOpponent" => contact
=============================================================================
