-------------------------- MODULE PvPThreadsProofs --------------------------
(***************************************************************************)
(* The verdicts of a match are earned however the two threads interleave.   *)
(***************************************************************************)
EXTENDS PvPThreads, TLAPS

----------------------------------------------------------------------------
(* The inductive invariant *)

\* A winning score is gone before the main thread looks for contacts again, so what it
\* loads at the start of a response is short of winning
ScoreInReach ==
  /\ score = WinScore => main \in {"send", "check", "win"}
  /\ main = "store" => register < WinScore
  /\ main = "hurt" => register <= FullHealth

\* The flag that started a response is lowered before the packet is sent
FlagLowered ==
  /\ main = "store" => player1CollisionFlag
  /\ main \in {"send", "check", "win"} => ~player1CollisionFlag

\* A winning score that is checked was sent: between the two accesses the other thread
\* can only set it to zero
WinWasTold ==
  /\ main = "check" /\ score = WinScore => told = WinScore
  /\ main = "win" => told = WinScore

\* The main thread is in endGame only on its way to a screen, and leaves it with the
\* actors stopped and, after a win, with the winning score gone
EndsInOrder ==
  /\ stores["main"] > 0 => ended /\ main \in {"win", "opponentWin", "died"}
  /\ main = "win" /\ stores["main"] > 1 => score # WinScore

\* Once a win is scheduled nothing starts another one
WonOnce ==
  scheduled["player"] > 0 =>
    /\ ended /\ ~player1CollisionFlag
    /\ main \notin {"store", "send", "check", "win"}
    /\ scheduled["player"] = 1 /\ told = WinScore

\* Scores are received in order; what is shown is the last one or was reset
HeardInOrder == opponentScore <= heard

\* Either thread decides for the opponent on a received winning score; only the stuck
\* flag lets the main thread decide at all
DefeatWasHeard ==
  /\ queue = "opponentWin" => heard = WinScore
  /\ main \in {"checkOpponent", "opponentWin"} => opponentCollisionFlag
  /\ main = "opponentWin" => heard = WinScore

\* Without that flag the session's queue decided, which it does for the last packet
LostOnce ==
  /\ scheduled["opponent"] > 0 => heard = WinScore
  /\ ~opponentCollisionFlag =>
       \/ scheduled["opponent"] = 0
       \/ scheduled["opponent"] = 1 /\ queue = "idle"

ThreadsInv ==
  /\ TypeOK
  /\ ScoreInReach /\ FlagLowered /\ WinWasTold /\ EndsInOrder /\ WonOnce
  /\ HeardInOrder /\ DefeatWasHeard /\ LostOnce

LEMMA InitThreads == Init => ThreadsInv
<1> SUFFICES ASSUME Init PROVE ThreadsInv
  OBVIOUS
<1>1. SwitchesOK
  BY DEF Init, SwitchesOK
<1>2. TypeOK
  BY <1>1, ThreadsAssumption DEF Init, TypeOK, FullHealth, Winners, Threads
<1>3. QED
  BY <1>2, ThreadsAssumption DEF Init, ThreadsInv, ScoreInReach, FlagLowered, WinWasTold,
     EndsInOrder, WonOnce, HeardInOrder, DefeatWasHeard, LostOnce, FullHealth, Winners, Threads

\* Flags and switches stay what they are or are set to TRUE or FALSE
LEMMA SwitchesStep == SwitchesOK /\ [Next]_vars => SwitchesOK'
<1> SUFFICES ASSUME SwitchesOK, [Next]_vars PROVE SwitchesOK'
  OBVIOUS
<1> USE DEF SwitchesOK, shared, local, flagVars
<1>1. CASE BeginFrame
  BY <1>1, Zenon DEF BeginFrame, Step
<1>2. CASE LoadScore
  BY <1>2, Zenon DEF LoadScore, Step
<1>3. CASE NoPlayerContact
  BY <1>3, Zenon DEF NoPlayerContact, Step
<1>4. CASE StoreScore
  BY <1>4, Zenon DEF StoreScore, Step
<1>5. CASE SendScore
  BY <1>5, Zenon DEF SendScore, Step
<1>6. CASE CheckWin
  BY <1>6, Zenon DEF CheckWin, Step
<1>7. CASE OnPlayerWin
  BY <1>7, Zenon DEF OnPlayerWin, Step
<1>8. CASE OpponentCollisionResponse
  BY <1>8, Zenon DEF OpponentCollisionResponse, Step
<1>9. CASE MainChecksOpponent
  BY <1>9, Zenon DEF MainChecksOpponent, Step
<1>10. CASE MainEndsForOpponent
  BY <1>10, Zenon DEF MainEndsForOpponent, Step
<1>11. CASE LoadHealth
  BY <1>11, Zenon DEF LoadHealth, Step
<1>12. CASE StoreHealth
  BY <1>12, Zenon DEF StoreHealth, Step
<1>13. CASE CheckHealth
  BY <1>13, Zenon DEF CheckHealth, Step
<1>14. CASE OnMonsterWin
  BY <1>14, Zenon DEF OnMonsterWin, Step
<1>15. CASE DidBegin
  BY <1>15, Zenon DEF DidBegin, Step
<1>16. CASE ReceiveScore
  BY <1>16, Zenon DEF ReceiveScore
<1>17. CASE QueueChecksOpponent
  BY <1>17, Zenon DEF QueueChecksOpponent
<1>18. CASE QueueEndsForOpponent
  BY <1>18, Zenon DEF QueueEndsForOpponent
<1>19. CASE UNCHANGED vars
  BY <1>19, Zenon DEF vars
<1>21. CASE MainEndsGame
  BY <1>21, Zenon DEF MainEndsGame, EndGame
<1>22. CASE QueueEndsGame
  BY <1>22, Zenon DEF QueueEndsGame, EndGame
<1>20. QED
  BY <1>1, <1>2, <1>3, <1>4, <1>5, <1>6, <1>7, <1>8, <1>9, <1>10, <1>11, <1>12,
     <1>13, <1>14, <1>15, <1>16, <1>17, <1>18, <1>19, <1>21, <1>22
  DEF Next, Main, Queue, QueueGoesOn

LEMMA ThreadsStep == ThreadsInv /\ [Next]_vars => ThreadsInv'
<1> SUFFICES ASSUME ThreadsInv, [Next]_vars PROVE ThreadsInv'
  OBVIOUS
<1>0. SwitchesOK'
  BY SwitchesStep DEF ThreadsInv, TypeOK
<1> USE ThreadsAssumption DEF ThreadsInv, TypeOK, ScoreInReach, FlagLowered, WinWasTold,
     EndsInOrder, WonOnce, HeardInOrder, DefeatWasHeard, LostOnce, FullHealth, Winners, Threads, shared, local, flagVars
<1>1. CASE BeginFrame
  BY <1>0, <1>1 DEF BeginFrame, Step
<1>2. CASE LoadScore
  BY <1>0, <1>2 DEF LoadScore, Step
<1>3. CASE NoPlayerContact
  BY <1>0, <1>3 DEF NoPlayerContact, Step
<1>4. CASE StoreScore
  BY <1>0, <1>4 DEF StoreScore, Step
<1>5. CASE SendScore
  BY <1>0, <1>5 DEF SendScore, Step
<1>6. CASE CheckWin
  BY <1>0, <1>6 DEF CheckWin, Step
<1>7. CASE OnPlayerWin
  BY <1>0, <1>7 DEF OnPlayerWin, Step, GameEnded, Schedule
<1>8. CASE OpponentCollisionResponse
  BY <1>0, <1>8 DEF OpponentCollisionResponse, Step
<1>9. CASE MainChecksOpponent
  BY <1>0, <1>9 DEF MainChecksOpponent, Step
<1>10. CASE MainEndsForOpponent
  BY <1>0, <1>10 DEF MainEndsForOpponent, Step, GameEnded, Schedule
<1>11. CASE LoadHealth
  BY <1>0, <1>11 DEF LoadHealth, Step
<1>12. CASE StoreHealth
  BY <1>0, <1>12 DEF StoreHealth, Step
<1>13. CASE CheckHealth
  BY <1>0, <1>13 DEF CheckHealth, Step
<1>14. CASE OnMonsterWin
  BY <1>0, <1>14 DEF OnMonsterWin, Step, GameEnded
<1>15. CASE DidBegin
  BY <1>0, <1>15 DEF DidBegin, Step
<1>16. CASE ReceiveScore
  BY <1>0, <1>16 DEF ReceiveScore
<1>17. CASE QueueChecksOpponent
  BY <1>0, <1>17 DEF QueueChecksOpponent
<1>18. CASE QueueEndsForOpponent
  BY <1>0, <1>18 DEF QueueEndsForOpponent, GameEnded, Schedule
<1>19. CASE UNCHANGED vars
  BY <1>0, <1>19 DEF vars
<1>21. CASE MainEndsGame
  <2>1. /\ stores["main"] < 4 /\ stores' = [stores EXCEPT !["main"] = @ + 1]
        /\ score' = IF stores["main"] = 1 THEN 0 ELSE score
        /\ health' = IF stores["main"] = 2 THEN FullHealth ELSE health
        /\ opponentScore' = IF stores["main"] = 3 THEN 0 ELSE opponentScore
        /\ UNCHANGED <<main, queue, scheduled, register, deaths, told, heard>>
    BY <1>21, Zenon DEF MainEndsGame, EndGame
  <2>2. /\ player1CollisionFlag' = player1CollisionFlag
        /\ opponentCollisionFlag' = opponentCollisionFlag
    BY <1>21, Zenon DEF MainEndsGame
  <2>3. ended => ended'
    BY <1>21, Zenon DEF MainEndsGame, EndGame
  <2>4. main \in {"win", "opponentWin", "died"}
    BY <1>21 DEF MainEndsGame
  <2>5. stores["main"] = 0 => ended'
    BY <1>21, Zenon DEF MainEndsGame, EndGame
  <2>6. stores'["main"] > 0 => ended'
    BY <2>1, <2>3, <2>5
  <2>7. TypeOK'
    BY <1>0, <2>1
  <2>8. QED
    BY <2>1, <2>2, <2>3, <2>4, <2>6, <2>7
<1>22. CASE QueueEndsGame
  <2>1. /\ stores["queue"] < 4 /\ stores' = [stores EXCEPT !["queue"] = @ + 1]
        /\ score' = IF stores["queue"] = 1 THEN 0 ELSE score
        /\ health' = IF stores["queue"] = 2 THEN FullHealth ELSE health
        /\ opponentScore' = IF stores["queue"] = 3 THEN 0 ELSE opponentScore
        /\ UNCHANGED <<main, queue, scheduled, register, deaths, told, heard>>
    BY <1>22, Zenon DEF QueueEndsGame, EndGame
  <2>2. /\ player1CollisionFlag' = player1CollisionFlag
        /\ opponentCollisionFlag' = opponentCollisionFlag
    BY <1>22, Zenon DEF QueueEndsGame
  <2>3. ended => ended'
    BY <1>22, Zenon DEF QueueEndsGame, EndGame
  <2>7. TypeOK'
    BY <1>0, <2>1
  <2>8. QED
    BY <2>1, <2>2, <2>3, <2>7
<1>20. QED
  BY <1>1, <1>2, <1>3, <1>4, <1>5, <1>6, <1>7, <1>8, <1>9, <1>10, <1>11, <1>12,
     <1>13, <1>14, <1>15, <1>16, <1>17, <1>18, <1>19, <1>21, <1>22
  DEF Next, Main, Queue, QueueGoesOn

LEMMA ThreadsInvariant == Spec => []ThreadsInv
<1>1. QED
  BY InitThreads, ThreadsStep, PTL DEF Spec

----------------------------------------------------------------------------
(* The theorems *)

\* Every field of a phone keeps its type while both threads write: no score beyond the
\* winning one and no health beyond three is ever stored, whatever one thread loaded
\* before the other reset it.
THEOREM FieldsAreTyped == Spec => []TypeOK
<1>1. ThreadsInv => TypeOK
  BY DEF ThreadsInv
<1>2. QED
  BY <1>1, ThreadsInvariant, PTL

\* A win is scheduled once and was told to the other phone; a defeat was received, and
\* a second screen for it needs the flag nobody lowers.
THEOREM VerdictsEarned == Spec => []VerdictsAreEarned
<1>1. ThreadsInv => VerdictsAreEarned
  BY DEF ThreadsInv, TypeOK, WonOnce, LostOnce, VerdictsAreEarned, Winners
<1>2. QED
  BY <1>1, ThreadsInvariant, PTL
=============================================================================
