------------------------------- MODULE Match -------------------------------
(***************************************************************************)
(* What a round of Relic Race promises, without frames, flags, menus or     *)
(* delayed blocks: trophies and lives are counted while the round is on,    *)
(* the first side to WinScore or the last life ends it with one verdict,    *)
(* that verdict and no other is announced, and only a death may be retried, *)
(* from a clean start and after it was announced.                           *)
(***************************************************************************)
EXTENDS Naturals

CONSTANTS WinScore, Lives

VARIABLES phase,      \* "on", "over" or "gone"
          points,     \* trophies of each side while the round is on
          lives,      \* the player's lives while the round is on
          verdict,    \* how the round ended
          announced   \* the end screen is up

vars == <<phase, points, lives, verdict, announced>>

Sides == {"player", "opponent"}
NoPoints == [s \in Sides |-> 0]

Init == /\ phase = "on"
        /\ points = NoPoints
        /\ lives = Lives
        /\ verdict = "none"
        /\ announced = FALSE

\* The round ends: counts are cleared, the verdict stands until the screen is left
End(v) == /\ phase' = "over"
          /\ points' = NoPoints
          /\ lives' = Lives
          /\ verdict' = v
          /\ announced' = FALSE

Collect(s) ==
  /\ phase = "on"
  /\ \/ /\ points[s] + 1 >= WinScore
        /\ End(s)
     \/ /\ points[s] + 1 < WinScore
        /\ points' = [points EXCEPT ![s] = @ + 1]
        /\ UNCHANGED <<phase, lives, verdict, announced>>

Hit ==
  /\ phase = "on"
  /\ \/ /\ lives = 1
        /\ End("died")
     \/ /\ lives > 1
        /\ lives' = lives - 1
        /\ UNCHANGED <<phase, points, verdict, announced>>

Announce == /\ phase = "over" /\ ~announced
            /\ announced' = TRUE
            /\ UNCHANGED <<phase, points, lives, verdict>>

Retry == /\ phase = "over" /\ announced /\ verdict = "died"
         /\ phase' = "on"
         /\ verdict' = "none"
         /\ announced' = FALSE
         /\ UNCHANGED <<points, lives>>

\* The scene is left, or the program dies: nothing more is promised
Go == /\ phase # "gone"
      /\ phase' = "gone"
      /\ points' = NoPoints
      /\ lives' = Lives
      /\ verdict' = "none"
      /\ announced' = FALSE

Next == \/ \E s \in Sides : Collect(s)
        \/ Hit \/ Announce \/ Retry \/ Go

Spec == Init /\ [][Next]_vars
=============================================================================
