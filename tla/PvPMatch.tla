------------------------------ MODULE PvPMatch ------------------------------
(***************************************************************************)
(* A match of two phones.  Each plays a round of its own (GameRound without *)
(* the AI) and tells the other what its player did: a score with the new    *)
(* place of the trophy when it collects one, a byte when it dies.  MCSession *)
(* delivers in order while the session lasts (external).                    *)
(*                                                                          *)
(* The handshake is abstract here: the guest tapped "Next" and plays, the    *)
(* host starts when the map has arrived.  What a phone does in one call is   *)
(* one step.  Opponent positions are left out: they move a sprite and, at the  *)
(* trophy, raise a flag whose response is empty and whose check finds the      *)
(* scores of a round that goes on (PvPThreads looks into it).                  *)
(***************************************************************************)
EXTENDS Naturals, SequencesExt

CONSTANTS WinScore,      \* trophies that win the round (5 in the code)
          FullHealth,    \* lives at the start of a round (3 in the code)
          Tiles,         \* places of the trophy
          MaxQueue       \* bound: messages under way to a phone

ASSUME PvPAssumption ==
  /\ WinScore \in Nat /\ WinScore >= 2
  /\ FullHealth \in Nat /\ FullHealth >= 2      \* a hit handled after the end kills nobody
  /\ Tiles # {}

Phones == {"host", "guest"}
Other(p) == IF p = "host" THEN "guest" ELSE "host"

EndScreens == {"player", "opponent", "died"}

VARIABLES phone,     \* what each phone holds
          inbox,     \* messages under way to each phone, oldest first
          linked     \* the session lasts

vars == <<phone, inbox, linked>>

Messages == [kind : {"score"}, score : 1 .. WinScore, pos : Tiles] \cup [kind : {"died"}]

Scenes ==
  [status : {"lobby", "playing", "left", "crashed"},
   score : 0 .. WinScore - 1, opponentScore : 0 .. WinScore - 1,
   health : 1 .. FullHealth,
   flags : SUBSET {"player", "monster"},     \* contacts not yet handled
   trophy : Tiles,
   overlay : {"none", "pause"} \cup EndScreens,
   isPausing : BOOLEAN, pauseHidden : BOOLEAN,
   deaths : Nat,                             \* scheduled "You Died!" screens
   verdicts : Seq({"player", "opponent"}),   \* scheduled win screens, oldest first
   alert : BOOLEAN,                          \* "Other Player Disconnected" is up
   fresh : BOOLEAN]                          \* history: no round ended here yet

\* Every phone and every message under way keeps its type
TypeOK ==
  /\ phone \in [Phones -> Scenes]
  /\ inbox \in [Phones -> Seq(Messages)]
  /\ linked \in BOOLEAN

NewScene(status, tile) ==
  [status |-> status, score |-> 0, opponentScore |-> 0, health |-> FullHealth,
   flags |-> {}, trophy |-> tile, overlay |-> "none", isPausing |-> FALSE,
   pauseHidden |-> FALSE, deaths |-> 0, verdicts |-> <<>>, alert |-> FALSE, fresh |-> TRUE]

Init ==
  /\ \E here, there \in Tiles :
       phone = [p \in Phones |-> IF p = "guest" THEN NewScene("playing", here)
                                                ELSE NewScene("lobby", there)]
  /\ inbox = [p \in Phones |-> <<>>]
  /\ linked = TRUE

Becomes(p, scene) == phone' = [phone EXCEPT ![p] = scene]

\* mcSession.send: without a connected peer it throws, and the message is dropped
Send(p, messages) ==
  inbox' = IF linked THEN [inbox EXCEPT ![Other(p)] = @ \o messages] ELSE inbox

----------------------------------------------------------------------------
(* What the handlers make of a scene *)

EndGame(scene) ==
  [scene EXCEPT !.pauseHidden = TRUE, !.score = 0, !.opponentScore = 0,
                !.health = FullHealth, !.fresh = FALSE]

\* asyncAfter 1.5 seconds: the blocks run in the order in which they were scheduled
Schedule(scene, screen) == [scene EXCEPT !.verdicts = Append(@, screen)]

\* setUpBackground adds darkBackground, which may have a parent only once: an
\* Objective-C exception otherwise, and the contacts not yet handled go with the program
Display(scene, screen) ==
  IF scene.overlay = "none" THEN [scene EXCEPT !.overlay = screen]
                            ELSE [scene EXCEPT !.status = "crashed", !.flags = {}]

\* playerCollisionResponse: the trophy moves, the score counts, the fifth one wins
Collect(scene, tile) ==
  LET moved == [scene EXCEPT !.flags = @ \ {"player"}, !.trophy = tile] IN
  IF scene.score + 1 = WinScore THEN Schedule(EndGame(moved), "player")
                                ELSE [moved EXCEPT !.score = @ + 1]

\* Variant: the last life is not looked at
HitUnchecked(scene) == [scene EXCEPT !.flags = @ \ {"monster"}, !.health = @ - 1]

\* monsterCollisionResponse
Hit(scene) ==
  LET hit == [scene EXCEPT !.flags = @ \ {"monster"}] IN
  IF scene.health = 1 THEN [EndGame(hit) EXCEPT !.deaths = @ + 1]
                      ELSE [hit EXCEPT !.health = @ - 1]

\* Variants: won one trophy early, or one late
OpponentWinsEarly(scene, message) ==
  LET told == [scene EXCEPT !.trophy = message.pos] IN
  IF message.score >= WinScore - 1 THEN Schedule(EndGame(told), "opponent")
                                   ELSE [told EXCEPT !.opponentScore = message.score]

OpponentWinsLate(scene, message) ==
  LET told == [scene EXCEPT !.trophy = message.pos] IN
  IF message.score > WinScore THEN Schedule(EndGame(told), "opponent")
                              ELSE [told EXCEPT !.opponentScore = message.score]

\* checkOpponentWin after a score was taken over
OpponentScores(scene, message) ==
  LET told == [scene EXCEPT !.trophy = message.pos] IN
  IF message.score >= WinScore THEN Schedule(EndGame(told), "opponent")
                               ELSE [told EXCEPT !.opponentScore = message.score]

----------------------------------------------------------------------------
(* The main thread *)

Playing(p) == phone[p].status = "playing"

\* Variant: the joystick stays on after the end
RunningOn(p) == Playing(p) /\ ~phone[p].isPausing
Running(p) == Playing(p) /\ ~phone[p].isPausing /\ ~phone[p].pauseHidden

\* The map arrived: setupGame, with a trophy of its own
SetupGame(p) ==
  /\ phone[p].status = "lobby" /\ linked
  /\ \E tile \in Tiles : Becomes(p, NewScene("playing", tile))
  /\ UNCHANGED <<inbox, linked>>

\* The player walks to the trophy, or into a monster: didBegin raises the flag
DidBegin(p) ==
  /\ Running(p)
  /\ \E contact \in {"player", "monster"} :
       /\ contact = "player" => ~phone[p].alert
       /\ contact \notin phone[p].flags
       /\ Becomes(p, [phone[p] EXCEPT !.flags = @ \cup {contact}])
  /\ UNCHANGED <<inbox, linked>>

\* Variant: told before it is counted
ScoreBefore(scene, tile) == [kind |-> "score", score |-> scene.score, pos |-> tile]

Score(scene, tile) == [kind |-> "score", score |-> scene.score + 1, pos |-> tile]
Died == [kind |-> "died"]

\* update(): the flags in the order of the code, each response telling the peer
Update(p) ==
  /\ Playing(p) /\ phone[p].flags # {}
  /\ \E tile \in Tiles :
       LET before == phone[p]
           collects == "player" \in before.flags
           middle == IF collects THEN Collect(before, tile) ELSE before
           hit == "monster" \in before.flags
           after == IF hit THEN Hit(middle) ELSE middle
       IN /\ Becomes(p, after)
          /\ Send(p, (IF collects THEN <<Score(before, tile)>> ELSE <<>>)
                     \o (IF hit /\ middle.health = 1 THEN <<Died>> ELSE <<>>))
          /\ Len(inbox'[Other(p)]) <= MaxQueue
  /\ UNCHANGED linked

\* Touches reach the scene as long as no alert covers it
Touchable(p) == Playing(p) /\ ~phone[p].alert

TouchPause(p) ==
  /\ Touchable(p) /\ Running(p)
  /\ Becomes(p, [Display(phone[p], "pause") EXCEPT !.isPausing = TRUE])
  /\ UNCHANGED <<inbox, linked>>

TouchPlay(p) ==
  /\ Touchable(p) /\ phone[p].isPausing /\ ~phone[p].pauseHidden
  /\ Becomes(p, [phone[p] EXCEPT !.overlay = "none", !.isPausing = FALSE])
  /\ UNCHANGED <<inbox, linked>>

\* resetGameAfterPlayerDied: this phone starts over, and the other is not told
TouchTryAgain(p) ==
  /\ Touchable(p) /\ phone[p].overlay = "died"
  /\ \E tile \in Tiles :
       Becomes(p, [phone[p] EXCEPT !.score = 0, !.opponentScore = 0,
                                   !.health = FullHealth, !.overlay = "none",
                                   !.pauseHidden = FALSE, !.trophy = tile])
  /\ UNCHANGED <<inbox, linked>>

\* "Return To Menu" or "Exit": disconnect, then leave
TouchLeave(p) ==
  /\ Touchable(p) /\ phone[p].overlay \in {"pause", "player", "opponent"}
  /\ Becomes(p, [phone[p] EXCEPT !.status = "left", !.overlay = "none"])
  /\ inbox' = [inbox EXCEPT ![p] = <<>>]
  /\ linked' = FALSE

\* The delayed blocks: a death is shown after one second, so it may overtake a verdict
ShowEndScreen(p) ==
  /\ Playing(p)
  /\ \/ /\ phone[p].deaths > 0
        /\ Becomes(p, [Display(phone[p], "died") EXCEPT !.deaths = @ - 1])
     \/ /\ phone[p].verdicts # <<>>
        /\ Becomes(p, [Display(phone[p], Head(phone[p].verdicts))
                         EXCEPT !.verdicts = Tail(@)])
  /\ UNCHANGED <<inbox, linked>>

\* The blocks run after leave(): their [unowned self] may be gone or not
LateEndScreen(p) ==
  /\ phone[p].status = "left" /\ (phone[p].deaths > 0 \/ phone[p].verdicts # <<>>)
  /\ \E status \in {"left", "crashed"} :
       Becomes(p, [phone[p] EXCEPT !.deaths = 0, !.verdicts = <<>>, !.status = status])
  /\ UNCHANGED <<inbox, linked>>

\* leave() lets go of the joystick: a frame that still comes handles what is flagged,
\* and one that ends the round, endGame's joystick!, ends the program
LateUpdate(p) ==
  LET scene == phone[p] IN
  /\ scene.status = "left" /\ scene.flags # {}
  /\ Becomes(p, [scene EXCEPT
       !.flags = {},
       !.status = IF \/ "player" \in scene.flags /\ scene.score + 1 = WinScore
                     \/ "monster" \in scene.flags /\ scene.health = 1
                  THEN "crashed" ELSE "left"])
  /\ UNCHANGED <<inbox, linked>>

----------------------------------------------------------------------------
(* The session *)

\* session(didReceive:).  Before the game started it only knows checksums; the byte
\* of a death shows the win screen at once and ends nothing
Receive(p) ==
  /\ phone[p].status \in {"lobby", "playing"} /\ inbox[p] # <<>>
  /\ LET message == Head(inbox[p]) IN
       Becomes(p, IF phone[p].status = "lobby" THEN phone[p]
                  ELSE IF message.kind = "score" THEN OpponentScores(phone[p], message)
                  ELSE Display(phone[p], "player"))
  /\ inbox' = [inbox EXCEPT ![p] = Tail(@)]
  /\ UNCHANGED linked

\* The radio link breaks, or the other program is gone
LinkBreaks == linked /\ linked' = FALSE /\ UNCHANGED <<phone, inbox>>

\* session(didChange: .notConnected): what was still under way is lost
NotConnected(p) ==
  /\ ~linked /\ phone[p].status \in {"lobby", "playing"} /\ ~phone[p].alert
  /\ Becomes(p, [phone[p] EXCEPT !.alert = TRUE])
  /\ inbox' = [inbox EXCEPT ![p] = <<>>]
  /\ UNCHANGED linked

\* "OK" on the alert: leave
ConfirmAlert(p) ==
  /\ phone[p].alert /\ phone[p].status \in {"lobby", "playing"}
  /\ Becomes(p, [phone[p] EXCEPT !.status = "left", !.alert = FALSE, !.overlay = "none"])
  /\ UNCHANGED <<inbox, linked>>

----------------------------------------------------------------------------
Next ==
  \/ \E p \in Phones :
       \/ SetupGame(p) \/ DidBegin(p) \/ Update(p)
       \/ TouchPause(p) \/ TouchPlay(p) \/ TouchTryAgain(p) \/ TouchLeave(p)
       \/ ShowEndScreen(p) \/ LateEndScreen(p) \/ LateUpdate(p)
       \/ Receive(p) \/ NotConnected(p) \/ ConfirmAlert(p)
  \/ LinkBreaks

Spec == Init /\ [][Next]_vars

\* The session delivers what was sent, or reports the loss; due blocks run
Fairness == \A p \in Phones : /\ WF_vars(Receive(p)) /\ WF_vars(NotConnected(p))
                              /\ WF_vars(ShowEndScreen(p))

FairSpec == Spec /\ Fairness

\* The part of a match in which nobody's round has ended: none comes back to it
FirstRound == linked /\ \A p \in Phones : phone[p].fresh

\* Bounds on what a run looks at; no fair action leads out of them.  After the first
\* round two messages are under way at most ...
FewUnderWay == FirstRound \/ Len(inbox["host"]) + Len(inbox["guest"]) <= 2

\* ... and once the link is gone nobody stays paused, and at most one phone has contacts
FewLooseEnds ==
  \/ linked
  \/ /\ \A p \in Phones : ~phone[p].isPausing
     /\ \E p \in Phones : phone[p].flags = {}

----------------------------------------------------------------------------
(* Properties *)

\* From the score shown, over those of the messages, up to the opponent's own
CatchesUp(shown, mail, score) ==
  /\ \A i \in DOMAIN mail :
       /\ mail[i].kind = "score"
       /\ mail[i].score > IF i = 1 THEN shown ELSE mail[i - 1].score
  /\ IF mail = <<>> THEN shown <= score ELSE Last(mail).score = score

\* As long as no round ended, all that is under way to a phone are scores, and the
\* opponent's score it shows, followed by them, only rises and ends in the opponent's
\* own score: it is never ahead, and no score overtakes another.  (Scores are absolute,
\* so one dropped before the game started is made good by the next.)
ScoresCatchUp ==
  \A p \in Phones :
    linked /\ phone[p].fresh /\ phone[Other(p)].fresh =>
      CatchesUp(phone[p].opponentScore, inbox[p], phone[Other(p)].score)

\* A phone says "Opponent won!" only if the other one won: that one is gone, or it
\* shows or is about to show "You won!" and can no longer go back to playing.
DefeatIsReal ==
  \A p \in Phones :
    LET q == Other(p) IN
    phone[p].overlay = "opponent" \/ Contains(phone[p].verdicts, "opponent") =>
      \/ phone[q].status \in {"left", "crashed"}
      \/ /\ phone[q].pauseHidden
         /\ phone[q].overlay = "player" \/ Contains(phone[q].verdicts, "player")

\* Two screens meet on a phone that plays only if it was paused or the other player's
\* round ended before: a player left alone by the other cannot crash the own phone.
CrashNeedsTheOther ==
  [][\A p \in Phones :
       Playing(p) /\ phone'[p].status = "crashed" =>
         phone'[p].isPausing \/ ~phone[Other(p)].fresh]_vars

\* A winning score on its way to a phone that plays is heard: its round ends, or it
\* is told that the link is gone, or its program has ended.
WinIsHeard ==
  \A p \in Phones :
    (Playing(p) /\ \E i \in DOMAIN inbox[p] :
        inbox[p][i].kind = "score" /\ inbox[p][i].score = WinScore)
    ~> (phone[p].pauseHidden \/ phone[p].alert \/ ~Playing(p))

\* The win screen is for a round that was won
WinScreenEndsRound ==
  \A p \in Phones : phone[p].overlay = "player" => phone[p].pauseHidden

\* The players race for one trophy: with nothing under way it stands at the same place
OneTrophy ==
  Playing("host") /\ Playing("guest") /\ (\A p \in Phones : inbox[p] = <<>>) =>
    phone["host"].trophy = phone["guest"].trophy
=============================================================================
