--------------------------- MODULE PvPMatchProofs ---------------------------
(***************************************************************************)
(* A defeat that is shown on one phone was a victory on the other, two       *)
(* screens meet only over a pause menu or after the peer ended a round, and   *)
(* until then the scores shown never run ahead of those scored.              *)
(***************************************************************************)
EXTENDS PvPMatch, SequenceTheorems, TLAPS

----------------------------------------------------------------------------
(* The inductive invariant *)

\* The phone's own round: a death hides the pause button until it is tried again, a
\* verdict for the player excludes it, and no round has ended before it began
EndsOK(scene) ==
  /\ Contains(scene.verdicts, "player") =>
       scene.pauseHidden /\ scene.deaths = 0 /\ scene.overlay # "died"
  /\ scene.deaths > 0 \/ scene.overlay = "died" => scene.pauseHidden
  /\ scene.overlay = "died" => scene.deaths = 0
  /\ scene.deaths <= 1
  /\ scene.status = "lobby" => ~scene.pauseHidden

\* A contact left over from an ended round finds the scores and lives of a new one
LeftOver(scene) ==
  scene.pauseHidden /\ scene.flags # {} => scene.health = FullHealth /\ scene.score = 0

RoundsOK == \A p \in Phones : EndsOK(phone[p]) /\ LeftOver(phone[p])

\* Nothing can take its victory from this phone
Stands(scene) ==
  \/ scene.status \in {"left", "crashed"}
  \/ /\ scene.pauseHidden
     /\ scene.overlay = "player" \/ Contains(scene.verdicts, "player")

\* This phone shows a defeat, or is about to
Beaten(scene) == scene.overlay = "opponent" \/ Contains(scene.verdicts, "opponent")

\* What is under way to a phone
Mail(p) == {inbox[p][i] : i \in DOMAIN inbox[p]}

WinningMail(p) == \E m \in Mail(p) : m.kind = "score" /\ m.score = WinScore

\* A winning score under way was scored
MailIsTrue == \A p \in Phones : WinningMail(p) => Stands(phone[Other(p)])

IInv == TypeOK /\ RoundsOK /\ MailIsTrue /\ DefeatIsReal

\* While the peer has ended no round, the screens of this phone come from its own round
\* only, and come one by one: two of them can meet over the pause menu only
Quiet(scene) ==
  /\ scene.overlay # "opponent"
  /\ scene.overlay = "pause" => scene.isPausing
  /\ scene.verdicts \in {<< >>, <<"player">>}
  /\ scene.verdicts # << >> =>
       scene.pauseHidden /\ scene.deaths = 0 /\ (scene.overlay = "none" \/ scene.isPausing)
  /\ scene.deaths > 0 => scene.overlay = "none" \/ scene.isPausing
  /\ scene.overlay = "player" =>
       scene.pauseHidden /\ scene.deaths = 0 /\ scene.verdicts = << >>

\* News of the end of a round
Ending(m) == m.kind = "died" \/ (m.kind = "score" /\ m.score = WinScore)

AloneOK(p) ==
  /\ \A m \in Mail(p) : Ending(m) => ~phone[Other(p)].fresh
  /\ phone[p].status = "lobby" => phone[p].fresh
  /\ phone[p].status = "playing" /\ phone[Other(p)].fresh => Quiet(phone[p])

AloneInv == \A p \in Phones : AloneOK(p)

\* CrashNeedsTheOther, of one step
LonelyCrashFree ==
  \A p \in Phones :
    Playing(p) /\ phone'[p].status = "crashed" =>
      phone'[p].isPausing \/ ~phone[Other(p)].fresh

----------------------------------------------------------------------------
(* Sequences *)

LEMMA ContainsAppend ==
  ASSUME NEW S, NEW s \in Seq(S), NEW x \in S, NEW y
  PROVE  Contains(Append(s, x), y) <=> Contains(s, y) \/ x = y
<1>1. /\ Len(Append(s, x)) = Len(s) + 1 /\ Len(s) \in Nat
      /\ \A i \in 1 .. Len(s) : Append(s, x)[i] = s[i]
      /\ Append(s, x)[Len(s) + 1] = x
  BY AppendProperties, LenProperties
<1>2. ASSUME Contains(Append(s, x), y) PROVE Contains(s, y) \/ x = y
  <2>1. PICK i \in 1 .. Len(s) + 1 : Append(s, x)[i] = y
    BY <1>1, <1>2 DEF Contains
  <2>2. i \in 1 .. Len(s) \/ i = Len(s) + 1
    BY <1>1
  <2>3. QED
    BY <1>1, <2>1, <2>2 DEF Contains
<1>3. ASSUME Contains(s, y) PROVE Contains(Append(s, x), y)
  <2>1. PICK i \in 1 .. Len(s) : s[i] = y
    BY <1>3 DEF Contains
  <2>2. i \in 1 .. Len(s) + 1 /\ Append(s, x)[i] = y
    BY <1>1, <2>1
  <2>3. QED
    BY <1>1, <2>2 DEF Contains
<1>4. ASSUME x = y PROVE Contains(Append(s, x), y)
  <2>1. Len(s) + 1 \in 1 .. Len(s) + 1
    BY <1>1
  <2>2. QED
    BY <1>1, <1>4, <2>1 DEF Contains
<1>5. QED
  BY <1>2, <1>3, <1>4

LEMMA ContainsTail ==
  ASSUME NEW S, NEW s \in Seq(S), s # << >>, NEW y
  PROVE  Contains(s, y) <=> Head(s) = y \/ Contains(Tail(s), y)
<1>1. /\ Tail(s) \in Seq(S) /\ Len(Tail(s)) = Len(s) - 1 /\ Len(s) \in Nat \ {0}
      /\ \A i \in 1 .. Len(Tail(s)) : Tail(s)[i] = s[i + 1]
      /\ Head(s) = s[1]
  BY HeadTailProperties, LenProperties
<1>2. ASSUME Contains(s, y) PROVE Head(s) = y \/ Contains(Tail(s), y)
  <2>1. PICK i \in 1 .. Len(s) : s[i] = y
    BY <1>2 DEF Contains
  <2>2. CASE i = 1
    BY <1>1, <2>1, <2>2
  <2>3. CASE i # 1
    <3>1. i - 1 \in 1 .. Len(Tail(s)) /\ Tail(s)[i - 1] = y
      BY <1>1, <2>1, <2>3
    <3>2. QED
      BY <3>1 DEF Contains
  <2>4. QED
    BY <2>2, <2>3
<1>3. ASSUME Head(s) = y PROVE Contains(s, y)
  <2>1. 1 \in 1 .. Len(s) /\ s[1] = y
    BY <1>1, <1>3
  <2>2. QED
    BY <2>1 DEF Contains
<1>4. ASSUME Contains(Tail(s), y) PROVE Contains(s, y)
  <2>1. PICK i \in 1 .. Len(Tail(s)) : Tail(s)[i] = y
    BY <1>4 DEF Contains
  <2>2. i + 1 \in 1 .. Len(s) /\ s[i + 1] = y
    BY <1>1, <2>1
  <2>3. QED
    BY <2>2 DEF Contains
<1>5. QED
  BY <1>2, <1>3, <1>4

LEMMA ContainsNothing == ASSUME NEW y PROVE ~Contains(<< >>, y)
  BY DEF Contains

----------------------------------------------------------------------------
(* One phone *)

LEMMA OtherPhone ==
  /\ \A p \in Phones : Other(p) \in Phones /\ Other(p) # p /\ Other(Other(p)) = p
  /\ \A p, q \in Phones : q = p \/ q = Other(p)
  BY DEF Phones, Other

LEMMA OneBecomes ==
  ASSUME phone \in [Phones -> Scenes], NEW p \in Phones, NEW scene \in Scenes,
         Becomes(p, scene)
  PROVE  /\ phone' \in [Phones -> Scenes]
         /\ phone'[p] = scene
         /\ phone'[Other(p)] = phone[Other(p)]
  BY OtherPhone DEF Becomes

\* What a step of one phone has to keep: its victories stand, it is beaten by winning mail
\* only, and it sends winning mail only when it has won
LEMMA PhoneStep ==
  ASSUME IInv, NEW p \in Phones, NEW scene \in Scenes, Becomes(p, scene),
         EndsOK(scene), LeftOver(scene),
         Stands(phone[p]) => Stands(scene),
         Beaten(scene) => Beaten(phone[p]) \/ WinningMail(p),
         inbox' \in [Phones -> Seq(Messages)], linked' \in BOOLEAN,
         WinningMail(p)' => WinningMail(p),
         WinningMail(Other(p))' => WinningMail(Other(p)) \/ Stands(scene)
  PROVE  IInv'
<1>1. /\ phone' \in [Phones -> Scenes]
      /\ phone'[p] = scene /\ phone'[Other(p)] = phone[Other(p)]
  BY OneBecomes DEF IInv, TypeOK
<1>2. TypeOK'
  BY <1>1 DEF TypeOK
<1>3. \A q \in Phones : q = p \/ q = Other(p)
  BY OtherPhone
<1>4. RoundsOK'
  <2>1. EndsOK(phone'[p]) /\ LeftOver(phone'[p])
    BY <1>1
  <2>2. EndsOK(phone'[Other(p)]) /\ LeftOver(phone'[Other(p)])
    BY <1>1, OtherPhone DEF IInv, RoundsOK
  <2>3. QED
    BY <1>3, <2>1, <2>2 DEF RoundsOK
<1>5. \A q \in Phones : Stands(phone[q]) => Stands(phone'[q])
  BY <1>1, <1>3
<1>6. MailIsTrue'
  <2>1. WinningMail(p)' => Stands(phone'[Other(p)])
    BY <1>5, OtherPhone DEF IInv, MailIsTrue
  <2>2. WinningMail(Other(p))' => Stands(phone'[p])
    BY <1>1, <1>5, OtherPhone DEF IInv, MailIsTrue
  <2>3. QED
    BY <1>3, <2>1, <2>2, OtherPhone DEF MailIsTrue
<1>7. \A q \in Phones : Beaten(phone'[q]) => Stands(phone'[Other(q)])
  <2>1. \A q \in Phones : Beaten(phone[q]) => Stands(phone[Other(q)])
    BY DEF IInv, DefeatIsReal, Beaten, Stands
  <2>2. Beaten(phone'[p]) => Stands(phone[Other(p)])
    BY <1>1, <2>1 DEF IInv, MailIsTrue
  <2>3. Beaten(phone'[Other(p)]) => Stands(phone[p])
    BY <1>1, <2>1, OtherPhone
  <2>4. QED
    BY <1>3, <1>5, <2>2, <2>3, OtherPhone
<1>8. DefeatIsReal'
  BY <1>7 DEF DefeatIsReal, Beaten, Stands
<1>9. QED
  BY <1>2, <1>4, <1>6, <1>8 DEF IInv

----------------------------------------------------------------------------
(* Mail *)

LEMMA MailStays ==
  ASSUME inbox \in [Phones -> Seq(Messages)], UNCHANGED inbox
  PROVE  /\ inbox' \in [Phones -> Seq(Messages)]
         /\ \A q \in Phones : Mail(q)' \subseteq Mail(q)
  BY DEF Mail

LEMMA MailEmptied ==
  ASSUME inbox \in [Phones -> Seq(Messages)], NEW p \in Phones,
         inbox' = [inbox EXCEPT ![p] = << >>]
  PROVE  /\ inbox' \in [Phones -> Seq(Messages)]
         /\ \A q \in Phones : Mail(q)' \subseteq Mail(q)
<1>1. << >> \in Seq(Messages) /\ DOMAIN << >> = {}
  OBVIOUS
<1>2. QED
  BY <1>1 DEF Mail

LEMMA MailReceived ==
  ASSUME inbox \in [Phones -> Seq(Messages)], NEW p \in Phones, inbox[p] # << >>,
         inbox' = [inbox EXCEPT ![p] = Tail(@)]
  PROVE  /\ inbox' \in [Phones -> Seq(Messages)]
         /\ \A q \in Phones : Mail(q)' \subseteq Mail(q)
         /\ Head(inbox[p]) \in Messages /\ Head(inbox[p]) \in Mail(p)
<1>1. /\ Tail(inbox[p]) \in Seq(Messages) /\ Len(inbox[p]) \in Nat \ {0}
      /\ Len(Tail(inbox[p])) = Len(inbox[p]) - 1
      /\ \A i \in 1 .. Len(Tail(inbox[p])) : Tail(inbox[p])[i] = inbox[p][i + 1]
      /\ Head(inbox[p]) = inbox[p][1] /\ Head(inbox[p]) \in Messages
  BY HeadTailProperties, LenProperties
<1>2. inbox' \in [Phones -> Seq(Messages)]
  BY <1>1
<1>3. DOMAIN inbox[p] = 1 .. Len(inbox[p]) /\ 1 \in DOMAIN inbox[p]
  BY <1>1, LenProperties
<1>4. Head(inbox[p]) \in Mail(p)
  BY <1>1, <1>3 DEF Mail
<1>5. ASSUME NEW q \in Phones, NEW m \in Mail(q)' PROVE m \in Mail(q)
  <2>1. CASE q # p
    BY <1>5, <2>1 DEF Mail
  <2>2. CASE q = p
    <3>1. inbox'[p] = Tail(inbox[p])
      OBVIOUS
    <3>2. DOMAIN Tail(inbox[p]) = 1 .. Len(Tail(inbox[p]))
      BY <1>1, LenProperties
    <3>3. PICK i \in 1 .. Len(Tail(inbox[p])) : Tail(inbox[p])[i] = m
      BY <1>5, <2>2, <3>1, <3>2 DEF Mail
    <3>4. i + 1 \in DOMAIN inbox[p] /\ inbox[p][i + 1] = Tail(inbox[p])[i]
      BY <1>1, <1>3
    <3>5. QED
      BY <2>2, <3>3, <3>4 DEF Mail
  <2>3. QED
    BY <2>1, <2>2
<1>6. QED
  BY <1>1, <1>2, <1>4, <1>5

LEMMA MailSent ==
  ASSUME inbox \in [Phones -> Seq(Messages)], NEW p \in Phones,
         NEW messages \in Seq(Messages), Send(p, messages)
  PROVE  /\ inbox' \in [Phones -> Seq(Messages)]
         /\ Mail(p)' \subseteq Mail(p)
         /\ \A m \in Mail(Other(p))' :
              m \in Mail(Other(p)) \/ \E i \in 1 .. Len(messages) : m = messages[i]
<1>1. CASE ~linked
  BY <1>1, MailStays, OtherPhone DEF Send
<1>2. CASE linked
  <2> DEFINE q == Other(p)
  <2>1. inbox' = [inbox EXCEPT ![q] = inbox[q] \o messages] /\ q \in Phones /\ q # p
    BY <1>2, OtherPhone DEF Send
  <2>2. /\ inbox[q] \o messages \in Seq(Messages)
        /\ Len(inbox[q] \o messages) = Len(inbox[q]) + Len(messages)
        /\ \A i \in 1 .. Len(inbox[q]) + Len(messages) :
             (inbox[q] \o messages)[i] =
               IF i <= Len(inbox[q]) THEN inbox[q][i] ELSE messages[i - Len(inbox[q])]
    BY <2>1, ConcatProperties
  <2>3. Len(inbox[q]) \in Nat /\ Len(messages) \in Nat /\ DOMAIN inbox[q] = 1 .. Len(inbox[q])
    BY <2>1, LenProperties
  <2>4. inbox' \in [Phones -> Seq(Messages)] /\ inbox'[q] = inbox[q] \o messages
        /\ inbox'[p] = inbox[p]
    BY <2>1, <2>2
  <2>5. Mail(p)' \subseteq Mail(p)
    BY <2>4 DEF Mail
  <2>6. ASSUME NEW m \in Mail(q)'
        PROVE  m \in Mail(q) \/ \E i \in 1 .. Len(messages) : m = messages[i]
    <3>1. DOMAIN (inbox[q] \o messages) = 1 .. Len(inbox[q]) + Len(messages)
      BY <2>2, LenProperties
    <3>2. PICK i \in 1 .. Len(inbox[q]) + Len(messages) : (inbox[q] \o messages)[i] = m
      BY <2>4, <2>6, <3>1 DEF Mail
    <3>3. CASE i <= Len(inbox[q])
      <4>1. i \in DOMAIN inbox[q] /\ inbox[q][i] = m
        BY <2>2, <2>3, <3>2, <3>3
      <4>2. QED
        BY <4>1 DEF Mail
    <3>4. CASE ~(i <= Len(inbox[q]))
      <4>1. i - Len(inbox[q]) \in 1 .. Len(messages) /\ messages[i - Len(inbox[q])] = m
        BY <2>2, <2>3, <3>2, <3>4
      <4>2. QED
        BY <4>1
    <3>5. QED
      BY <3>3, <3>4
  <2>7. QED
    BY <2>4, <2>5, <2>6
<1>3. QED
  BY <1>1, <1>2

----------------------------------------------------------------------------
(* What the handlers make of a scene *)

LEMMA DisplayResult ==
  ASSUME NEW scene \in Scenes,
         NEW screen \in {"pause", "player", "opponent", "died"}
  PROVE  LET shown == Display(scene, screen) IN
         /\ shown \in Scenes
         /\ \/ shown = [scene EXCEPT !.overlay = screen] /\ scene.overlay = "none"
            \/ shown = [scene EXCEPT !.status = "crashed", !.flags = {}] /\ scene.overlay # "none"
  BY DEF Display, Scenes, EndScreens

LEMMA EndGameTypes ==
  ASSUME NEW scene \in Scenes
  PROVE  EndGame(scene) \in Scenes
<1>1. 0 \in 0 .. WinScore - 1 /\ FullHealth \in 1 .. FullHealth
  BY PvPAssumption
<1>2. QED
  BY <1>1 DEF EndGame, Scenes

LEMMA CollectResult ==
  ASSUME NEW scene \in Scenes, NEW tile \in Tiles
  PROVE  LET after == Collect(scene, tile) IN
         /\ after \in Scenes
         /\ after.flags = scene.flags \ {"player"}
         /\ after.status = scene.status /\ after.isPausing = scene.isPausing
         /\ after.overlay = scene.overlay
         /\ after.deaths = scene.deaths
         /\ \/ /\ scene.score + 1 = WinScore /\ after.pauseHidden = TRUE
               /\ after.fresh = FALSE
               /\ after.health = FullHealth
               /\ after.verdicts = Append(scene.verdicts, "player")
            \/ /\ scene.score + 1 # WinScore
               /\ after.pauseHidden = scene.pauseHidden /\ after.fresh = scene.fresh
               /\ after.health = scene.health /\ after.verdicts = scene.verdicts
               /\ after.score = scene.score + 1
               /\ after.opponentScore = scene.opponentScore
<1> DEFINE moved == [scene EXCEPT !.flags = @ \ {"player"}, !.trophy = tile]
<1>1. /\ scene.score \in 0 .. WinScore - 1
      /\ scene.verdicts \in Seq({"player", "opponent"})
      /\ scene.flags \subseteq {"player", "monster"}
  BY DEF Scenes
<1>2. moved \in Scenes
  BY <1>1 DEF Scenes
<1>3. /\ moved.flags = scene.flags \ {"player"} /\ moved.status = scene.status
      /\ moved.isPausing = scene.isPausing
      /\ moved.overlay = scene.overlay /\ moved.deaths = scene.deaths
      /\ moved.pauseHidden = scene.pauseHidden /\ moved.fresh = scene.fresh
      /\ moved.health = scene.health
      /\ moved.verdicts = scene.verdicts /\ moved.score = scene.score
      /\ moved.opponentScore = scene.opponentScore
  BY DEF Scenes
<1>4. CASE scene.score + 1 = WinScore
  <2> DEFINE ended == EndGame(moved)
             won == [ended EXCEPT !.verdicts = Append(ended.verdicts, "player")]
  <2>1. Collect(scene, tile) = won
    BY <1>4 DEF Collect, Schedule
  <2>2. ended \in Scenes
    BY <1>2, EndGameTypes
  <2>3. /\ ended.flags = moved.flags /\ ended.status = moved.status
        /\ ended.isPausing = moved.isPausing
        /\ ended.overlay = moved.overlay /\ ended.deaths = moved.deaths
        /\ ended.pauseHidden = TRUE /\ ended.fresh = FALSE
        /\ ended.health = FullHealth
        /\ ended.verdicts = moved.verdicts
    BY <1>2 DEF EndGame, Scenes
  <2>4. Append(ended.verdicts, "player") \in Seq({"player", "opponent"})
    BY <1>1, <1>3, <2>3
  <2>5. won \in Scenes
    BY <2>2, <2>4 DEF Scenes
  <2>6. /\ won.flags = ended.flags /\ won.status = ended.status
        /\ won.isPausing = ended.isPausing
        /\ won.overlay = ended.overlay /\ won.deaths = ended.deaths
        /\ won.pauseHidden = ended.pauseHidden /\ won.fresh = ended.fresh
        /\ won.health = ended.health
        /\ won.verdicts = Append(ended.verdicts, "player")
    BY <2>2 DEF Scenes
  <2>7. QED
    BY <1>3, <1>4, <2>1, <2>3, <2>5, <2>6
<1>5. CASE scene.score + 1 # WinScore
  <2> DEFINE counted == [moved EXCEPT !.score = moved.score + 1]
  <2>1. Collect(scene, tile) = counted
    BY <1>5 DEF Collect
  <2>2. moved.score + 1 \in 0 .. WinScore - 1
    BY <1>1, <1>3, <1>5, PvPAssumption
  <2>3. counted \in Scenes
    BY <1>2, <2>2 DEF Scenes
  <2>4. /\ counted.flags = moved.flags /\ counted.status = moved.status
        /\ counted.isPausing = moved.isPausing
        /\ counted.overlay = moved.overlay /\ counted.deaths = moved.deaths
        /\ counted.pauseHidden = moved.pauseHidden /\ counted.fresh = moved.fresh
        /\ counted.health = moved.health
        /\ counted.verdicts = moved.verdicts
        /\ counted.score = moved.score + 1
        /\ counted.opponentScore = moved.opponentScore
    BY <1>2 DEF Scenes
  <2>5. QED
    BY <1>3, <1>5, <2>1, <2>3, <2>4
<1>6. QED
  BY <1>4, <1>5

LEMMA HitResult ==
  ASSUME NEW scene \in Scenes
  PROVE  LET after == Hit(scene) IN
         /\ after \in Scenes
         /\ after.flags = scene.flags \ {"monster"}
         /\ after.status = scene.status /\ after.isPausing = scene.isPausing
         /\ after.overlay = scene.overlay
         /\ after.verdicts = scene.verdicts
         /\ \/ /\ scene.health = 1 /\ after.pauseHidden = TRUE /\ after.fresh = FALSE
               /\ after.deaths = scene.deaths + 1
            \/ /\ scene.health # 1 /\ after.pauseHidden = scene.pauseHidden
               /\ after.fresh = scene.fresh
               /\ after.deaths = scene.deaths
               /\ after.score = scene.score
               /\ after.opponentScore = scene.opponentScore
<1> DEFINE hit == [scene EXCEPT !.flags = @ \ {"monster"}]
<1>1. /\ scene.health \in 1 .. FullHealth /\ scene.deaths \in Nat
      /\ scene.flags \subseteq {"player", "monster"}
  BY DEF Scenes
<1>2. hit \in Scenes
  BY <1>1 DEF Scenes
<1>3. /\ hit.flags = scene.flags \ {"monster"} /\ hit.status = scene.status
      /\ hit.isPausing = scene.isPausing
      /\ hit.overlay = scene.overlay /\ hit.deaths = scene.deaths
      /\ hit.pauseHidden = scene.pauseHidden /\ hit.fresh = scene.fresh
      /\ hit.health = scene.health
      /\ hit.verdicts = scene.verdicts /\ hit.score = scene.score
      /\ hit.opponentScore = scene.opponentScore
  BY DEF Scenes
<1>4. CASE scene.health = 1
  <2> DEFINE ended == EndGame(hit)
             dead == [ended EXCEPT !.deaths = ended.deaths + 1]
  <2>1. Hit(scene) = dead
    BY <1>4 DEF Hit
  <2>2. ended \in Scenes
    BY <1>2, EndGameTypes
  <2>3. /\ ended.flags = hit.flags /\ ended.status = hit.status
        /\ ended.isPausing = hit.isPausing
        /\ ended.overlay = hit.overlay /\ ended.deaths = hit.deaths
        /\ ended.pauseHidden = TRUE /\ ended.fresh = FALSE
        /\ ended.verdicts = hit.verdicts
    BY <1>2 DEF EndGame, Scenes
  <2>4. ended.deaths + 1 \in Nat
    BY <1>1, <1>3, <2>3
  <2>5. dead \in Scenes
    BY <2>2, <2>4 DEF Scenes
  <2>6. /\ dead.flags = ended.flags /\ dead.status = ended.status
        /\ dead.isPausing = ended.isPausing
        /\ dead.overlay = ended.overlay /\ dead.deaths = ended.deaths + 1
        /\ dead.pauseHidden = ended.pauseHidden /\ dead.fresh = ended.fresh
        /\ dead.verdicts = ended.verdicts
    BY <2>2 DEF Scenes
  <2> HIDE DEF dead, ended, hit
  <2>7. QED
    BY <1>3, <1>4, <2>1, <2>3, <2>5, <2>6
<1>5. CASE scene.health # 1
  <2> DEFINE hurt == [hit EXCEPT !.health = hit.health - 1]
  <2>1. Hit(scene) = hurt
    BY <1>5 DEF Hit
  <2>2. hit.health - 1 \in 1 .. FullHealth
    BY <1>1, <1>3, <1>5, PvPAssumption
  <2>3. hurt \in Scenes
    BY <1>2, <2>2 DEF Scenes
  <2>4. /\ hurt.flags = hit.flags /\ hurt.status = hit.status
        /\ hurt.isPausing = hit.isPausing
        /\ hurt.overlay = hit.overlay /\ hurt.deaths = hit.deaths
        /\ hurt.pauseHidden = hit.pauseHidden /\ hurt.fresh = hit.fresh
        /\ hurt.verdicts = hit.verdicts /\ hurt.score = hit.score
        /\ hurt.opponentScore = hit.opponentScore
    BY <1>2 DEF Scenes
  <2>5. QED
    BY <1>3, <1>5, <2>1, <2>3, <2>4
<1>6. QED
  BY <1>4, <1>5

LEMMA OpponentScoresResult ==
  ASSUME NEW scene \in Scenes, NEW message \in Messages, message.kind = "score"
  PROVE  LET after == OpponentScores(scene, message) IN
         /\ after \in Scenes
         /\ after.flags = scene.flags /\ after.status = scene.status
         /\ after.isPausing = scene.isPausing
         /\ after.overlay = scene.overlay /\ after.deaths = scene.deaths
         /\ \/ /\ message.score = WinScore /\ after.pauseHidden = TRUE
               /\ after.fresh = FALSE
               /\ after.health = FullHealth /\ after.score = 0
               /\ after.verdicts = Append(scene.verdicts, "opponent")
            \/ /\ after.pauseHidden = scene.pauseHidden /\ after.fresh = scene.fresh
               /\ after.health = scene.health /\ after.score = scene.score
               /\ after.verdicts = scene.verdicts
               /\ after.opponentScore = message.score
<1>1. message.score \in 1 .. WinScore /\ message.pos \in Tiles
  BY DEF Messages
<1> DEFINE told == [scene EXCEPT !.trophy = message.pos]
<1>2. told \in Scenes
  BY <1>1 DEF Scenes
<1>3. /\ told.flags = scene.flags /\ told.status = scene.status
      /\ told.isPausing = scene.isPausing
      /\ told.overlay = scene.overlay /\ told.deaths = scene.deaths
      /\ told.pauseHidden = scene.pauseHidden /\ told.fresh = scene.fresh
      /\ told.health = scene.health
      /\ told.verdicts = scene.verdicts /\ told.score = scene.score
  BY DEF Scenes
<1>4. CASE message.score >= WinScore
  <2> DEFINE ended == EndGame(told)
             lost == [ended EXCEPT !.verdicts = Append(ended.verdicts, "opponent")]
  <2>1. OpponentScores(scene, message) = lost /\ message.score = WinScore
    BY <1>1, <1>4, PvPAssumption DEF OpponentScores, Schedule
  <2>2. ended \in Scenes
    BY <1>2, EndGameTypes
  <2>3. /\ ended.flags = told.flags /\ ended.status = told.status
        /\ ended.isPausing = told.isPausing
        /\ ended.overlay = told.overlay /\ ended.deaths = told.deaths
        /\ ended.pauseHidden = TRUE /\ ended.fresh = FALSE
        /\ ended.health = FullHealth /\ ended.score = 0
        /\ ended.verdicts = told.verdicts
    BY <1>2 DEF EndGame, Scenes
  <2>4. Append(ended.verdicts, "opponent") \in Seq({"player", "opponent"})
    BY <1>3, <2>3 DEF Scenes
  <2>5. lost \in Scenes
    BY <2>2, <2>4 DEF Scenes
  <2>6. /\ lost.flags = ended.flags /\ lost.status = ended.status
        /\ lost.isPausing = ended.isPausing
        /\ lost.overlay = ended.overlay /\ lost.deaths = ended.deaths
        /\ lost.pauseHidden = ended.pauseHidden /\ lost.fresh = ended.fresh
        /\ lost.health = ended.health
        /\ lost.score = ended.score
        /\ lost.verdicts = Append(ended.verdicts, "opponent")
    BY <2>2 DEF Scenes
  <2> HIDE DEF lost, ended, told
  <2>7. QED
    BY <1>3, <2>1, <2>3, <2>5, <2>6
<1>5. CASE ~(message.score >= WinScore)
  <2> DEFINE counted == [told EXCEPT !.opponentScore = message.score]
  <2>1. OpponentScores(scene, message) = counted
    BY <1>5 DEF OpponentScores
  <2>2. message.score \in 0 .. WinScore - 1
    BY <1>1, <1>5, PvPAssumption
  <2>3. counted \in Scenes
    BY <1>2, <2>2 DEF Scenes
  <2>4. /\ counted.flags = told.flags /\ counted.status = told.status
        /\ counted.isPausing = told.isPausing
        /\ counted.overlay = told.overlay /\ counted.deaths = told.deaths
        /\ counted.pauseHidden = told.pauseHidden /\ counted.fresh = told.fresh
        /\ counted.health = told.health
        /\ counted.score = told.score /\ counted.verdicts = told.verdicts
        /\ counted.opponentScore = message.score
    BY <1>2 DEF Scenes
  <2>5. QED
    BY <1>3, <2>1, <2>3, <2>4
<1>6. QED
  BY <1>4, <1>5

----------------------------------------------------------------------------
(* Every step *)

\* A step of one phone that adds no defeat
Keeps(p, scene) ==
  /\ EndsOK(scene) /\ LeftOver(scene)
  /\ Stands(phone[p]) => Stands(scene)
  /\ Beaten(scene) => Beaten(phone[p])

LEMMA QuietStep ==
  ASSUME IInv, NEW p \in Phones, NEW scene \in Scenes, Becomes(p, scene),
         Keeps(p, scene), UNCHANGED <<inbox, linked>>
  PROVE  IInv'
<1>1. /\ inbox' \in [Phones -> Seq(Messages)] /\ linked' \in BOOLEAN
      /\ \A q \in Phones : WinningMail(q)' => WinningMail(q)
  BY MailStays DEF IInv, TypeOK, WinningMail
<1>2. QED
  BY <1>1, PhoneStep, OtherPhone DEF Keeps

LEMMA InitMatch == Init => IInv
<1> SUFFICES ASSUME Init PROVE IInv
  OBVIOUS
<1>1. ASSUME NEW status \in {"lobby", "playing"}, NEW tile \in Tiles
      PROVE  /\ NewScene(status, tile) \in Scenes
             /\ EndsOK(NewScene(status, tile)) /\ LeftOver(NewScene(status, tile))
             /\ ~Beaten(NewScene(status, tile))
  <2>1. 0 \in 0 .. WinScore - 1 /\ FullHealth \in 1 .. FullHealth
    BY PvPAssumption
  <2>2. NewScene(status, tile) \in Scenes
    BY <2>1 DEF NewScene, Scenes
  <2>3. QED
    BY <2>2, ContainsNothing DEF NewScene, EndsOK, LeftOver, Beaten
<1>2. /\ phone \in [Phones -> Scenes]
      /\ \A p \in Phones : EndsOK(phone[p]) /\ LeftOver(phone[p]) /\ ~Beaten(phone[p])
  BY <1>1 DEF Init
<1>3. << >> \in Seq(Messages) /\ DOMAIN << >> = {}
  OBVIOUS
<1>4. inbox \in [Phones -> Seq(Messages)] /\ \A p \in Phones : ~WinningMail(p)
  BY <1>3 DEF Init, Mail, WinningMail
<1>5. QED
  BY <1>2, <1>4 DEF Init, IInv, TypeOK, RoundsOK, MailIsTrue, DefeatIsReal, Beaten

\* Handling the flags keeps the phone's own round: a win is a verdict, excludes a death in
\* the same step, and a round that ended before cannot end again
LEMMA FlagsHandled ==
  ASSUME NEW before \in Scenes, NEW tile \in Tiles, before.status = "playing",
         before.flags # {}, EndsOK(before), LeftOver(before)
  PROVE  LET collects == "player" \in before.flags
             middle == IF collects THEN Collect(before, tile) ELSE before
             after == IF "monster" \in before.flags THEN Hit(middle) ELSE middle
         IN /\ after \in Scenes
            /\ EndsOK(after) /\ LeftOver(after)
            /\ Stands(before) => Stands(after)
            /\ Beaten(after) => Beaten(before)
            /\ collects /\ before.score + 1 = WinScore => Stands(after) /\ ~after.fresh
            /\ "monster" \in before.flags /\ middle.health = 1 => ~after.fresh
            /\ after.status = before.status /\ (after.fresh => before.fresh)
            /\ Quiet(before) => Quiet(after)
<1> DEFINE collects == "player" \in before.flags
           won == collects /\ before.score + 1 = WinScore
           middle == IF collects THEN Collect(before, tile) ELSE before
           hit == "monster" \in before.flags
           after == IF hit THEN Hit(middle) ELSE middle
<1>1. /\ before.flags \subseteq {"player", "monster"}
      /\ before.verdicts \in Seq({"player", "opponent"}) /\ before.deaths \in Nat
      /\ before.health \in 1 .. FullHealth /\ before.score \in 0 .. WinScore - 1
      /\ before.pauseHidden \in BOOLEAN
  BY DEF Scenes
<1>2. /\ middle \in Scenes
      /\ middle.flags = before.flags \ {"player"}
      /\ middle.status = before.status /\ middle.overlay = before.overlay
      /\ middle.deaths = before.deaths
      /\ middle.isPausing = before.isPausing
      /\ \/ /\ won /\ middle.pauseHidden = TRUE /\ middle.health = FullHealth
            /\ middle.verdicts = Append(before.verdicts, "player") /\ middle.fresh = FALSE
         \/ /\ ~won /\ middle.pauseHidden = before.pauseHidden
            /\ middle.fresh = before.fresh
            /\ middle.health = before.health /\ middle.verdicts = before.verdicts
  <2>1. CASE collects
    BY <2>1, CollectResult
  <2>2. CASE ~collects
    <3>1. before.flags = before.flags \ {"player"}
      BY <2>2
    <3>2. QED
      BY <2>2, <3>1
  <2>3. QED
    BY <2>1, <2>2
<1>3. /\ after \in Scenes
      /\ after.flags = middle.flags \ {"monster"}
      /\ after.status = middle.status /\ after.overlay = middle.overlay
      /\ after.verdicts = middle.verdicts /\ after.isPausing = middle.isPausing
      /\ \/ /\ middle.health = 1 /\ after.pauseHidden = TRUE
            /\ after.deaths = middle.deaths + 1 /\ after.fresh = FALSE
         \/ /\ after.pauseHidden = middle.pauseHidden /\ after.deaths = middle.deaths
            /\ after.fresh = middle.fresh /\ ~(hit /\ middle.health = 1)
  <2>1. CASE hit
    BY <1>2, <2>1, HitResult
  <2>2. CASE ~hit
    <3>1. middle.flags = middle.flags \ {"monster"}
      BY <1>2, <2>2
    <3>2. QED
      BY <1>2, <2>2, <3>1
  <2>3. QED
    BY <2>1, <2>2
<1>4. LeftOver(after)
  <2>1. after.flags = {}
    BY <1>1, <1>2, <1>3
  <2>2. QED
    BY <2>1 DEF LeftOver
<1>5. /\ Contains(after.verdicts, "opponent") => Contains(before.verdicts, "opponent")
      /\ ~won => after.verdicts = before.verdicts
      /\ won => Contains(after.verdicts, "player")
  <2> DEFINE appended == Append(before.verdicts, "player")
  <2>1. /\ Contains(appended, "opponent") <=>
             Contains(before.verdicts, "opponent") \/ "player" = "opponent"
        /\ Contains(appended, "player") <=>
             Contains(before.verdicts, "player") \/ "player" = "player"
    BY <1>1, ContainsAppend
  <2>2. /\ won => after.verdicts = appended
        /\ ~won => after.verdicts = before.verdicts
    BY <1>2, <1>3
  <2>3. QED
    BY <2>1, <2>2
<1>6. Beaten(after) => Beaten(before)
  BY <1>2, <1>3, <1>5 DEF Beaten
<1>7. won => /\ ~before.pauseHidden /\ after.pauseHidden = TRUE
             /\ after.deaths = before.deaths
  <2>1. FullHealth # 1 /\ 0 + 1 # WinScore
    BY PvPAssumption
  <2>2. QED
    BY <1>2, <1>3, <2>1 DEF LeftOver
<1>8. EndsOK(after)
  <2>1. CASE before.pauseHidden
    <3>1. ~won
      BY <1>7, <2>1
    <3>2. middle.health # 1
      <4>1. before.health = FullHealth
        BY <2>1 DEF LeftOver
      <4>2. middle.health = before.health
        BY <1>2, <3>1
      <4>3. QED
        BY <4>1, <4>2, PvPAssumption
    <3>3. /\ after.pauseHidden = before.pauseHidden /\ after.deaths = before.deaths
          /\ after.overlay = before.overlay /\ after.verdicts = before.verdicts
          /\ after.status = before.status
      BY <1>2, <1>3, <1>5, <3>1, <3>2
    <3>4. QED
      BY <3>3 DEF EndsOK
  <2>2. CASE ~before.pauseHidden
    <3>1. /\ before.deaths = 0 /\ before.overlay # "died"
          /\ ~Contains(before.verdicts, "player")
      BY <1>1, <2>2 DEF EndsOK
    <3>2. after.status = "playing" /\ after.overlay # "died"
      BY <1>2, <1>3, <3>1
    <3>3. CASE won
      BY <1>7, <3>1, <3>2, <3>3 DEF EndsOK
    <3>4. CASE ~won
      <4>1. ~Contains(after.verdicts, "player")
        BY <1>5, <3>1, <3>4
      <4>2. \/ after.pauseHidden = TRUE /\ after.deaths = 1
            \/ after.deaths = 0
        BY <1>2, <1>3, <3>1
      <4>3. QED
        BY <3>2, <4>1, <4>2 DEF EndsOK
    <3>5. QED
      BY <3>3, <3>4
  <2>3. QED
    BY <2>1, <2>2
<1>9. Stands(before) => Stands(after)
  BY <1>1, <1>2, <1>3, <1>5, <1>7 DEF Stands
<1>10. /\ won => Stands(after) /\ ~after.fresh
       /\ hit /\ middle.health = 1 => ~after.fresh
       /\ after.status = before.status /\ (after.fresh => before.fresh)
  BY <1>2, <1>3, <1>5, <1>7 DEF Stands
<1>11. ASSUME Quiet(before) PROVE Quiet(after)
  <2>1. CASE before.pauseHidden
    <3>1. ~won /\ middle.health # 1
      <4>1. ~won /\ before.health = FullHealth
        BY <1>7, <2>1 DEF LeftOver
      <4>2. middle.health = before.health
        BY <1>2, <4>1
      <4>3. QED
        BY <4>1, <4>2, PvPAssumption
    <3>2. /\ after.pauseHidden = before.pauseHidden /\ after.deaths = before.deaths
          /\ after.overlay = before.overlay /\ after.verdicts = before.verdicts
          /\ after.isPausing = before.isPausing
      BY <1>2, <1>3, <1>5, <3>1
    <3>3. QED
      BY <1>11, <3>2 DEF Quiet
  <2>2. CASE ~before.pauseHidden
    <3>1. before.verdicts = << >> /\ before.deaths = 0 /\ before.overlay # "player"
          /\ before.overlay # "opponent" /\ before.overlay # "died"
      BY <1>1, <1>11, <2>2 DEF EndsOK, Quiet
    <3>2. before.overlay = "none" \/ before.isPausing
      BY <1>11, <3>1 DEF Quiet, Scenes, EndScreens
    <3>3. after.overlay = before.overlay /\ after.isPausing = before.isPausing
      BY <1>2, <1>3
    <3>4. CASE won
      <4>1. after.verdicts = Append(<< >>, "player")
        BY <1>2, <1>3, <3>1, <3>4
      <4>2. after.verdicts = <<"player">>
        BY <4>1
      <4>3. QED
        BY <1>7, <3>1, <3>2, <3>3, <3>4, <4>2 DEF Quiet
    <3>5. CASE ~won
      BY <1>5, <3>1, <3>2, <3>3, <3>5 DEF Quiet
    <3>6. QED
      BY <3>4, <3>5
  <2>3. QED
    BY <2>1, <2>2
<1>12. QED
  BY <1>3, <1>4, <1>6, <1>8, <1>9, <1>10, <1>11

\* What update() makes of the phone and tells the peer: a winning score only if the round
\* is won, the end of a round only if it ended
LEMMA UpdateResult ==
  ASSUME IInv, NEW p \in Phones, Update(p)
  PROVE  \E scene \in Scenes :
           /\ Becomes(p, scene) /\ UNCHANGED linked
           /\ EndsOK(scene) /\ LeftOver(scene)
           /\ Stands(phone[p]) => Stands(scene)
           /\ Beaten(scene) => Beaten(phone[p])
           /\ Quiet(phone[p]) => Quiet(scene)
           /\ scene.status = phone[p].status /\ (scene.fresh => phone[p].fresh)
           /\ inbox' \in [Phones -> Seq(Messages)]
           /\ Mail(p)' \subseteq Mail(p)
           /\ \A m \in Mail(Other(p))' \ Mail(Other(p)) :
                /\ m.kind = "score" /\ m.score = WinScore => Stands(scene)
                /\ Ending(m) => ~scene.fresh
<1> DEFINE before == phone[p]
           collects == "player" \in before.flags
<1>1. PICK tile \in Tiles :
        LET middle == IF collects THEN Collect(before, tile) ELSE before
            hit == "monster" \in before.flags
            after == IF hit THEN Hit(middle) ELSE middle
        IN /\ Becomes(p, after)
           /\ Send(p, (IF collects THEN <<Score(before, tile)>> ELSE << >>)
                      \o (IF hit /\ middle.health = 1 THEN <<Died>> ELSE << >>))
  BY DEF Update
<1> DEFINE middle == IF collects THEN Collect(before, tile) ELSE before
           hit == "monster" \in before.flags
           after == IF hit THEN Hit(middle) ELSE middle
           scores == IF collects THEN <<Score(before, tile)>> ELSE << >>
           deaths == IF hit /\ middle.health = 1 THEN <<Died>> ELSE << >>
           messages == scores \o deaths
<1>2. /\ before \in Scenes /\ before.status = "playing" /\ before.flags # {}
      /\ EndsOK(before) /\ LeftOver(before) /\ UNCHANGED linked
      /\ inbox \in [Phones -> Seq(Messages)] /\ linked \in BOOLEAN
  BY DEF IInv, TypeOK, RoundsOK, Update, Playing
<1>3. /\ after \in Scenes
      /\ EndsOK(after) /\ LeftOver(after)
      /\ Stands(before) => Stands(after)
      /\ Beaten(after) => Beaten(before)
      /\ collects /\ before.score + 1 = WinScore => Stands(after) /\ ~after.fresh
      /\ hit /\ middle.health = 1 => ~after.fresh
      /\ after.status = before.status /\ (after.fresh => before.fresh)
      /\ Quiet(before) => Quiet(after)
  BY <1>2, FlagsHandled
<1>4. /\ Score(before, tile) \in Messages
      /\ Score(before, tile).score = before.score + 1
  <2>1. before.score \in 0 .. WinScore - 1
    BY <1>2 DEF Scenes
  <2> HIDE DEF before
  <2>2. before.score + 1 \in 1 .. WinScore
    BY <2>1, PvPAssumption
  <2>3. QED
    BY <2>2 DEF Score, Messages
<1>5. Died \in Messages /\ Died.kind = "died"
  BY DEF Died, Messages
<1>6. /\ scores \in Seq(Messages) /\ deaths \in Seq(Messages)
      /\ \A i \in 1 .. Len(scores) : collects /\ scores[i] = Score(before, tile)
      /\ \A i \in 1 .. Len(deaths) : (hit /\ middle.health = 1) /\ deaths[i] = Died
  <2> HIDE DEF middle
  <2>1. QED
    BY <1>4, <1>5
<1>7. /\ messages \in Seq(Messages)
      /\ \A i \in 1 .. Len(messages) :
           \/ (hit /\ middle.health = 1) /\ messages[i] = Died
           \/ collects /\ messages[i] = Score(before, tile)
  <2> HIDE DEF scores, deaths, middle
  <2>1. /\ messages \in Seq(Messages) /\ Len(messages) = Len(scores) + Len(deaths)
        /\ \A i \in 1 .. Len(scores) + Len(deaths) :
             messages[i] = IF i <= Len(scores) THEN scores[i] ELSE deaths[i - Len(scores)]
    BY <1>6, ConcatProperties
  <2>2. Len(scores) \in Nat /\ Len(deaths) \in Nat
    BY <1>6, LenProperties
  <2>3. ASSUME NEW i \in 1 .. Len(messages)
        PROVE  \/ (hit /\ middle.health = 1) /\ messages[i] = Died
               \/ collects /\ messages[i] = Score(before, tile)
    <3>1. CASE i <= Len(scores)
      <4>1. i \in 1 .. Len(scores) /\ messages[i] = scores[i]
        BY <2>1, <2>2, <3>1
      <4>2. QED
        BY <1>6, <4>1
    <3>2. CASE ~(i <= Len(scores))
      <4>1. i - Len(scores) \in 1 .. Len(deaths) /\ messages[i] = deaths[i - Len(scores)]
        BY <2>1, <2>2, <3>2
      <4>2. (hit /\ middle.health = 1) /\ deaths[i - Len(scores)] = Died
        BY <1>6, <4>1
      <4>3. QED
        BY <4>1, <4>2
    <3>3. QED
      BY <3>1, <3>2
  <2>4. QED
    BY <2>1, <2>3
<1>8. /\ inbox' \in [Phones -> Seq(Messages)]
      /\ Mail(p)' \subseteq Mail(p)
      /\ \A m \in Mail(Other(p))' :
           m \in Mail(Other(p)) \/ \E i \in 1 .. Len(messages) : m = messages[i]
  BY <1>1, <1>2, <1>7, MailSent
<1>9. ASSUME NEW m \in Mail(Other(p))' \ Mail(Other(p))
      PROVE  /\ m.kind = "score" /\ m.score = WinScore => Stands(after)
             /\ Ending(m) => ~after.fresh
  <2> HIDE DEF middle, after, messages
  <2>1. \/ (hit /\ middle.health = 1) /\ m = Died
        \/ collects /\ m = Score(before, tile)
    BY <1>7, <1>8
  <2>2. CASE (hit /\ middle.health = 1) /\ m = Died
    BY <1>3, <1>5, <2>2
  <2>3. CASE collects /\ m = Score(before, tile)
    <3>1. m.kind = "score" /\ m.score = before.score + 1
      BY <1>4, <2>3 DEF Score
    <3>2. QED
      BY <1>3, <2>3, <3>1 DEF Ending
  <2>4. QED
    BY <2>1, <2>2, <2>3
<1>10. QED
  <2> HIDE DEF middle, messages
  <2>1. Becomes(p, after)
    BY <1>1 DEF middle
  <2> HIDE DEF after
  <2>2. QED
    BY <1>2, <1>3, <1>8, <1>9, <2>1

LEMMA UpdateStep ==
  ASSUME IInv, NEW p \in Phones, Update(p)
  PROVE  IInv'
<1>1. PICK scene \in Scenes :
        /\ Becomes(p, scene) /\ UNCHANGED linked
        /\ EndsOK(scene) /\ LeftOver(scene)
        /\ Stands(phone[p]) => Stands(scene)
        /\ Beaten(scene) => Beaten(phone[p])
        /\ inbox' \in [Phones -> Seq(Messages)]
        /\ Mail(p)' \subseteq Mail(p)
        /\ \A m \in Mail(Other(p))' \ Mail(Other(p)) :
             m.kind = "score" /\ m.score = WinScore => Stands(scene)
  BY UpdateResult
<1>2. /\ WinningMail(p)' => WinningMail(p)
      /\ WinningMail(Other(p))' => WinningMail(Other(p)) \/ Stands(scene)
  BY <1>1 DEF WinningMail
<1>3. linked' \in BOOLEAN
  BY <1>1 DEF IInv, TypeOK
<1>4. QED
  BY <1>1, <1>2, <1>3, PhoneStep

\* A score is taken over, and a winning one is a defeat; the byte of a death shows a win
LEMMA ReceiveStep ==
  ASSUME IInv, NEW p \in Phones, Receive(p)
  PROVE  IInv'
<1> DEFINE before == phone[p]
           message == Head(inbox[p])
<1>1. /\ before \in Scenes /\ before.status \in {"lobby", "playing"}
      /\ EndsOK(before) /\ LeftOver(before) /\ UNCHANGED linked /\ linked \in BOOLEAN
      /\ inbox \in [Phones -> Seq(Messages)] /\ inbox[p] # << >>
      /\ inbox' = [inbox EXCEPT ![p] = Tail(@)]
  BY DEF IInv, TypeOK, RoundsOK, Receive
<1>2. /\ inbox' \in [Phones -> Seq(Messages)]
      /\ \A q \in Phones : WinningMail(q)' => WinningMail(q)
      /\ message \in Messages
      /\ message.kind = "score" /\ message.score = WinScore => WinningMail(p)
  BY <1>1, MailReceived DEF WinningMail
<1>3. ASSUME NEW scene \in Scenes, Becomes(p, scene), EndsOK(scene), LeftOver(scene),
             Stands(before) => Stands(scene),
             Beaten(scene) => Beaten(before) \/ WinningMail(p)
      PROVE  IInv'
  BY <1>1, <1>2, <1>3, PhoneStep, OtherPhone
<1>4. CASE before.status = "lobby"
  <2>1. Becomes(p, before)
    BY <1>4 DEF Receive
  <2>2. QED
    BY <1>1, <1>3, <2>1
<1>5. CASE before.status = "playing" /\ message.kind = "score"
  <2> DEFINE scene == OpponentScores(before, message)
  <2>1. Becomes(p, scene)
    BY <1>5 DEF Receive
  <2>2. /\ scene \in Scenes
        /\ scene.flags = before.flags /\ scene.status = before.status
        /\ scene.overlay = before.overlay /\ scene.deaths = before.deaths
        /\ \/ /\ message.score = WinScore /\ scene.pauseHidden = TRUE
              /\ scene.health = FullHealth /\ scene.score = 0
              /\ scene.verdicts = Append(before.verdicts, "opponent")
           \/ /\ scene.pauseHidden = before.pauseHidden
              /\ scene.health = before.health /\ scene.score = before.score
              /\ scene.verdicts = before.verdicts
    BY <1>1, <1>2, <1>5, OpponentScoresResult
  <2>3. Contains(scene.verdicts, "player") <=> Contains(before.verdicts, "player")
    <3>1. before.verdicts \in Seq({"player", "opponent"})
      BY <1>1 DEF Scenes
    <3>2. Contains(Append(before.verdicts, "opponent"), "player")
            <=> Contains(before.verdicts, "player") \/ "opponent" = "player"
      BY <3>1, ContainsAppend
    <3>3. QED
      BY <2>2, <3>2
  <2>4. EndsOK(scene) /\ LeftOver(scene)
    BY <1>1, <1>5, <2>2, <2>3 DEF EndsOK, LeftOver
  <2>5. Stands(before) => Stands(scene)
    BY <2>2, <2>3 DEF Stands
  <2>6. Beaten(scene) => Beaten(before) \/ WinningMail(p)
    BY <1>2, <1>5, <2>2 DEF Beaten
  <2>7. QED
    BY <1>3, <2>1, <2>2, <2>4, <2>5, <2>6
<1>6. CASE before.status = "playing" /\ message.kind # "score"
  <2> DEFINE scene == Display(before, "player")
  <2>1. Becomes(p, scene)
    BY <1>6 DEF Receive
  <2>2. /\ scene \in Scenes
        /\ \/ scene = [before EXCEPT !.overlay = "player"] /\ before.overlay = "none"
           \/ scene = [before EXCEPT !.status = "crashed", !.flags = {}]
    BY <1>1, DisplayResult
  <2>3. /\ scene.verdicts = before.verdicts /\ scene.deaths = before.deaths
        /\ scene.pauseHidden = before.pauseHidden /\ scene.flags \subseteq before.flags
        /\ scene.health = before.health /\ scene.score = before.score
        /\ \/ /\ scene.overlay = "player" /\ before.overlay = "none"
              /\ scene.status = before.status
           \/ scene.overlay = before.overlay /\ scene.status = "crashed"
    BY <1>1, <2>2 DEF Scenes
  <2>4. EndsOK(scene) /\ LeftOver(scene)
    BY <1>1, <1>6, <2>3 DEF EndsOK, LeftOver
  <2>5. Stands(before) => Stands(scene)
    BY <1>6, <2>3 DEF Stands
  <2>6. Beaten(scene) => Beaten(before)
    BY <2>3 DEF Beaten
  <2>7. QED
    BY <1>3, <2>1, <2>2, <2>4, <2>5, <2>6
<1>7. QED
  BY <1>1, <1>4, <1>5, <1>6

\* The one-line changes of a scene make scenes
LEMMA ContactTypes ==
  ASSUME NEW scene \in Scenes, NEW contact \in {"player", "monster"}
  PROVE  [scene EXCEPT !.flags = @ \cup {contact}] \in Scenes
<1>1. scene.flags \cup {contact} \in SUBSET {"player", "monster"}
  BY DEF Scenes
<1>2. QED
  BY <1>1 DEF Scenes

LEMMA PlayTypes ==
  ASSUME NEW scene \in Scenes
  PROVE  [scene EXCEPT !.overlay = "none", !.isPausing = FALSE] \in Scenes
  BY DEF Scenes

LEMMA LeaveTypes ==
  ASSUME NEW scene \in Scenes
  PROVE  /\ [scene EXCEPT !.status = "left", !.overlay = "none"] \in Scenes
         /\ [scene EXCEPT !.status = "left", !.alert = FALSE, !.overlay = "none"] \in Scenes
<1>1. [scene EXCEPT !.status = "left", !.overlay = "none"] \in Scenes
  BY DEF Scenes
<1>2. [scene EXCEPT !.status = "left", !.alert = FALSE, !.overlay = "none"] \in Scenes
  BY DEF Scenes
<1>3. QED
  BY <1>1, <1>2

LEMMA AlertTypes ==
  ASSUME NEW scene \in Scenes
  PROVE  [scene EXCEPT !.alert = TRUE] \in Scenes
  BY DEF Scenes

LEMMA RetryTypes ==
  ASSUME NEW scene \in Scenes, NEW tile \in Tiles
  PROVE  [scene EXCEPT !.score = 0, !.opponentScore = 0, !.health = FullHealth,
                       !.overlay = "none", !.pauseHidden = FALSE, !.trophy = tile]
           \in Scenes
<1>1. 0 \in 0 .. WinScore - 1 /\ FullHealth \in 1 .. FullHealth
  BY PvPAssumption
<1>2. QED
  BY <1>1 DEF Scenes

LEMMA SilencedTypes ==
  ASSUME NEW scene \in Scenes, NEW status \in {"left", "crashed"}
  PROVE  [scene EXCEPT !.deaths = 0, !.verdicts = << >>, !.status = status] \in Scenes
<1>1. << >> \in Seq({"player", "opponent"}) /\ 0 \in Nat
  OBVIOUS
<1>2. QED
  BY <1>1 DEF Scenes

LEMMA LateTypes ==
  ASSUME NEW scene \in Scenes, NEW status \in {"left", "crashed"}
  PROVE  [scene EXCEPT !.flags = {}, !.status = status] \in Scenes
  BY DEF Scenes

LEMMA MatchStep == IInv /\ [Next]_vars => IInv'
<1> SUFFICES ASSUME IInv, [Next]_vars PROVE IInv'
  OBVIOUS
<1>t. /\ phone \in [Phones -> Scenes] /\ inbox \in [Phones -> Seq(Messages)]
      /\ \A p \in Phones : EndsOK(phone[p]) /\ LeftOver(phone[p])
  BY DEF IInv, TypeOK, RoundsOK
<1>1. ASSUME NEW p \in Phones, SetupGame(p) PROVE IInv'
  <2>1. PICK tile \in Tiles : Becomes(p, NewScene("playing", tile))
    BY <1>1 DEF SetupGame
  <2> DEFINE scene == NewScene("playing", tile)
  <2>2. scene \in Scenes
    <3>1. 0 \in 0 .. WinScore - 1 /\ FullHealth \in 1 .. FullHealth
      BY PvPAssumption
    <3>2. QED
      BY <3>1 DEF NewScene, Scenes
  <2>3. ~Stands(phone[p])
    BY <1>1, <1>t DEF SetupGame, Stands, EndsOK
  <2>4. Keeps(p, scene)
    BY <2>3, ContainsNothing DEF Keeps, NewScene, EndsOK, LeftOver, Beaten
  <2>5. QED
    BY <1>1, <2>1, <2>2, <2>4, QuietStep DEF SetupGame
<1>2. ASSUME NEW p \in Phones, DidBegin(p) PROVE IInv'
  <2>1. PICK contact \in {"player", "monster"} :
          Becomes(p, [phone[p] EXCEPT !.flags = @ \cup {contact}])
    BY <1>2 DEF DidBegin
  <2> DEFINE scene == [phone[p] EXCEPT !.flags = @ \cup {contact}]
  <2>3. scene \in Scenes
    BY <1>t, ContactTypes
  <2>4. /\ scene.status = phone[p].status /\ scene.overlay = phone[p].overlay
        /\ scene.verdicts = phone[p].verdicts /\ scene.deaths = phone[p].deaths
        /\ scene.pauseHidden = phone[p].pauseHidden /\ ~phone[p].pauseHidden
    BY <1>2, <1>t DEF DidBegin, Running, Scenes
  <2>5. Keeps(p, scene)
    BY <1>t, <2>4 DEF Keeps, EndsOK, LeftOver, Stands, Beaten
  <2>6. QED
    BY <1>2, <2>1, <2>3, <2>5, QuietStep DEF DidBegin
<1>3. ASSUME NEW p \in Phones, Update(p) PROVE IInv'
  BY <1>3, UpdateStep
<1>4. ASSUME NEW p \in Phones, TouchPause(p) PROVE IInv'
  <2> DEFINE shown == Display(phone[p], "pause")
             scene == [shown EXCEPT !.isPausing = TRUE]
  <2>1. /\ shown \in Scenes
        /\ \/ shown = [phone[p] EXCEPT !.overlay = "pause"] /\ phone[p].overlay = "none"
           \/ shown = [phone[p] EXCEPT !.status = "crashed", !.flags = {}]
    BY <1>t, DisplayResult
  <2>2. /\ scene \in Scenes
        /\ scene.status = shown.status /\ scene.overlay = shown.overlay
        /\ scene.verdicts = shown.verdicts /\ scene.deaths = shown.deaths
        /\ scene.pauseHidden = shown.pauseHidden /\ scene.flags = shown.flags
        /\ scene.health = shown.health /\ scene.score = shown.score
    BY <2>1 DEF Scenes
  <2>3. /\ shown.verdicts = phone[p].verdicts /\ shown.deaths = phone[p].deaths
        /\ shown.pauseHidden = phone[p].pauseHidden /\ shown.flags \subseteq phone[p].flags
        /\ shown.health = phone[p].health /\ shown.score = phone[p].score
        /\ shown.overlay \in {"pause", phone[p].overlay}
        /\ shown.status \in {"crashed", phone[p].status}
    BY <1>t, <2>1 DEF Scenes
  <2>4. ~Stands(phone[p])
    BY <1>4 DEF TouchPause, Touchable, Running, Playing, Stands
  <2>5. Keeps(p, scene)
    BY <1>t, <2>2, <2>3, <2>4 DEF Keeps, EndsOK, LeftOver, Beaten
  <2>6. QED
    BY <1>4, <2>2, <2>5, QuietStep DEF TouchPause
<1>5. ASSUME NEW p \in Phones, TouchPlay(p) PROVE IInv'
  <2> DEFINE scene == [phone[p] EXCEPT !.overlay = "none", !.isPausing = FALSE]
  <2>1. scene \in Scenes
    BY <1>t, PlayTypes
  <2>2. /\ scene.status = phone[p].status /\ scene.overlay = "none"
        /\ scene.verdicts = phone[p].verdicts /\ scene.deaths = phone[p].deaths
        /\ scene.pauseHidden = phone[p].pauseHidden /\ scene.flags = phone[p].flags
        /\ scene.health = phone[p].health /\ scene.score = phone[p].score
    BY <1>t DEF Scenes
  <2>3. ~Stands(phone[p])
    BY <1>5 DEF TouchPlay, Touchable, Playing, Stands
  <2>4. Keeps(p, scene)
    BY <1>t, <2>2, <2>3 DEF Keeps, EndsOK, LeftOver, Beaten
  <2>5. QED
    BY <1>5, <2>1, <2>4, QuietStep DEF TouchPlay
<1>6. ASSUME NEW p \in Phones, TouchTryAgain(p) PROVE IInv'
  <2>1. PICK tile \in Tiles :
          Becomes(p, [phone[p] EXCEPT !.score = 0, !.opponentScore = 0,
                                      !.health = FullHealth, !.overlay = "none",
                                      !.pauseHidden = FALSE, !.trophy = tile])
    BY <1>6 DEF TouchTryAgain
  <2> DEFINE scene == [phone[p] EXCEPT !.score = 0, !.opponentScore = 0,
                                       !.health = FullHealth, !.overlay = "none",
                                       !.pauseHidden = FALSE, !.trophy = tile]
  <2>2. scene \in Scenes
    BY <1>t, RetryTypes
  <2>3. /\ scene.status = phone[p].status /\ scene.overlay = "none"
        /\ scene.verdicts = phone[p].verdicts /\ scene.deaths = phone[p].deaths
        /\ scene.pauseHidden = FALSE
    BY <1>t DEF Scenes
  <2>4. ~Stands(phone[p]) /\ phone[p].deaths = 0 /\ ~Contains(phone[p].verdicts, "player")
    BY <1>t, <1>6 DEF TouchTryAgain, Touchable, Playing, Stands, EndsOK
  <2>5. Keeps(p, scene)
    BY <2>3, <2>4 DEF Keeps, EndsOK, LeftOver, Beaten
  <2>6. QED
    BY <1>6, <2>1, <2>2, <2>5, QuietStep DEF TouchTryAgain
<1>7. ASSUME NEW p \in Phones, TouchLeave(p) PROVE IInv'
  <2> DEFINE scene == [phone[p] EXCEPT !.status = "left", !.overlay = "none"]
  <2>1. scene \in Scenes
    BY <1>t, LeaveTypes
  <2>2. /\ scene.status = "left" /\ scene.overlay = "none"
        /\ scene.verdicts = phone[p].verdicts /\ scene.deaths = phone[p].deaths
        /\ scene.pauseHidden = phone[p].pauseHidden /\ scene.flags = phone[p].flags
        /\ scene.health = phone[p].health /\ scene.score = phone[p].score
    BY <1>t DEF Scenes
  <2>3. /\ EndsOK(scene) /\ LeftOver(scene) /\ Stands(scene)
        /\ Beaten(scene) => Beaten(phone[p])
    BY <1>t, <2>2 DEF EndsOK, LeftOver, Stands, Beaten
  <2>4. /\ inbox' \in [Phones -> Seq(Messages)] /\ linked' \in BOOLEAN
        /\ \A q \in Phones : WinningMail(q)' => WinningMail(q)
    BY <1>t, <1>7, MailEmptied DEF TouchLeave, WinningMail
  <2>5. QED
    BY <1>7, <2>1, <2>3, <2>4, PhoneStep, OtherPhone DEF TouchLeave
<1>8. ASSUME NEW p \in Phones, ShowEndScreen(p) PROVE IInv'
  <2>1. CASE /\ phone[p].deaths > 0
             /\ Becomes(p, [Display(phone[p], "died") EXCEPT !.deaths = @ - 1])
    <3> DEFINE shown == Display(phone[p], "died")
               scene == [shown EXCEPT !.deaths = @ - 1]
    <3>1. /\ shown \in Scenes
          /\ \/ shown = [phone[p] EXCEPT !.overlay = "died"] /\ phone[p].overlay = "none"
             \/ shown = [phone[p] EXCEPT !.status = "crashed", !.flags = {}]
      BY <1>t, DisplayResult
    <3>2. /\ shown.verdicts = phone[p].verdicts /\ shown.deaths = phone[p].deaths
          /\ shown.pauseHidden = phone[p].pauseHidden /\ shown.flags \subseteq phone[p].flags
          /\ shown.health = phone[p].health /\ shown.score = phone[p].score
          /\ \/ shown.overlay = "died" /\ shown.status = phone[p].status
             \/ shown.overlay = phone[p].overlay /\ shown.status = "crashed"
      BY <1>t, <3>1 DEF Scenes
    <3>3. shown.deaths = 1
      BY <1>t, <2>1, <3>1, <3>2 DEF Scenes, EndsOK
    <3>4. scene \in Scenes
      <4>1. shown.deaths - 1 \in Nat
        BY <3>3
      <4>2. QED
        BY <3>1, <4>1 DEF Scenes
    <3>5. /\ scene.status = shown.status /\ scene.overlay = shown.overlay
          /\ scene.verdicts = shown.verdicts /\ scene.deaths = 0
          /\ scene.pauseHidden = shown.pauseHidden /\ scene.flags = shown.flags
          /\ scene.health = shown.health /\ scene.score = shown.score
      BY <3>1, <3>3 DEF Scenes
    <3>6. /\ phone[p].pauseHidden /\ phone[p].overlay # "died" /\ phone[p].deaths = 1
          /\ ~Contains(phone[p].verdicts, "player") /\ phone[p].status = "playing"
      BY <1>8, <1>t, <3>2, <3>3 DEF EndsOK, ShowEndScreen, Playing
    <3>7. EndsOK(scene) /\ LeftOver(scene)
      <4>1. EndsOK(scene)
        <5>1. /\ scene.overlay = "died" \/ scene.overlay # "died"
              /\ scene.pauseHidden /\ scene.deaths = 0 /\ scene.status # "lobby"
              /\ ~Contains(scene.verdicts, "player")
          BY <3>2, <3>5, <3>6
        <5>2. QED
          BY <5>1 DEF EndsOK
      <4>2. LeftOver(scene)
        BY <1>t, <3>2, <3>5 DEF LeftOver
      <4>3. QED
        BY <4>1, <4>2
    <3>8. Stands(phone[p]) => Stands(scene)
      BY <3>1, <3>2, <3>5, <3>6 DEF Stands, Scenes
    <3>9. Beaten(scene) => Beaten(phone[p])
      BY <3>2, <3>5 DEF Beaten
    <3>10. QED
      BY <1>8, <2>1, <3>4, <3>7, <3>8, <3>9, QuietStep DEF ShowEndScreen, Keeps
  <2>2. CASE /\ phone[p].verdicts # << >>
             /\ Becomes(p, [Display(phone[p], Head(phone[p].verdicts))
                              EXCEPT !.verdicts = Tail(@)])
    <3> DEFINE screen == Head(phone[p].verdicts)
               shown == Display(phone[p], screen)
               scene == [shown EXCEPT !.verdicts = Tail(@)]
    <3>1. phone[p].verdicts \in Seq({"player", "opponent"})
      BY <1>t DEF Scenes
    <3>2. screen \in {"player", "opponent"} /\ Tail(phone[p].verdicts) \in Seq({"player", "opponent"})
      BY <2>2, <3>1, HeadTailProperties
    <3>3. \A y : Contains(phone[p].verdicts, y)
                   <=> screen = y \/ Contains(Tail(phone[p].verdicts), y)
      BY <2>2, <3>1, ContainsTail
    <3>4. /\ shown \in Scenes
          /\ \/ shown = [phone[p] EXCEPT !.overlay = screen] /\ phone[p].overlay = "none"
             \/ shown = [phone[p] EXCEPT !.status = "crashed", !.flags = {}]
      BY <1>t, <3>2, DisplayResult
    <3>5. /\ shown.verdicts = phone[p].verdicts /\ shown.deaths = phone[p].deaths
          /\ shown.pauseHidden = phone[p].pauseHidden /\ shown.flags \subseteq phone[p].flags
          /\ shown.health = phone[p].health /\ shown.score = phone[p].score
          /\ \/ /\ shown.overlay = screen /\ phone[p].overlay = "none"
                /\ shown.status = phone[p].status
             \/ shown.overlay = phone[p].overlay /\ shown.status = "crashed"
      BY <1>t, <3>4 DEF Scenes
    <3>6. /\ scene \in Scenes
          /\ scene.status = shown.status /\ scene.overlay = shown.overlay
          /\ scene.verdicts = Tail(phone[p].verdicts) /\ scene.deaths = shown.deaths
          /\ scene.pauseHidden = shown.pauseHidden /\ scene.flags = shown.flags
          /\ scene.health = shown.health /\ scene.score = shown.score
      BY <3>2, <3>4, <3>5 DEF Scenes
    <3>7. EndsOK(scene) /\ LeftOver(scene)
      BY <1>t, <3>2, <3>3, <3>5, <3>6 DEF EndsOK, LeftOver
    <3>8. Stands(phone[p]) => Stands(scene)
      BY <1>8, <3>3, <3>5, <3>6 DEF Stands, ShowEndScreen, Playing
    <3>9. Beaten(scene) => Beaten(phone[p])
      BY <3>3, <3>5, <3>6 DEF Beaten
    <3>10. QED
      BY <1>8, <2>2, <3>6, <3>7, <3>8, <3>9, QuietStep DEF ShowEndScreen, Keeps
  <2>3. QED
    BY <1>8, <2>1, <2>2 DEF ShowEndScreen
<1>9. ASSUME NEW p \in Phones, LateEndScreen(p) PROVE IInv'
  <2>1. PICK status \in {"left", "crashed"} :
          Becomes(p, [phone[p] EXCEPT !.deaths = 0, !.verdicts = << >>, !.status = status])
    BY <1>9 DEF LateEndScreen
  <2> DEFINE scene == [phone[p] EXCEPT !.deaths = 0, !.verdicts = << >>, !.status = status]
  <2>2. scene \in Scenes
    BY <1>t, SilencedTypes
  <2>3. /\ scene.status = status /\ scene.overlay = phone[p].overlay
        /\ scene.verdicts = << >> /\ scene.deaths = 0
        /\ scene.pauseHidden = phone[p].pauseHidden /\ scene.flags = phone[p].flags
        /\ scene.health = phone[p].health /\ scene.score = phone[p].score
    BY <1>t DEF Scenes
  <2>4. Keeps(p, scene)
    BY <1>t, <2>3, ContainsNothing DEF Keeps, EndsOK, LeftOver, Stands, Beaten
  <2>5. QED
    BY <1>9, <2>1, <2>2, <2>4, QuietStep DEF LateEndScreen
<1>l. ASSUME NEW p \in Phones, LateUpdate(p) PROVE IInv'
  <2>1. PICK status \in {"left", "crashed"} :
          Becomes(p, [phone[p] EXCEPT !.flags = {}, !.status = status])
    BY <1>l DEF LateUpdate
  <2> DEFINE scene == [phone[p] EXCEPT !.flags = {}, !.status = status]
  <2>2. scene \in Scenes
    BY <1>t, LateTypes
  <2>3. /\ scene.status = status /\ scene.overlay = phone[p].overlay
        /\ scene.verdicts = phone[p].verdicts /\ scene.deaths = phone[p].deaths
        /\ scene.pauseHidden = phone[p].pauseHidden /\ scene.flags = {}
    BY <1>t DEF Scenes
  <2>4. Keeps(p, scene)
    BY <1>t, <2>3 DEF Keeps, EndsOK, LeftOver, Stands, Beaten
  <2>5. QED
    BY <1>l, <2>1, <2>2, <2>4, QuietStep DEF LateUpdate
<1>10. ASSUME NEW p \in Phones, Receive(p) PROVE IInv'
  BY <1>10, ReceiveStep
<1>11. ASSUME NEW p \in Phones, NotConnected(p) PROVE IInv'
  <2> DEFINE scene == [phone[p] EXCEPT !.alert = TRUE]
  <2>1. scene \in Scenes
    BY <1>t, AlertTypes
  <2>2. /\ scene.status = phone[p].status /\ scene.overlay = phone[p].overlay
        /\ scene.verdicts = phone[p].verdicts /\ scene.deaths = phone[p].deaths
        /\ scene.pauseHidden = phone[p].pauseHidden /\ scene.flags = phone[p].flags
        /\ scene.health = phone[p].health /\ scene.score = phone[p].score
    BY <1>t DEF Scenes
  <2>3. Keeps(p, scene)
    BY <1>t, <2>2 DEF Keeps, EndsOK, LeftOver, Stands, Beaten
  <2>4. /\ inbox' \in [Phones -> Seq(Messages)] /\ linked' \in BOOLEAN
        /\ \A q \in Phones : WinningMail(q)' => WinningMail(q)
    BY <1>t, <1>11, MailEmptied DEF NotConnected, IInv, TypeOK, WinningMail
  <2>5. QED
    BY <1>11, <2>1, <2>3, <2>4, PhoneStep, OtherPhone DEF NotConnected, Keeps
<1>12. ASSUME NEW p \in Phones, ConfirmAlert(p) PROVE IInv'
  <2> DEFINE scene == [phone[p] EXCEPT !.status = "left", !.alert = FALSE, !.overlay = "none"]
  <2>1. scene \in Scenes
    BY <1>t, LeaveTypes
  <2>2. /\ scene.status = "left" /\ scene.overlay = "none"
        /\ scene.verdicts = phone[p].verdicts /\ scene.deaths = phone[p].deaths
        /\ scene.pauseHidden = phone[p].pauseHidden /\ scene.flags = phone[p].flags
        /\ scene.health = phone[p].health /\ scene.score = phone[p].score
    BY <1>t DEF Scenes
  <2>3. Keeps(p, scene)
    BY <1>t, <2>2 DEF Keeps, EndsOK, LeftOver, Stands, Beaten
  <2>4. QED
    BY <1>12, <2>1, <2>3, QuietStep DEF ConfirmAlert
<1>13. CASE LinkBreaks
  BY <1>13, MailStays
  DEF LinkBreaks, IInv, TypeOK, RoundsOK, MailIsTrue, DefeatIsReal, WinningMail
<1>14. CASE UNCHANGED vars
  BY <1>14, MailStays DEF vars, IInv, TypeOK, RoundsOK, MailIsTrue, DefeatIsReal, WinningMail
<1>15. QED
  BY <1>1, <1>2, <1>3, <1>4, <1>5, <1>6, <1>7, <1>8, <1>9, <1>10, <1>11, <1>12, <1>13,
     <1>14, <1>l DEF Next

LEMMA MatchInvariant == Spec => []IInv
  BY InitMatch, MatchStep, PTL DEF Spec

----------------------------------------------------------------------------
(* A phone whose peer has ended no round *)

\* What a step of one phone has to keep: it stays quiet as long as the peer is fresh, tells
\* of the end of a round only if it is not fresh itself, and ends only over the pause menu
LEMMA AlonePhone ==
  ASSUME IInv, AloneInv, NEW p \in Phones, NEW scene \in Scenes, Becomes(p, scene),
         scene.fresh => phone[p].fresh,
         scene.status = "lobby" => scene.fresh,
         scene.status = "playing" /\ phone[Other(p)].fresh => Quiet(scene),
         Mail(p)' \subseteq Mail(p),
         \A m \in Mail(Other(p))' \ Mail(Other(p)) : Ending(m) => ~scene.fresh,
         Playing(p) /\ scene.status = "crashed" =>
           scene.isPausing \/ ~phone[Other(p)].fresh
  PROVE  AloneInv' /\ LonelyCrashFree
<1>1. /\ phone' \in [Phones -> Scenes]
      /\ phone'[p] = scene /\ phone'[Other(p)] = phone[Other(p)]
  BY OneBecomes DEF IInv, TypeOK
<1>2. /\ Other(p) \in Phones /\ Other(p) # p /\ Other(Other(p)) = p
      /\ \A q \in Phones : q = p \/ q = Other(p)
  BY OtherPhone
<1>3. AloneOK(p) /\ AloneOK(Other(p))
  BY <1>2 DEF AloneInv
<1>4. AloneOK(p)'
  <2>1. \A m \in Mail(p)' : Ending(m) => ~phone'[Other(p)].fresh
    BY <1>1, <1>3 DEF AloneOK
  <2>2. QED
    BY <1>1, <2>1 DEF AloneOK
<1>5. AloneOK(Other(p))'
  <2>1. ASSUME NEW m \in Mail(Other(p))', Ending(m) PROVE ~phone'[p].fresh
    <3>1. m \in Mail(Other(p)) => ~phone[p].fresh
      BY <1>2, <1>3, <2>1 DEF AloneOK
    <3>2. QED
      BY <1>1, <2>1, <3>1
  <2>2. phone'[Other(p)].status = "playing" /\ phone'[p].fresh => Quiet(phone'[Other(p)])
    BY <1>1, <1>2, <1>3 DEF AloneOK
  <2>3. phone'[Other(p)].status = "lobby" => phone'[Other(p)].fresh
    BY <1>1, <1>3 DEF AloneOK
  <2>4. QED
    BY <1>2, <2>1, <2>2, <2>3 DEF AloneOK
<1>6. AloneInv'
  BY <1>2, <1>4, <1>5 DEF AloneInv
<1>7. LonelyCrashFree
  <2>1. Playing(p) /\ phone'[p].status = "crashed" =>
          phone'[p].isPausing \/ ~phone[Other(p)].fresh
    BY <1>1
  <2>2. ~(Playing(Other(p)) /\ phone'[Other(p)].status = "crashed")
    BY <1>1 DEF Playing
  <2>3. QED
    BY <1>2, <2>1, <2>2 DEF LonelyCrashFree
<1>8. QED
  BY <1>6, <1>7

\* A step that neither sends nor receives
LEMMA AloneStays ==
  ASSUME IInv, AloneInv, NEW p \in Phones, NEW scene \in Scenes, Becomes(p, scene),
         scene.fresh = phone[p].fresh, scene.status # "lobby",
         scene.status = "playing" /\ phone[Other(p)].fresh => Quiet(scene),
         UNCHANGED inbox \/ inbox' = [inbox EXCEPT ![p] = << >>],
         Playing(p) /\ scene.status = "crashed" =>
           scene.isPausing \/ ~phone[Other(p)].fresh
  PROVE  AloneInv' /\ LonelyCrashFree
<1>1. \A q \in Phones : Mail(q)' \subseteq Mail(q)
  BY MailStays, MailEmptied DEF IInv, TypeOK
<1>2. QED
  BY <1>1, AlonePhone, OtherPhone

LEMMA InitAlone == Init => AloneInv
<1> SUFFICES ASSUME Init PROVE AloneInv
  OBVIOUS
<1>1. \A p \in Phones : phone[p].fresh /\ Quiet(phone[p])
  BY DEF Init, NewScene, Quiet
<1>2. \A p \in Phones : Mail(p) = {}
  <2>1. DOMAIN << >> = {}
    OBVIOUS
  <2>2. QED
    BY <2>1 DEF Init, Mail
<1>3. QED
  BY <1>1, <1>2 DEF AloneInv, AloneOK

\* A score below the last one changes no screen; what ends a round comes from a peer that
\* is no longer fresh
LEMMA AloneReceives ==
  ASSUME IInv, AloneInv, NEW p \in Phones, Receive(p)
  PROVE  AloneInv' /\ LonelyCrashFree
<1> DEFINE before == phone[p]
           message == Head(inbox[p])
<1>1. /\ before \in Scenes /\ before.status \in {"lobby", "playing"}
      /\ inbox \in [Phones -> Seq(Messages)] /\ inbox[p] # << >>
      /\ inbox' = [inbox EXCEPT ![p] = Tail(@)]
      /\ AloneOK(p)
  BY DEF IInv, TypeOK, Receive, AloneInv
<1>2. /\ \A q \in Phones : Mail(q)' \subseteq Mail(q)
      /\ message \in Messages /\ message \in Mail(p)
  BY <1>1, MailReceived
<1>3. ASSUME NEW scene \in Scenes, Becomes(p, scene),
             scene.fresh => before.fresh,
             scene.status = "lobby" => scene.fresh,
             scene.status = "playing" /\ phone[Other(p)].fresh => Quiet(scene),
             before.status = "playing" /\ scene.status = "crashed" =>
               ~phone[Other(p)].fresh
      PROVE  AloneInv' /\ LonelyCrashFree
  BY <1>2, <1>3, AlonePhone, OtherPhone DEF Playing
<1>4. CASE before.status = "lobby"
  <2>1. Becomes(p, before)
    BY <1>4 DEF Receive
  <2>2. QED
    BY <1>1, <1>3, <1>4, <2>1 DEF AloneOK
<1>5. CASE before.status = "playing" /\ message.kind = "score"
  <2> DEFINE scene == OpponentScores(before, message)
  <2>1. Becomes(p, scene)
    BY <1>5 DEF Receive
  <2>2. /\ scene \in Scenes /\ scene.status = before.status
        /\ scene.overlay = before.overlay /\ scene.deaths = before.deaths
        /\ scene.isPausing = before.isPausing
        /\ \/ message.score = WinScore /\ scene.fresh = FALSE
           \/ /\ scene.pauseHidden = before.pauseHidden /\ scene.fresh = before.fresh
              /\ scene.verdicts = before.verdicts
    BY <1>1, <1>2, <1>5, OpponentScoresResult
  <2>3. message.score = WinScore => ~phone[Other(p)].fresh
    BY <1>1, <1>2, <1>5 DEF AloneOK, Ending
  <2>4. phone[Other(p)].fresh => Quiet(scene)
    BY <1>1, <1>5, <2>2, <2>3 DEF AloneOK, Quiet
  <2>5. QED
    BY <1>3, <1>5, <2>1, <2>2, <2>4
<1>6. CASE before.status = "playing" /\ message.kind # "score"
  <2> DEFINE scene == Display(before, "player")
  <2>1. Becomes(p, scene)
    BY <1>6 DEF Receive
  <2>2. /\ scene \in Scenes
        /\ \/ scene = [before EXCEPT !.overlay = "player"]
           \/ scene = [before EXCEPT !.status = "crashed", !.flags = {}]
    BY <1>1, DisplayResult
  <2>3. scene.fresh = before.fresh /\ scene.status \in {"playing", "crashed"}
    BY <1>1, <1>6, <2>2 DEF Scenes
  <2>4. ~phone[Other(p)].fresh
    <3>1. message.kind = "died"
      BY <1>2, <1>6 DEF Messages
    <3>2. QED
      BY <1>1, <1>2, <3>1 DEF AloneOK, Ending
  <2>5. QED
    BY <1>3, <2>1, <2>2, <2>3, <2>4
<1>7. QED
  BY <1>1, <1>4, <1>5, <1>6

\* The own end screens, one by one
LEMMA AloneShows ==
  ASSUME IInv, AloneInv, NEW p \in Phones, ShowEndScreen(p)
  PROVE  AloneInv' /\ LonelyCrashFree
<1>1. /\ phone[p] \in Scenes /\ phone[p].status = "playing" /\ EndsOK(phone[p])
      /\ UNCHANGED inbox
      /\ phone[Other(p)].fresh => Quiet(phone[p])
  BY DEF IInv, TypeOK, RoundsOK, AloneInv, AloneOK, ShowEndScreen, Playing
<1>2. ASSUME NEW screen \in {"player", "opponent", "died"}
      PROVE  LET shown == Display(phone[p], screen) IN
             /\ shown \in Scenes
             /\ shown.verdicts = phone[p].verdicts /\ shown.deaths = phone[p].deaths
             /\ shown.pauseHidden = phone[p].pauseHidden
             /\ shown.isPausing = phone[p].isPausing /\ shown.fresh = phone[p].fresh
             /\ \/ shown.overlay = screen /\ shown.status = "playing"
                \/ phone[p].overlay # "none" /\ shown.status = "crashed"
  <2>1. LET shown == Display(phone[p], screen) IN
        /\ shown \in Scenes
        /\ \/ shown = [phone[p] EXCEPT !.overlay = screen]
           \/ shown = [phone[p] EXCEPT !.status = "crashed", !.flags = {}] /\ phone[p].overlay # "none"
    BY <1>1, DisplayResult
  <2>2. QED
    BY <1>1, <2>1 DEF Scenes
<1>3. CASE /\ phone[p].deaths > 0
           /\ Becomes(p, [Display(phone[p], "died") EXCEPT !.deaths = @ - 1])
  <2> DEFINE shown == Display(phone[p], "died")
             scene == [shown EXCEPT !.deaths = @ - 1]
  <2>1. /\ shown \in Scenes
        /\ shown.verdicts = phone[p].verdicts /\ shown.deaths = phone[p].deaths
        /\ shown.pauseHidden = phone[p].pauseHidden
        /\ shown.isPausing = phone[p].isPausing /\ shown.fresh = phone[p].fresh
        /\ \/ shown.overlay = "died" /\ shown.status = "playing"
           \/ phone[p].overlay # "none" /\ shown.status = "crashed"
    BY <1>2
  <2> HIDE DEF shown
  <2>2. shown.deaths = 1
    BY <1>1, <1>3, <2>1 DEF EndsOK, Scenes
  <2>3. scene \in Scenes
    <3>1. shown.deaths - 1 \in Nat
      BY <2>2
    <3>2. QED
      BY <2>1, <3>1 DEF Scenes
  <2>4. /\ scene.status = shown.status /\ scene.overlay = shown.overlay
        /\ scene.verdicts = phone[p].verdicts /\ scene.deaths = 0
        /\ scene.isPausing = phone[p].isPausing /\ scene.fresh = phone[p].fresh
    BY <2>1, <2>2 DEF Scenes
  <2>5. ASSUME phone[Other(p)].fresh
        PROVE  /\ phone[p].overlay = "none" \/ phone[p].isPausing
               /\ phone[p].verdicts = << >>
    BY <1>1, <1>3, <2>1, <2>2, <2>5 DEF Quiet
  <2>6. scene.status = "playing" /\ phone[Other(p)].fresh => Quiet(scene)
    BY <2>1, <2>4, <2>5 DEF Quiet
  <2>7. scene.status = "crashed" => scene.isPausing \/ ~phone[Other(p)].fresh
    BY <2>1, <2>4, <2>5
  <2>8. Becomes(p, scene) /\ scene.status # "lobby"
    BY <1>3, <2>1, <2>4 DEF shown
  <2>9. QED
    BY <1>1, <2>3, <2>4, <2>6, <2>7, <2>8, AloneStays
<1>4. CASE /\ phone[p].verdicts # << >>
           /\ Becomes(p, [Display(phone[p], Head(phone[p].verdicts))
                            EXCEPT !.verdicts = Tail(@)])
  <2> DEFINE screen == Head(phone[p].verdicts)
             shown == Display(phone[p], screen)
             scene == [shown EXCEPT !.verdicts = Tail(@)]
  <2>1. /\ screen \in {"player", "opponent"}
        /\ Tail(phone[p].verdicts) \in Seq({"player", "opponent"})
    <3>1. phone[p].verdicts \in Seq({"player", "opponent"})
      BY <1>1 DEF Scenes
    <3>2. QED
      BY <1>4, <3>1, HeadTailProperties
  <2>2. /\ shown \in Scenes
        /\ shown.verdicts = phone[p].verdicts /\ shown.deaths = phone[p].deaths
        /\ shown.pauseHidden = phone[p].pauseHidden
        /\ shown.isPausing = phone[p].isPausing /\ shown.fresh = phone[p].fresh
        /\ \/ shown.overlay = screen /\ shown.status = "playing"
           \/ phone[p].overlay # "none" /\ shown.status = "crashed"
    BY <1>2, <2>1
  <2> HIDE DEF shown
  <2>3. /\ scene \in Scenes
        /\ scene.status = shown.status /\ scene.overlay = shown.overlay
        /\ scene.verdicts = Tail(phone[p].verdicts) /\ scene.deaths = phone[p].deaths
        /\ scene.pauseHidden = phone[p].pauseHidden
        /\ scene.isPausing = phone[p].isPausing /\ scene.fresh = phone[p].fresh
    BY <2>1, <2>2 DEF Scenes
  <2>4. ASSUME phone[Other(p)].fresh
        PROVE  /\ phone[p].overlay = "none" \/ phone[p].isPausing
               /\ phone[p].pauseHidden /\ phone[p].deaths = 0
               /\ screen = "player" /\ Tail(phone[p].verdicts) = << >>
    <3>1. phone[p].verdicts = <<"player">>
      BY <1>1, <1>4, <2>4 DEF Quiet
    <3>2. QED
      BY <1>1, <1>4, <2>4, <3>1 DEF Quiet
  <2>5. scene.status = "playing" /\ phone[Other(p)].fresh => Quiet(scene)
    BY <2>2, <2>3, <2>4 DEF Quiet
  <2>6. scene.status = "crashed" => scene.isPausing \/ ~phone[Other(p)].fresh
    BY <2>2, <2>3, <2>4
  <2>7. Becomes(p, scene) /\ scene.status # "lobby"
    BY <1>4, <2>2, <2>3 DEF shown
  <2>8. QED
    BY <1>1, <2>3, <2>5, <2>6, <2>7, AloneStays
<1>5. QED
  BY <1>3, <1>4 DEF ShowEndScreen

LEMMA AloneStep == IInv /\ AloneInv /\ [Next]_vars => AloneInv' /\ [LonelyCrashFree]_vars
<1> SUFFICES ASSUME IInv, AloneInv, [Next]_vars
             PROVE  AloneInv' /\ [LonelyCrashFree]_vars
  OBVIOUS
<1> DEFINE Goal == AloneInv' /\ LonelyCrashFree
<1>t. /\ phone \in [Phones -> Scenes]
      /\ \A p \in Phones : /\ phone[p] \in Scenes /\ EndsOK(phone[p])
                           /\ phone[p].status = "lobby" => phone[p].fresh
                           /\ Playing(p) /\ phone[Other(p)].fresh => Quiet(phone[p])
  BY DEF IInv, TypeOK, RoundsOK, AloneInv, AloneOK, Playing
<1>1. ASSUME NEW p \in Phones, SetupGame(p) PROVE Goal
  <2>1. PICK tile \in Tiles : Becomes(p, NewScene("playing", tile))
    BY <1>1 DEF SetupGame
  <2> DEFINE scene == NewScene("playing", tile)
  <2>2. scene \in Scenes
    <3>1. 0 \in 0 .. WinScore - 1 /\ FullHealth \in 1 .. FullHealth
      BY PvPAssumption
    <3>2. QED
      BY <3>1 DEF NewScene, Scenes
  <2>3. /\ scene.status = "playing" /\ Quiet(scene) /\ scene.fresh = TRUE
        /\ phone[p].fresh = TRUE
    BY <1>1, <1>t DEF SetupGame, NewScene, Quiet, Scenes
  <2>4. QED
    BY <1>1, <2>1, <2>2, <2>3, AloneStays DEF SetupGame
<1>2. ASSUME NEW p \in Phones, DidBegin(p) PROVE Goal
  <2>1. PICK contact \in {"player", "monster"} :
          Becomes(p, [phone[p] EXCEPT !.flags = @ \cup {contact}])
    BY <1>2 DEF DidBegin
  <2> DEFINE scene == [phone[p] EXCEPT !.flags = @ \cup {contact}]
  <2>2. scene \in Scenes
    BY <1>t, ContactTypes
  <2>3. /\ scene.status = "playing" /\ scene.overlay = phone[p].overlay
        /\ scene.verdicts = phone[p].verdicts /\ scene.deaths = phone[p].deaths
        /\ scene.pauseHidden = phone[p].pauseHidden
        /\ scene.isPausing = phone[p].isPausing /\ scene.fresh = phone[p].fresh
    BY <1>2, <1>t DEF DidBegin, Running, Playing, Scenes
  <2>4. phone[Other(p)].fresh => Quiet(scene)
    BY <1>2, <1>t, <2>3 DEF Quiet, DidBegin, Running
  <2>5. QED
    BY <1>2, <2>1, <2>2, <2>3, <2>4, AloneStays DEF DidBegin
<1>3. ASSUME NEW p \in Phones, Update(p) PROVE Goal
  <2>1. PICK scene \in Scenes :
          /\ Becomes(p, scene)
          /\ Quiet(phone[p]) => Quiet(scene)
          /\ scene.status = phone[p].status /\ (scene.fresh => phone[p].fresh)
          /\ Mail(p)' \subseteq Mail(p)
          /\ \A m \in Mail(Other(p))' \ Mail(Other(p)) : Ending(m) => ~scene.fresh
    BY <1>3, UpdateResult
  <2>2. scene.status = "playing"
    BY <1>3, <2>1 DEF Update, Playing
  <2>3. phone[Other(p)].fresh => Quiet(scene)
    BY <1>t, <2>1, <2>2 DEF Playing
  <2>4. QED
    BY <2>1, <2>2, <2>3, AlonePhone
<1>4. ASSUME NEW p \in Phones, TouchPause(p) PROVE Goal
  <2> DEFINE shown == Display(phone[p], "pause")
             scene == [shown EXCEPT !.isPausing = TRUE]
  <2>1. /\ shown \in Scenes
        /\ \/ shown = [phone[p] EXCEPT !.overlay = "pause"]
           \/ shown = [phone[p] EXCEPT !.status = "crashed", !.flags = {}]
    BY <1>t, DisplayResult
  <2>2. /\ scene \in Scenes
        /\ scene.status = shown.status /\ scene.overlay = shown.overlay
        /\ scene.verdicts = shown.verdicts /\ scene.deaths = shown.deaths
        /\ scene.pauseHidden = shown.pauseHidden
        /\ scene.isPausing = TRUE /\ scene.fresh = shown.fresh
    BY <2>1 DEF Scenes
  <2>3. /\ shown.verdicts = phone[p].verdicts /\ shown.deaths = phone[p].deaths
        /\ shown.pauseHidden = phone[p].pauseHidden /\ shown.fresh = phone[p].fresh
        /\ shown.overlay \in {"pause", phone[p].overlay}
        /\ shown.status \in {"crashed", phone[p].status}
    BY <1>t, <2>1 DEF Scenes
  <2>4. Playing(p) /\ ~phone[p].pauseHidden
    BY <1>4 DEF TouchPause, Touchable, Running
  <2>5. phone[Other(p)].fresh => Quiet(scene)
    BY <1>t, <2>2, <2>3, <2>4 DEF Quiet
  <2>6. scene.status # "lobby"
    BY <2>2, <2>3, <2>4 DEF Playing
  <2>7. QED
    BY <1>4, <2>2, <2>3, <2>5, <2>6, AloneStays DEF TouchPause
<1>5. ASSUME NEW p \in Phones, TouchPlay(p) PROVE Goal
  <2> DEFINE scene == [phone[p] EXCEPT !.overlay = "none", !.isPausing = FALSE]
  <2>1. scene \in Scenes
    BY <1>t, PlayTypes
  <2>2. /\ scene.status = "playing" /\ scene.overlay = "none"
        /\ scene.verdicts = phone[p].verdicts /\ scene.deaths = phone[p].deaths
        /\ scene.pauseHidden = phone[p].pauseHidden /\ scene.fresh = phone[p].fresh
        /\ Playing(p)
    BY <1>5, <1>t DEF Scenes, TouchPlay, Touchable, Playing
  <2>3. phone[Other(p)].fresh => Quiet(scene)
    BY <1>t, <2>2 DEF Quiet
  <2>4. QED
    BY <1>5, <2>1, <2>2, <2>3, AloneStays DEF TouchPlay
<1>6. ASSUME NEW p \in Phones, TouchTryAgain(p) PROVE Goal
  <2>1. PICK tile \in Tiles :
          Becomes(p, [phone[p] EXCEPT !.score = 0, !.opponentScore = 0,
                                      !.health = FullHealth, !.overlay = "none",
                                      !.pauseHidden = FALSE, !.trophy = tile])
    BY <1>6 DEF TouchTryAgain
  <2> DEFINE scene == [phone[p] EXCEPT !.score = 0, !.opponentScore = 0,
                                       !.health = FullHealth, !.overlay = "none",
                                       !.pauseHidden = FALSE, !.trophy = tile]
  <2>2. scene \in Scenes
    BY <1>t, RetryTypes
  <2>3. /\ scene.status = "playing" /\ scene.overlay = "none"
        /\ scene.verdicts = phone[p].verdicts /\ scene.deaths = phone[p].deaths
        /\ scene.fresh = phone[p].fresh
        /\ Playing(p) /\ phone[p].overlay = "died"
    BY <1>6, <1>t DEF Scenes, TouchTryAgain, Touchable, Playing
  <2>4. phone[p].deaths = 0 /\ ~Contains(phone[p].verdicts, "player")
    BY <1>t, <2>3 DEF EndsOK
  <2>5. Contains(<<"player">>, "player")
    BY DEF Contains
  <2>6. phone[Other(p)].fresh => Quiet(scene)
    BY <1>t, <2>3, <2>4, <2>5 DEF Quiet
  <2>7. QED
    BY <1>6, <2>1, <2>2, <2>3, <2>6, AloneStays DEF TouchTryAgain
<1>7. ASSUME NEW p \in Phones, TouchLeave(p) PROVE Goal
  <2> DEFINE scene == [phone[p] EXCEPT !.status = "left", !.overlay = "none"]
  <2>1. scene \in Scenes
    BY <1>t, LeaveTypes
  <2>2. scene.status = "left" /\ scene.fresh = phone[p].fresh
    BY <1>t DEF Scenes
  <2>3. QED
    BY <1>7, <2>1, <2>2, AloneStays DEF TouchLeave
<1>8. ASSUME NEW p \in Phones, ShowEndScreen(p) PROVE Goal
  BY <1>8, AloneShows
<1>9. ASSUME NEW p \in Phones, LateEndScreen(p) PROVE Goal
  <2>1. PICK status \in {"left", "crashed"} :
          Becomes(p, [phone[p] EXCEPT !.deaths = 0, !.verdicts = << >>, !.status = status])
    BY <1>9 DEF LateEndScreen
  <2> DEFINE scene == [phone[p] EXCEPT !.deaths = 0, !.verdicts = << >>, !.status = status]
  <2>2. scene \in Scenes
    BY <1>t, SilencedTypes
  <2>3. scene.status = status /\ scene.fresh = phone[p].fresh
    BY <1>t DEF Scenes
  <2>4. QED
    BY <1>9, <2>1, <2>2, <2>3, AloneStays DEF LateEndScreen, Playing
<1>l. ASSUME NEW p \in Phones, LateUpdate(p) PROVE Goal
  <2>1. PICK status \in {"left", "crashed"} :
          Becomes(p, [phone[p] EXCEPT !.flags = {}, !.status = status])
    BY <1>l DEF LateUpdate
  <2> DEFINE scene == [phone[p] EXCEPT !.flags = {}, !.status = status]
  <2>2. scene \in Scenes
    BY <1>t, LateTypes
  <2>3. scene.status = status /\ scene.fresh = phone[p].fresh
    BY <1>t DEF Scenes
  <2>4. QED
    BY <1>l, <2>1, <2>2, <2>3, AloneStays DEF LateUpdate, Playing
<1>10. ASSUME NEW p \in Phones, Receive(p) PROVE Goal
  BY <1>10, AloneReceives
<1>11. ASSUME NEW p \in Phones, NotConnected(p) PROVE Goal
  <2> DEFINE scene == [phone[p] EXCEPT !.alert = TRUE]
  <2>1. scene \in Scenes
    BY <1>t, AlertTypes
  <2>2. /\ scene.status = phone[p].status /\ scene.overlay = phone[p].overlay
        /\ scene.verdicts = phone[p].verdicts /\ scene.deaths = phone[p].deaths
        /\ scene.pauseHidden = phone[p].pauseHidden
        /\ scene.isPausing = phone[p].isPausing /\ scene.fresh = phone[p].fresh
    BY <1>t DEF Scenes
  <2>3. scene.status = "playing" /\ phone[Other(p)].fresh => Quiet(scene)
    BY <1>t, <2>2 DEF Quiet, Playing
  <2>4. scene.status = "lobby" => scene.fresh
    BY <1>t, <2>2
  <2>5. \A q \in Phones : Mail(q)' \subseteq Mail(q)
    BY <1>11, MailEmptied DEF NotConnected, IInv, TypeOK
  <2>6. Becomes(p, scene) /\ ~(Playing(p) /\ scene.status = "crashed")
    BY <1>11, <2>2 DEF NotConnected, Playing
  <2>7. QED
    BY <2>1, <2>2, <2>3, <2>4, <2>5, <2>6, AlonePhone, OtherPhone
<1>12. ASSUME NEW p \in Phones, ConfirmAlert(p) PROVE Goal
  <2> DEFINE scene == [phone[p] EXCEPT !.status = "left", !.alert = FALSE, !.overlay = "none"]
  <2>1. scene \in Scenes
    BY <1>t, LeaveTypes
  <2>2. scene.status = "left" /\ scene.fresh = phone[p].fresh
    BY <1>t DEF Scenes
  <2>3. QED
    BY <1>12, <2>1, <2>2, AloneStays DEF ConfirmAlert
<1>13. CASE LinkBreaks
  <2>1. AloneInv'
    BY <1>13 DEF LinkBreaks, AloneInv, AloneOK, Mail
  <2>2. LonelyCrashFree
    BY <1>13 DEF LinkBreaks, LonelyCrashFree, Playing
  <2>3. QED
    BY <2>1, <2>2
<1>14. CASE UNCHANGED vars
  BY <1>14 DEF vars, AloneInv, AloneOK, Mail
<1>15. QED
  BY <1>1, <1>2, <1>3, <1>4, <1>5, <1>6, <1>7, <1>8, <1>9, <1>10, <1>11, <1>12, <1>13,
     <1>14, <1>l DEF Next

LEMMA AloneInvariant == Spec => []AloneInv
  BY InitAlone, MatchInvariant, AloneStep, PTL DEF Spec

----------------------------------------------------------------------------
(* The scores of the first round *)

\* A game that is not set up has no scores and ended no round, and a round that ended leaves its mark
FreshOK(scene) ==
  /\ scene.status = "lobby" => scene.fresh /\ scene.score = 0 /\ scene.opponentScore = 0
  /\ scene.pauseHidden => ~scene.fresh

CatchUpInv == ScoresCatchUp /\ \A p \in Phones : FreshOK(phone[p])

\* A score sent after the others is above them all.
LEMMA CatchUpSent ==
  ASSUME NEW mail \in Seq(Messages), NEW shown \in Nat, NEW score \in Nat,
         CatchesUp(shown, mail, score),
         NEW m \in Messages, m.kind = "score", m.score = score + 1
  PROVE  CatchesUp(shown, Append(mail, m), score + 1)
<1> DEFINE all == Append(mail, m)
<1>1. /\ all \in Seq(Messages) /\ Len(all) = Len(mail) + 1 /\ Len(mail) \in Nat
      /\ \A i \in 1 .. Len(mail) : all[i] = mail[i]
      /\ all[Len(mail) + 1] = m
      /\ DOMAIN all = 1 .. Len(mail) + 1 /\ DOMAIN mail = 1 .. Len(mail)
  BY AppendProperties, LenProperties
<1>2. mail # << >> => Len(mail) \in DOMAIN mail /\ mail[Len(mail)].score = score
  BY <1>1, EmptySeq DEF CatchesUp, Last
<1>3. mail = << >> => Len(mail) = 0 /\ shown <= score
  BY <1>1 DEF CatchesUp
<1> HIDE DEF all
<1>4. ASSUME NEW i \in DOMAIN all
      PROVE  /\ all[i].kind = "score"
             /\ all[i].score > IF i = 1 THEN shown ELSE all[i - 1].score
  <2>1. CASE i \in DOMAIN mail
    <3>1. all[i] = mail[i] /\ (i # 1 => all[i - 1] = mail[i - 1])
      BY <1>1, <2>1
    <3> QED BY <2>1, <3>1 DEF CatchesUp
  <2>2. CASE i = Len(mail) + 1
    <3>1. CASE mail = << >>
      BY <1>1, <1>3, <2>2, <3>1
    <3>2. CASE mail # << >>
      <4>1. i # 1 /\ i - 1 = Len(mail) /\ all[i - 1] = mail[Len(mail)]
        BY <1>1, <1>2, <2>2, <3>2
      <4> QED BY <1>1, <1>2, <2>2, <3>2, <4>1
    <3> QED BY <3>1, <3>2
  <2> QED BY <1>1, <2>1, <2>2
<1>5. all # << >> /\ Last(all) = m
  BY <1>1 DEF Last
<1> QED BY <1>4, <1>5 DEF CatchesUp, all

\* A score received is shown next, or dropped by a phone that shows none yet.
LEMMA CatchUpReceived ==
  ASSUME NEW mail \in Seq(Messages), mail # << >>, NEW shown \in Nat, NEW score \in Nat,
         CatchesUp(shown, mail, score)
  PROVE  /\ Head(mail).kind = "score"
         /\ CatchesUp(Head(mail).score, Tail(mail), score)
         /\ shown = 0 => CatchesUp(0, Tail(mail), score)
<1> DEFINE rest == Tail(mail)
<1>1. /\ rest \in Seq(Messages) /\ Len(rest) = Len(mail) - 1 /\ Len(mail) \in Nat \ {0}
      /\ \A i \in 1 .. Len(rest) : rest[i] = mail[i + 1]
      /\ Head(mail) = mail[1]
      /\ DOMAIN mail = 1 .. Len(mail) /\ DOMAIN rest = 1 .. Len(rest)
  BY HeadTailProperties, LenProperties
<1>2. \A i \in DOMAIN mail : mail[i] \in Messages /\ mail[i].kind = "score"
  BY <1>1 DEF CatchesUp
<1>3. \A i \in DOMAIN mail : mail[i].score \in Nat /\ mail[i].score >= 1
  BY <1>2, PvPAssumption DEF Messages
<1>4. 1 \in DOMAIN mail /\ Len(mail) \in DOMAIN mail
  BY <1>1
<1>5. mail[Len(mail)].score = score
  BY DEF CatchesUp, Last
<1> HIDE DEF rest
<1>6. ASSUME NEW base \in Nat, base <= Head(mail).score PROVE CatchesUp(base, rest, score)
  <2>1. ASSUME NEW i \in DOMAIN rest
        PROVE  /\ rest[i].kind = "score"
               /\ rest[i].score > IF i = 1 THEN base ELSE rest[i - 1].score
    <3>1. /\ i + 1 \in DOMAIN mail /\ i + 1 # 1 /\ (i + 1) - 1 = i /\ i \in DOMAIN mail
          /\ rest[i] = mail[i + 1]
      BY <1>1
    <3>2. mail[i + 1].kind = "score" /\ mail[i + 1].score > mail[i].score
      BY <3>1 DEF CatchesUp
    <3>3. CASE i = 1
      <4>1. mail[1].score \in Nat /\ mail[i + 1].score \in Nat /\ base <= mail[1].score
        BY <1>1, <1>3, <1>4, <1>6, <3>1
      <4> QED BY <3>1, <3>2, <3>3, <4>1
    <3>4. CASE i # 1
      <4>1. rest[i - 1] = mail[i]
        BY <1>1, <3>4
      <4> QED BY <3>1, <3>2, <3>4, <4>1
    <3> QED BY <3>3, <3>4
  <2>2. CASE rest = << >>
    <3>1. Head(mail).score = score
      BY <1>1, <1>5, <2>2
    <3> QED BY <1>6, <2>1, <2>2, <3>1 DEF CatchesUp
  <2>3. CASE rest # << >>
    <3>1. Len(rest) \in 1 .. Len(rest) /\ Len(rest) + 1 = Len(mail)
      BY <1>1, <2>3, EmptySeq
    <3>2. Last(rest) = mail[Len(mail)]
      BY <1>1, <3>1 DEF Last
    <3> QED BY <1>5, <2>1, <2>3, <3>2 DEF CatchesUp
  <2> QED BY <2>2, <2>3
<1> QED
  BY <1>1, <1>2, <1>3, <1>4, <1>6 DEF rest

\* What a step of one phone has to keep of the scores.
LEMMA CatchUpPhone ==
  ASSUME IInv, CatchUpInv, NEW p \in Phones, NEW scene \in Scenes, Becomes(p, scene),
         FreshOK(scene),
         linked' /\ scene.fresh /\ phone[Other(p)].fresh =>
           /\ CatchesUp(scene.opponentScore, inbox'[p], phone[Other(p)].score)
           /\ CatchesUp(phone[Other(p)].opponentScore, inbox'[Other(p)], scene.score)
  PROVE  CatchUpInv'
<1>1. /\ phone' \in [Phones -> Scenes]
      /\ phone'[p] = scene /\ phone'[Other(p)] = phone[Other(p)]
  BY OneBecomes DEF IInv, TypeOK
<1>2. /\ Other(p) \in Phones /\ Other(p) # p /\ Other(Other(p)) = p
      /\ \A q \in Phones : q = p \/ q = Other(p)
  BY OtherPhone
<1>3. \A q \in Phones : FreshOK(phone'[q])
  BY <1>1, <1>2 DEF CatchUpInv
<1>4. ScoresCatchUp'
  BY <1>1, <1>2 DEF ScoresCatchUp
<1> QED BY <1>3, <1>4 DEF CatchUpInv

\* A step that keeps the scores of a round that goes on, and sends and receives nothing
\* while the session lasts.
LEMMA CatchUpStays ==
  ASSUME IInv, CatchUpInv, NEW p \in Phones, NEW scene \in Scenes, Becomes(p, scene),
         FreshOK(scene),
         linked' => linked /\ UNCHANGED inbox,
         scene.fresh => /\ phone[p].fresh /\ scene.score = phone[p].score
                        /\ scene.opponentScore = phone[p].opponentScore
  PROVE  CatchUpInv'
<1>1. /\ Other(p) \in Phones /\ Other(Other(p)) = p
      /\ \A q \in Phones : linked /\ phone[q].fresh /\ phone[Other(q)].fresh =>
           CatchesUp(phone[q].opponentScore, inbox[q], phone[Other(q)].score)
  BY OtherPhone DEF CatchUpInv, ScoresCatchUp
<1> QED BY <1>1, CatchUpPhone

\* No scores are shown, sent or scored when the match starts.
LEMMA InitCatchUp == Init => CatchUpInv
<1> SUFFICES ASSUME Init PROVE CatchUpInv
  OBVIOUS
<1>1. \A p \in Phones : /\ phone[p].score = 0 /\ phone[p].opponentScore = 0
                         /\ FreshOK(phone[p])
  BY DEF Init, NewScene, FreshOK
<1>2. CatchesUp(0, << >>, 0)
  BY DEF CatchesUp
<1> QED BY <1>1, <1>2, OtherPhone DEF Init, CatchUpInv, ScoresCatchUp

\* A trophy collected is counted and told in one call; a round that ends is not fresh.
LEMMA CatchUpUpdates ==
  ASSUME IInv, CatchUpInv, NEW p \in Phones, Update(p)
  PROVE  CatchUpInv'
<1> DEFINE before == phone[p]
           collects == "player" \in before.flags
           hit == "monster" \in before.flags
           q == Other(p)
<1>1. PICK tile \in Tiles :
        LET middle == IF collects THEN Collect(before, tile) ELSE before
            after == IF hit THEN Hit(middle) ELSE middle
        IN /\ Becomes(p, after)
           /\ Send(p, (IF collects THEN <<Score(before, tile)>> ELSE << >>)
                      \o (IF hit /\ middle.health = 1 THEN <<Died>> ELSE << >>))
  BY DEF Update
<1> DEFINE middle == IF collects THEN Collect(before, tile) ELSE before
           after == IF hit THEN Hit(middle) ELSE middle
           scores == IF collects THEN <<Score(before, tile)>> ELSE << >>
           deaths == IF hit /\ middle.health = 1 THEN <<Died>> ELSE << >>
<1>2. /\ before \in Scenes /\ before.status = "playing" /\ UNCHANGED linked
      /\ inbox \in [Phones -> Seq(Messages)] /\ FreshOK(before)
      /\ q \in Phones /\ q # p /\ Other(q) = p /\ phone[q] \in Scenes
  BY OtherPhone DEF IInv, TypeOK, Update, Playing, CatchUpInv
<1>3. /\ middle \in Scenes /\ middle.status = before.status
      /\ \/ middle.fresh = FALSE /\ middle.pauseHidden = TRUE
         \/ /\ middle.fresh = before.fresh /\ middle.pauseHidden = before.pauseHidden
            /\ middle.score = before.score + (IF collects THEN 1 ELSE 0)
            /\ middle.opponentScore = before.opponentScore
  <2>1. before.score \in Nat
    BY <1>2, PvPAssumption DEF Scenes
  <2>2. CASE collects
    BY <1>2, <2>2, CollectResult
  <2>3. CASE ~collects
    BY <1>2, <2>1, <2>3
  <2> QED BY <2>2, <2>3
<1>4. /\ after \in Scenes /\ after.status = before.status
      /\ \/ after.fresh = FALSE
         \/ /\ after.fresh = before.fresh /\ after.pauseHidden = before.pauseHidden
            /\ after.score = before.score + (IF collects THEN 1 ELSE 0)
            /\ after.opponentScore = before.opponentScore
            /\ ~ (hit /\ middle.health = 1)
  <2> HIDE DEF middle
  <2>1. CASE hit
    BY <1>3, <2>1, HitResult
  <2>2. CASE ~hit
    BY <1>3, <2>2
  <2> QED BY <2>1, <2>2
<1>5. Becomes(p, after)
  BY <1>1
<1>6. Send(p, scores \o deaths)
  BY <1>1
<1> HIDE DEF middle, after
<1>7. FreshOK(after)
  BY <1>2, <1>4 DEF FreshOK
<1>8. ASSUME linked, after.fresh, phone[q].fresh
      PROVE  /\ CatchesUp(after.opponentScore, inbox'[p], phone[q].score)
             /\ CatchesUp(phone[q].opponentScore, inbox'[q], after.score)
  <2>1. deaths = << >> /\ scores \in Seq(Messages) /\ before.fresh
    <3>1. before.score \in 0 .. WinScore - 1
      BY <1>2 DEF Scenes
    <3>2. Score(before, tile) \in Messages
      BY <3>1, PvPAssumption DEF Score, Messages
    <3>3. scores \in Seq(Messages)
      BY <3>2
    <3>4. before.fresh /\ ~ (hit /\ middle.health = 1)
      BY <1>4, <1>8
    <3> QED BY <3>3, <3>4
  <2>2. inbox' = [inbox EXCEPT ![q] = inbox[q] \o (scores \o deaths)]
    BY <1>6, <1>8 DEF Send
  <2>3. scores \o deaths = scores
    <3> HIDE DEF scores, deaths
    <3> QED BY <2>1
  <2>4. inbox'[p] = inbox[p] /\ inbox'[q] = inbox[q] \o scores
    BY <1>2, <2>2, <2>3
  <2>5. /\ CatchesUp(before.opponentScore, inbox[p], phone[q].score)
        /\ CatchesUp(phone[q].opponentScore, inbox[q], before.score)
    BY <1>2, <1>8, <2>1 DEF CatchUpInv, ScoresCatchUp
  <2>6. CASE ~collects
    <3>1. inbox[q] \o scores = inbox[q]
      BY <1>2, <2>6
    <3>2. after.score = before.score /\ after.opponentScore = before.opponentScore
      <4>1. before.score \in Nat
        BY <1>2, PvPAssumption DEF Scenes
      <4> QED BY <1>4, <1>8, <2>6, <4>1
    <3> QED BY <2>4, <2>5, <3>1, <3>2
  <2>7. CASE collects
    <3> DEFINE m == Score(before, tile)
    <3>1. before.score \in 0 .. WinScore - 1 /\ phone[q].opponentScore \in Nat
      BY <1>2, PvPAssumption DEF Scenes
    <3>2. m \in Messages /\ m.kind = "score" /\ m.score = before.score + 1
      BY <3>1, PvPAssumption DEF Score, Messages
    <3>3. before.score \in Nat
      BY <3>1, PvPAssumption
    <3> HIDE DEF m
    <3>4. inbox[q] \o <<m>> = Append(inbox[q], m)
      BY <1>2, <3>2
    <3>5. inbox'[q] = Append(inbox[q], m)
      BY <2>4, <2>7, <3>4 DEF m
    <3>6. CatchesUp(phone[q].opponentScore, Append(inbox[q], m), before.score + 1)
      BY <1>2, <2>5, <3>1, <3>2, <3>3, CatchUpSent
    <3>7. after.score = before.score + 1 /\ after.opponentScore = before.opponentScore
      BY <1>4, <1>8, <2>7
    <3> QED BY <2>4, <2>5, <3>5, <3>6, <3>7
  <2> QED BY <2>6, <2>7
<1> QED BY <1>2, <1>4, <1>5, <1>7, <1>8, CatchUpPhone

\* A score received is shown; before the game is set up it is dropped.
LEMMA CatchUpReceives ==
  ASSUME IInv, CatchUpInv, NEW p \in Phones, Receive(p)
  PROVE  CatchUpInv'
<1> DEFINE before == phone[p]
           message == Head(inbox[p])
           q == Other(p)
<1>1. /\ before \in Scenes /\ before.status \in {"lobby", "playing"}
      /\ inbox \in [Phones -> Seq(Messages)] /\ inbox[p] # << >> /\ UNCHANGED linked
      /\ inbox' = [inbox EXCEPT ![p] = Tail(@)]
      /\ FreshOK(before)
      /\ q \in Phones /\ q # p /\ Other(q) = p /\ phone[q] \in Scenes
  BY OtherPhone DEF IInv, TypeOK, Receive, CatchUpInv
<1>2. message \in Messages /\ inbox'[p] = Tail(inbox[p]) /\ inbox'[q] = inbox[q]
  BY <1>1, MailReceived
<1>3. before.opponentScore \in Nat /\ phone[q].score \in Nat
  BY <1>1, PvPAssumption DEF Scenes
<1>4. ASSUME linked, before.fresh, phone[q].fresh
      PROVE  /\ CatchesUp(phone[q].opponentScore, inbox[q], before.score)
             /\ message.kind = "score"
             /\ CatchesUp(message.score, Tail(inbox[p]), phone[q].score)
             /\ before.opponentScore = 0 => CatchesUp(0, Tail(inbox[p]), phone[q].score)
  <2>1. /\ CatchesUp(before.opponentScore, inbox[p], phone[q].score)
        /\ CatchesUp(phone[q].opponentScore, inbox[q], before.score)
    BY <1>1, <1>4 DEF CatchUpInv, ScoresCatchUp
  <2> QED BY <1>1, <1>3, <2>1, CatchUpReceived
<1>5. CASE before.status = "lobby"
  <2>1. Becomes(p, before) /\ before.opponentScore = 0
    BY <1>1, <1>5 DEF Receive, FreshOK
  <2> QED BY <1>1, <1>2, <1>4, <2>1, CatchUpPhone
<1>6. CASE before.status = "playing" /\ message.kind = "score"
  <2> DEFINE scene == OpponentScores(before, message)
  <2>1. Becomes(p, scene)
    BY <1>6 DEF Receive
  <2>2. /\ scene \in Scenes /\ scene.status = before.status
        /\ \/ scene.fresh = FALSE
           \/ /\ scene.pauseHidden = before.pauseHidden /\ scene.fresh = before.fresh
              /\ scene.score = before.score /\ scene.opponentScore = message.score
    BY <1>1, <1>2, <1>6, OpponentScoresResult
  <2> HIDE DEF scene
  <2>3. FreshOK(scene)
    BY <1>1, <1>6, <2>2 DEF FreshOK
  <2>4. linked' /\ scene.fresh /\ phone[q].fresh =>
          /\ CatchesUp(scene.opponentScore, inbox'[p], phone[q].score)
          /\ CatchesUp(phone[q].opponentScore, inbox'[q], scene.score)
    BY <1>1, <1>2, <1>4, <2>2
  <2> QED BY <2>1, <2>2, <2>3, <2>4, CatchUpPhone
<1>7. CASE before.status = "playing" /\ message.kind # "score"
  <2> DEFINE scene == Display(before, "player")
  <2>1. Becomes(p, scene)
    BY <1>7 DEF Receive
  <2>2. /\ scene \in Scenes
        /\ \/ scene = [before EXCEPT !.overlay = "player"]
           \/ scene = [before EXCEPT !.status = "crashed", !.flags = {}]
    BY <1>1, DisplayResult
  <2>3. /\ scene.fresh = before.fresh /\ scene.pauseHidden = before.pauseHidden
        /\ scene.status # "lobby"
    BY <1>1, <1>7, <2>2 DEF Scenes
  <2> HIDE DEF scene
  <2>4. FreshOK(scene)
    BY <1>1, <2>3 DEF FreshOK
  <2>5. ~ (linked' /\ scene.fresh /\ phone[q].fresh)
    BY <1>1, <1>4, <1>7, <2>3
  <2> QED BY <2>1, <2>2, <2>4, <2>5, CatchUpPhone
<1> QED BY <1>1, <1>5, <1>6, <1>7

\* The other steps leave the scores of a round that goes on alone.
LEMMA CatchUpStep == IInv /\ CatchUpInv /\ [Next]_vars => CatchUpInv'
<1> SUFFICES ASSUME IInv, CatchUpInv, [Next]_vars PROVE CatchUpInv'
  OBVIOUS
<1>t. \A p \in Phones : phone[p] \in Scenes /\ EndsOK(phone[p]) /\ FreshOK(phone[p])
  BY DEF IInv, TypeOK, RoundsOK, CatchUpInv
<1>s. ASSUME NEW p \in Phones, NEW scene \in Scenes, Becomes(p, scene),
             scene.status = "lobby" => phone[p].status = "lobby",
             scene.fresh = phone[p].fresh, scene.score = phone[p].score,
             scene.opponentScore = phone[p].opponentScore,
             scene.pauseHidden = phone[p].pauseHidden,
             linked' => linked /\ UNCHANGED inbox
      PROVE  CatchUpInv'
  <2>1. FreshOK(scene)
    BY <1>t, <1>s DEF FreshOK
  <2> QED BY <1>s, <2>1, CatchUpStays
<1>1. ASSUME NEW p \in Phones, SetupGame(p) PROVE CatchUpInv'
  <2>1. PICK tile \in Tiles : Becomes(p, NewScene("playing", tile))
    BY <1>1 DEF SetupGame
  <2> DEFINE scene == NewScene("playing", tile)
  <2>2. scene \in Scenes
    <3>1. 0 \in 0 .. WinScore - 1 /\ FullHealth \in 1 .. FullHealth
      BY PvPAssumption
    <3> QED BY <3>1 DEF NewScene, Scenes
  <2>3. /\ scene.score = 0 /\ scene.opponentScore = 0 /\ FreshOK(scene)
        /\ phone[p].score = 0 /\ phone[p].opponentScore = 0 /\ phone[p].fresh
    BY <1>1, <1>t DEF SetupGame, NewScene, FreshOK
  <2>4. UNCHANGED <<inbox, linked>>
    BY <1>1 DEF SetupGame
  <2> QED BY <2>1, <2>2, <2>3, <2>4, CatchUpStays
<1>2. ASSUME NEW p \in Phones, DidBegin(p) PROVE CatchUpInv'
  <2>1. PICK contact \in {"player", "monster"} :
          Becomes(p, [phone[p] EXCEPT !.flags = @ \cup {contact}])
    BY <1>2 DEF DidBegin
  <2> DEFINE scene == [phone[p] EXCEPT !.flags = @ \cup {contact}]
  <2>2. scene \in Scenes
    BY <1>t, ContactTypes
  <2>3. /\ scene.status = phone[p].status /\ scene.score = phone[p].score
        /\ scene.opponentScore = phone[p].opponentScore
        /\ scene.pauseHidden = phone[p].pauseHidden /\ scene.fresh = phone[p].fresh
    BY <1>t DEF Scenes
  <2> QED BY <1>2, <1>s, <2>1, <2>2, <2>3 DEF DidBegin
<1>3. ASSUME NEW p \in Phones, Update(p) PROVE CatchUpInv'
  BY <1>3, CatchUpUpdates
<1>4. ASSUME NEW p \in Phones, TouchPause(p) PROVE CatchUpInv'
  <2> DEFINE shown == Display(phone[p], "pause")
             scene == [shown EXCEPT !.isPausing = TRUE]
  <2>1. /\ shown \in Scenes
        /\ \/ shown = [phone[p] EXCEPT !.overlay = "pause"]
           \/ shown = [phone[p] EXCEPT !.status = "crashed", !.flags = {}]
    BY <1>t, DisplayResult
  <2>2. /\ scene \in Scenes
        /\ scene.status = shown.status /\ scene.score = shown.score
        /\ scene.opponentScore = shown.opponentScore
        /\ scene.pauseHidden = shown.pauseHidden /\ scene.fresh = shown.fresh
    BY <2>1 DEF Scenes
  <2>3. /\ shown.score = phone[p].score /\ shown.opponentScore = phone[p].opponentScore
        /\ shown.pauseHidden = phone[p].pauseHidden /\ shown.fresh = phone[p].fresh
        /\ shown.status \in {"crashed", phone[p].status}
    BY <1>t, <2>1 DEF Scenes
  <2> QED BY <1>4, <1>s, <2>2, <2>3 DEF TouchPause
<1>5. ASSUME NEW p \in Phones, TouchPlay(p) PROVE CatchUpInv'
  <2> DEFINE scene == [phone[p] EXCEPT !.overlay = "none", !.isPausing = FALSE]
  <2>1. scene \in Scenes
    BY <1>t, PlayTypes
  <2>2. /\ scene.status = phone[p].status /\ scene.score = phone[p].score
        /\ scene.opponentScore = phone[p].opponentScore
        /\ scene.pauseHidden = phone[p].pauseHidden /\ scene.fresh = phone[p].fresh
    BY <1>t DEF Scenes
  <2> QED BY <1>5, <1>s, <2>1, <2>2 DEF TouchPlay
<1>6. ASSUME NEW p \in Phones, TouchTryAgain(p) PROVE CatchUpInv'
  <2>1. PICK tile \in Tiles :
          Becomes(p, [phone[p] EXCEPT !.score = 0, !.opponentScore = 0,
                                      !.health = FullHealth, !.overlay = "none",
                                      !.pauseHidden = FALSE, !.trophy = tile])
    BY <1>6 DEF TouchTryAgain
  <2> DEFINE scene == [phone[p] EXCEPT !.score = 0, !.opponentScore = 0,
                                       !.health = FullHealth, !.overlay = "none",
                                       !.pauseHidden = FALSE, !.trophy = tile]
  <2>2. scene \in Scenes
    BY <1>t, RetryTypes
  <2>3. /\ scene.fresh = phone[p].fresh /\ scene.status = "playing"
        /\ scene.pauseHidden = FALSE
    BY <1>6, <1>t DEF Scenes, TouchTryAgain, Touchable, Playing
  <2>4. ~phone[p].fresh
    BY <1>6, <1>t DEF TouchTryAgain, EndsOK, FreshOK
  <2>5. FreshOK(scene)
    BY <2>3 DEF FreshOK
  <2> QED BY <1>6, <2>1, <2>2, <2>3, <2>4, <2>5, CatchUpStays DEF TouchTryAgain
<1>7. ASSUME NEW p \in Phones, TouchLeave(p) PROVE CatchUpInv'
  <2> DEFINE scene == [phone[p] EXCEPT !.status = "left", !.overlay = "none"]
  <2>1. scene \in Scenes
    BY <1>t, LeaveTypes
  <2>2. /\ scene.status = "left" /\ scene.score = phone[p].score
        /\ scene.opponentScore = phone[p].opponentScore
        /\ scene.pauseHidden = phone[p].pauseHidden /\ scene.fresh = phone[p].fresh
    BY <1>t DEF Scenes
  <2> QED BY <1>7, <1>s, <2>1, <2>2 DEF TouchLeave
<1>8. ASSUME NEW p \in Phones, ShowEndScreen(p) PROVE CatchUpInv'
  <2>0. phone[p] \in Scenes /\ phone[p].status = "playing" /\ UNCHANGED <<inbox, linked>>
    BY <1>8, <1>t DEF ShowEndScreen, Playing
  <2>1. ASSUME NEW screen \in {"player", "opponent", "died"}
        PROVE  LET shown == Display(phone[p], screen) IN
               /\ shown \in Scenes
               /\ shown.verdicts = phone[p].verdicts /\ shown.deaths = phone[p].deaths
               /\ shown.score = phone[p].score
               /\ shown.opponentScore = phone[p].opponentScore
               /\ shown.pauseHidden = phone[p].pauseHidden /\ shown.fresh = phone[p].fresh
               /\ shown.status \in {"playing", "crashed"}
    <3>1. LET shown == Display(phone[p], screen) IN
          /\ shown \in Scenes
          /\ \/ shown = [phone[p] EXCEPT !.overlay = screen]
             \/ shown = [phone[p] EXCEPT !.status = "crashed", !.flags = {}]
      BY <2>0, DisplayResult
    <3> QED BY <2>0, <3>1 DEF Scenes
  <2>2. CASE /\ phone[p].deaths > 0
             /\ Becomes(p, [Display(phone[p], "died") EXCEPT !.deaths = @ - 1])
    <3> DEFINE shown == Display(phone[p], "died")
               scene == [shown EXCEPT !.deaths = @ - 1]
    <3>1. /\ shown \in Scenes /\ shown.deaths = phone[p].deaths
          /\ shown.score = phone[p].score
          /\ shown.opponentScore = phone[p].opponentScore
          /\ shown.pauseHidden = phone[p].pauseHidden /\ shown.fresh = phone[p].fresh
          /\ shown.status \in {"playing", "crashed"}
      BY <2>1
    <3> HIDE DEF shown
    <3>2. scene \in Scenes
      <4>1. shown.deaths - 1 \in Nat
        BY <2>0, <2>2, <3>1 DEF Scenes
      <4> QED BY <3>1, <4>1 DEF Scenes
    <3>3. /\ scene.status = shown.status /\ scene.score = shown.score
          /\ scene.opponentScore = shown.opponentScore
          /\ scene.pauseHidden = shown.pauseHidden /\ scene.fresh = shown.fresh
      BY <3>1 DEF Scenes
    <3>4. Becomes(p, scene)
      BY <2>2 DEF shown
    <3> HIDE DEF scene
    <3> QED BY <1>s, <2>0, <3>1, <3>2, <3>3, <3>4
  <2>3. CASE /\ phone[p].verdicts # << >>
             /\ Becomes(p, [Display(phone[p], Head(phone[p].verdicts))
                              EXCEPT !.verdicts = Tail(@)])
    <3> DEFINE screen == Head(phone[p].verdicts)
               shown == Display(phone[p], screen)
               scene == [shown EXCEPT !.verdicts = Tail(@)]
    <3>0. /\ screen \in {"player", "opponent"}
          /\ Tail(phone[p].verdicts) \in Seq({"player", "opponent"})
      <4>1. phone[p].verdicts \in Seq({"player", "opponent"})
        BY <2>0 DEF Scenes
      <4> QED BY <2>3, <4>1, HeadTailProperties
    <3>1. /\ shown \in Scenes /\ shown.verdicts = phone[p].verdicts
          /\ shown.score = phone[p].score
          /\ shown.opponentScore = phone[p].opponentScore
          /\ shown.pauseHidden = phone[p].pauseHidden /\ shown.fresh = phone[p].fresh
          /\ shown.status \in {"playing", "crashed"}
      BY <2>1, <3>0
    <3> HIDE DEF shown
    <3>2. scene \in Scenes
      BY <3>0, <3>1 DEF Scenes
    <3>3. /\ scene.status = shown.status /\ scene.score = shown.score
          /\ scene.opponentScore = shown.opponentScore
          /\ scene.pauseHidden = shown.pauseHidden /\ scene.fresh = shown.fresh
      BY <3>1 DEF Scenes
    <3>4. Becomes(p, scene)
      BY <2>3 DEF shown
    <3> HIDE DEF scene
    <3> QED BY <1>s, <2>0, <3>1, <3>2, <3>3, <3>4
  <2> QED BY <1>8, <2>2, <2>3 DEF ShowEndScreen
<1>9. ASSUME NEW p \in Phones, LateEndScreen(p) PROVE CatchUpInv'
  <2>1. PICK status \in {"left", "crashed"} :
          Becomes(p, [phone[p] EXCEPT !.deaths = 0, !.verdicts = << >>, !.status = status])
    BY <1>9 DEF LateEndScreen
  <2> DEFINE scene == [phone[p] EXCEPT !.deaths = 0, !.verdicts = << >>, !.status = status]
  <2>2. scene \in Scenes
    BY <1>t, SilencedTypes
  <2>3. /\ scene.status = status /\ scene.score = phone[p].score
        /\ scene.opponentScore = phone[p].opponentScore
        /\ scene.pauseHidden = phone[p].pauseHidden /\ scene.fresh = phone[p].fresh
    BY <1>t DEF Scenes
  <2> QED BY <1>9, <1>s, <2>1, <2>2, <2>3 DEF LateEndScreen
<1>l. ASSUME NEW p \in Phones, LateUpdate(p) PROVE CatchUpInv'
  <2>1. PICK status \in {"left", "crashed"} :
          Becomes(p, [phone[p] EXCEPT !.flags = {}, !.status = status])
    BY <1>l DEF LateUpdate
  <2> DEFINE scene == [phone[p] EXCEPT !.flags = {}, !.status = status]
  <2>2. scene \in Scenes
    BY <1>t, LateTypes
  <2>3. /\ scene.status = status /\ scene.score = phone[p].score
        /\ scene.opponentScore = phone[p].opponentScore
        /\ scene.pauseHidden = phone[p].pauseHidden /\ scene.fresh = phone[p].fresh
    BY <1>t DEF Scenes
  <2> QED BY <1>l, <1>s, <2>1, <2>2, <2>3 DEF LateUpdate
<1>10. ASSUME NEW p \in Phones, Receive(p) PROVE CatchUpInv'
  BY <1>10, CatchUpReceives
<1>11. ASSUME NEW p \in Phones, NotConnected(p) PROVE CatchUpInv'
  <2> DEFINE scene == [phone[p] EXCEPT !.alert = TRUE]
  <2>1. scene \in Scenes
    BY <1>t, AlertTypes
  <2>2. /\ scene.status = phone[p].status /\ scene.score = phone[p].score
        /\ scene.opponentScore = phone[p].opponentScore
        /\ scene.pauseHidden = phone[p].pauseHidden /\ scene.fresh = phone[p].fresh
    BY <1>t DEF Scenes
  <2> QED BY <1>11, <1>s, <2>1, <2>2 DEF NotConnected
<1>12. ASSUME NEW p \in Phones, ConfirmAlert(p) PROVE CatchUpInv'
  <2> DEFINE scene == [phone[p] EXCEPT !.status = "left", !.alert = FALSE, !.overlay = "none"]
  <2>1. scene \in Scenes
    BY <1>t, LeaveTypes
  <2>2. /\ scene.status = "left" /\ scene.score = phone[p].score
        /\ scene.opponentScore = phone[p].opponentScore
        /\ scene.pauseHidden = phone[p].pauseHidden /\ scene.fresh = phone[p].fresh
    BY <1>t DEF Scenes
  <2> QED BY <1>12, <1>s, <2>1, <2>2 DEF ConfirmAlert
<1>13. CASE LinkBreaks
  BY <1>13 DEF LinkBreaks, CatchUpInv, ScoresCatchUp
<1>14. CASE UNCHANGED vars
  BY <1>14 DEF vars, CatchUpInv, ScoresCatchUp
<1>15. QED
  BY <1>1, <1>2, <1>3, <1>4, <1>5, <1>6, <1>7, <1>8, <1>9, <1>10, <1>11, <1>12, <1>13,
     <1>14, <1>l DEF Next

LEMMA CatchUpInvariant == Spec => []CatchUpInv
  BY InitCatchUp, MatchInvariant, CatchUpStep, PTL DEF Spec

----------------------------------------------------------------------------
(* The theorems *)

\* Every phone and every message under way keeps its type: no score runs past the win, no
\* life below one, whatever the peer sends and in whatever order screens are due
THEOREM MatchIsTyped == Spec => []TypeOK
<1>1. IInv => TypeOK
  BY DEF IInv
<1>2. QED
  BY <1>1, MatchInvariant, PTL

\* A phone says "Opponent won!" only if the other one won: that one is gone, or it shows
\* "You won!", or is about to, and can no longer go back to playing
THEOREM DefeatsAreReal == Spec => []DefeatIsReal
<1>1. IInv => DefeatIsReal
  BY DEF IInv
<1>2. QED
  BY <1>1, MatchInvariant, PTL

\* Two screens meet on a phone that plays, which ends its program, only over the pause menu
\* or after the other player's round ended: each phone's own end screens come one by one,
\* however collecting, dying, pausing and trying again follow one another
THEOREM CrashesNeedTheOther == Spec => CrashNeedsTheOther
<1>1. CrashNeedsTheOther <=> [][LonelyCrashFree]_vars
  BY DEF CrashNeedsTheOther, LonelyCrashFree
<1>2. Spec => [][LonelyCrashFree]_vars
  BY MatchInvariant, AloneInvariant, AloneStep, PTL DEF Spec
<1>3. QED
  BY <1>1, <1>2

\* As long as neither phone's round ended, the opponent's score that a phone shows and the
\* scores on their way to it only rise, up to the score the opponent has: none is ahead of
\* what was scored and none overtakes another, for every score that wins and however many
\* messages are under way
THEOREM ScoresAreTrue == Spec => []ScoresCatchUp
<1>1. CatchUpInv => ScoresCatchUp
  BY DEF CatchUpInv
<1>2. QED
  BY <1>1, CatchUpInvariant, PTL
=============================================================================
