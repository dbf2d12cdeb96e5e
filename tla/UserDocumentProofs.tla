------------------------- MODULE UserDocumentProofs -------------------------
(***************************************************************************)
(* Proofs about UserDocument, for every price, reward and bound: documents   *)
(* keep their type, nobody owns more than was earned, and only a stale copy   *)
(* or a late answer loses anything.                                          *)
(*                                                                          *)
(* A stale copy may be written at any time, so the invariant bounds every     *)
(* copy that may still reach the document: the game's by what was earned, the *)
(* others by what was earned and saved.                                      *)
(***************************************************************************)
EXTENDS UserDocument, TLAPS

----------------------------------------------------------------------------
(* What the changes made to a copy are worth *)

\* Prices are natural numbers.
LEMMA CostIsNat == \A skin \in Skins : Cost(skin) \in Nat
  BY DocumentAssumption DEF Cost, Skins

\* A document is worth a natural number, the empty one nothing.
LEMMA WorthIsNat ==
  /\ \A data \in Documents : Worth(data) \in Nat
  /\ Empty \in Documents /\ Worth(Empty) = 0
  BY CostIsNat DEF Worth, Value, Documents, Empty, Skins

\* Relics count one by one (playerToTrophyResponse, didRewardUserWith).
LEMMA EarningAddsUp ==
  ASSUME NEW data \in Documents, NEW n \in Nat
  PROVE  /\ [data EXCEPT !.currency = @ + n] \in Documents
         /\ Worth([data EXCEPT !.currency = @ + n]) = Worth(data) + n
  BY CostIsNat DEF Worth, Value, Documents, Skins

\* Equipping a skin changes nothing of worth (onSkinClick).
LEMMA EquippingIsFree ==
  ASSUME NEW data \in Documents, NEW skin \in Skins
  PROVE  /\ [data EXCEPT !.equipped = skin] \in Documents
         /\ Worth([data EXCEPT !.equipped = skin]) = Worth(data)
  BY CostIsNat DEF Worth, Value, Documents, Skins

\* A skin bought is paid in full: what is owned is not worth more than before, and
\* the purse does not go below zero (onSkinClick's "Confirm").
LEMMA PurchaseIsPaid ==
  ASSUME NEW skin \in Skins, copy["store"] \in Documents, Affordable(skin)
  PROVE  /\ Purchase(skin) \in Documents
         /\ Worth(Purchase(skin)) <= Worth(copy["store"])
<1> DEFINE old == copy["store"]
           new == Purchase(skin)
<1>1. Cost(skin) \in Nat /\ Cost("youngMan") \in Nat /\ Cost("gingerMan") \in Nat
  BY CostIsNat DEF Skins
<1>2. old \in [currency : Nat, skins : SUBSET Skins, equipped : Skins, profile : BOOLEAN]
  BY DEF Documents
<1>3. old.currency \in Nat /\ old.currency - Cost(skin) \in Nat
  BY <1>1, <1>2 DEF Affordable
<1>4. old.skins \cup {skin} \in SUBSET Skins
  BY <1>2
<1>5. /\ new = [old EXCEPT !.equipped = skin, !.skins = old.skins \cup {skin},
                          !.currency = old.currency - Cost(skin)]
      /\ new.currency = old.currency - Cost(skin)
      /\ new.skins = old.skins \cup {skin}
  BY <1>2 DEF Purchase
<1>6. new \in Documents
  <2> HIDE DEF new
  <2> QED BY <1>2, <1>3, <1>4, <1>5 DEF Documents
<1>7. Cost("oldMan") = 0
  BY DocumentAssumption DEF Cost
<1>8. Worth(new) <= Worth(old)
  <2> HIDE DEF old, new
  <2>1. CASE skin = "oldMan"
    BY <1>1, <1>3, <1>5, <1>7, <2>1 DEF Worth, Value
  <2>2. CASE skin = "youngMan"
    BY <1>1, <1>3, <1>5, <2>2 DEF Worth, Value
  <2>3. CASE skin = "gingerMan"
    BY <1>1, <1>3, <1>5, <2>3 DEF Worth, Value
  <2> QED BY <2>1, <2>2, <2>3 DEF Skins
<1> QED BY <1>6, <1>8

----------------------------------------------------------------------------
(* Types *)

\* Documents, copies, answers and screens keep their types when the app starts.
LEMMA TypeInit == Init => TypeOK
<1> SUFFICES ASSUME Init PROVE TypeOK
  OBVIOUS
<1>1. Empty \in Documents /\ [Empty EXCEPT !.profile = TRUE] \in Documents
  BY DEF Empty, Documents, Skins
<1>2. /\ doc \in Documents
      /\ copy \in [Clients -> Documents]
      /\ unsaved \in Nat /\ earned \in Nat
  BY <1>1 DEF Init
<1>3. /\ answer \in [Clients -> SUBSET Answers]
      /\ \A c \in Clients : \A a, b \in answer[c] : a = b
  BY DEF Init
<1>4. titles \in [Skins -> {"cost", "Equip", "Equipped"}]
  BY DEF Init, FirstTitles
<1>5. /\ asked \subseteq Clients /\ current \subseteq Clients
      /\ screen \in {"main", "game", "store"} /\ round \in {"on", "won", "died"}
      /\ careful \in BOOLEAN
  BY DEF Init
<1> QED BY <1>2, <1>3, <1>4, <1>5, Zenon DEF TypeOK

\* An answer that ages keeps its data, its type, and is the only one of its client.
LEMMA AgedAnswers ==
  ASSUME TypeOK
  PROVE  /\ Aged \in [Clients -> SUBSET Answers]
         /\ \A c \in Clients : \A a, b \in Aged[c] : a = b
         /\ \A c \in Clients : \A x \in Aged[c] : \E a \in answer[c] : x.data = a.data
         /\ \A c \in Clients : \A x \in Aged[c] : ~ x.current
<1>1. ASSUME NEW c \in Clients
      PROVE  Aged[c] = {[a EXCEPT !.current = FALSE] : a \in answer[c]}
  BY DEF Aged
<1>2. ASSUME NEW c \in Clients, NEW a \in answer[c]
      PROVE  /\ [a EXCEPT !.current = FALSE] \in Answers
             /\ [a EXCEPT !.current = FALSE].data = a.data
             /\ [a EXCEPT !.current = FALSE].current = FALSE
  <2>1. a \in Answers
    BY DEF TypeOK
  <2> QED BY <2>1 DEF Answers
<1>3. \A c \in Clients : Aged[c] \subseteq Answers
  BY <1>1, <1>2
<1>4. Aged \in [Clients -> SUBSET Answers]
  BY <1>3 DEF Aged
<1>5. ASSUME NEW c \in Clients, NEW x \in Aged[c], NEW y \in Aged[c] PROVE x = y
  <2>1. PICK a \in answer[c] : x = [a EXCEPT !.current = FALSE]
    BY <1>1
  <2>2. PICK b \in answer[c] : y = [b EXCEPT !.current = FALSE]
    BY <1>1
  <2>3. a = b
    BY DEF TypeOK
  <2> QED BY <2>1, <2>2, <2>3
<1>6. ASSUME NEW c \in Clients, NEW x \in Aged[c] PROVE \E a \in answer[c] : x.data = a.data
  <2>1. PICK a \in answer[c] : x = [a EXCEPT !.current = FALSE]
    BY <1>1
  <2>2. x.data = a.data
    BY <1>2, <2>1
  <2> QED BY <2>2
<1>7. ASSUME NEW c \in Clients, NEW x \in Aged[c] PROVE ~ x.current
  <2>1. PICK a \in answer[c] : x = [a EXCEPT !.current = FALSE]
    BY <1>1
  <2>2. x.current = FALSE
    BY <1>2, <2>1
  <2> QED BY <2>2
<1> QED BY <1>4, <1>5, <1>6, <1>7

\* Replacing the document by a typed one keeps the types (setData).
LEMMA WriteTypes ==
  ASSUME TypeOK, NEW c \in Clients, NEW data \in Documents, Write(c, data)
  PROVE  /\ doc' \in Documents
         /\ copy' \in [Clients -> Documents]
         /\ copy'[c] = data
         /\ \A d \in Clients \ {c} : copy'[d] = copy[d]
         /\ current' \subseteq Clients
  BY DEF TypeOK, Write

\* What the store writes keeps the types.
LEMMA StoreWritesTypes ==
  ASSUME TypeOK, NEW data \in Documents, StoreWrites(data),
         UNCHANGED <<screen, asked, round, unsaved, earned>>
  PROVE  TypeOK'
<1>1. Write("store", data) /\ answer' = Aged
  BY DEF StoreWrites
<1>2. "store" \in Clients
  BY DEF Clients
<1>3. titles' \in [Skins -> {"cost", "Equip", "Equipped"}] /\ careful' \in BOOLEAN
  BY DEF StoreWrites, TypeOK
<1> QED BY <1>1, <1>2, <1>3, AgedAnswers, WriteTypes DEF TypeOK

\* No step changes the types, whatever the order in which screens open and answers
\* arrive; no purchase leaves a negative purse.
LEMMA TypeStep == TypeOK /\ unsaved <= earned /\ [Next]_vars => TypeOK'
<1> SUFFICES ASSUME TypeOK, unsaved <= earned, [Next]_vars PROVE TypeOK'
  OBVIOUS
<1> USE DEF TypeOK
<1>0. {"game", "store", "reward"} = Clients
  BY DEF Clients
<1>1. CASE UNCHANGED vars
  BY <1>1 DEF vars
<1>2. ASSUME NEW c \in Clients, Answer(c) PROVE TypeOK'
  <2>1. [data |-> doc, current |-> TRUE] \in Answers
    BY DEF Answers
  <2> DEFINE said == [data |-> doc, current |-> TRUE]
  <2>2. answer' = [answer EXCEPT ![c] = {said}]
    BY <1>2 DEF Answer
  <2>3. answer' \in [Clients -> SUBSET Answers]
    <3>1. {said} \in SUBSET Answers
      BY <2>1
    <3> HIDE DEF said
    <3> QED BY <2>2, <3>1
  <2>4. ASSUME NEW d \in Clients PROVE \A a, b \in answer'[d] : a = b
    <3> HIDE DEF said
    <3> QED BY <2>2
  <2> QED BY <1>2, <2>3, <2>4 DEF Answer
<1>3. ASSUME NEW c \in Clients, Fail(c) PROVE TypeOK'
  BY <1>3 DEF Fail
<1>4. ASSUME NEW c \in Clients, Ask(c)
      PROVE  /\ asked' \subseteq Clients
             /\ answer' \in [Clients -> SUBSET Answers]
             /\ \A d \in Clients : \A a, b \in answer'[d] : a = b
             /\ copy' \in [Clients -> Documents]
             /\ current' \subseteq Clients
  BY <1>4, WorthIsNat DEF Ask
<1>5. CASE OpenGame
  BY <1>0, <1>4, <1>5 DEF OpenGame
<1>6. CASE GameLoads
  BY <1>0, <1>6 DEF GameLoads, Answers
<1>7. CASE CollectTrophy
  <2>1. [copy["game"] EXCEPT !.currency = @ + 1] \in Documents
    BY <1>0, EarningAddsUp
  <2> QED BY <1>0, <1>7, <2>1 DEF CollectTrophy, CountRelic
<1>8. CASE WinRound
  <2>1. [copy["game"] EXCEPT !.currency = @ + 1] \in Documents
    BY <1>0, EarningAddsUp
  <2> QED BY <1>0, <1>8, <2>1, AgedAnswers, WriteTypes DEF WinRound
<1>9. CASE EndRound
  BY <1>0, <1>9, AgedAnswers, WriteTypes DEF EndRound, StoreToServer
<1>10. CASE TryAgain
  BY <1>10 DEF TryAgain
<1>11. CASE ReturnToMenu
  BY <1>0, <1>11, AgedAnswers, WriteTypes DEF ReturnToMenu, Dismiss
<1>12. CASE Exit
  BY <1>0, <1>12 DEF Exit, Dismiss
<1>13. CASE OpenStore
  <2>1. FirstTitles \in [Skins -> {"cost", "Equip", "Equipped"}]
    BY DEF FirstTitles
  <2> QED BY <1>0, <1>4, <1>13, <2>1 DEF OpenStore
<1>14. CASE StoreLoads
  BY <1>0, <1>14 DEF StoreLoads, Answers
<1>15. CASE BackToMain
  BY <1>0, <1>15 DEF BackToMain, Dismiss
<1>16. ASSUME NEW skin \in Skins, Equip(skin) PROVE TypeOK'
  BY <1>0, <1>16, EquippingIsFree, StoreWritesTypes DEF Equip
<1>17. ASSUME NEW skin \in Skins, Buy(skin) PROVE TypeOK'
  BY <1>0, <1>17, PurchaseIsPaid, StoreWritesTypes DEF Buy
<1>18. CASE DidRewardUser
  BY <1>0, <1>4, <1>18 DEF DidRewardUser
<1>19. CASE Rewarded
  <2>1. PICK a \in answer["reward"] :
          /\ Write("reward", [a.data EXCEPT !.currency = @ + Reward])
          /\ careful' = (careful /\ a.current)
    BY <1>19 DEF Rewarded
  <2>2. a.data \in Documents
    BY <1>0 DEF Answers
  <2>3. [a.data EXCEPT !.currency = @ + Reward] \in Documents
    BY <2>2, EarningAddsUp, DocumentAssumption
  <2>4. a.current \in BOOLEAN
    BY <1>0 DEF Answers
  <2> QED
    BY <1>0, <1>19, <2>1, <2>3, <2>4, AgedAnswers, WriteTypes, DocumentAssumption DEF Rewarded
<1>20. CASE Terminate
  BY <1>20 DEF Terminate
<1> QED
  BY <1>1, <1>2, <1>3, <1>5, <1>6, <1>7, <1>8, <1>9, <1>10, <1>11, <1>12, <1>13, <1>14,
     <1>15, <1>16, <1>17, <1>18, <1>19, <1>20 DEF Next

----------------------------------------------------------------------------
(* Nothing for nothing *)

\* Whatever may be written is covered: the document, the store's copy and every answer
\* by relics earned and saved, the game's copy also by those it collected itself.
WorthIsCovered ==
  /\ Worth(doc) + unsaved <= earned
  /\ screen = "game" => Worth(copy["game"]) <= earned
  /\ screen = "store" => Worth(copy["store"]) + unsaved <= earned
  /\ \A c \in Clients : \A a \in answer[c] : Worth(a.data) + unsaved <= earned
  /\ screen # "game" \/ round # "on" => unsaved = 0

IInv == TypeOK /\ WorthIsCovered

\* The app starts with a document worth nothing.
LEMMA InvInit == Init => IInv
<1> SUFFICES ASSUME Init PROVE IInv
  OBVIOUS
<1>1. TypeOK
  BY TypeInit
<1>2. Worth(doc) = 0
  BY CostIsNat DEF Init, Empty, Worth, Value, Skins
<1> QED BY <1>1, <1>2 DEF IInv, WorthIsCovered, Init, Clients

\* Reads, writes and screens keep what may be written covered.
LEMMA InvStep == IInv /\ [Next]_vars => IInv'
<1> SUFFICES ASSUME IInv, [Next]_vars PROVE IInv'
  OBVIOUS
<1> USE DEF IInv
<1>0. /\ TypeOK /\ WorthIsCovered
      /\ unsaved \in Nat /\ earned \in Nat
      /\ Worth(doc) \in Nat
      /\ \A c \in Clients : Worth(copy[c]) \in Nat /\ copy[c] \in Documents
      /\ \A c \in Clients : \A a \in answer[c] : Worth(a.data) \in Nat /\ a.data \in Documents
      /\ "game" \in Clients /\ "store" \in Clients /\ "reward" \in Clients
  BY WorthIsNat DEF TypeOK, Answers, Clients
<1>t. TypeOK'
  BY <1>0, TypeStep DEF WorthIsCovered
<1> SUFFICES WorthIsCovered'
  BY <1>t
<1>a. ASSUME answer' = Aged, unsaved' \in Nat, earned' \in Nat,
             unsaved' + earned <= unsaved + earned'
      PROVE  \A c \in Clients : \A a \in answer'[c] : Worth(a.data) + unsaved' <= earned'
  <2> SUFFICES ASSUME NEW c \in Clients, NEW x \in answer'[c]
               PROVE  Worth(x.data) + unsaved' <= earned'
    OBVIOUS
  <2>1. PICK a \in answer[c] : x.data = a.data
    BY <1>0, <1>a, AgedAnswers
  <2>2. Worth(a.data) \in Nat /\ Worth(a.data) + unsaved <= earned
    BY <1>0 DEF WorthIsCovered
  <2>3. Worth(x.data) \in Nat /\ Worth(x.data) + unsaved <= earned
    BY <2>1, <2>2
  <2>4. /\ unsaved \in Nat /\ earned \in Nat /\ unsaved' \in Nat /\ earned' \in Nat
        /\ unsaved' + earned <= unsaved + earned'
    BY <1>0, <1>a
  <2>5. \A w, u, e, v, f \in Nat : w + u <= e /\ v + e <= u + f => w + v <= f
    OBVIOUS
  <2> QED BY <2>3, <2>4, <2>5
<1>1. CASE UNCHANGED vars
  BY <1>0, <1>1 DEF vars, WorthIsCovered
<1>2. ASSUME NEW c \in Clients, Answer(c) PROVE WorthIsCovered'
  <2>1. /\ UNCHANGED <<doc, screen, copy, round, unsaved, earned>>
        /\ answer' = [answer EXCEPT ![c] = {[data |-> doc, current |-> TRUE]}]
    BY <1>2 DEF Answer
  <2>2. ASSUME NEW d \in Clients, NEW a \in answer'[d] PROVE Worth(a.data) + unsaved <= earned
    <3>1. CASE d = c
      <4>1. a.data = doc
        BY <1>0, <2>1, <2>2, <3>1 DEF TypeOK
      <4> QED BY <1>0, <4>1 DEF WorthIsCovered
    <3>2. CASE d # c
      BY <1>0, <2>1, <2>2, <3>2 DEF TypeOK, WorthIsCovered
    <3> QED BY <3>1, <3>2
  <2> QED BY <1>0, <2>1, <2>2 DEF WorthIsCovered
<1>3. ASSUME NEW c \in Clients, Fail(c) PROVE WorthIsCovered'
  BY <1>0, <1>3 DEF Fail, WorthIsCovered
<1>4. ASSUME NEW c \in Clients, Ask(c), UNCHANGED <<doc, earned, unsaved>>
      PROVE  /\ Worth(copy'[c]) = 0
             /\ \A d \in Clients \ {c} : copy'[d] = copy[d]
             /\ \A d \in Clients : \A a \in answer'[d] : Worth(a.data) + unsaved' <= earned'
  BY <1>0, <1>4, WorthIsNat DEF Ask, TypeOK, WorthIsCovered
<1>5. CASE OpenGame
  <2>1. /\ UNCHANGED <<doc, earned>> /\ screen' = "game" /\ Ask("game")
        /\ unsaved = 0 /\ unsaved' = 0
    BY <1>0, <1>5 DEF OpenGame, WorthIsCovered
  <2>2. Worth(copy'["game"]) = 0
    BY <1>0, <1>4, <2>1
  <2>3. \A d \in Clients : \A a \in answer'[d] : Worth(a.data) + unsaved' <= earned'
    BY <1>0, <1>4, <2>1
  <2> QED BY <1>0, <2>1, <2>2, <2>3 DEF WorthIsCovered
<1>6. CASE GameLoads
  BY <1>0, <1>6 DEF GameLoads, TypeOK, WorthIsCovered
<1>7. CASE CollectTrophy
  <2>1. Worth([copy["game"] EXCEPT !.currency = @ + 1]) = Worth(copy["game"]) + 1
    BY <1>0, EarningAddsUp
  <2>2. Worth(copy'["game"]) = Worth(copy["game"]) + 1
    BY <1>0, <1>7, <2>1 DEF CollectTrophy, CountRelic, TypeOK
  <2> QED BY <1>0, <1>7, <2>2 DEF CollectTrophy, WorthIsCovered
<1>8. CASE WinRound
  <2>1. Worth([copy["game"] EXCEPT !.currency = @ + 1]) = Worth(copy["game"]) + 1
    BY <1>0, EarningAddsUp
  <2>2. Worth(doc') = Worth(copy["game"]) + 1 /\ Worth(copy'["game"]) = Worth(copy["game"]) + 1
    BY <1>0, <1>8, <2>1 DEF WinRound, Write, TypeOK
  <2> QED BY <1>0, <1>a, <1>8, <2>2 DEF WinRound, WorthIsCovered
<1>9. CASE EndRound
  <2>1. doc' = copy["game"] /\ copy'["game"] = copy["game"]
    BY <1>0, <1>9 DEF EndRound, StoreToServer, Write, TypeOK
  <2> QED BY <1>0, <1>a, <1>9, <2>1 DEF EndRound, StoreToServer, WorthIsCovered
<1>10. CASE TryAgain
  BY <1>0, <1>10 DEF TryAgain, WorthIsCovered
<1>11. CASE ReturnToMenu
  <2>1. doc' = copy["game"]
    BY <1>0, <1>11 DEF ReturnToMenu, Write
  <2>2. ASSUME NEW c \in Clients, NEW x \in answer'[c] PROVE Worth(x.data) + unsaved' <= earned'
    <3>1. x \in Aged[c]
      BY <1>0, <1>11, <2>2, AgedAnswers DEF ReturnToMenu
    <3>2. PICK a \in answer[c] : x.data = a.data
      BY <1>0, <3>1, AgedAnswers
    <3> QED BY <1>0, <1>11, <3>2 DEF ReturnToMenu, WorthIsCovered
  <2> QED BY <1>0, <1>11, <2>1, <2>2 DEF ReturnToMenu, Dismiss, WorthIsCovered
<1>12. CASE Exit
  BY <1>0, <1>12 DEF Exit, Dismiss, TypeOK, WorthIsCovered
<1>13. CASE OpenStore
  <2>1. UNCHANGED <<doc, earned, unsaved>> /\ screen' = "store" /\ Ask("store")
    BY <1>0, <1>13 DEF OpenStore, WorthIsCovered
  <2> QED BY <1>0, <1>4, <1>13, <2>1 DEF OpenStore, WorthIsCovered
<1>14. CASE StoreLoads
  BY <1>0, <1>14 DEF StoreLoads, TypeOK, WorthIsCovered
<1>15. CASE BackToMain
  BY <1>0, <1>15 DEF BackToMain, Dismiss, TypeOK, WorthIsCovered
<1>16. ASSUME NEW data \in Documents, StoreWrites(data), Worth(data) <= Worth(copy["store"]),
              screen = "store", UNCHANGED <<screen, round, unsaved, earned>>
       PROVE  WorthIsCovered'
  <2>1. doc' = data /\ copy'["store"] = data /\ answer' = Aged
    BY <1>0, <1>16 DEF StoreWrites, Write, TypeOK
  <2>2. Worth(data) \in Nat
    BY WorthIsNat
  <2> QED BY <1>0, <1>a, <1>16, <2>1, <2>2 DEF WorthIsCovered
<1>17. ASSUME NEW skin \in Skins, Equip(skin) PROVE WorthIsCovered'
  <2>1. /\ [copy["store"] EXCEPT !.equipped = skin] \in Documents
        /\ Worth([copy["store"] EXCEPT !.equipped = skin]) <= Worth(copy["store"])
    BY <1>0, EquippingIsFree
  <2> QED BY <1>16, <1>17, <2>1 DEF Equip
<1>18. ASSUME NEW skin \in Skins, Buy(skin) PROVE WorthIsCovered'
  BY <1>0, <1>16, <1>18, PurchaseIsPaid DEF Buy
<1>19. CASE DidRewardUser
  <2>1. UNCHANGED <<doc, earned, unsaved>> /\ Ask("reward")
    BY <1>19 DEF DidRewardUser
  <2> QED BY <1>0, <1>4, <1>19, <2>1 DEF DidRewardUser, WorthIsCovered
<1>20. CASE Rewarded
  <2>1. PICK a \in answer["reward"] : Write("reward", [a.data EXCEPT !.currency = @ + Reward])
    BY <1>20 DEF Rewarded
  <2>2. Worth([a.data EXCEPT !.currency = @ + Reward]) = Worth(a.data) + Reward
    BY <1>0, DocumentAssumption, EarningAddsUp
  <2>3. /\ Worth(doc') = Worth(a.data) + Reward
        /\ copy'["game"] = copy["game"] /\ copy'["store"] = copy["store"]
    BY <1>0, <2>1, <2>2 DEF Write, TypeOK
  <2>4. ASSUME NEW c \in Clients, NEW x \in answer'[c] PROVE Worth(x.data) + unsaved' <= earned'
    <3>1. x \in Aged[c]
      BY <1>0, <1>20, <2>4, AgedAnswers DEF Rewarded
    <3>2. PICK b \in answer[c] : x.data = b.data
      BY <1>0, <3>1, AgedAnswers
    <3> QED BY <1>0, <1>20, <3>2, DocumentAssumption DEF Rewarded, WorthIsCovered
  <2> QED BY <1>0, <1>20, <2>3, <2>4, DocumentAssumption DEF Rewarded, WorthIsCovered
<1>21. CASE Terminate
  BY <1>0, <1>21 DEF Terminate, WorthIsCovered
<1> QED
  BY <1>1, <1>2, <1>3, <1>5, <1>6, <1>7, <1>8, <1>9, <1>10, <1>11, <1>12, <1>13, <1>14,
     <1>15, <1>17, <1>18, <1>19, <1>20, <1>21 DEF Next

\* The invariant holds of every behaviour of the three writers.
THEOREM DocumentInvariant == Spec => []IInv
  BY InvInit, InvStep, PTL DEF Spec

\* TypeOK of the runs, for every price and reward: no purse is negative.
THEOREM DocumentIsTyped == Spec => []TypeOK
<1>1. IInv => TypeOK
  BY DEF IInv
<1> QED BY <1>1, DocumentInvariant, PTL

\* However reads, writes and screens interleave, and whichever copies are stale, nobody
\* owns more than was earned.
THEOREM NobodyGetsRich == Spec => []NothingForNothing
<1>1. IInv => NothingForNothing
  BY WorthIsNat DEF IInv, TypeOK, WorthIsCovered, NothingForNothing
<1> QED BY <1>1, DocumentInvariant, PTL
----------------------------------------------------------------------------
(* What is lost, and by whom *)

\* A copy with so many relics more
With(data, n) == [data EXCEPT !.currency = @ + n]

\* A copy that counts as current is the document: an answer and the store's copy as
\* they are, the game's but for the relics collected since, as long as no answer
\* replaced those.  The store then asks the price of no skin that is owned.
CopiesAreCurrent ==
  /\ titles["oldMan"] # "cost"
  /\ \A c \in Clients : \A a \in answer[c] : a.current => a.data = doc
  /\ "store" \in current =>
       /\ copy["store"] = doc
       /\ \A skin \in Skins : titles[skin] = "cost" => skin \notin doc.skins
  /\ careful /\ screen = "game" /\ "game" \in current =>
       copy["game"] = With(doc, unsaved)

\* WorthIsCovered adds that nothing is unsaved outside of a game.
CarefulInv == IInv /\ CopiesAreCurrent /\ OnlyStaleCopiesLose

\* Adding no relic, and adding some and then more (the currency field of a copy).
LEMMA CountingAddsUp ==
  ASSUME NEW data \in Documents, NEW n \in Nat, NEW m \in Nat
  PROVE  /\ With(data, n) \in Documents
         /\ With(data, 0) = data
         /\ With(With(data, n), m) = With(data, n + m)
         /\ Worth(With(data, n)) = Worth(data) + n
         /\ With(data, n).profile = data.profile
<1>1. With(data, n) \in Documents /\ Worth(With(data, n)) = Worth(data) + n
  BY EarningAddsUp DEF With
<1>2. With(data, 0) = data /\ With(data, n).profile = data.profile
  BY DEF Documents, With
<1>3. With(With(data, n), m) = With(data, n + m)
  <2> DEFINE more == With(data, n)
  <2>1. more \in Documents /\ more = [data EXCEPT !.currency = data.currency + n]
    BY <1>1 DEF With
  <2>2. With(more, m) = [more EXCEPT !.currency = more.currency + m]
    BY DEF With
  <2>3. data.currency + n + m = data.currency + (n + m) /\ more.currency = data.currency + n
    BY <2>1 DEF Documents
  <2>4. [more EXCEPT !.currency = more.currency + m] = [data EXCEPT !.currency = more.currency + m]
    <3> HIDE DEF more
    <3> QED BY <2>1 DEF Documents
  <2> QED BY <2>2, <2>3, <2>4 DEF With
<1> QED BY <1>1, <1>2, <1>3

\* Equipping and buying keep the profile, and a skin that is not owned is worth what is
\* paid for it.
LEMMA StoreKeeps ==
  ASSUME NEW skin \in Skins, copy["store"] \in Documents
  PROVE  /\ [copy["store"] EXCEPT !.equipped = skin].profile = copy["store"].profile
         /\ Purchase(skin).profile = copy["store"].profile
         /\ Affordable(skin) /\ skin \notin copy["store"].skins =>
              Worth(Purchase(skin)) = Worth(copy["store"])
<1> DEFINE old == copy["store"]
           new == Purchase(skin)
<1>1. /\ Cost(skin) \in Nat /\ Cost("youngMan") \in Nat /\ Cost("gingerMan") \in Nat
      /\ Cost("oldMan") = 0
  BY CostIsNat, DocumentAssumption DEF Skins, Cost
<1>2. old \in [currency : Nat, skins : SUBSET Skins, equipped : Skins, profile : BOOLEAN]
  BY DEF Documents
<1>3. /\ new = [old EXCEPT !.equipped = skin, !.skins = old.skins \cup {skin},
                          !.currency = old.currency - Cost(skin)]
      /\ new.currency = old.currency - Cost(skin)
      /\ new.skins = old.skins \cup {skin}
      /\ new.profile = old.profile
  BY <1>2 DEF Purchase
<1>4. [old EXCEPT !.equipped = skin].profile = old.profile
  BY <1>2
<1>5. old.currency \in Nat
  BY <1>2
<1>6. ASSUME skin \notin old.skins PROVE Worth(new) = Worth(old)
  <2> HIDE DEF old, new
  <2>1. CASE skin = "oldMan"
    BY <1>1, <1>3, <1>5, <2>1 DEF Worth, Value
  <2>2. CASE skin = "youngMan"
    BY <1>1, <1>3, <1>5, <1>6, <2>2 DEF Worth, Value
  <2>3. CASE skin = "gingerMan"
    BY <1>1, <1>3, <1>5, <1>6, <2>3 DEF Worth, Value
  <2> QED BY <2>1, <2>2, <2>3 DEF Skins
<1> QED BY <1>3, <1>4, <1>6

\* At the start there is nothing to lose but the profile.
LEMMA CarefulInit == Init => CarefulInv
<1> SUFFICES ASSUME Init PROVE CarefulInv
  OBVIOUS
<1>1. Worth(doc) = 0
  BY CostIsNat DEF Init, Empty, Worth, Value, Skins
<1>2. doc.profile
  BY DEF Init, Empty
<1>3. titles["oldMan"] # "cost"
  BY DEF Init, FirstTitles, Skins
<1> QED
  BY <1>1, <1>2, <1>3, InvInit DEF Init, CarefulInv, CopiesAreCurrent, OnlyStaleCopiesLose

\* A step either leaves the document as it is, or its writer's copy was current or it is
\* not careful.
LEMMA CarefulStep == CarefulInv /\ [Next]_vars => CarefulInv'
<1> SUFFICES ASSUME CarefulInv, [Next]_vars PROVE CarefulInv'
  OBVIOUS
<1>0. IInv /\ IInv' /\ CopiesAreCurrent /\ OnlyStaleCopiesLose
  BY InvStep DEF CarefulInv
<1>i. /\ TypeOK
      /\ unsaved \in Nat /\ earned \in Nat /\ careful \in BOOLEAN
      /\ doc \in Documents /\ Worth(doc) \in Nat
      /\ copy \in [Clients -> Documents]
      /\ \A c \in Clients : Worth(copy[c]) \in Nat /\ copy[c] \in Documents
      /\ \A c \in Clients : \A a \in answer[c] :
           Worth(a.data) \in Nat /\ a.data \in Documents /\ a.current \in BOOLEAN
      /\ "game" \in Clients /\ "store" \in Clients /\ "reward" \in Clients
      /\ screen # "game" \/ round # "on" => unsaved = 0
  BY <1>0, WorthIsNat DEF IInv, WorthIsCovered, TypeOK, Answers, Clients
<1> SUFFICES (CopiesAreCurrent /\ OnlyStaleCopiesLose)'
  BY <1>0 DEF CarefulInv
<1> USE <1>i
<1>a. ASSUME answer' = Aged
      PROVE  \A c \in Clients : \A a \in answer'[c] : a.current => a.data = doc'
  BY <1>a, AgedAnswers
<1>b. ASSUME NEW c \in Clients, NEW data, Write(c, data)
      PROVE  /\ doc' = data /\ copy'[c] = data /\ current' = {c}
             /\ \A d \in Clients \ {c} : copy'[d] = copy[d]
  BY <1>b DEF Write
<1>c. ASSUME NEW c \in Clients, Ask(c), UNCHANGED doc
      PROVE  /\ \A d \in Clients \ {c} : copy'[d] = copy[d] /\ (d \in current' <=> d \in current)
             /\ c \notin current'
             /\ \A d \in Clients : \A a \in answer'[d] : a.current => a.data = doc'
  BY <1>0, <1>c DEF Ask, CopiesAreCurrent, TypeOK
<1>1. CASE UNCHANGED vars
  BY <1>0, <1>1 DEF vars, CopiesAreCurrent, OnlyStaleCopiesLose
<1>2. ASSUME NEW c \in Clients, Answer(c) PROVE (CopiesAreCurrent /\ OnlyStaleCopiesLose)'
  <2>1. /\ UNCHANGED <<doc, screen, copy, round, titles, unsaved, earned, current, careful>>
        /\ answer' = [answer EXCEPT ![c] = {[data |-> doc, current |-> TRUE]}]
    BY <1>2 DEF Answer
  <2>2. ASSUME NEW d \in Clients, NEW a \in answer'[d], a.current PROVE a.data = doc
    BY <1>0, <2>1, <2>2 DEF CopiesAreCurrent, TypeOK
  <2> QED BY <1>0, <2>1, <2>2 DEF CopiesAreCurrent, OnlyStaleCopiesLose
<1>3. ASSUME NEW c \in Clients, Fail(c) PROVE (CopiesAreCurrent /\ OnlyStaleCopiesLose)'
  BY <1>0, <1>3 DEF Fail, CopiesAreCurrent, OnlyStaleCopiesLose
<1>5. CASE OpenGame
  <2>1. /\ UNCHANGED <<doc, titles, earned, careful>> /\ Ask("game")
        /\ unsaved = 0 /\ unsaved' = 0
    BY <1>5 DEF OpenGame
  <2> QED BY <1>0, <1>c, <2>1 DEF CopiesAreCurrent, OnlyStaleCopiesLose
<1>6. CASE GameLoads
  <2>1. PICK a \in answer["game"] :
          /\ copy' = [copy EXCEPT !["game"] = a.data]
          /\ current' = IF a.current THEN current \cup {"game"} ELSE current \ {"game"}
    BY <1>6 DEF GameLoads
  <2>2. /\ answer' = [answer EXCEPT !["game"] = {}] /\ careful' = (careful /\ unsaved = 0)
        /\ UNCHANGED <<doc, titles, earned, unsaved>>
    BY <1>6 DEF GameLoads
  <2>3. /\ copy'["game"] = a.data /\ copy'["store"] = copy["store"]
        /\ "store" \in current' <=> "store" \in current
        /\ "game" \in current' => a.current
    BY <2>1
  <2>4. \A c \in Clients : \A b \in answer'[c] : b.current => b.data = doc'
    BY <1>0, <2>2 DEF CopiesAreCurrent, TypeOK
  <2>5. ASSUME careful', "game" \in current'
        PROVE  copy'["game"] = With(doc', unsaved')
    <3>1. a.data = doc /\ unsaved = 0
      BY <1>0, <2>2, <2>3, <2>5 DEF CopiesAreCurrent
    <3>2. With(doc, 0) = doc
      BY CountingAddsUp
    <3> QED BY <2>2, <2>3, <3>1, <3>2
  <2> QED BY <1>0, <2>2, <2>3, <2>4, <2>5 DEF CopiesAreCurrent, OnlyStaleCopiesLose
<1>7. CASE CollectTrophy
  <2>1. /\ UNCHANGED <<doc, screen, answer, titles, current, careful>>
        /\ unsaved' = unsaved + 1 /\ earned' = earned + 1
        /\ copy'["game"] = With(copy["game"], 1)
        /\ copy'["store"] = copy["store"]
    BY <1>7 DEF CollectTrophy, CountRelic, With
  <2>2. With(With(doc, unsaved), 1) = With(doc, unsaved + 1)
    BY CountingAddsUp
  <2> QED BY <1>0, <2>1, <2>2 DEF CopiesAreCurrent, OnlyStaleCopiesLose
<1>8. ASSUME NEW n \in Nat, NEW data \in Documents,
             data = With(copy["game"], n), Write("game", data),
             \A c \in Clients : \A a \in answer'[c] : a.current => a.data = doc',
             unsaved' = 0, earned' = earned + n, careful' = (careful /\ "game" \in current),
             UNCHANGED titles, screen = "game"
      PROVE  (CopiesAreCurrent /\ OnlyStaleCopiesLose)'
  <2>1. doc' = data /\ copy'["game"] = data /\ current' = {"game"}
    BY <1>8, <1>b
  <2>2. With(doc', 0) = doc'
    BY <1>8, <2>1, CountingAddsUp
  <2>3. CopiesAreCurrent'
    BY <1>0, <1>8, <2>1, <2>2 DEF CopiesAreCurrent
  <2>4. ASSUME careful' PROVE doc'.profile /\ Worth(doc') + unsaved' = earned'
    <3>1. /\ copy["game"] = With(doc, unsaved)
          /\ doc.profile /\ Worth(doc) + unsaved = earned
      BY <1>0, <1>8, <2>4 DEF CopiesAreCurrent, OnlyStaleCopiesLose
    <3>2. data = With(doc, unsaved + n)
      BY <1>8, <3>1, CountingAddsUp
    <3>3. unsaved + n \in Nat
      BY <1>8
    <3>4. Worth(data) = Worth(doc) + (unsaved + n) /\ data.profile = doc.profile
      BY <3>2, <3>3, CountingAddsUp
    <3>5. Worth(doc) + (unsaved + n) + 0 = earned + n
      BY <3>1
    <3> QED BY <1>8, <2>1, <3>1, <3>4, <3>5
  <2> QED BY <2>3, <2>4 DEF OnlyStaleCopiesLose
<1>9. CASE WinRound
  <2>1. With(copy["game"], 1) \in Documents
    BY CountingAddsUp
  <2>2. Write("game", With(copy["game"], 1))
    BY <1>9 DEF WinRound, With
  <2> QED BY <1>a, <1>8, <1>9, <2>1, <2>2 DEF WinRound
<1>10. ASSUME Write("game", copy["game"]), unsaved' = 0,
              \A c \in Clients : \A a \in answer'[c] : a.current => a.data = doc',
              careful' = (careful /\ "game" \in current),
              UNCHANGED <<titles, earned>>, screen = "game"
       PROVE  (CopiesAreCurrent /\ OnlyStaleCopiesLose)'
  <2>1. copy["game"] = With(copy["game"], 0)
    BY CountingAddsUp
  <2>2. earned' = earned + 0
    BY <1>10
  <2> QED BY <1>8, <1>10, <2>1, <2>2
<1>11. CASE EndRound
  BY <1>a, <1>10, <1>11 DEF EndRound, StoreToServer
<1>12. CASE TryAgain
  BY <1>0, <1>12 DEF TryAgain, CopiesAreCurrent, OnlyStaleCopiesLose
<1>13. CASE ReturnToMenu
  <2>1. \A c \in Clients : \A a \in answer'[c] : a.current => a.data = doc'
    BY <1>13, AgedAnswers DEF ReturnToMenu
  <2> QED BY <1>10, <1>13, <2>1 DEF ReturnToMenu
<1>14. CASE Exit
  <2>1. \A c \in Clients : \A a \in answer'[c] : a.current => a.data = doc'
    BY <1>0, <1>14 DEF Exit, CopiesAreCurrent, TypeOK
  <2> QED BY <1>0, <1>14, <2>1 DEF Exit, Dismiss, CopiesAreCurrent, OnlyStaleCopiesLose
<1>15. CASE OpenStore
  <2>1. titles'["oldMan"] # "cost"
    BY <1>15 DEF OpenStore, FirstTitles, Skins
  <2>2. /\ UNCHANGED <<doc, earned, unsaved, careful>> /\ screen' = "store" /\ Ask("store")
    BY <1>15 DEF OpenStore
  <2> QED BY <1>0, <1>c, <2>1, <2>2 DEF CopiesAreCurrent, OnlyStaleCopiesLose
<1>16. CASE StoreLoads
  <2>1. PICK a \in answer["store"] :
          /\ copy' = [copy EXCEPT !["store"] = a.data]
          /\ current' = IF a.current THEN current \cup {"store"} ELSE current \ {"store"}
          /\ titles' = [skin \in Skins |->
                          IF skin \notin a.data.skins THEN titles[skin]
                          ELSE IF skin = a.data.equipped THEN "Equipped"
                          ELSE IF skin = "oldMan" THEN titles[skin] ELSE "Equip"]
    BY <1>16 DEF StoreLoads
  <2>2. /\ answer' = [answer EXCEPT !["store"] = {}]
        /\ UNCHANGED <<doc, screen, unsaved, earned, careful>> /\ screen = "store"
    BY <1>16 DEF StoreLoads
  <2>3. \A c \in Clients : \A b \in answer'[c] : b.current => b.data = doc'
    BY <1>0, <2>2 DEF CopiesAreCurrent, TypeOK
  <2>4. /\ titles'["oldMan"] # "cost"
        /\ \A skin \in Skins : titles'[skin] = "cost" => skin \notin a.data.skins
    BY <1>0, <2>1 DEF CopiesAreCurrent, Skins
  <2>5. copy'["store"] = a.data /\ ("store" \in current' => a.data = doc)
    BY <1>0, <2>1 DEF CopiesAreCurrent
  <2> QED BY <1>0, <2>2, <2>3, <2>4, <2>5 DEF CopiesAreCurrent, OnlyStaleCopiesLose
<1>17. CASE BackToMain
  <2>1. \A c \in Clients : \A a \in answer'[c] : a.current => a.data = doc'
    BY <1>0, <1>17 DEF BackToMain, CopiesAreCurrent, TypeOK
  <2> QED BY <1>0, <1>17, <2>1 DEF BackToMain, Dismiss, CopiesAreCurrent, OnlyStaleCopiesLose
<1>18. ASSUME NEW data \in Documents, StoreWrites(data), screen = "store",
              "store" \in current =>
                 data.profile = copy["store"].profile /\ Worth(data) = Worth(copy["store"]),
              UNCHANGED <<screen, unsaved, earned>>
       PROVE  (CopiesAreCurrent /\ OnlyStaleCopiesLose)'
  <2>1. /\ doc' = data /\ copy'["store"] = data /\ current' = {"store"}
        /\ careful' = (careful /\ "store" \in current)
    BY <1>b, <1>18 DEF StoreWrites
  <2>2. /\ titles'["oldMan"] # "cost"
        /\ \A skin \in Skins : titles'[skin] = "cost" => skin \notin data.skins
    BY <1>0, <1>18 DEF StoreWrites, CopiesAreCurrent, Skins
  <2>3. \A c \in Clients : \A a \in answer'[c] : a.current => a.data = doc'
    BY <1>a, <1>18 DEF StoreWrites
  <2> QED BY <1>0, <1>18, <2>1, <2>2, <2>3 DEF CopiesAreCurrent, OnlyStaleCopiesLose
<1>19. ASSUME NEW skin \in Skins, Equip(skin) PROVE (CopiesAreCurrent /\ OnlyStaleCopiesLose)'
  BY <1>18, <1>19, EquippingIsFree, StoreKeeps DEF Equip
<1>20. ASSUME NEW skin \in Skins, Buy(skin) PROVE (CopiesAreCurrent /\ OnlyStaleCopiesLose)'
  <2>1. "store" \in current => skin \notin copy["store"].skins
    BY <1>0, <1>20 DEF Buy, CopiesAreCurrent
  <2> QED BY <1>18, <1>20, <2>1, PurchaseIsPaid, StoreKeeps DEF Buy
<1>21. CASE DidRewardUser
  <2>1. /\ UNCHANGED <<doc, screen, titles, earned, unsaved, careful>> /\ Ask("reward")
        /\ screen = "main"
    BY <1>21 DEF DidRewardUser
  <2> QED BY <1>0, <1>c, <2>1 DEF CopiesAreCurrent, OnlyStaleCopiesLose
<1>22. CASE Rewarded
  <2>1. PICK a \in answer["reward"] :
          /\ Write("reward", With(a.data, Reward))
          /\ careful' = (careful /\ a.current)
    BY <1>22 DEF Rewarded, With
  <2>2. /\ answer' = [Aged EXCEPT !["reward"] = {}] /\ earned' = earned + Reward
        /\ UNCHANGED <<titles, unsaved>>
    BY <1>22 DEF Rewarded
  <2>3. \A c \in Clients : \A b \in answer'[c] : b.current => b.data = doc'
    BY <2>2, AgedAnswers
  <2>4. doc' = With(a.data, Reward) /\ current' = {"reward"}
    BY <1>b, <2>1
  <2>5. ASSUME careful' PROVE doc'.profile /\ Worth(doc') + unsaved' = earned'
    <3>1. a.data = doc /\ doc.profile /\ Worth(doc) + unsaved = earned
      BY <1>0, <2>1, <2>5 DEF CopiesAreCurrent, OnlyStaleCopiesLose
    <3>2. Worth(doc') = Worth(doc) + Reward /\ doc'.profile = doc.profile
      BY <2>4, <3>1, DocumentAssumption, CountingAddsUp
    <3> QED BY <2>2, <3>1, <3>2, DocumentAssumption
  <2> QED BY <1>0, <2>2, <2>3, <2>4, <2>5 DEF CopiesAreCurrent, OnlyStaleCopiesLose
<1>23. CASE Terminate
  BY <1>0, <1>23 DEF Terminate, CopiesAreCurrent, OnlyStaleCopiesLose
<1> QED
  BY <1>1, <1>2, <1>3, <1>5, <1>6, <1>7, <1>9, <1>11, <1>12, <1>13, <1>14, <1>15, <1>16,
     <1>17, <1>19, <1>20, <1>21, <1>22, <1>23 DEF Next

\* Relics, skins and the profile are lost only by a writer whose copy was stale, or by
\* an answer that came after relics were collected: as long as neither happened, the
\* document and what is unsaved are worth exactly what was earned.
THEOREM LossesAreExplained == Spec => []OnlyStaleCopiesLose
<1>1. CarefulInv => OnlyStaleCopiesLose
  BY DEF CarefulInv
<1> QED BY <1>1, CarefulInit, CarefulStep, PTL DEF Spec
=============================================================================
