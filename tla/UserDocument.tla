---------------------------- MODULE UserDocument ----------------------------
(***************************************************************************)
(* The user's document and the three parts of the app that write it: a solo  *)
(* game, the store and the reward of a video.  Each reads it once, by a      *)
(* request that is answered later or never, works on its copy, and writes    *)
(* the whole copy back.  One device and a registered user are modelled.      *)
(*                                                                          *)
(* Firestore (external) answers with the document as this device last wrote  *)
(* it.  A field that is missing reads as its default in all of the code, so  *)
(* a missing field and its default are the same here; `profile' stands for   *)
(* the fields without one: name, email, and the times of earlier games.      *)
(***************************************************************************)
EXTENDS Integers

CONSTANTS Unit,        \* relics per unit of a button's tag (50 in the code)
          Reward,      \* relics for a video (10 in the code)
          MaxEarned    \* bound: relics ever earned

ASSUME DocumentAssumption == Unit \in Nat /\ Reward \in Nat /\ MaxEarned \in Nat

Skins == {"oldMan", "youngMan", "gingerMan"}
Clients == {"game", "store", "reward"}

\* The tag of a skin's button times the unit
Cost(skin) == Unit * (CASE skin = "youngMan" -> 3 [] skin = "gingerMan" -> 5 [] OTHER -> 0)

Documents == [currency : Nat, skins : SUBSET Skins, equipped : Skins, profile : BOOLEAN]

Empty == [currency |-> 0, skins |-> {"oldMan"}, equipped |-> "oldMan", profile |-> FALSE]

VARIABLES
  doc,        \* the document
  screen,     \* "main", "game" or "store"
  asked,      \* who waits for an answer of the server
  answer,     \* per client: the answers that wait for the main queue, with their age
  copy,       \* per client: its copy of the document
  round,      \* of the game: "on", "won" (by either side) or "died"
  titles,     \* of the store's buttons: "cost", "Equip" or "Equipped"
  unsaved,    \* history: relics collected since the game last saved
  earned,     \* history: relics earned and not given up
  current,    \* history: whose copy was made from the document as it is
  careful     \* history: so far every writer's copy was current, and none was replaced unsaved

vars == <<doc, screen, asked, answer, copy, round, titles, unsaved, earned, current, careful>>

Answers == [data : Documents, current : BOOLEAN]

\* Documents, copies and screens keep their types; no purse is ever negative
TypeOK ==
  /\ doc \in Documents
  /\ screen \in {"main", "game", "store"}
  /\ asked \subseteq Clients
  /\ answer \in [Clients -> SUBSET Answers]
  /\ \A c \in Clients : \A a, b \in answer[c] : a = b
  /\ copy \in [Clients -> Documents]
  /\ round \in {"on", "won", "died"}
  /\ titles \in [Skins -> {"cost", "Equip", "Equipped"}]
  /\ unsaved \in Nat /\ earned \in Nat
  /\ current \subseteq Clients
  /\ careful \in BOOLEAN

\* The storyboard's titles
FirstTitles == [skin \in Skins |-> IF skin = "oldMan" THEN "Equip" ELSE "cost"]

\* signUp creates the document
Init ==
  /\ doc = [Empty EXCEPT !.profile = TRUE]
  /\ screen = "main"
  /\ asked = {} /\ answer = [c \in Clients |-> {}]
  /\ copy = [c \in Clients |-> Empty]
  /\ round = "on" /\ titles = FirstTitles
  /\ unsaved = 0 /\ earned = 0
  /\ current = {} /\ careful = TRUE

----------------------------------------------------------------------------
(* Reading and writing *)

\* getDocument, and its answer as it is when it is made; the callback comes later
Answer(c) ==
  /\ c \in asked
  /\ asked' = asked \ {c}
  /\ answer' = [answer EXCEPT ![c] = {[data |-> doc, current |-> TRUE]}]
  /\ UNCHANGED <<doc, screen, copy, round, titles, unsaved, earned, current, careful>>

\* An error is not looked at further
Fail(c) ==
  /\ c \in asked
  /\ asked' = asked \ {c}
  /\ UNCHANGED <<doc, screen, answer, copy, round, titles, unsaved, earned, current, careful>>

Aged == [c \in Clients |-> {[a EXCEPT !.current = FALSE] : a \in answer[c]}]

\* setData(copy): the whole document is replaced
Write(c, data) ==
  /\ doc' = data
  /\ copy' = [copy EXCEPT ![c] = data]
  /\ current' = {c}

\* A client of a new screen starts with an empty copy and asks for the document
Ask(c) ==
  /\ asked' = asked \cup {c}
  /\ answer' = [answer EXCEPT ![c] = {}]
  /\ copy' = [copy EXCEPT ![c] = Empty]
  /\ current' = current \ {c}

\* The screen is dismissed; the callback of an answer that comes later finds its
\* [unowned self] gone, which ends the program (Terminate)
Dismiss(c) ==
  /\ screen' = "main"
  /\ asked' = asked \ {c}

----------------------------------------------------------------------------
(* The solo game *)

\* sceneDidLoad, with requestGameData
OpenGame ==
  /\ screen = "main" /\ screen' = "game"
  /\ Ask("game")
  /\ round' = "on" /\ unsaved' = 0
  /\ UNCHANGED <<doc, titles, earned, careful>>

\* The callback replaces the copy, and the relics counted in it so far
GameLoads ==
  /\ screen = "game"
  /\ \E a \in answer["game"] :
       /\ copy' = [copy EXCEPT !["game"] = a.data]
       /\ current' = IF a.current THEN current \cup {"game"} ELSE current \ {"game"}
  /\ answer' = [answer EXCEPT !["game"] = {}]
  /\ careful' = (careful /\ unsaved = 0)
  /\ UNCHANGED <<doc, screen, asked, round, titles, unsaved, earned>>

\* Variant: the relic is counted on the screen only
CountOnScreen == UNCHANGED copy

CountRelic == copy' = [copy EXCEPT !["game"].currency = @ + 1]

\* playerToTrophyResponse, with four trophies or less
CollectTrophy ==
  /\ screen = "game" /\ round = "on" /\ earned < MaxEarned
  /\ CountRelic
  /\ unsaved' = unsaved + 1 /\ earned' = earned + 1
  /\ UNCHANGED <<doc, screen, asked, answer, round, titles, current, careful>>

\* storeToServer
StoreToServer ==
  /\ Write("game", copy["game"])
  /\ answer' = Aged
  /\ unsaved' = 0
  /\ careful' = (careful /\ "game" \in current)

\* The fifth trophy: onPlayerWin saves in the same call
WinRound ==
  /\ screen = "game" /\ round = "on" /\ earned < MaxEarned
  /\ round' = "won"
  /\ earned' = earned + 1 /\ unsaved' = 0
  /\ Write("game", [copy["game"] EXCEPT !.currency = @ + 1])
  /\ answer' = Aged
  /\ careful' = (careful /\ "game" \in current)
  /\ UNCHANGED <<screen, asked, titles>>

\* The AI's fifth trophy and the last life: checkOpponentWin and onMonsterWin save
EndRound ==
  /\ screen = "game" /\ round = "on"
  /\ round' \in {"won", "died"}
  /\ StoreToServer
  /\ UNCHANGED <<screen, asked, titles, earned>>

TryAgain ==
  /\ screen = "game" /\ round = "died" /\ round' = "on"
  /\ UNCHANGED <<doc, screen, asked, answer, copy, titles, unsaved, earned, current, careful>>

\* "Return To Menu" saves
ReturnToMenu ==
  /\ screen = "game" /\ round = "on"
  /\ Dismiss("game")
  /\ Write("game", copy["game"])
  /\ answer' = [Aged EXCEPT !["game"] = {}]
  /\ unsaved' = 0
  /\ careful' = (careful /\ "game" \in current)
  /\ UNCHANGED <<round, titles, earned>>

\* "Exit" does not: the round that ended has saved
Exit ==
  /\ screen = "game" /\ round = "won"
  /\ Dismiss("game")
  /\ answer' = [answer EXCEPT !["game"] = {}]
  /\ UNCHANGED <<doc, copy, round, titles, unsaved, earned, current, careful>>

----------------------------------------------------------------------------
(* The store *)

\* viewDidLoad
OpenStore ==
  /\ screen = "main" /\ screen' = "store"
  /\ Ask("store")
  /\ titles' = FirstTitles
  /\ UNCHANGED <<doc, round, unsaved, earned, careful>>

\* The callback labels the skins owned, but the old man's only if he is equipped
StoreLoads ==
  /\ screen = "store"
  /\ \E a \in answer["store"] :
       /\ copy' = [copy EXCEPT !["store"] = a.data]
       /\ current' = IF a.current THEN current \cup {"store"} ELSE current \ {"store"}
       /\ titles' = [skin \in Skins |->
                       IF skin \notin a.data.skins THEN titles[skin]
                       ELSE IF skin = a.data.equipped THEN "Equipped"
                       ELSE IF skin = "oldMan" THEN titles[skin] ELSE "Equip"]
  /\ answer' = [answer EXCEPT !["store"] = {}]
  /\ UNCHANGED <<doc, screen, asked, round, unsaved, earned, careful>>

\* What onSkinClick writes is its copy with one change
StoreWrites(data) ==
  /\ Write("store", data)
  /\ answer' = Aged
  /\ careful' = (careful /\ "store" \in current)
  /\ titles' = [skin \in Skins |-> IF skin = data.equipped THEN "Equipped"
                                   ELSE IF skin \in data.skins THEN "Equip" ELSE titles[skin]]

Equip(skin) ==
  /\ screen = "store" /\ titles[skin] = "Equip"
  /\ StoreWrites([copy["store"] EXCEPT !.equipped = skin])
  /\ UNCHANGED <<screen, asked, round, unsaved, earned>>

\* Mutants: the purse is not looked at, or not charged
OnCredit(skin) == TRUE
ForFree(skin) == [copy["store"] EXCEPT !.equipped = skin, !.skins = @ \cup {skin}]

Affordable(skin) == Cost(skin) <= copy["store"].currency

Purchase(skin) == [copy["store"] EXCEPT !.equipped = skin, !.skins = @ \cup {skin},
                                        !.currency = @ - Cost(skin)]

\* A skin that is not owned, relics enough for it, and "Confirm"
Buy(skin) ==
  /\ screen = "store" /\ titles[skin] = "cost"
  /\ Affordable(skin)
  /\ StoreWrites(Purchase(skin))
  /\ UNCHANGED <<screen, asked, round, unsaved, earned>>

BackToMain ==
  /\ screen = "store"
  /\ Dismiss("store")
  /\ answer' = [answer EXCEPT !["store"] = {}]
  /\ UNCHANGED <<doc, copy, round, titles, unsaved, earned, current, careful>>

----------------------------------------------------------------------------
(* The reward of a video, watched over the main menu *)

DidRewardUser ==
  /\ screen = "main"
  /\ "reward" \notin asked /\ answer["reward"] = {}
  /\ Ask("reward")
  /\ UNCHANGED <<doc, screen, round, titles, unsaved, earned, careful>>

\* The callback adds the reward to the document it was given
Rewarded ==
  /\ earned + Reward <= MaxEarned
  /\ \E a \in answer["reward"] :
       /\ Write("reward", [a.data EXCEPT !.currency = @ + Reward])
       /\ careful' = (careful /\ a.current)
  /\ answer' = [Aged EXCEPT !["reward"] = {}]
  /\ earned' = earned + Reward
  /\ UNCHANGED <<screen, asked, round, titles, unsaved>>

\* The app is ended; Firestore keeps what was written
Terminate ==
  /\ screen' = "main"
  /\ asked' = {} /\ answer' = [c \in Clients |-> {}]
  /\ earned' = earned - unsaved /\ unsaved' = 0
  /\ UNCHANGED <<doc, copy, round, titles, current, careful>>

----------------------------------------------------------------------------
Next ==
  \/ \E c \in Clients : Answer(c) \/ Fail(c)
  \/ OpenGame \/ GameLoads \/ CollectTrophy \/ WinRound \/ EndRound \/ TryAgain
  \/ ReturnToMenu \/ Exit
  \/ OpenStore \/ StoreLoads \/ BackToMain
  \/ \E skin \in Skins : Equip(skin) \/ Buy(skin)
  \/ DidRewardUser \/ Rewarded
  \/ Terminate

Spec == Init /\ [][Next]_vars

----------------------------------------------------------------------------
(* Properties *)

\* What a document holds: relics, and skins at their price
Value(skin, data) == IF skin \in data.skins THEN Cost(skin) ELSE 0
Worth(data) == data.currency + Value("youngMan", data) + Value("gingerMan", data)

\* However reads, writes and screens interleave, nobody owns more than was earned: a
\* copy written back may undo a purchase, but then it gives up the skin it refunds.
NothingForNothing == Worth(doc) <= earned

\* Relics, skins and the profile are lost only by a writer whose copy was not made from
\* the document as it is, or by an answer that came after relics were collected.
OnlyStaleCopiesLose ==
  careful => doc.profile /\ Worth(doc) + unsaved = earned

\* A save or a reward never makes relics or skins vanish
SavesKeep == [][Worth(doc') >= Worth(doc)]_vars
=============================================================================
