------------------------- MODULE PvPHandshakeProofs -------------------------
(***************************************************************************)
(* However the two phones find each other, lose each other and offer their  *)
(* mazes, they never play on two different ones.                            *)
(***************************************************************************)
EXTENDS PvPHandshake, TLAPS

----------------------------------------------------------------------------
(* The inductive invariant *)

\* "Next" comes when the browser is closed for good, and is taken away when it is tapped
OfferIsLast ==
  \A p \in Phones :
    /\ phone[p].next \/ phone[p].sent => ~phone[p].menu /\ ~phone[p].browsing
    /\ phone[p].sent => ~phone[p].next /\ phone[p].status # "prompt"

\* What is under way to a phone comes from the other one, which offered it
OfferedByOther ==
  \A p \in Phones :
    /\ ~phone[Other(p)].sent => mail[p] = << >> /\ streams[p] = << >>
    /\ \A i \in DOMAIN streams[p] : streams[p][i].maker = Other(p)

\* A phone plays on the map it offered, or on the one the other phone did, which then
\* has come for good; without a link it may have made one it could not send, and it
\* cannot find a peer again
PlaysOfferedMaze ==
  \A p \in Phones :
    phone[p].status = "playing" =>
      /\ phone[p].sent => phone[p].maze = p
      /\ ~phone[p].sent => /\ phone[Other(p)].sent /\ streams[p] = << >>
                           /\ \/ phone[p].maze = Other(p)
                              \/ ~linked /\ phone[p].next

\* When both offered, a map that would disturb one of them is under way or has been
\* refused with an alert
BothOffered ==
  linked /\ (\A p \in Phones : phone[p].sent /\ phone[p].status = "playing") =>
    \E p \in Phones : streams[p] # << >> \/ phone[p].alert # None

IInv ==
  TypeOK /\ OfferIsLast /\ OfferedByOther /\ PlaysOfferedMaze /\ BothOffered

LEMMA OtherPhone ==
  /\ \A p \in Phones : Other(p) \in Phones /\ Other(p) # p /\ Other(Other(p)) = p
  /\ \A p, q \in Phones : q = p \/ q = Other(p)
  BY DEF Phones, Other

LEMMA InitHandshake == Init => IInv
<1> SUFFICES ASSUME Init PROVE IInv
  OBVIOUS
<1>1. Prompt \in Scenes
  BY DEF Prompt, Scenes, None, Pieces
<1>2. TypeOK
  <2>1. << >> \in Seq(Phones) /\ << >> \in Seq(Pieces) /\ Len(<< >>) <= 1
    OBVIOUS
  <2>2. QED
    BY <1>1, <2>1 DEF Init, TypeOK
<1>3. OfferIsLast /\ OfferedByOther /\ PlaysOfferedMaze /\ BothOffered
  BY OtherPhone DEF Init, Prompt, OfferIsLast, OfferedByOther, PlaysOfferedMaze,
     BothOffered, Phones
<1>4. QED
  BY <1>2, <1>3 DEF IInv

\* One phone changes, and keeps its type
LEMMA OneBecomes ==
  ASSUME phone \in [Phones -> Scenes], NEW p \in Phones, NEW scene \in Scenes,
         Becomes(p, scene)
  PROVE  /\ phone' \in [Phones -> Scenes]
         /\ phone'[p] = scene
         /\ phone'[Other(p)] = phone[Other(p)]
  BY OtherPhone DEF Becomes

\* What changing fields of a scene gives
LEMMA StatusTypes ==
  ASSUME NEW scene \in Scenes, NEW v \in {"prompt", "playing", "left", "crashed"}
  PROVE  [scene EXCEPT !.status = v] \in Scenes
  BY DEF Scenes

LEMMA HashTypes ==
  ASSUME NEW scene \in Scenes, NEW v \in Phones \cup {None}
  PROVE  [scene EXCEPT !.checksumHash = v] \in Scenes
  BY DEF Scenes

LEMMA MapTypes ==
  ASSUME NEW scene \in Scenes, NEW v \in Seq(Pieces)
  PROVE  [scene EXCEPT !.streamedMap = v] \in Scenes
  BY DEF Scenes

LEMMA HostTypes ==
  ASSUME NEW scene \in Scenes, NEW v \in BOOLEAN
  PROVE  [scene EXCEPT !.hosting = v] \in Scenes
  BY DEF Scenes

LEMMA BrowseTypes ==
  ASSUME NEW scene \in Scenes, NEW v \in BOOLEAN
  PROVE  [scene EXCEPT !.browsing = v] \in Scenes
  BY DEF Scenes

LEMMA FinishTypes ==
  ASSUME NEW scene \in Scenes
  PROVE  [scene EXCEPT !.browsing = FALSE, !.menu = FALSE, !.next = TRUE] \in Scenes
  BY DEF Scenes

LEMMA LeaveTypes ==
  ASSUME NEW scene \in Scenes
  PROVE  [scene EXCEPT !.status = "left", !.hosting = FALSE] \in Scenes
  BY DEF Scenes

LEMMA NoticeTypes ==
  ASSUME NEW scene \in Scenes, NEW v \in BOOLEAN
  PROVE  [scene EXCEPT !.notice = v] \in Scenes
  BY DEF Scenes

LEMMA OfferTypes ==
  ASSUME NEW scene \in Scenes, NEW v \in Phones
  PROVE  [scene EXCEPT !.maze = v, !.next = FALSE, !.sent = TRUE] \in Scenes
  BY DEF Scenes

LEMMA MazeTypes ==
  ASSUME NEW scene \in Scenes, NEW v \in Phones
  PROVE  [scene EXCEPT !.maze = v] \in Scenes
  BY DEF Scenes

LEMMA StartTypes ==
  ASSUME NEW scene \in Scenes, NEW v \in Phones
  PROVE  [scene EXCEPT !.maze = v, !.menu = FALSE] \in Scenes
  BY DEF Scenes

\* An alert is presented, or lost behind what covers the scene
LEMMA PresentResult ==
  ASSUME NEW scene \in Scenes, NEW alert \in {"mismatch", "lost"}
  PROVE  /\ Present(scene, alert) \in Scenes
         /\ \/ Present(scene, alert) = scene /\ (scene.browsing \/ scene.alert # None)
            \/ Present(scene, alert) = [scene EXCEPT !.alert = alert]
  BY DEF Present, Scenes, None

LEMMA SetupResult ==
  ASSUME NEW scene \in Scenes
  PROVE  /\ SetupGame(scene) \in Scenes
         /\ \E status \in {"playing", "crashed"} :
              /\ SetupGame(scene) = [scene EXCEPT !.status = status]
              /\ status = "playing" <=> scene.status # "playing"
  BY DEF SetupGame, Scenes, None

----------------------------------------------------------------------------
(* Steps of one phone *)

\* A step that offers nothing, starts nothing and takes no alert away
Harmless(p, scene) ==
  /\ scene.sent = phone[p].sent /\ scene.maze = phone[p].maze
  /\ scene.status \in {phone[p].status, "left", "crashed"}
  /\ phone[p].alert # None => scene.alert # None \/ scene.status = "left"
  /\ scene.next \/ scene.sent => ~scene.menu /\ ~scene.browsing
  /\ scene.sent => ~scene.next
  /\ phone[p].next => scene.next

LEMMA HarmlessStep ==
  ASSUME IInv, NEW p \in Phones, NEW scene \in Scenes, Becomes(p, scene),
         Harmless(p, scene), UNCHANGED <<mail, streams, linked>>
  PROVE  IInv'
<1> USE OtherPhone DEF IInv
<1>1. /\ phone' \in [Phones -> Scenes]
      /\ phone'[p] = scene /\ phone'[Other(p)] = phone[Other(p)]
  BY OneBecomes DEF TypeOK
<1>2. TypeOK'
  BY <1>1 DEF TypeOK
<1>3. OfferIsLast'
  BY <1>1 DEF OfferIsLast, Harmless
<1>4. OfferedByOther'
  BY <1>1 DEF OfferedByOther, Harmless
<1>5. PlaysOfferedMaze'
  BY <1>1 DEF PlaysOfferedMaze, Harmless
<1>6. BothOffered'
  BY <1>1 DEF BothOffered, Harmless
<1>7. QED
  BY <1>2, <1>3, <1>4, <1>5, <1>6

\* The link is lost, perhaps over a maze that was made for it
LEMMA LostStep ==
  ASSUME IInv, NEW scenes \in [Phones -> Scenes], LosePeer(scenes),
         \A q \in Phones :
           \/ scenes[q] = phone[q]
           \/ /\ scenes[q] = [phone[q] EXCEPT !.maze = q]
              /\ phone[q].next /\ ~phone[q].sent
  PROVE  IInv'
<1>t. phone \in [Phones -> Scenes]
  BY DEF IInv, TypeOK
<1>0. \A q \in Phones : Open(q) \in BOOLEAN
  BY DEF Open
<1>1. \A q \in Phones : [scenes[q] EXCEPT !.notice = Open(q)] \in Scenes
  BY <1>0, NoticeTypes
<1>2. phone' \in [Phones -> Scenes]
  BY <1>1 DEF LosePeer
<1>3. \A q \in Phones : /\ scenes[q].status = phone[q].status
                        /\ scenes[q].sent = phone[q].sent
                        /\ scenes[q].next = phone[q].next
                        /\ scenes[q].menu = phone[q].menu
                        /\ scenes[q].browsing = phone[q].browsing
                        /\ \/ scenes[q].maze = phone[q].maze
                           \/ phone[q].next /\ ~phone[q].sent
  BY <1>t DEF Scenes
<1>4. \A q \in Phones : /\ phone'[q].status = phone[q].status
                        /\ phone'[q].sent = phone[q].sent
                        /\ phone'[q].next = phone[q].next
                        /\ phone'[q].menu = phone[q].menu
                        /\ phone'[q].browsing = phone[q].browsing
                        /\ \/ phone'[q].maze = phone[q].maze
                           \/ phone[q].next /\ ~phone[q].sent
  <2>1. \A q \in Phones : phone'[q] = [scenes[q] EXCEPT !.notice = Open(q)]
    BY DEF LosePeer
  <2>2. \A q \in Phones : /\ phone'[q].status = scenes[q].status
                          /\ phone'[q].sent = scenes[q].sent
                          /\ phone'[q].next = scenes[q].next
                          /\ phone'[q].menu = scenes[q].menu
                          /\ phone'[q].browsing = scenes[q].browsing
                          /\ phone'[q].maze = scenes[q].maze
    <3> TAKE q \in Phones
    <3>1. scenes[q] \in Scenes /\ phone'[q] = [scenes[q] EXCEPT !.notice = Open(q)]
      BY <2>1
    <3>2. QED
      BY <3>1 DEF Scenes
  <2>3. QED
    BY <1>3, <2>2
<1>5. linked' = FALSE /\ \A q \in Phones : mail'[q] = << >> /\ streams'[q] = << >>
  BY DEF LosePeer
<1>6. mail' \in [Phones -> Seq(Phones)] /\ streams' \in [Phones -> Seq(Pieces)]
  BY DEF LosePeer
<1>7. TypeOK'
  <2>1. Len(<< >>) <= 1
    OBVIOUS
  <2>2. QED
    BY <1>2, <1>5, <1>6, <2>1 DEF TypeOK
<1>8. OfferIsLast' /\ OfferedByOther' /\ BothOffered'
  BY <1>4, <1>5, OtherPhone DEF IInv, OfferIsLast, OfferedByOther, BothOffered
<1>9. PlaysOfferedMaze'
  BY <1>4, <1>5, OtherPhone DEF IInv, PlaysOfferedMaze
<1>10. QED
  BY <1>7, <1>8, <1>9 DEF IInv

\* "Next": nothing is under way from this phone yet, and from now on its map is
LEMMA NextStep ==
  ASSUME IInv, NEW p \in Phones, TouchNext(p)
  PROVE  IInv'
<1>t. /\ phone \in [Phones -> Scenes] /\ mail \in [Phones -> Seq(Phones)]
      /\ streams \in [Phones -> Seq(Pieces)] /\ linked \in BOOLEAN
      /\ \A q \in Phones : Len(mail[q]) <= 1 /\ Len(streams[q]) <= 1
  BY DEF IInv, TypeOK
<1>n. /\ phone[p].next /\ ~phone[p].sent /\ ~phone[p].menu /\ ~phone[p].browsing
      /\ phone[p].status \in {"prompt", "playing"}
      /\ mail[Other(p)] = << >> /\ streams[Other(p)] = << >>
  BY OtherPhone DEF IInv, OfferIsLast, OfferedByOther, TouchNext, Touchable, Open
<1>1. CASE ~linked
  <2> DEFINE scene == [phone[p] EXCEPT !.status = "crashed"]
  <2>1. scene \in Scenes
    BY <1>t, StatusTypes
  <2>2. Becomes(p, scene) /\ UNCHANGED <<mail, streams, linked>>
    BY <1>1 DEF TouchNext, LosePeer
  <2>3. Harmless(p, scene)
    BY <1>t, <1>n DEF Harmless, Scenes
  <2>4. QED
    BY <2>1, <2>2, <2>3, HarmlessStep
<1>l. CASE LosePeer([phone EXCEPT ![p].maze = p])
  <2> DEFINE scenes == [phone EXCEPT ![p].maze = p]
  <2>1. [phone[p] EXCEPT !.maze = p] \in Scenes
    BY <1>t, MazeTypes
  <2>2. /\ scenes \in [Phones -> Scenes]
        /\ scenes[p] = [phone[p] EXCEPT !.maze = p]
        /\ \A q \in Phones : q # p => scenes[q] = phone[q]
    BY <1>t, <2>1
  <2>3. LosePeer(scenes)
    BY <1>l
  <2>4. QED
    BY <1>n, <2>2, <2>3, LostStep
<1>2. CASE linked /\ ~LosePeer([phone EXCEPT ![p].maze = p])
  <2> DEFINE offer == Offered(p)
             scene == SetupGame(offer)
  <2>s. /\ Becomes(p, scene)
        /\ mail' = [mail EXCEPT ![Other(p)] = Append(@, p)]
        /\ \E intact \in BOOLEAN :
             streams' = [streams EXCEPT ![Other(p)] =
                          Append(@, [maker |-> p, intact |-> intact])]
        /\ linked' = linked
    BY <1>2, Zenon DEF TouchNext
  <2>0. offer \in Scenes
    BY <1>t, OfferTypes DEF Offered
  <2>1. /\ offer \in Scenes /\ offer.maze = p /\ offer.sent /\ ~offer.next
        /\ ~offer.menu /\ ~offer.browsing /\ offer.status = phone[p].status
    BY <1>t, <1>n, <2>0 DEF Offered, Scenes
  <2>2. /\ scene \in Scenes /\ scene.maze = p /\ scene.sent /\ ~scene.next
        /\ ~scene.menu /\ ~scene.browsing
        /\ scene.status \in {"playing", "crashed"}
    BY <2>1, SetupResult DEF Scenes
  <2>3. /\ phone' \in [Phones -> Scenes]
        /\ phone'[p] = scene /\ phone'[Other(p)] = phone[Other(p)]
    BY <1>t, <2>2, <2>s, OneBecomes
  <2>4. PICK intact \in BOOLEAN :
          streams' = [streams EXCEPT ![Other(p)] =
                        Append(@, [maker |-> p, intact |-> intact])]
    BY <2>s
  <2>5. /\ mail' = [mail EXCEPT ![Other(p)] = <<p>>]
        /\ streams' = [streams EXCEPT ![Other(p)] = <<[maker |-> p, intact |-> intact]>>]
        /\ linked' = linked
    BY <1>t, <1>n, <2>4, <2>s
  <2>6. TypeOK'
    <3>1. <<p>> \in Seq(Phones) /\ <<[maker |-> p, intact |-> intact]>> \in Seq(Pieces)
      BY DEF Pieces
    <3>2. QED
      BY OtherPhone, <1>t, <2>3, <2>5, <3>1 DEF TypeOK
  <2>7. OfferIsLast'
    BY OtherPhone, <2>2, <2>3 DEF IInv, OfferIsLast
  <2>8. OfferedByOther'
    BY OtherPhone, <1>t, <2>2, <2>3, <2>5 DEF IInv, OfferedByOther
  <2>9. PlaysOfferedMaze'
    BY OtherPhone, <1>t, <1>n, <2>2, <2>3, <2>5 DEF IInv, PlaysOfferedMaze
  <2>10. BothOffered'
    BY OtherPhone, <1>t, <2>5 DEF BothOffered
  <2>11. QED
    BY <2>6, <2>7, <2>8, <2>9, <2>10 DEF IInv
<1>3. QED
  BY <1>1, <1>l, <1>2, <1>t

\* A checksum says nothing of who plays what
LEMMA ChecksumStep ==
  ASSUME IInv, NEW p \in Phones, ReceiveChecksum(p)
  PROVE  IInv'
<1>t. /\ phone \in [Phones -> Scenes] /\ mail \in [Phones -> Seq(Phones)]
      /\ \A q \in Phones : Len(mail[q]) <= 1
  BY DEF IInv, TypeOK
<1>1. Head(mail[p]) \in Phones /\ Tail(mail[p]) = << >>
  BY <1>t DEF ReceiveChecksum
<1>2. PICK hash \in Phones \cup {None} :
        Becomes(p, [phone[p] EXCEPT !.checksumHash = hash])
  <2>1. CASE phone[p].status = "playing"
    <3>1. phone[p] = [phone[p] EXCEPT !.checksumHash = phone[p].checksumHash]
      BY <1>t DEF Scenes
    <3>2. phone[p].checksumHash \in Phones \cup {None}
      BY <1>t DEF Scenes
    <3>3. QED
      BY <2>1, <3>1, <3>2 DEF ReceiveChecksum
  <2>2. CASE phone[p].status # "playing"
    BY <1>1, <2>2 DEF ReceiveChecksum
  <2>3. QED
    BY <2>1, <2>2
<1> DEFINE scene == [phone[p] EXCEPT !.checksumHash = hash]
<1>3. scene \in Scenes
  BY <1>t, HashTypes
<1>4. /\ phone' \in [Phones -> Scenes]
      /\ phone'[p] = scene /\ phone'[Other(p)] = phone[Other(p)]
  BY <1>t, <1>2, <1>3, OneBecomes
<1>5. \A q \in Phones : /\ phone'[q].status = phone[q].status
                        /\ phone'[q].sent = phone[q].sent
                        /\ phone'[q].maze = phone[q].maze
                        /\ phone'[q].alert = phone[q].alert
                        /\ phone'[q].next = phone[q].next
                        /\ phone'[q].menu = phone[q].menu
                        /\ phone'[q].browsing = phone[q].browsing
  <2>1. /\ scene.status = phone[p].status /\ scene.sent = phone[p].sent
        /\ scene.maze = phone[p].maze /\ scene.alert = phone[p].alert
        /\ scene.next = phone[p].next /\ scene.menu = phone[p].menu
        /\ scene.browsing = phone[p].browsing
    BY <1>t DEF Scenes
  <2>2. \A q \in Phones : q = p \/ phone'[q] = phone[q]
    BY <1>4, OtherPhone
  <2>3. QED
    BY <1>4, <2>1, <2>2
<1>6. mail' = [mail EXCEPT ![p] = << >>] /\ UNCHANGED <<streams, linked>>
  BY <1>1 DEF ReceiveChecksum
<1>7. TypeOK'
  BY <1>4, <1>6 DEF IInv, TypeOK
<1>8. OfferIsLast' /\ OfferedByOther' /\ PlaysOfferedMaze' /\ BothOffered'
  <2>1. OfferIsLast'
    BY <1>5 DEF IInv, OfferIsLast
  <2>2. OfferedByOther'
    BY OtherPhone, <1>t, <1>5, <1>6 DEF IInv, OfferedByOther
  <2>3. PlaysOfferedMaze'
    BY OtherPhone, <1>5, <1>6 DEF IInv, PlaysOfferedMaze
  <2>4. BothOffered'
    BY <1>5, <1>6 DEF IInv, BothOffered
  <2>5. QED
    BY <2>1, <2>2, <2>3, <2>4
<1>9. QED
  BY <1>7, <1>8 DEF IInv

\* The end of a stream starts a game, ends the program of a phone that plays already, or
\* is answered with an alert, which only an open browser swallows
LEMMA StreamResult ==
  ASSUME phone \in [Phones -> Scenes], streams \in [Phones -> Seq(Pieces)],
         NEW p \in Phones, EndEncountered(p)
  PROVE  \E scene \in Scenes :
           /\ Becomes(p, scene)
           /\ scene.sent = phone[p].sent /\ scene.next = phone[p].next
           /\ scene.browsing = phone[p].browsing
           /\ scene.menu => phone[p].menu
           /\ \/ scene.status = "crashed" /\ phone[p].status = "playing"
              \/ /\ scene.status = "playing" /\ phone[p].status = "prompt"
                 /\ scene.maze = Head(streams[p]).maker
              \/ /\ scene.status = phone[p].status /\ scene.maze = phone[p].maze
                 /\ scene.browsing \/ scene.alert # None
<1> DEFINE piece == Head(streams[p])
           map == Append(phone[p].streamedMap, piece)
           read == [phone[p] EXCEPT !.streamedMap = map]
<1>1. piece \in Pieces /\ phone[p].status \in {"prompt", "playing"}
  BY DEF EndEncountered, Open
<1>2. read \in Scenes
  <2>1. phone[p].streamedMap \in Seq(Pieces)
    BY DEF Scenes
  <2>2. map \in Seq(Pieces)
    BY <1>1, <2>1
  <2>3. QED
    BY <2>2, MapTypes
<1>3. /\ read.status = phone[p].status /\ read.sent = phone[p].sent
      /\ read.maze = phone[p].maze /\ read.alert = phone[p].alert
      /\ read.next = phone[p].next /\ read.menu = phone[p].menu
      /\ read.browsing = phone[p].browsing
  BY DEF Scenes
<1>4. CASE ChecksumMatches(p, map)
  <2> DEFINE ready == [read EXCEPT !.maze = piece.maker, !.menu = FALSE]
             scene == SetupGame(ready)
  <2>1. ready \in Scenes
    <3>1. piece.maker \in Phones
      BY <1>1 DEF Pieces
    <3>2. QED
      BY <1>2, <3>1, StartTypes
  <2>2. /\ ready.maze = piece.maker /\ ~ready.menu
        /\ ready.sent = phone[p].sent /\ ready.next = phone[p].next
        /\ ready.browsing = phone[p].browsing /\ ready.status = phone[p].status
    BY <1>1, <1>2, <1>3, <2>1 DEF Scenes
  <2>3. PICK status \in {"playing", "crashed"} :
          /\ scene = [ready EXCEPT !.status = status]
          /\ status = "playing" <=> ready.status # "playing"
    BY <2>1, SetupResult
  <2>4. scene \in Scenes
    BY <2>1, SetupResult
  <2>5. /\ scene.maze = piece.maker /\ ~scene.menu
        /\ scene.sent = phone[p].sent /\ scene.next = phone[p].next
        /\ scene.browsing = phone[p].browsing /\ scene.status = status
    <3>1. /\ scene.maze = ready.maze /\ scene.menu = ready.menu
          /\ scene.sent = ready.sent /\ scene.next = ready.next
          /\ scene.browsing = ready.browsing /\ scene.status = status
      BY <2>1, <2>3 DEF Scenes
    <3>2. QED
      BY <2>2, <3>1
  <2>6. Becomes(p, scene)
    BY <1>4 DEF EndEncountered
  <2>7. QED
    BY <1>1, <2>2, <2>3, <2>4, <2>5, <2>6
<1>5. CASE ~ChecksumMatches(p, map)
  <2> DEFINE scene == Present(read, "mismatch")
  <2>1. /\ scene \in Scenes
        /\ \/ scene = read /\ (read.browsing \/ read.alert # None)
           \/ scene = [read EXCEPT !.alert = "mismatch"]
    BY <1>2, PresentResult
  <2>2. /\ scene.sent = phone[p].sent /\ scene.next = phone[p].next
        /\ scene.browsing = phone[p].browsing /\ scene.menu = phone[p].menu
        /\ scene.status = phone[p].status /\ scene.maze = phone[p].maze
        /\ scene.browsing \/ scene.alert # None
    <3>1. CASE scene = read /\ (read.browsing \/ read.alert # None)
      BY <1>3, <3>1
    <3>2. CASE scene = [read EXCEPT !.alert = "mismatch"]
      BY <1>2, <1>3, <3>2 DEF Scenes, None
    <3>3. QED
      BY <2>1, <3>1, <3>2
  <2>3. Becomes(p, scene)
    BY <1>5 DEF EndEncountered
  <2>4. QED
    BY <2>1, <2>2, <2>3
<1>6. QED
  BY <1>4, <1>5

LEMMA StreamStep ==
  ASSUME IInv, NEW p \in Phones, EndEncountered(p)
  PROVE  IInv'
<1>t. /\ phone \in [Phones -> Scenes] /\ streams \in [Phones -> Seq(Pieces)]
      /\ \A q \in Phones : Len(streams[q]) <= 1
  BY DEF IInv, TypeOK
<1>1. /\ Head(streams[p]).maker = Other(p) /\ phone[Other(p)].sent
      /\ streams[p] # << >> /\ Tail(streams[p]) = << >>
  BY <1>t DEF EndEncountered, IInv, OfferedByOther
<1>2. streams' = [streams EXCEPT ![p] = << >>] /\ UNCHANGED <<mail, linked>>
  BY <1>1 DEF EndEncountered
<1>3. PICK scene \in Scenes :
        /\ Becomes(p, scene)
        /\ scene.sent = phone[p].sent /\ scene.next = phone[p].next
        /\ scene.browsing = phone[p].browsing
        /\ scene.menu => phone[p].menu
        /\ \/ scene.status = "crashed" /\ phone[p].status = "playing"
           \/ /\ scene.status = "playing" /\ phone[p].status = "prompt"
              /\ scene.maze = Head(streams[p]).maker
           \/ /\ scene.status = phone[p].status /\ scene.maze = phone[p].maze
              /\ scene.browsing \/ scene.alert # None
  BY <1>t, StreamResult
<1>4. /\ phone' \in [Phones -> Scenes]
      /\ phone'[p] = scene /\ phone'[Other(p)] = phone[Other(p)]
  BY <1>t, <1>3, OneBecomes
<1>5. TypeOK'
  <2>1. << >> \in Seq(Pieces) /\ Len(<< >>) <= 1
    OBVIOUS
  <2>2. QED
    BY <1>t, <1>2, <1>4, <2>1 DEF IInv, TypeOK
<1>6. OfferIsLast'
  <2>0. /\ phone[p].next \/ phone[p].sent => ~phone[p].menu /\ ~phone[p].browsing
        /\ phone[p].sent => ~phone[p].next /\ phone[p].status # "prompt"
    BY DEF IInv, OfferIsLast
  <2>1. scene.next \/ scene.sent => ~scene.menu /\ ~scene.browsing
    <3>1. /\ scene.sent = phone[p].sent /\ scene.next = phone[p].next
          /\ scene.browsing = phone[p].browsing
          /\ scene.menu => phone[p].menu
      BY <1>3
    <3>2. QED
      BY <2>0, <3>1, Zenon
  <2>2. scene.sent => ~scene.next /\ scene.status # "prompt"
    BY <1>3, <2>0
  <2>3. \A q \in Phones : q = p \/ phone'[q] = phone[q]
    BY <1>4, OtherPhone
  <2>4. QED
    BY <1>4, <2>1, <2>2, <2>3 DEF IInv, OfferIsLast
<1>7. OfferedByOther'
  BY OtherPhone, <1>t, <1>2, <1>3, <1>4 DEF IInv, OfferedByOther
<1>8. PlaysOfferedMaze'
  <2>1. phone[p].status = "prompt" => ~phone[p].sent
    BY DEF IInv, OfferIsLast
  <2>2. QED
    BY OtherPhone, <1>t, <1>1, <1>2, <1>3, <1>4, <2>1 DEF IInv, PlaysOfferedMaze
<1>9. BothOffered'
  <2>1. phone[p].status = "prompt" => ~phone[p].sent
    BY DEF IInv, OfferIsLast
  <2>2. QED
    BY <1>3, <1>4, <1>6, <2>1 DEF BothOffered, OfferIsLast
<1>10. QED
  BY <1>5, <1>6, <1>7, <1>8, <1>9 DEF IInv

----------------------------------------------------------------------------
(* Every step *)

LEMMA HandshakeStep == IInv /\ [Next]_vars => IInv'
<1> SUFFICES ASSUME IInv, [Next]_vars PROVE IInv'
  OBVIOUS
<1>t. phone \in [Phones -> Scenes] /\ OfferIsLast
  BY DEF IInv, TypeOK
<1>1. ASSUME NEW p \in Phones, TouchHost(p) PROVE IInv'
  <2> DEFINE scene == [phone[p] EXCEPT !.hosting = TRUE]
  <2>1. scene \in Scenes
    BY <1>t, HostTypes
  <2>2. Harmless(p, scene)
    BY <1>t DEF Scenes, Harmless, OfferIsLast
  <2>3. QED
    BY <1>1, <2>1, <2>2, HarmlessStep DEF TouchHost
<1>2. ASSUME NEW p \in Phones, TouchJoin(p) PROVE IInv'
  <2> DEFINE scene == [phone[p] EXCEPT !.browsing = TRUE]
  <2>1. scene \in Scenes
    BY <1>t, BrowseTypes
  <2>2. Harmless(p, scene)
    BY <1>t, <1>2 DEF Scenes, Harmless, OfferIsLast, TouchJoin
  <2>3. QED
    BY <1>2, <2>1, <2>2, HarmlessStep DEF TouchJoin
<1>3. ASSUME NEW p \in Phones, BrowserFinished(p) PROVE IInv'
  <2> DEFINE scene == [phone[p] EXCEPT !.browsing = FALSE, !.menu = FALSE, !.next = TRUE]
  <2>1. scene \in Scenes
    BY <1>t, FinishTypes
  <2>2. Harmless(p, scene)
    BY <1>t, <1>3 DEF Scenes, Harmless, OfferIsLast, BrowserFinished
  <2>3. QED
    BY <1>3, <2>1, <2>2, HarmlessStep DEF BrowserFinished
<1>4. ASSUME NEW p \in Phones, BrowserCancelled(p) PROVE IInv'
  <2> DEFINE scene == [phone[p] EXCEPT !.browsing = FALSE]
  <2>1. scene \in Scenes
    BY <1>t, BrowseTypes
  <2>2. Harmless(p, scene)
    BY <1>t DEF Scenes, Harmless, OfferIsLast
  <2>3. QED
    BY <1>4, <2>1, <2>2, HarmlessStep DEF BrowserCancelled
<1>5. ASSUME NEW p \in Phones, Leave(p) PROVE IInv'
  <2> DEFINE scene == [phone[p] EXCEPT !.status = "left", !.hosting = FALSE]
  <2>1. scene \in Scenes
    BY <1>t, LeaveTypes
  <2>2. /\ scene.status = "left" /\ scene.sent = phone[p].sent /\ scene.maze = phone[p].maze
        /\ scene.next = phone[p].next /\ scene.menu = phone[p].menu
        /\ scene.browsing = phone[p].browsing
    BY <1>t DEF Scenes
  <2>3. Harmless(p, scene)
    BY <1>t, <2>2 DEF Harmless, OfferIsLast
  <2>4. QED
    BY <1>5, <2>1, <2>3, HarmlessStep DEF Leave
<1>6. ASSUME NEW p \in Phones, NotConnected(p) PROVE IInv'
  <2> DEFINE told == [phone[p] EXCEPT !.notice = FALSE]
             scene == Present(told, "lost")
  <2>0. told \in Scenes
    BY <1>t, NoticeTypes
  <2>1. told \in Scenes /\ Harmless(p, told)
    BY <1>t, <2>0 DEF Scenes, Harmless, OfferIsLast
  <2>2. scene \in Scenes /\ (scene = told \/ scene = [told EXCEPT !.alert = "lost"])
    BY <2>1, PresentResult
  <2>3. Harmless(p, scene)
    <3>1. CASE scene = told
      BY <2>1, <3>1
    <3>2. CASE scene = [told EXCEPT !.alert = "lost"]
      <4>1. /\ scene.sent = told.sent /\ scene.maze = told.maze
            /\ scene.status = told.status /\ scene.alert = "lost"
            /\ scene.next = told.next /\ scene.menu = told.menu
            /\ scene.browsing = told.browsing
        BY <2>0, <3>2 DEF Scenes
      <4>2. QED
        BY <2>1, <4>1 DEF Harmless, None
    <3>3. QED
      BY <2>2, <3>1, <3>2
  <2>4. QED
    BY <1>6, <2>2, <2>3, HarmlessStep DEF NotConnected
<1>7. ASSUME NEW p \in Phones, Connect(p) PROVE IInv'
  <2>1. \A q \in Phones : [phone[q] EXCEPT !.hosting = FALSE] \in Scenes
    BY <1>t, HostTypes
  <2>2. phone' \in [Phones -> Scenes]
    BY <1>7, <2>1 DEF Connect
  <2>3. \A q \in Phones : /\ phone'[q].status = phone[q].status
                          /\ phone'[q].sent = phone[q].sent
                          /\ phone'[q].maze = phone[q].maze
                          /\ phone'[q].alert = phone[q].alert
                          /\ phone'[q].next = phone[q].next
                          /\ phone'[q].menu = phone[q].menu
                          /\ phone'[q].browsing = phone[q].browsing
    BY <1>t, <1>7 DEF Connect, Scenes
  <2>4. /\ ~phone[p].sent /\ ~phone[p].next
        /\ UNCHANGED <<mail, streams>> /\ linked' = TRUE
    BY <1>t, <1>7 DEF Connect, OfferIsLast
  <2>5. TypeOK'
    BY <2>2, <2>4 DEF IInv, TypeOK
  <2>6. OfferIsLast' /\ OfferedByOther'
    BY <2>3, <2>4, OtherPhone DEF IInv, OfferIsLast, OfferedByOther
  <2>9. PlaysOfferedMaze'
    <3> SUFFICES ASSUME NEW q \in Phones, phone'[q].status = "playing"
                 PROVE  /\ phone'[q].sent => phone'[q].maze = q
                        /\ ~phone'[q].sent => /\ phone'[Other(q)].sent /\ streams'[q] = << >>
                                             /\ phone'[q].maze = Other(q)
      BY DEF PlaysOfferedMaze
    <3>1. q = p \/ Other(q) = p
      BY OtherPhone
    <3>2. ~phone[q].sent => phone[Other(q)].sent /\ ~phone[q].next
      BY <2>3, <2>4, <3>1, OtherPhone DEF IInv, PlaysOfferedMaze
    <3>3. QED
      BY <2>3, <2>4, <3>2, OtherPhone DEF IInv, PlaysOfferedMaze
  <2>7. BothOffered'
    BY <2>3, <2>4 DEF BothOffered
  <2>8. QED
    BY <2>5, <2>6, <2>7, <2>9 DEF IInv
<1>8. ASSUME NEW p \in Phones, TouchNext(p) PROVE IInv'
  BY <1>8, NextStep
<1>9. ASSUME NEW p \in Phones, ReceiveChecksum(p) PROVE IInv'
  BY <1>9, ChecksumStep
<1>10. ASSUME NEW p \in Phones, EndEncountered(p) PROVE IInv'
  BY <1>10, StreamStep
<1>11. CASE LinkBreaks
  BY <1>t, <1>11, LostStep DEF LinkBreaks
<1>12. CASE UNCHANGED vars
  BY <1>12 DEF vars, IInv, TypeOK, OfferIsLast, OfferedByOther, PlaysOfferedMaze,
     BothOffered
<1>13. QED
  BY <1>1, <1>2, <1>3, <1>4, <1>5, <1>6, <1>7, <1>8, <1>9, <1>10, <1>11, <1>12 DEF Next

LEMMA HandshakeInvariant == Spec => []IInv
  BY InitHandshake, HandshakeStep, PTL DEF Spec

\* What a phone holds keeps its type, and it never makes a second offer.
THEOREM OneOfferEach == Spec => []TypeOK
<1>1. IInv => TypeOK
  BY DEF IInv
<1>2. QED
  BY HandshakeInvariant, <1>1, PTL

\* Two connected phones that play, with nothing under way and no alert up, play on the
\* same maze, whoever tapped "Next" and however often the link broke before.
THEOREM OneMaze == Spec => []SameMaze
<1>1. IInv => SameMaze
  <2> SUFFICES ASSUME IInv, linked,
                      \A p \in Phones : /\ phone[p].status = "playing"
                                        /\ streams[p] = << >> /\ phone[p].alert = None
               PROVE  phone["host"].maze = phone["guest"].maze
    BY DEF SameMaze
  <2>1. ~phone["host"].sent \/ ~phone["guest"].sent
    BY DEF IInv, BothOffered, Phones
  <2>2. QED
    BY <2>1 DEF IInv, PlaysOfferedMaze, Phones, Other
<1>2. QED
  BY HandshakeInvariant, <1>1, PTL

\* The link's loss ends no program, with a maze made and not sent or without
LEMMA LossCrashesNobody ==
  ASSUME phone \in [Phones -> Scenes], NEW q \in Phones,
         LosePeer([phone EXCEPT ![q].maze = q]), NEW p \in Phones
  PROVE  phone'[p].status = phone[p].status
<1> DEFINE scenes == [phone EXCEPT ![q].maze = q]
<1>1. [phone[q] EXCEPT !.maze = q] \in Scenes
  BY MazeTypes
<1>2. scenes[p] \in Scenes /\ scenes[p].status = phone[p].status
  BY <1>1 DEF Scenes
<1>3. phone'[p] = [scenes[p] EXCEPT !.notice = Open(p)]
  BY DEF LosePeer
<1>4. QED
  BY <1>2, <1>3 DEF Scenes

\* Only "Next" and the end of a stream end the program of a connected phone
LEMMA WhoCrashes ==
  ASSUME phone \in [Phones -> Scenes], [Next]_vars, NEW p \in Phones,
         phone[p].status # "crashed", phone'[p].status = "crashed"
  PROVE  TouchNext(p) \/ EndEncountered(p)
<1>1. ASSUME NEW q \in Phones, NEW scene \in Scenes, Becomes(q, scene),
             scene.status = "crashed" => phone[q].status = "crashed"
      PROVE  FALSE
  BY <1>1, OneBecomes, OtherPhone
<1>2. ASSUME NEW q \in Phones, TouchHost(q) PROVE FALSE
  <2> DEFINE scene == [phone[q] EXCEPT !.hosting = TRUE]
  <2>0. scene \in Scenes
    BY HostTypes
  <2>1. scene \in Scenes /\ scene.status = phone[q].status
    BY <2>0 DEF Scenes
  <2>2. QED
    BY <1>1, <1>2, <2>1 DEF TouchHost
<1>3. ASSUME NEW q \in Phones, TouchJoin(q) PROVE FALSE
  <2> DEFINE scene == [phone[q] EXCEPT !.browsing = TRUE]
  <2>0. scene \in Scenes
    BY BrowseTypes
  <2>1. scene \in Scenes /\ scene.status = phone[q].status
    BY <2>0 DEF Scenes
  <2>2. QED
    BY <1>1, <1>3, <2>1 DEF TouchJoin
<1>4. ASSUME NEW q \in Phones, BrowserFinished(q) PROVE FALSE
  <2> DEFINE scene == [phone[q] EXCEPT !.browsing = FALSE, !.menu = FALSE, !.next = TRUE]
  <2>0. scene \in Scenes
    BY FinishTypes
  <2>1. scene \in Scenes /\ scene.status = phone[q].status
    BY <2>0 DEF Scenes
  <2>2. QED
    BY <1>1, <1>4, <2>1 DEF BrowserFinished
<1>5. ASSUME NEW q \in Phones, BrowserCancelled(q) PROVE FALSE
  <2> DEFINE scene == [phone[q] EXCEPT !.browsing = FALSE]
  <2>0. scene \in Scenes
    BY BrowseTypes
  <2>1. scene \in Scenes /\ scene.status = phone[q].status
    BY <2>0 DEF Scenes
  <2>2. QED
    BY <1>1, <1>5, <2>1 DEF BrowserCancelled
<1>6. ASSUME NEW q \in Phones, Leave(q) PROVE FALSE
  <2> DEFINE scene == [phone[q] EXCEPT !.status = "left", !.hosting = FALSE]
  <2>1. scene \in Scenes
    BY LeaveTypes
  <2>2. scene.status = "left"
    BY DEF Scenes
  <2>3. QED
    BY <1>1, <1>6, <2>1, <2>2 DEF Leave
<1>7. ASSUME NEW q \in Phones, NotConnected(q) PROVE FALSE
  <2> DEFINE told == [phone[q] EXCEPT !.notice = FALSE]
             scene == Present(told, "lost")
  <2>0. told \in Scenes
    BY NoticeTypes
  <2>1. told \in Scenes /\ told.status = phone[q].status
    BY <2>0 DEF Scenes
  <2>2. scene \in Scenes /\ (scene = told \/ scene = [told EXCEPT !.alert = "lost"])
    BY <2>1, PresentResult
  <2>3. scene.status = phone[q].status
    BY <2>1, <2>2 DEF Scenes
  <2>4. QED
    BY <1>1, <1>7, <2>2, <2>3 DEF NotConnected
<1>8. ASSUME NEW q \in Phones, ReceiveChecksum(q) PROVE FALSE
  <2>1. phone'[p].status = phone[p].status
    BY <1>8, OtherPhone DEF ReceiveChecksum, Becomes, Scenes
  <2>2. QED
    BY <2>1
<1>9. ASSUME NEW q \in Phones, Connect(q) PROVE FALSE
  BY <1>9 DEF Connect, Scenes
<1>10. CASE LinkBreaks
  BY <1>10 DEF LinkBreaks, LosePeer, Scenes
<1>11. ASSUME NEW q \in Phones, TouchNext(q) \/ EndEncountered(q)
       PROVE  q = p
  <2>1. CASE q # p
    <3>1. p = Other(q)
      BY <2>1, OtherPhone
    <3>2. CASE LosePeer([phone EXCEPT ![q].maze = q])
      BY <3>2, LossCrashesNobody
    <3>3. CASE ~LosePeer([phone EXCEPT ![q].maze = q])
      <4>1. \E scene : Becomes(q, scene)
        BY <1>11, <3>3, Zenon DEF TouchNext, EndEncountered
      <4>2. phone'[p] = phone[p]
        BY <3>1, <4>1, OtherPhone DEF Becomes
      <4>3. QED
        BY <4>2
    <3>4. QED
      BY <3>2, <3>3
  <2>2. QED
    BY <2>1
<1>12. CASE UNCHANGED vars
  BY <1>12 DEF vars
<1>13. QED
  BY <1>2, <1>3, <1>4, <1>5, <1>6, <1>7, <1>8, <1>9, <1>10, <1>11, <1>12 DEF Next

\* A connected phone ends its own program (it sets its game up twice) only when both
\* players tapped "Next".
THEOREM CrashIsMutual == Spec => CrashNeedsTwoOffers
<1>1. ASSUME IInv, [Next]_vars, NEW p \in Phones, linked,
             phone[p].status # "crashed", phone'[p].status = "crashed"
      PROVE  phone'[p].sent /\ phone[Other(p)].sent
  <2>t. phone \in [Phones -> Scenes]
    BY <1>1 DEF IInv, TypeOK
  <2>1. CASE TouchNext(p)
    <3>l. ~LosePeer([phone EXCEPT ![p].maze = p])
      BY <1>1, <2>t, LossCrashesNobody
    <3>1. phone' = [phone EXCEPT ![p] = SetupGame(Offered(p))]
      BY <1>1, <2>1, <3>l, Zenon DEF TouchNext, Becomes
    <3>0. Offered(p) \in Scenes
      BY <2>t, OfferTypes DEF Offered
    <3>2. /\ Offered(p) \in Scenes /\ Offered(p).sent
          /\ Offered(p).status = phone[p].status
      BY <2>t, <3>0 DEF Offered, Scenes
    <3>3. PICK status \in {"playing", "crashed"} :
            /\ SetupGame(Offered(p)) = [Offered(p) EXCEPT !.status = status]
            /\ status = "playing" <=> Offered(p).status # "playing"
      BY <3>2, SetupResult
    <3>4. phone'[p].sent /\ phone'[p].status = status
      BY <2>t, <3>1, <3>2, <3>3 DEF Scenes
    <3>5. phone[p].status = "playing"
      BY <1>1, <3>2, <3>3, <3>4
    <3>6. ~phone[p].sent
      BY <1>1, <2>1 DEF TouchNext, IInv, OfferIsLast
    <3>7. QED
      BY <1>1, <3>4, <3>5, <3>6 DEF IInv, PlaysOfferedMaze
  <2>2. CASE EndEncountered(p)
    <3>1. streams[p] # << >> /\ phone[p].status \in {"prompt", "playing"}
      BY <2>2 DEF EndEncountered, Open
    <3>2. phone[Other(p)].sent
      BY <1>1, <3>1 DEF IInv, OfferedByOther
    <3>3. phone[p].status = "playing" => phone[p].sent
      BY <1>1, <3>1 DEF IInv, PlaysOfferedMaze
    <3>4. phone'[p].sent
      <4>1. PICK scene \in Scenes :
              /\ Becomes(p, scene)
              /\ scene.sent = phone[p].sent
              /\ \/ phone[p].status = "playing"
                 \/ scene.status # "crashed"
        BY <1>1, <2>2, <3>1, StreamResult DEF IInv, TypeOK
      <4>2. phone'[p] = scene
        BY <2>t, <4>1, OneBecomes
      <4>3. QED
        BY <1>1, <3>3, <4>1, <4>2
    <3>5. QED
      BY <3>2, <3>4
  <2>3. QED
    BY <1>1, <2>t, <2>1, <2>2, WhoCrashes
<1>2. IInv /\ [Next]_vars =>
        [\A p \in Phones :
           phone[p].status # "crashed" /\ phone'[p].status = "crashed" =>
             ~linked \/ (phone'[p].sent /\ phone[Other(p)].sent)]_vars
  BY <1>1
<1>3. QED
  BY HandshakeInvariant, <1>2, PTL DEF Spec, CrashNeedsTwoOffers
=============================================================================
