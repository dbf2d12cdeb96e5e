---------------------------- MODULE PvPHandshake ----------------------------
(***************************************************************************)
(* How two phones come to play on one maze.  One hosts, the other finds it  *)
(* in the browser; the one whose browser was closed with "Done" is offered   *)
(* "Next", and tapping it makes a maze, sends its checksum as a message and  *)
(* its bytes as a stream, and starts the game.  The other starts when the    *)
(* stream has ended and its checksum is the one announced.                   *)
(*                                                                          *)
(* Nothing keeps both phones from offering "Next".  The session (external)   *)
(* delivers messages and stream on separate ways, so either may be first.    *)
(***************************************************************************)
EXTENDS Naturals, SequencesExt

Phones == {"host", "guest"}
Other(p) == IF p = "host" THEN "guest" ELSE "host"
None == "none"

VARIABLES phone,     \* what each phone holds
          mail,      \* checksums under way to each phone
          streams,   \* the streams under way to each phone: maker of the map, intact or not
          linked     \* the session is connected

vars == <<phone, mail, streams, linked>>

Pieces == [maker : Phones, intact : BOOLEAN]

Scenes ==
  [status : {"prompt", "playing", "left", "crashed"},
   menu : BOOLEAN,                      \* "Host", "Join" and "Cancel" are on the screen
   next : BOOLEAN,                      \* "Next" is on the screen
   hosting : BOOLEAN, browsing : BOOLEAN,
   sent : BOOLEAN,                      \* history: tapped "Next" with success
   checksumHash : Phones \cup {None},   \* whose map it is the checksum of
   streamedMap : Seq(Pieces),           \* what the streams brought, one after the other
   maze : Phones \cup {None},           \* maker of the maze it plays on
   alert : {None, "mismatch", "lost"},
   notice : BOOLEAN]                    \* a .notConnected callback is due

\* Everything keeps its type, and no phone offers a second map
TypeOK ==
  /\ phone \in [Phones -> Scenes]
  /\ mail \in [Phones -> Seq(Phones)]
  /\ streams \in [Phones -> Seq(Pieces)]
  /\ \A p \in Phones : Len(mail[p]) <= 1 /\ Len(streams[p]) <= 1
  /\ linked \in BOOLEAN

\* pvpConnectionPrompt
Prompt ==
  [status |-> "prompt", menu |-> TRUE, next |-> FALSE, hosting |-> FALSE,
   browsing |-> FALSE, sent |-> FALSE, checksumHash |-> None, streamedMap |-> <<>>,
   maze |-> None, alert |-> None, notice |-> FALSE]

Init ==
  /\ phone = [p \in Phones |-> Prompt]
  /\ mail = [p \in Phones |-> <<>>]
  /\ streams = [p \in Phones |-> <<>>]
  /\ linked = FALSE

Becomes(p, scene) == phone' = [phone EXCEPT ![p] = scene]

Open(p) == phone[p].status \in {"prompt", "playing"}

\* The link is gone, whatever the phones were doing: what was under way is lost, and each
\* side is told by a callback
LosePeer(scenes) ==
  /\ linked /\ linked' = FALSE
  /\ mail' = [p \in Phones |-> <<>>]
  /\ streams' = [p \in Phones |-> <<>>]
  /\ phone' = [p \in Phones |-> [scenes[p] EXCEPT !.notice = Open(p)]]

\* Touches reach the scene when neither the browser nor an alert covers it
Touchable(p) == Open(p) /\ ~phone[p].browsing /\ phone[p].alert = None

\* setupGame.  The scene has one joystick, and adding it a second time is an
\* Objective-C exception
SetupGame(scene) ==
  [scene EXCEPT !.status = IF scene.status = "playing" THEN "crashed" ELSE "playing"]

\* Variant: the alert is never shown
PresentNothing(scene, alert) == scene

\* vc.present does nothing while the browser or another alert is presented
Present(scene, alert) ==
  IF scene.browsing \/ scene.alert # None THEN scene ELSE [scene EXCEPT !.alert = alert]

----------------------------------------------------------------------------
(* Finding each other *)

TouchHost(p) ==
  /\ Touchable(p) /\ phone[p].menu
  /\ Becomes(p, [phone[p] EXCEPT !.hosting = TRUE])
  /\ UNCHANGED <<mail, streams, linked>>

TouchJoin(p) ==
  /\ Touchable(p) /\ phone[p].menu
  /\ Becomes(p, [phone[p] EXCEPT !.browsing = TRUE])
  /\ UNCHANGED <<mail, streams, linked>>

\* session(didChange: .connected): the advertiser stops
Connect(p) ==
  /\ ~linked /\ phone[p].browsing /\ phone[Other(p)].hosting
  /\ \A q \in Phones : Open(q) /\ ~phone[q].notice
  /\ linked' = TRUE
  /\ phone' = [q \in Phones |-> [phone[q] EXCEPT !.hosting = FALSE]]
  /\ UNCHANGED <<mail, streams>>

\* browserViewControllerDidFinish, with confirmConnection
BrowserFinished(p) ==
  /\ Open(p) /\ phone[p].browsing /\ linked
  /\ Becomes(p, [phone[p] EXCEPT !.browsing = FALSE, !.menu = FALSE, !.next = TRUE])
  /\ UNCHANGED <<mail, streams, linked>>

BrowserCancelled(p) ==
  /\ Open(p) /\ phone[p].browsing
  /\ Becomes(p, [phone[p] EXCEPT !.browsing = FALSE])
  /\ UNCHANGED <<mail, streams, linked>>

\* "Cancel", or the alert's "OK": leave
Leave(p) ==
  /\ \/ Touchable(p) /\ phone[p].menu
     \/ Open(p) /\ phone[p].alert # None
  /\ Becomes(p, [phone[p] EXCEPT !.status = "left", !.hosting = FALSE])
  /\ UNCHANGED <<mail, streams, linked>>

----------------------------------------------------------------------------
(* One maze for both *)

\* Variant: "Next" stays on the screen
OfferedAgain(p) == [phone[p] EXCEPT !.maze = p, !.sent = TRUE]

Offered(p) == [phone[p] EXCEPT !.maze = p, !.next = FALSE, !.sent = TRUE]

\* "Next": makeGameData, the checksum, the stream (write may take fewer bytes than it
\* is given, which is not looked at), and setupGame.  Without a connected peer the
\* stream's connectedPeers[0] is out of range; when the peer is lost after that, send
\* throws, and "Next" stays over a maze that was made and never sent
TouchNext(p) ==
  /\ Touchable(p) /\ phone[p].next
  /\ \/ /\ ~linked
        /\ Becomes(p, [phone[p] EXCEPT !.status = "crashed"])
        /\ UNCHANGED <<mail, streams, linked>>
     \/ LosePeer([phone EXCEPT ![p].maze = p])
     \/ /\ linked
        /\ Becomes(p, SetupGame(Offered(p)))
        /\ mail' = [mail EXCEPT ![Other(p)] = Append(@, p)]
        /\ \E intact \in BOOLEAN :
             streams' = [streams EXCEPT ![Other(p)] =
                          Append(@, [maker |-> p, intact |-> intact])]
        /\ UNCHANGED linked

\* session(didReceive:): a checksum counts only before the game started
ReceiveChecksum(p) ==
  /\ Open(p) /\ mail[p] # <<>>
  /\ Becomes(p, IF phone[p].status = "playing" THEN phone[p]
                ELSE [phone[p] EXCEPT !.checksumHash = Head(mail[p])])
  /\ mail' = [mail EXCEPT ![p] = Tail(@)]
  /\ UNCHANGED <<streams, linked>>

\* The hash of what was streamed is the one announced
ChecksumMatches(p, map) == map = <<[maker |-> phone[p].checksumHash, intact |-> TRUE]>>

\* Stream.Event.endEncountered, after the bytes were appended
EndEncountered(p) ==
  /\ Open(p) /\ streams[p] # <<>>
  /\ LET map == Append(phone[p].streamedMap, Head(streams[p]))
         read == [phone[p] EXCEPT !.streamedMap = map]
     IN Becomes(p, IF ChecksumMatches(p, map)
                   THEN SetupGame([read EXCEPT !.maze = Head(streams[p]).maker, !.menu = FALSE])
                   ELSE Present(read, "mismatch"))
  /\ streams' = [streams EXCEPT ![p] = Tail(@)]
  /\ UNCHANGED <<mail, linked>>

----------------------------------------------------------------------------
(* The session ends *)

\* The radio link breaks or a program is gone
LinkBreaks == LosePeer(phone)

\* session(didChange: .notConnected)
NotConnected(p) ==
  /\ Open(p) /\ phone[p].notice
  /\ Becomes(p, Present([phone[p] EXCEPT !.notice = FALSE], "lost"))
  /\ UNCHANGED <<mail, streams, linked>>

----------------------------------------------------------------------------
Next ==
  \/ \E p \in Phones :
       \/ TouchHost(p) \/ TouchJoin(p) \/ Connect(p) \/ BrowserFinished(p)
       \/ BrowserCancelled(p) \/ Leave(p)
       \/ TouchNext(p) \/ ReceiveChecksum(p) \/ EndEncountered(p) \/ NotConnected(p)
  \/ LinkBreaks

Spec == Init /\ [][Next]_vars

\* The session delivers and reports, and the run loop hands over the stream's events
Fairness == \A p \in Phones : /\ WF_vars(ReceiveChecksum(p))
                              /\ WF_vars(EndEncountered(p))
                              /\ WF_vars(NotConnected(p))

FairSpec == Spec /\ Fairness

----------------------------------------------------------------------------
(* Properties *)

\* Two connected phones that play, with no stream under way and no alert to make them
\* leave, play on the same maze, also when both offered "Next": a map is only
\* played on if it came whole and was announced before the game started.
SameMaze ==
  linked /\ (\A p \in Phones : /\ phone[p].status = "playing" /\ streams[p] = <<>>
                               /\ phone[p].alert = None /\ ~phone[p].browsing)
    => phone["host"].maze = phone["guest"].maze

\* A phone sets its game up a second time (and crashes) only if both tapped "Next";
\* otherwise it crashes only by tapping it without a peer.
CrashNeedsTwoOffers ==
  [][\A p \in Phones :
       phone[p].status # "crashed" /\ phone'[p].status = "crashed" =>
         ~linked \/ (phone'[p].sent /\ phone[Other(p)].sent)]_vars

\* Only a phone with a peer sets up a match, so none ends its program without one: the
\* comment at "Next" says that it is executed when two devices are connected
\* (PvPGameScene.swift:78).
NextHasAPeer ==
  [][\A p \in Phones :
       phone[p].status # "crashed" /\ phone'[p].status = "crashed" => linked]_vars

\* One phone that starts a match is not left alone: the other starts too, or an alert
\* tells one of them, or one is gone.  Alerts are lost behind an open browser, so this
\* is about receivers that do not open theirs while the map is coming.
StartedTogether ==
  \A p \in Phones :
    LET q == Other(p) IN
    [](phone[p].sent => ~phone[q].browsing) =>
      (phone[p].status = "playing"
         ~> \/ phone[q].status # "prompt"
            \/ phone[p].status \in {"left", "crashed"}
            \/ phone[p].alert # None \/ phone[q].alert # None)

\* The alert "Checksums did not match" is for a map that was not transmitted whole.
MismatchMeansDamage ==
  \A p \in Phones : phone[p].alert = "mismatch" =>
     \E i \in DOMAIN phone[p].streamedMap : ~phone[p].streamedMap[i].intact
=============================================================================
