-------------------------------- MODULE Maze --------------------------------
(***************************************************************************)
(* Maze(width:height:): a depth-first walk carves a maze into a grid of      *)
(* walls, then openUpMap breaks walls next to dead ends.  The host of a PvP  *)
(* game sends only which tiles are spaces; Maze(from:) rebuilds the          *)
(* connections from them on the other device.                               *)
(*                                                                          *)
(* A tile is <<row, column>>, both from 0, as data[row][column].  The walk   *)
(* is on the tiles with odd coordinates, the cells.                          *)
(***************************************************************************)
EXTENDS Integers, Sequences, SequencesExt, FiniteSets

CONSTANTS Height, Width     \* 21 and 37 in the code

\* The walk moves two tiles at a time, so it fits between the outer walls of odd grids;
\* openUpMap takes a tile at one outer wall to have room towards the other
ASSUME MazeAssumption ==
  /\ Height \in Nat /\ Height >= 5 /\ Height % 2 = 1
  /\ Width \in Nat /\ Width >= 5 /\ Width % 2 = 1

VARIABLES
  phase,     \* "carving", "opening" or "done"
  visited,   \* visitedMap
  stack,     \* mazeStack
  space,     \* tiles whose cellType is .Space; all others are .Wall
  links,     \* connections of the graph, as pairs of tiles
  scanned    \* tiles openUpMap has passed

vars == <<phase, visited, stack, space, links, scanned>>

Tiles == (0 .. Height - 1) \X (0 .. Width - 1)
Interior == (1 .. Height - 2) \X (1 .. Width - 2)
Start == <<1, 1>>
Directions == {"up", "down", "left", "right"}

\* The tile k steps away in the direction d
Step(t, d, k) ==
  CASE d = "up" -> <<t[1] - k, t[2]>>
    [] d = "down" -> <<t[1] + k, t[2]>>
    [] d = "left" -> <<t[1], t[2] - k>>
    [] d = "right" -> <<t[1], t[2] + k>>

\* Variant: the second connection is forgotten
HalfPassage(t, d) == {{t, Step(t, d, 1)}}

\* Two tiles on, through the one between: addConnections twice, bidirectional
Passage(t, d) == {{t, Step(t, d, 1)}, {Step(t, d, 1), Step(t, d, 2)}}

\* connectedNodes.count
Degree(t) == Cardinality({l \in links : t \in l})

TypeOK ==
  /\ phase \in {"carving", "opening", "done"}
  /\ visited \subseteq Tiles
  /\ stack \in Seq(Tiles)
  /\ space \subseteq Tiles
  /\ \A l \in links : l \subseteq Tiles /\ Cardinality(l) = 2
  /\ scanned \in 0 .. Height * Width

----------------------------------------------------------------------------
(* Carving *)

\* Variant: the tile itself is not marked
MarkAround(t) == {t[1] - 1, t[1] + 1} \X {t[2] - 1, t[2], t[2] + 1}

\* markVisited: the tile and those around it, short of the outer walls but for the
\* tile to the right
MarkVisited(t) ==
  LET rows == {r \in {t[1] - 1, t[1], t[1] + 1} :
                 (r < t[1] => t[1] > 1) /\ (r > t[1] => t[1] < Height - 2)}
      columns == {c \in {t[2] - 1, t[2], t[2] + 1} :
                    (c < t[2] => t[2] > 1) /\ (c > t[2] => t[2] < Width - 2)}
  IN  (rows \X columns) \cup (IF t[2] < Width - 1 THEN {<<t[1], t[2] + 1>>} ELSE {})

Init ==
  /\ phase = "carving"
  /\ visited = (Tiles \ Interior) \cup MarkVisited(Start)
  /\ stack = <<Start>>
  /\ space = {Start}
  /\ links = {}
  /\ scanned = 0

\* Variants: room up to the outer wall; room that misses the last row of cells
RoomToTheEdge(t, d) ==
  CASE d = "down" -> t[1] < Height - 1
    [] d = "right" -> t[2] < Width - 1
    [] d = "up" -> t[1] > 0
    [] d = "left" -> t[2] > 0
RoomShortOfTheEdge(t, d) ==
  CASE d = "down" -> t[1] < Height - 4
    [] d = "right" -> t[2] < Width - 3
    [] d = "up" -> t[1] > 2
    [] d = "left" -> t[2] > 2

\* The next cell in this direction is inside the outer walls
HasRoom(t, d) ==
  CASE d = "down" -> t[1] < Height - 3
    [] d = "right" -> t[2] < Width - 3
    [] d = "up" -> t[1] > 2
    [] d = "left" -> t[2] > 2

Neighbors(t) == {d \in Directions : HasRoom(t, d) /\ Step(t, d, 2) \notin visited}

Carving == phase = "carving" /\ visited # Tiles

\* Carve on from the top of the stack into one of its unvisited neighbours
Carve(d) ==
  /\ Carving /\ stack # <<>>
  /\ d \in Neighbors(Last(stack))
  /\ LET top == Last(stack)
         cell == Step(top, d, 2)
     IN  /\ stack' = Append(stack, cell)
         /\ visited' = visited \cup MarkVisited(cell)
         /\ space' = space \cup {Step(top, d, 1), cell}
         /\ links' = links \cup Passage(top, d)
  /\ UNCHANGED <<phase, scanned>>

\* Variant: nothing is popped
KeepTop ==
  /\ Carving /\ stack # <<>>
  /\ Neighbors(Last(stack)) = {}
  /\ UNCHANGED vars

Backtrack ==
  /\ Carving /\ stack # <<>>
  /\ Neighbors(Last(stack)) = {}
  /\ stack' = Front(stack)
  /\ UNCHANGED <<phase, visited, space, links, scanned>>

\* Variant: carve returns when the walk is back at its start
CarvedAtStart ==
  /\ phase = "carving" /\ Len(stack) = 1
  /\ phase' = "opening"
  /\ UNCHANGED <<visited, stack, space, links, scanned>>

\* checkVisited(): carve returns, openUpMap begins
Carved ==
  /\ phase = "carving" /\ visited = Tiles
  /\ phase' = "opening"
  /\ UNCHANGED <<visited, stack, space, links, scanned>>

----------------------------------------------------------------------------
(* Opening dead ends *)

\* The directions openUpMap considers: away from an outer wall the tile lies at
Possible(t) ==
  LET away == (IF t[2] = Width - 2 THEN {"left"} ELSE IF t[2] = 1 THEN {"right"} ELSE {})
        \cup (IF t[1] = Height - 2 THEN {"up"} ELSE IF t[1] = 1 THEN {"down"} ELSE {})
  IN  IF away = {} THEN Directions ELSE away

\* nodeDirections: what it calls right is the neighbour in the column before, and left
\* the one in the column after
NodeDirections(t) ==
  {d \in Directions :
     LET seen == CASE d = "left" -> "right" [] d = "right" -> "left" [] OTHER -> d
     IN  {t, Step(t, seen, 1)} \in links}

\* The directions in which a dead end is opened.  No direction changes what the
\* conditions of another one read, so the loop over them is one step
Opened(t) ==
  IF Degree(t) # 1 THEN {}
  ELSE {d \in Possible(t) \ NodeDirections(t) :
          Degree(Step(t, d, 1)) <= 1 /\ Degree(Step(t, d, 2)) <= 2}

\* Row by row, column by column
Scanned == <<scanned \div Width, scanned % Width>>

OpenUp ==
  /\ phase = "opening" /\ scanned < Height * Width
  /\ LET t == Scanned IN
       /\ space' = space \cup {Step(t, d, k) : d \in Opened(t), k \in {1, 2}}
       /\ links' = links \cup UNION {Passage(t, d) : d \in Opened(t)}
  /\ scanned' = scanned + 1
  /\ UNCHANGED <<phase, visited, stack>>

Generated ==
  /\ phase = "opening" /\ scanned = Height * Width
  /\ phase' = "done"
  /\ UNCHANGED <<visited, stack, space, links, scanned>>

Next ==
  \/ \E d \in Directions : Carve(d)
  \/ Backtrack \/ Carved \/ OpenUp \/ Generated

Spec == Init /\ [][Next]_vars

\* init runs on one thread until it returns
FairSpec == Spec /\ WF_vars(Next)

----------------------------------------------------------------------------
(* The other device *)

\* Maze(from:): every space off the first row and column is connected, one way, to
\* the spaces next to it
JoinerConnections ==
  LET looked == {t \in space : t[1] \notin {0, Height} /\ t[2] \notin {0, Width}}
  IN  UNION {{t} \X (space \cap {Step(t, d, 1) : d \in Directions}) : t \in looked}

----------------------------------------------------------------------------
(* Properties *)

\* mazeStack.peek()! never fails: the walk leaves its start for good only when every
\* tile was visited.
NeverPeeksEmpty == Carving => stack # <<>>

\* One connection on from the tiles found
Nearby(found) == found \cup UNION {l \in links : l \cap found # {}}

\* The tiles reached from those found, and from the start, over connections
ReachedFrom[found \in SUBSET Tiles] ==
  IF Nearby(found) = found THEN found ELSE ReachedFrom[Nearby(found)]

Reached == ReachedFrom[{Start}]

\* While it is carved the maze is a tree: one path between any two spaces.  Opening
\* adds paths and never cuts one, so every space can always be reached from the start.
TreeThenConnected ==
  /\ Reached = space
  /\ phase = "carving" => Cardinality(links) = Cardinality(space) - 1

\* Every cell of the grid ends up in the maze, the spawn tiles of both sides included.
EveryCellIsSpace ==
  phase \in {"opening", "done"} =>
    \A t \in Interior : t[1] % 2 = 1 /\ t[2] % 2 = 1 => t \in space

\* The connections the joiner rebuilds from the spaces are those of the host, and its
\* loop never indexes a row or column outside of the grid.
JoinerRebuildsTheMaze ==
  /\ space \subseteq Interior
  /\ JoinerConnections = UNION {{e \in l \X l : e[1] # e[2]} : l \in links}
  /\ UNION links \subseteq space

\* The maze is finished, whatever turns the walk takes.
GenerationEnds == <>(phase = "done")

\* openUpMap leaves out of the directions it considers those that exist already.
OnlyExistingFiltered ==
  phase = "opening" /\ scanned < Height * Width /\ Degree(Scanned) = 1 =>
    \A d \in Possible(Scanned) \cap NodeDirections(Scanned) :
      {Scanned, Step(Scanned, d, 1)} \in links
=============================================================================
