-------------------------- MODULE TrophyPlacement --------------------------
(***************************************************************************)
(* Trophy.setRandomPosition in a finished maze: two breadth-first searches  *)
(* measure how far every tile is from the player and from the opponent, and *)
(* the trophy goes to a tile fair to both.  When there is none, the circles *)
(* around the two decide, and when those do not meet, distances along the   *)
(* axes.  Both sides stand in the middle of their tiles, as the opponent on  *)
(* its path and a player that has not moved yet do, so the coordinates the  *)
(* code compares are those of tiles.                                        *)
(***************************************************************************)
EXTENDS Maze

CONSTANTS
  MinLength,    \* a fair tile is farther than this from both sides: 36 in the code
  Similar,      \* and its two distances differ by at most this: 7
  Near, Far     \* the last resort: differences along the axes below Near (7), distances
                \* along the axes above Far (8)

ASSUME TrophyAssumption ==
  /\ MinLength \in Nat /\ Similar \in Nat /\ Near \in Nat /\ Far \in Nat

VARIABLES
  placing,    \* "no", "player" or "opponent" (whose distances are searched), "compare",
              \* "circles", "axes", "placed" or "failed"
  stand,      \* the tiles the two stand on
  queue,
  dist,       \* mappedDist1 and mappedDist2, -1 where visited is false
  trophy

trophyVars == <<placing, stand, queue, dist, trophy>>

Sides == {"player", "opponent"}
Unplaced == <<-1, -1>>
Unknown == [t \in Tiles |-> -1]

TrophyTypeOK ==
  /\ placing \in {"no", "player", "opponent", "compare", "circles", "axes", "placed",
                  "failed"}
  /\ stand \in [Sides -> space]
  /\ queue \in Seq(space)
  /\ dist \in [Sides -> [Tiles -> -1 .. Cardinality(space) - 1]]
  /\ trophy \in Tiles \cup {Unplaced}

TrophyInit ==
  /\ Init
  /\ placing = "no" /\ queue = << >> /\ trophy = Unplaced
  /\ stand = [s \in Sides |-> Start] /\ dist = [s \in Sides |-> Unknown]

----------------------------------------------------------------------------
(* The searches *)

\* Variant: the second search goes on in the map of the first
StartSearchUncleared(side, at) ==
  /\ placing' = side
  /\ queue' = <<at>>
  /\ dist' = [dist EXCEPT ![side] = [dist["player"] EXCEPT ![at] = 0]]

\* distances(from:using:) before its loop
StartSearch(side, at) ==
  /\ placing' = side
  /\ queue' = <<at>>
  /\ dist' = [dist EXCEPT ![side] = [Unknown EXCEPT ![at] = 0]]

\* setRandomPosition measures from the player first
MeasureDistances(tiles) ==
  /\ phase = "done" /\ placing = "no"
  /\ stand' = tiles
  /\ StartSearch("player", tiles["player"])
  /\ UNCHANGED <<vars, trophy>>

\* connectedNodes, of which the search enqueues the new ones in an order of their own
ConnectedNodes(t) == {u \in space : {t, u} \in links} \ {t}

Unvisited(root) == {t \in ConnectedNodes(root) : dist[placing][t] = -1}

Enqueue(order) == queue' = Tail(queue) \o order

Expand ==
  /\ placing \in Sides /\ queue # << >>
  /\ LET root == Head(queue)
     IN  /\ dist' = [dist EXCEPT ![placing] =
                       [t \in Tiles |-> IF t \in Unvisited(root) THEN @[root] + 1 ELSE @[t]]]
         /\ \E order \in SetToSeqs(Unvisited(root)) : Enqueue(order)
  /\ UNCHANGED <<vars, placing, stand, trophy>>

Searched ==
  /\ placing \in Sides /\ queue = << >>
  /\ \/ placing = "player" /\ StartSearch("opponent", stand["opponent"])
     \/ placing = "opponent" /\ placing' = "compare" /\ UNCHANGED <<queue, dist>>
  /\ UNCHANGED <<vars, stand, trophy>>

----------------------------------------------------------------------------
(* The choice *)

\* Fairness of a tile by two maps of distances: more than MinLength, where the comment
\* before the function has "Atleast" (see AtLeastIsEnough)
Fair(map1, map2, t) ==
  /\ map1[t] > MinLength /\ map2[t] > MinLength
  /\ map2[t] + Similar >= map1[t] /\ map2[t] - Similar <= map1[t]

\* Variant: only the player's distance counts
ViableForPlayer == {t \in Tiles : dist["player"][t] > MinLength}

Viable == {t \in Tiles : Fair(dist["player"], dist["opponent"], t)}

PlaceAt(t) == trophy' = t /\ placing' = "placed"

MSTBasedFairPosition ==
  /\ placing = "compare"
  /\ \/ /\ \E t \in Viable : PlaceAt(t)
     \/ /\ Viable = {} /\ placing' = "circles" /\ UNCHANGED trophy
  /\ UNCHANGED <<vars, stand, queue, dist>>

Apart(x, y) == IF x > y THEN x - y ELSE y - x
Rows(t, u) == Apart(t[1], u[1])
Columns(t, u) == Apart(t[2], u[2])

\* intersectTwoCircles of circles whose diameter is the greater of the two distances
\* along the axes: they touch in one point, midway, when the two are aligned, and do
\* not meet otherwise
CirclesTouch ==
  /\ stand["player"] # stand["opponent"]
  /\ \/ stand["player"][1] = stand["opponent"][1]
     \/ stand["player"][2] = stand["opponent"][2]

\* indexFrom rounds a point midway between two columns to either
MiddleColumns ==
  LET sum == stand["player"][2] + stand["opponent"][2]
  IN  {sum \div 2, (sum + 1) \div 2}

NoCircles ==
  /\ placing = "circles" /\ ~CirclesTouch
  /\ placing' = "axes"
  /\ UNCHANGED <<vars, stand, queue, dist, trophy>>

\* The directions changeToNeighbour tries, in order
PossibleDirections(t) ==
  LET sideways == IF t[2] = Width - 2 THEN <<"left">>
                  ELSE IF t[2] = 1 THEN <<"right">> ELSE << >>
      vertical == IF t[1] = Height - 2 THEN <<"up">>
                  ELSE IF t[1] = 1 THEN <<"down">> ELSE << >>
  IN  IF sideways \o vertical = << >> THEN <<"up", "down", "left", "right">>
      ELSE sideways \o vertical

\* Here "up" is a row more, where the walk of the maze goes up by a row less
Neighbour(t, d) ==
  Step(t, CASE d = "up" -> "down" [] d = "down" -> "up" [] OTHER -> d, 1)

\* changeToNeighbour: the first neighbour tried that is a space, but an index outside
\* of the tiles on the way to it, and a nil when there is none, end the program
ChangeToNeighbour(t) ==
  LET tried == [i \in DOMAIN PossibleDirections(t) |->
                  Neighbour(t, PossibleDirections(t)[i])]
      spaces == {i \in DOMAIN tried : tried[i] \in space}
      first == CHOOSE i \in spaces : \A j \in spaces : i <= j
  IN  IF spaces # {} /\ (\A i \in 1 .. first : tried[i] \in Tiles)
      THEN PlaceAt(tried[first])
      ELSE placing' = "failed" /\ UNCHANGED trophy

\* A random point of the vertical line through the one solution: any row of the scene
CircleBasedRandomPositioning(row) ==
  /\ placing = "circles" /\ CirclesTouch
  /\ \E column \in MiddleColumns :
       LET t == <<row, column>>
       IN  \/ t \in space /\ PlaceAt(t)
           \/ t \notin space /\ ChangeToNeighbour(t)
  /\ UNCHANGED <<vars, stand, queue, dist>>

\* getRandomTile takes tiles[1][1] when no tile fulfils the condition
XimingsRandomTrophyPositioning ==
  LET player == stand["player"]
      opponent == stand["opponent"]
      chosen == {t \in space :
                   /\ Apart(Columns(t, player), Columns(t, opponent)) < Near
                   /\ Apart(Rows(t, player), Rows(t, opponent)) < Near
                   /\ Columns(t, player) > Far /\ Rows(t, player) > Far}
  IN  /\ placing = "axes"
      /\ \E t \in IF chosen = {} THEN {Start} ELSE chosen : PlaceAt(t)
      /\ UNCHANGED <<vars, stand, queue, dist>>

TrophyNext ==
  \/ Next /\ UNCHANGED trophyVars
  \/ \E tiles \in [Sides -> space] : MeasureDistances(tiles)
  \/ Expand \/ Searched \/ MSTBasedFairPosition \/ NoCircles
  \/ \E row \in 0 .. Height - 1 : CircleBasedRandomPositioning(row)
  \/ XimingsRandomTrophyPositioning

TrophySpec == TrophyInit /\ [][TrophyNext]_<<vars, trophyVars>>

----------------------------------------------------------------------------
(* Properties *)

\* The lengths of the shortest paths from s through the maze: the one map in which
\* every space but s is one step more than the least of the spaces connected to it
ShortestFrom(map, s) ==
  /\ \A t \in Tiles : map[t] = -1 <=> t \notin space
  /\ \A t \in space :
       /\ map[t] = 0 <=> t = s
       /\ t # s => \E u \in ConnectedNodes(t) : map[t] = map[u] + 1
       /\ \A u \in ConnectedNodes(t) : map[t] <= map[u] + 1

\* The searches find the shortest distances, whatever order a node lists its neighbours
\* in and with the loops that opened dead ends add to the maze; walls stay at -1.
SearchesAreShortest ==
  placing = "compare" => \A s \in Sides : ShortestFrom(dist[s], stand[s])

\* Wherever it is placed, the trophy lies on a space (so both can reach it), and on a
\* fair one whenever the maze has one.  Fair is what the comparison of the code calls
\* fair, which leaves out the tiles at exactly MinLength.
TrophyIsFairIfItCan ==
  placing = "placed" =>
    LET fair == {t \in space : Fair(dist["player"], dist["opponent"], t)}
    IN  trophy \in (IF fair = {} THEN space ELSE fair)

\* A tile at least MinLength away from both sides, at similar distances, is taken
\* whenever the maze has one, as the comment says (Trophy.swift:53).
AtLeastIsEnough ==
  placing = "placed" =>
    LET fair == {t \in space :
                   /\ dist["player"][t] >= MinLength /\ dist["opponent"][t] >= MinLength
                   /\ Apart(dist["player"][t], dist["opponent"][t]) <= Similar}
    IN  fair # {} => trophy \in fair

\* A point that falls on a wall is moved to the nearest space (Trophy.swift:223-224).
FallbackFindsASpace == placing # "failed"
=============================================================================
