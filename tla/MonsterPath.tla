---------------------------- MODULE MonsterPath ----------------------------
(***************************************************************************)
(* Monster: where one of the four monsters starts (setRandomPosition), and   *)
(* the path it repeats for ever (generatePath): two random walks from one    *)
(* space, each walked to its end and back.  It is made in the finished maze. *)
(***************************************************************************)
EXTENDS Maze

CONSTANTS
  Margin,    \* tiles between the middle of the screen and the monsters' quarters: 2
  Steps      \* the longest walk: 5 in the code

ASSUME MonsterAssumption == Margin \in Nat /\ Steps \in Nat \ {0}

VARIABLES
  walking,          \* "no", "first", "second", "made" or "repeat"
  path1, path2,     \* spaces of the two walks
  firstDirection,   \* the space the first walk went to, or Nowhere
  path              \* the spaces the monster moves to, over and over

monsterVars == <<walking, path1, path2, firstDirection, path>>

Nowhere == <<-1, -1>>

PathTypeOK ==
  /\ walking \in {"no", "first", "second", "made", "repeat"}
  /\ \A w \in {path1, path2} : Range(w) \subseteq space /\ Len(w) <= Steps + 1
  /\ walking # "no" => path1[1] = path2[1]
  /\ firstDirection \in space \cup {Nowhere}
  /\ Range(path) \subseteq space /\ Len(path) <= 4 * (Steps + 1)

MonsterInit ==
  /\ Init
  /\ walking = "no"
  /\ path1 = <<>> /\ path2 = <<>> /\ path = <<>>
  /\ firstDirection = Nowhere

\* The quarter of the screen a monster of this number belongs to; rows go up
Quarter(number) ==
  LET beyond(x, middle) == x > middle + Margin
      before(x, middle) == x < middle - Margin
      row == (Height - 1) \div 2
      column == (Width - 1) \div 2
  IN  CASE number % 4 = 0 -> {t \in space : beyond(t[2], column) /\ before(t[1], row)}
        [] number % 4 # 0 /\ number % 3 = 0 ->
             {t \in space : before(t[2], column) /\ before(t[1], row)}
        [] number % 4 # 0 /\ number % 3 # 0 /\ number % 2 = 0 ->
             {t \in space : before(t[2], column) /\ beyond(t[1], row)}
        [] OTHER -> {t \in space : beyond(t[2], column) /\ beyond(t[1], row)}

\* A space with more than two ways, or tiles[1][1] when its quarter has none
Starts(number) ==
  LET crossings == {t \in Quarter(number) : Degree(t) > 2}
  IN  IF crossings = {} THEN {Start} ELSE crossings

\* Numbers 1 to MAX_MONSTERS.  The monsters a joiner rebuilds have number 0, which is
\* the quarter of number 4
SetRandomPosition(number, t) ==
  /\ phase = "done" /\ walking = "no"
  /\ t \in Starts(number)
  /\ path1' = <<t>> /\ path2' = <<t>>
  /\ walking' = "first"
  /\ UNCHANGED <<vars, firstDirection, path>>

\* The connected nodes of the last space of a walk
Connected(walk) == {t \in space : {Last(walk), t} \in links} \ {Last(walk)}

\* Those a walk may go to: not where it has been
Ahead(walk) == Connected(walk) \ Range(walk)

\* The step that ends for counter in 1...5
LastStep(walk) == Len(walk) = Steps

FirstPath(t) ==
  /\ walking = "first" /\ t \in Ahead(path1)
  /\ path1' = Append(path1, t)
  /\ firstDirection' = IF Len(path1) = 1 THEN t ELSE firstDirection
  /\ walking' = IF LastStep(path1) THEN "second" ELSE "first"
  /\ UNCHANGED <<vars, path2, path>>

\* In case of dead end: the first direction is forgotten, however long the walk
FirstDeadEnd ==
  /\ walking = "first" /\ Ahead(path1) = {}
  /\ firstDirection' = Nowhere
  /\ walking' = "second"
  /\ UNCHANGED <<vars, path1, path2, path>>

\* Variant: the first direction is open to the second walk too
AheadAnywhere == Ahead(path2)

\* Remove possibility of traversing the first path
AheadAgain == IF Len(path2) = 1 THEN Ahead(path2) \ {firstDirection} ELSE Ahead(path2)

SecondPath(t) ==
  /\ walking = "second" /\ t \in AheadAgain
  /\ path2' = Append(path2, t)
  /\ walking' = IF LastStep(path2) THEN "made" ELSE "second"
  /\ UNCHANGED <<vars, path1, firstDirection, path>>

SecondDeadEnd ==
  /\ walking = "second" /\ AheadAgain = {}
  /\ walking' = "made"
  /\ UNCHANGED <<vars, path1, path2, firstDirection, path>>

\* Variant: the second walk is not walked back
OneWay == path1 \o Reverse(path1) \o path2

ThereAndBack == path1 \o Reverse(path1) \o path2 \o Reverse(path2)

GeneratePath ==
  /\ walking = "made"
  /\ path' = ThereAndBack
  /\ walking' = "repeat"
  /\ UNCHANGED <<vars, path1, path2, firstDirection>>

MonsterNext ==
  \/ Next /\ UNCHANGED monsterVars
  \/ \E number \in 1 .. 4, t \in space : SetRandomPosition(number, t)
  \/ \E t \in space : FirstPath(t) \/ SecondPath(t)
  \/ FirstDeadEnd \/ SecondDeadEnd \/ GeneratePath

MonsterSpec == MonsterInit /\ [][MonsterNext]_<<vars, monsterVars>>

\* One thread runs both loops to their end
MonsterFairSpec == MonsterSpec /\ WF_<<vars, monsterVars>>(MonsterNext)

----------------------------------------------------------------------------
(* Properties *)

\* A monster moves in straight lines from one tile of its path to the next, and is not
\* stopped by walls: every move, the one from the last tile back to the first included,
\* stays where it is or takes an open passage of the maze.
StaysInTheMaze ==
  walking = "repeat" =>
    \A i \in 1 .. Len(path) :
      LET next == path[(i % Len(path)) + 1]
      IN  path[i] = next \/ {path[i], next} \in links

\* The second walk does not set out the way the first one did, unless the first ran into
\* a dead end, and the monster of a crossing always has two walks.
WalksPart ==
  walking = "repeat" =>
    /\ Len(path1) > 1 /\ Len(path2) > 1 /\ path1[2] = path2[2] =>
         Len(path1) <= Steps /\ Degree(Last(path1)) = 1
    /\ Degree(path1[1]) > 1 => Len(path1) > 1 /\ Len(path2) > 1

\* The walks set out in different directions (Monster.swift:129).
FirstPathNotTaken ==
  walking = "repeat" /\ Len(path1) > 1 /\ Len(path2) > 1 => path1[2] # path2[2]
=============================================================================
