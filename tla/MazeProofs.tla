------------------------------ MODULE MazeProofs ------------------------------
(***************************************************************************)
(* Proofs about Maze, MonsterPath and TrophyPlacement, for every grid.      *)
(*                                                                          *)
(* The maze is cells, the tiles with two odd coordinates, and halls between *)
(* two cells.  Whatever is dug, by the walk or by openUpMap, is halls that  *)
(* lead from a cell that was reached to another cell; so the connections are *)
(* those the halls show, every space can be reached, and a ring of halls is *)
(* longer than the walk of a monster.  Induction over the grid is the choice *)
(* of a least counterexample: the cell nearest to the start, the largest set *)
(* of tiles, the tile nearest by one of two maps.                           *)
(***************************************************************************)
EXTENDS MonsterPath, TrophyPlacement, FiniteSetTheorems, SequenceTheorems, TLAPS

----------------------------------------------------------------------------
(* The shape of a maze *)

Odd(n) == n % 2 = 1

Cells == {t \in Interior : Odd(t[1]) /\ Odd(t[2])}
Halls == {t \in Interior : (Odd(t[1]) /\ ~Odd(t[2])) \/ (~Odd(t[1]) /\ Odd(t[2]))}

\* The two cells a hall joins
Ends(p) == IF Odd(p[1]) THEN {<<p[1], p[2] - 1>>, <<p[1], p[2] + 1>>}
                        ELSE {<<p[1] - 1, p[2]>>, <<p[1] + 1, p[2]>>}

Doors(p) == {{p, e} : e \in Ends(p)}

\* Spaces are cells and halls, a hall's two cells are spaces, and its doors to them are
\* all the connections there are
Shape ==
  /\ space \subseteq Cells \cup Halls /\ Start \in space
  /\ \A p \in space \cap Halls : Ends(p) \subseteq space
  /\ links = UNION {Doors(p) : p \in space \cap Halls}

\* Whatever holds the start and is closed under connections is all of the maze
Whole ==
  \A S \in SUBSET space :
    Start \in S /\ (\A l \in links : l \cap S # {} => l \subseteq S) => S = space

----------------------------------------------------------------------------
(* Numbers and tiles *)

\* Odd and even numbers alternate.
LEMMA Parity ==
  ASSUME NEW n \in Int
  PROVE  /\ Odd(n + 1) <=> ~Odd(n)
         /\ Odd(n - 1) <=> ~Odd(n)
         /\ Odd(n + 2) <=> Odd(n)
         /\ Odd(n - 2) <=> Odd(n)
  BY DEF Odd

LEMMA OneOrMore ==
  ASSUME NEW n \in Nat, n >= 1
  PROVE  n = 1 \/ n > 1
  OBVIOUS

LEMMA GridSides ==
  /\ Height \in Nat /\ Height >= 5 /\ Odd(Height)
  /\ Width \in Nat /\ Width >= 5 /\ Odd(Width)
  /\ Odd(1)
  BY MazeAssumption DEF Odd

LEMMA TilesAreTuples ==
  /\ \A t \in Tiles : t = <<t[1], t[2]>> /\ t[1] \in 0 .. Height - 1 /\ t[2] \in 0 .. Width - 1
  /\ \A t \in Interior : /\ t = <<t[1], t[2]>>
                         /\ t[1] \in 1 .. Height - 2 /\ t[2] \in 1 .. Width - 2
                         /\ t[1] \in Int /\ t[2] \in Int
  /\ \A r, c : <<r, c>> \in Tiles <=> r \in 0 .. Height - 1 /\ c \in 0 .. Width - 1
  /\ \A r, c : <<r, c>> \in Interior <=> r \in 1 .. Height - 2 /\ c \in 1 .. Width - 2
  /\ Interior \subseteq Tiles
  BY GridSides DEF Tiles, Interior

LEMMA StepFrom ==
  ASSUME NEW t, NEW k
  PROVE  /\ Step(t, "up", k) = <<t[1] - k, t[2]>>
         /\ Step(t, "down", k) = <<t[1] + k, t[2]>>
         /\ Step(t, "left", k) = <<t[1], t[2] - k>>
         /\ Step(t, "right", k) = <<t[1], t[2] + k>>
  BY DEF Step

LEMMA StepFromTuple ==
  ASSUME NEW a \in Int, NEW b \in Int, NEW k \in Int
  PROVE  /\ Step(<<a, b>>, "up", k) = <<a - k, b>>
         /\ Step(<<a, b>>, "down", k) = <<a + k, b>>
         /\ Step(<<a, b>>, "left", k) = <<a, b - k>>
         /\ Step(<<a, b>>, "right", k) = <<a, b + k>>
<1>1. <<a, b>>[1] = a /\ <<a, b>>[2] = b
  OBVIOUS
<1> QED BY <1>1, StepFrom

\* Two tiles on from a cell there is a cell, and a hall between them.
LEMMA StepsFromCell ==
  ASSUME NEW t \in Cells, NEW d \in Directions, Step(t, d, 2) \in Interior
  PROVE  /\ Step(t, d, 2) \in Cells
         /\ Step(t, d, 1) \in Halls
         /\ Ends(Step(t, d, 1)) = {t, Step(t, d, 2)}
         /\ Passage(t, d) = Doors(Step(t, d, 1))
<1>1. /\ t \in Interior /\ Odd(t[1]) /\ Odd(t[2])
      /\ t = <<t[1], t[2]>> /\ t[1] \in Int /\ t[2] \in Int
      /\ t[1] \in 1 .. Height - 2 /\ t[2] \in 1 .. Width - 2
  BY TilesAreTuples DEF Cells
<1>2. /\ Odd(t[1] + 2) /\ Odd(t[1] - 2) /\ Odd(t[2] + 2) /\ Odd(t[2] - 2)
      /\ ~Odd(t[1] + 1) /\ ~Odd(t[1] - 1) /\ ~Odd(t[2] + 1) /\ ~Odd(t[2] - 1)
  BY <1>1, Parity
<1>3. Height \in Int /\ Width \in Int
  BY GridSides
<1> DEFINE m == Step(t, d, 1)
           c == Step(t, d, 2)
<1>4. c \in Cells /\ m \in Halls /\ Ends(m) = {t, c}
  <2>1. CASE d = "up"
    <3>1. c = <<t[1] - 2, t[2]>> /\ m = <<t[1] - 1, t[2]>>
      BY <2>1, StepFrom
    <3>2. t[1] - 2 \in 1 .. Height - 2 /\ t[1] - 1 \in 1 .. Height - 2
      BY <1>1, <1>3, <3>1, TilesAreTuples
    <3>3. c \in Cells /\ m \in Halls
      BY <1>1, <1>2, <3>1, <3>2, TilesAreTuples DEF Cells, Halls
    <3>4. Ends(m) = {<<(t[1] - 1) - 1, t[2]>>, <<(t[1] - 1) + 1, t[2]>>}
      BY <1>2, <3>1 DEF Ends
    <3>5. (t[1] - 1) - 1 = t[1] - 2 /\ (t[1] - 1) + 1 = t[1]
      BY <1>1
    <3> QED BY <1>1, <3>1, <3>3, <3>4, <3>5
  <2>2. CASE d = "down"
    <3>1. c = <<t[1] + 2, t[2]>> /\ m = <<t[1] + 1, t[2]>>
      BY <2>2, StepFrom
    <3>2. t[1] + 2 \in 1 .. Height - 2 /\ t[1] + 1 \in 1 .. Height - 2
      BY <1>1, <1>3, <3>1, TilesAreTuples
    <3>3. c \in Cells /\ m \in Halls
      BY <1>1, <1>2, <3>1, <3>2, TilesAreTuples DEF Cells, Halls
    <3>4. Ends(m) = {<<(t[1] + 1) - 1, t[2]>>, <<(t[1] + 1) + 1, t[2]>>}
      BY <1>2, <3>1 DEF Ends
    <3>5. (t[1] + 1) - 1 = t[1] /\ (t[1] + 1) + 1 = t[1] + 2
      BY <1>1
    <3> QED BY <1>1, <3>1, <3>3, <3>4, <3>5
  <2>3. CASE d = "left"
    <3>1. c = <<t[1], t[2] - 2>> /\ m = <<t[1], t[2] - 1>>
      BY <2>3, StepFrom
    <3>2. t[2] - 2 \in 1 .. Width - 2 /\ t[2] - 1 \in 1 .. Width - 2
      BY <1>1, <1>3, <3>1, TilesAreTuples
    <3>3. c \in Cells /\ m \in Halls
      BY <1>1, <1>2, <3>1, <3>2, TilesAreTuples DEF Cells, Halls
    <3>4. Ends(m) = {<<t[1], (t[2] - 1) - 1>>, <<t[1], (t[2] - 1) + 1>>}
      BY <1>1, <3>1 DEF Ends
    <3>5. (t[2] - 1) - 1 = t[2] - 2 /\ (t[2] - 1) + 1 = t[2]
      BY <1>1
    <3> QED BY <1>1, <3>1, <3>3, <3>4, <3>5
  <2>4. CASE d = "right"
    <3>1. c = <<t[1], t[2] + 2>> /\ m = <<t[1], t[2] + 1>>
      BY <2>4, StepFrom
    <3>2. t[2] + 2 \in 1 .. Width - 2 /\ t[2] + 1 \in 1 .. Width - 2
      BY <1>1, <1>3, <3>1, TilesAreTuples
    <3>3. c \in Cells /\ m \in Halls
      BY <1>1, <1>2, <3>1, <3>2, TilesAreTuples DEF Cells, Halls
    <3>4. Ends(m) = {<<t[1], (t[2] + 1) - 1>>, <<t[1], (t[2] + 1) + 1>>}
      BY <1>1, <3>1 DEF Ends
    <3>5. (t[2] + 1) - 1 = t[2] /\ (t[2] + 1) + 1 = t[2] + 2
      BY <1>1
    <3> QED BY <1>1, <3>1, <3>3, <3>4, <3>5
  <2> QED BY <2>1, <2>2, <2>3, <2>4 DEF Directions
<1>5. Passage(t, d) = Doors(m)
  <2> HIDE DEF m, c
  <2>1. Passage(t, d) = {{t, m}, {m, c}}
    BY DEF Passage, m, c
  <2>2. Doors(m) = {{m, t}, {m, c}}
    BY <1>4 DEF Doors
  <2> QED BY <2>1, <2>2
<1> QED BY <1>4, <1>5

\* A cell is no hall.
LEMMA CellsAndHalls == Cells \cap Halls = {} /\ Start \in Cells
<1>1. Start \in Interior /\ Start[1] = 1 /\ Start[2] = 1
  BY GridSides DEF Start, Interior
<1> QED BY <1>1, GridSides DEF Cells, Halls

----------------------------------------------------------------------------
(* Digging *)

\* Halls dug from a cell that is a space to the cells two tiles on, in any of the
\* directions at once, make a maze of the same shape, all of it reached.
LEMMA Dug ==
  ASSUME Shape, NEW t \in Cells \cap space, NEW D \in SUBSET Directions,
         \A d \in D : Step(t, d, 2) \in Interior,
         space' = space \cup {Step(t, d, k) : d \in D, k \in {1, 2}},
         links' = links \cup UNION {Passage(t, d) : d \in D}
  PROVE  /\ Shape'
         /\ Whole => Whole'
<1>1. ASSUME NEW d \in D
      PROVE  /\ Step(t, d, 2) \in Cells /\ Step(t, d, 2) \notin Halls
             /\ Step(t, d, 1) \in Halls
             /\ Ends(Step(t, d, 1)) = {t, Step(t, d, 2)}
             /\ Passage(t, d) = Doors(Step(t, d, 1))
             /\ Step(t, d, 1) \in space' /\ Step(t, d, 2) \in space'
  <2>1. Step(t, d, 1) \in space' /\ Step(t, d, 2) \in space'
    OBVIOUS
  <2>2. /\ Step(t, d, 2) \in Cells
        /\ Step(t, d, 1) \in Halls
        /\ Ends(Step(t, d, 1)) = {t, Step(t, d, 2)}
        /\ Passage(t, d) = Doors(Step(t, d, 1))
    BY StepsFromCell
  <2> QED BY <2>1, <2>2, CellsAndHalls
<1>2. \A p \in space' : p \in space \/ \E d \in D : p = Step(t, d, 1) \/ p = Step(t, d, 2)
  OBVIOUS
<1>3. \A p \in space' \cap Halls : p \in space \/ \E d \in D : p = Step(t, d, 1)
  BY <1>1, <1>2
<1>4. space' \subseteq Cells \cup Halls /\ Start \in space'
  BY <1>1, <1>2 DEF Shape
<1>5. \A p \in space' \cap Halls : Ends(p) \subseteq space'
  BY <1>1, <1>3 DEF Shape
<1>6. links' = UNION {Doors(p) : p \in space' \cap Halls}
  <2>1. ASSUME NEW l \in links' PROVE \E p \in space' \cap Halls : l \in Doors(p)
    <3>1. CASE l \in links
      BY <3>1 DEF Shape
    <3>2. CASE l \notin links
      <4>1. PICK d \in D : l \in Passage(t, d)
        BY <2>1, <3>2
      <4> QED BY <1>1, <4>1
    <3> QED BY <3>1, <3>2
  <2>2. ASSUME NEW p \in space' \cap Halls, NEW l \in Doors(p) PROVE l \in links'
    <3>1. CASE p \in space
      BY <2>2, <3>1 DEF Shape
    <3>2. CASE p \notin space
      <4>1. PICK d \in D : p = Step(t, d, 1)
        BY <1>3, <3>2
      <4> QED BY <1>1, <2>2, <4>1
    <3> QED BY <3>1, <3>2
  <2> QED BY <2>1, <2>2
<1>7. Shape'
  BY <1>4, <1>5, <1>6 DEF Shape, Cells, Halls, Doors, Ends, Start, Interior
<1>8. ASSUME Whole PROVE Whole'
  <2> SUFFICES ASSUME NEW S \in SUBSET space', Start \in S,
                      \A l \in links' : l \cap S # {} => l \subseteq S
               PROVE  S = space'
    BY DEF Whole, Start
  <2>1. \A l \in links : l \subseteq space
    BY DEF Shape, Doors
  <2>2. \A l \in links : l \cap (S \cap space) # {} => l \subseteq S \cap space
    BY <2>1
  <2>3. S \cap space = space
    BY <1>8, <2>2 DEF Whole, Shape
  <2>4. ASSUME NEW d \in D PROVE Step(t, d, 1) \in S /\ Step(t, d, 2) \in S
    <3>1. /\ {Step(t, d, 1), t} \in links'
          /\ {Step(t, d, 1), Step(t, d, 2)} \in links'
      BY <1>1 DEF Doors
    <3>2. t \in S
      BY <2>3
    <3>3. Step(t, d, 1) \in S
      BY <3>1, <3>2
    <3> QED BY <3>1, <3>3
  <2> QED BY <1>2, <2>3, <2>4
<1> QED BY <1>7, <1>8

----------------------------------------------------------------------------
(* What the shape says *)

\* The two ends of a hall are cells, one step from it in opposite directions.
LEMMA EndsOfHall ==
  ASSUME NEW p \in Halls
  PROVE  /\ \A e \in Ends(p) : e \notin Halls /\ e # p
         /\ \E e, f \in Ends(p) : e # f
         /\ \A e \in Ends(p) : \E d \in Directions : e = Step(p, d, 1)
         /\ \A e \in Ends(p) : \E d \in Directions : p = Step(e, d, 1)
         /\ \A d \in Directions : Step(p, d, 1) \in Cells \cup Halls => Step(p, d, 1) \in Ends(p)
<1>1. /\ p = <<p[1], p[2]>> /\ p[1] \in Int /\ p[2] \in Int
      /\ (Odd(p[1]) /\ ~Odd(p[2])) \/ (~Odd(p[1]) /\ Odd(p[2]))
  BY TilesAreTuples DEF Halls
<1> DEFINE r == p[1]
           c == p[2]
<1>2. /\ Odd(r + 1) <=> ~Odd(r)
      /\ Odd(r - 1) <=> ~Odd(r)
      /\ Odd(c + 1) <=> ~Odd(c)
      /\ Odd(c - 1) <=> ~Odd(c)
  BY <1>1, Parity
<1>3. /\ Step(p, "up", 1) = <<r - 1, c>>
      /\ Step(p, "down", 1) = <<r + 1, c>>
      /\ Step(p, "left", 1) = <<r, c - 1>>
      /\ Step(p, "right", 1) = <<r, c + 1>>
  BY StepFrom
<1>4. /\ Step(<<r + 1, c>>, "up", 1) = p
      /\ Step(<<r - 1, c>>, "down", 1) = p
      /\ Step(<<r, c + 1>>, "left", 1) = p
      /\ Step(<<r, c - 1>>, "right", 1) = p
  <2>0. r \in Int /\ c \in Int /\ r + 1 \in Int /\ r - 1 \in Int /\ c + 1 \in Int /\ c - 1 \in Int
    BY <1>1
  <2> HIDE DEF r, c
  <2>1. /\ Step(<<r + 1, c>>, "up", 1) = <<(r + 1) - 1, c>>
        /\ Step(<<r - 1, c>>, "down", 1) = <<(r - 1) + 1, c>>
        /\ Step(<<r, c + 1>>, "left", 1) = <<r, (c + 1) - 1>>
        /\ Step(<<r, c - 1>>, "right", 1) = <<r, (c - 1) + 1>>
    BY <2>0, StepFromTuple
  <2>2. (r + 1) - 1 = r /\ (r - 1) + 1 = r /\ (c + 1) - 1 = c /\ (c - 1) + 1 = c
    BY <2>0
  <2>3. p = <<r, c>>
    BY <1>1 DEF r, c
  <2> QED BY <2>1, <2>2, <2>3
<1>5. {"up", "down", "left", "right"} = Directions
  BY DEF Directions
<1>6. \A a, b : <<a, b>> \in Cells \cup Halls => Odd(a) \/ Odd(b)
  BY DEF Cells, Halls
<1>7. \A a, b : <<a, b>> \in Halls => ~ (Odd(a) /\ Odd(b))
  BY DEF Halls
<1>8. CASE Odd(r)
  <2>1. Ends(p) = {<<r, c - 1>>, <<r, c + 1>>} /\ ~Odd(c) /\ Odd(c - 1) /\ Odd(c + 1)
    BY <1>1, <1>2, <1>8 DEF Ends
  <2>2. <<r, c - 1>> # <<r, c + 1>> /\ <<r, c - 1>> # p /\ <<r, c + 1>> # p
    BY <1>1
  <2>3. /\ \A e \in Ends(p) : e \notin Halls /\ e # p
        /\ \E e, f \in Ends(p) : e # f
    BY <1>7, <1>8, <2>1, <2>2
  <2>4. /\ \A e \in Ends(p) : \E d \in Directions : e = Step(p, d, 1)
        /\ \A e \in Ends(p) : \E d \in Directions : p = Step(e, d, 1)
    BY <1>3, <1>4, <1>5, <2>1
  <2>5. ~Odd(r + 1) /\ ~Odd(r - 1)
    BY <1>2, <1>8
  <2>6. \A d \in Directions : Step(p, d, 1) \in Cells \cup Halls => Step(p, d, 1) \in Ends(p)
    BY <1>3, <1>5, <1>6, <2>1, <2>5
  <2> QED BY <2>3, <2>4, <2>6
<1>9. CASE ~Odd(r)
  <2>1. Ends(p) = {<<r - 1, c>>, <<r + 1, c>>} /\ Odd(c) /\ Odd(r - 1) /\ Odd(r + 1)
    BY <1>1, <1>2, <1>9 DEF Ends
  <2>2. <<r - 1, c>> # <<r + 1, c>> /\ <<r - 1, c>> # p /\ <<r + 1, c>> # p
    BY <1>1
  <2>3. /\ \A e \in Ends(p) : e \notin Halls /\ e # p
        /\ \E e, f \in Ends(p) : e # f
    BY <1>7, <2>1, <2>2
  <2>4. /\ \A e \in Ends(p) : \E d \in Directions : e = Step(p, d, 1)
        /\ \A e \in Ends(p) : \E d \in Directions : p = Step(e, d, 1)
    BY <1>3, <1>4, <1>5, <2>1
  <2>5. ~Odd(c + 1) /\ ~Odd(c - 1)
    BY <1>2, <2>1
  <2>6. \A d \in Directions : Step(p, d, 1) \in Cells \cup Halls => Step(p, d, 1) \in Ends(p)
    BY <1>3, <1>5, <1>6, <1>9, <2>1, <2>5
  <2> QED BY <2>3, <2>4, <2>6
<1> QED BY <1>8, <1>9

\* Next to a cell there are no other cells.
LEMMA NextToCell ==
  ASSUME NEW t \in Cells, NEW d \in Directions
  PROVE  /\ Step(t, d, 1) \notin Cells
         /\ Step(t, d, 1) \in Halls => t \in Ends(Step(t, d, 1))
<1>1. t = <<t[1], t[2]>> /\ t[1] \in Int /\ t[2] \in Int /\ Odd(t[1]) /\ Odd(t[2])
  BY TilesAreTuples DEF Cells
<1> DEFINE r == t[1]
           c == t[2]
<1>2. ~Odd(r + 1) /\ ~Odd(r - 1) /\ ~Odd(c + 1) /\ ~Odd(c - 1)
  BY <1>1, Parity
<1>3. \A a, b : <<a, b>> \in Cells => Odd(a) /\ Odd(b)
  BY DEF Cells
<1>4. (r + 1) - 1 = r /\ (r - 1) + 1 = r /\ (c + 1) - 1 = c /\ (c - 1) + 1 = c
  BY <1>1
<1>5. CASE d = "up"
  <2>1. Step(t, d, 1) = <<r - 1, c>>
    BY <1>5, StepFrom
  <2>2. t \in Ends(<<r - 1, c>>)
    BY <1>1, <1>2, <1>4 DEF Ends
  <2> QED BY <1>2, <1>3, <2>1, <2>2
<1>6. CASE d = "down"
  <2>1. Step(t, d, 1) = <<r + 1, c>>
    BY <1>6, StepFrom
  <2>2. t \in Ends(<<r + 1, c>>)
    BY <1>1, <1>2, <1>4 DEF Ends
  <2> QED BY <1>2, <1>3, <2>1, <2>2
<1>7. CASE d = "left"
  <2>1. Step(t, d, 1) = <<r, c - 1>>
    BY <1>7, StepFrom
  <2>2. t \in Ends(<<r, c - 1>>)
    BY <1>1, <1>4 DEF Ends
  <2> QED BY <1>2, <1>3, <2>1, <2>2
<1>8. CASE d = "right"
  <2>1. Step(t, d, 1) = <<r, c + 1>>
    BY <1>8, StepFrom
  <2>2. t \in Ends(<<r, c + 1>>)
    BY <1>1, <1>4 DEF Ends
  <2> QED BY <1>2, <1>3, <2>1, <2>2
<1> QED BY <1>5, <1>6, <1>7, <1>8 DEF Directions

\* A connection joins a hall and a cell, both spaces.
LEMMA LinksJoin ==
  ASSUME Shape, NEW l \in links
  PROVE  \E p \in space \cap Halls, e \in space \cap Cells :
           e \in Ends(p) /\ l = {p, e} /\ p # e
<1>1. PICK p \in space \cap Halls : l \in Doors(p)
  BY DEF Shape
<1>2. PICK e \in Ends(p) : l = {p, e}
  BY <1>1 DEF Doors
<1>3. e \notin Halls /\ e # p
  BY <1>2, EndsOfHall
<1>4. e \in space /\ e \in Cells
  BY <1>2, <1>3 DEF Shape
<1> QED BY <1>2, <1>3, <1>4

\* Two spaces are connected exactly if they are next to each other.
LEMMA LinksAreSteps ==
  ASSUME Shape, NEW t \in space, NEW u \in space
  PROVE  {t, u} \in links <=> \E d \in Directions : u = Step(t, d, 1)
<1>1. ASSUME {t, u} \in links PROVE \E d \in Directions : u = Step(t, d, 1)
  <2>1. PICK p \in space \cap Halls, e \in space \cap Cells :
          e \in Ends(p) /\ {t, u} = {p, e} /\ p # e
    BY <1>1, LinksJoin
  <2>2. (t = p /\ u = e) \/ (t = e /\ u = p)
    BY <2>1
  <2> QED BY <2>1, <2>2, EndsOfHall
<1>2. ASSUME NEW d \in Directions, u = Step(t, d, 1) PROVE {t, u} \in links
  <2>1. t \in Cells \cup Halls /\ u \in Cells \cup Halls
    BY DEF Shape
  <2>2. CASE t \in Halls
    <3>1. u \in Ends(t)
      BY <1>2, <2>1, <2>2, EndsOfHall
    <3> QED BY <2>2, <3>1 DEF Shape, Doors
  <2>3. CASE t \in Cells
    <3>1. u \in Halls /\ t \in Ends(u)
      BY <1>2, <2>1, <2>3, NextToCell
    <3>2. {u, t} \in links
      BY <3>1 DEF Shape, Doors
    <3> QED BY <3>2
  <2> QED BY <2>1, <2>2, <2>3
<1> QED BY <1>1, <1>2

\* There are finitely many tiles, spaces and connections.
LEMMA AllFinite ==
  ASSUME Shape
  PROVE  /\ IsFiniteSet(Tiles) /\ space \subseteq Tiles /\ IsFiniteSet(space)
         /\ links \subseteq SUBSET space /\ IsFiniteSet(links)
<1>1. IsFiniteSet(0 .. Height - 1) /\ IsFiniteSet(0 .. Width - 1)
  BY FS_Interval, GridSides
<1>2. IsFiniteSet(Tiles)
  BY <1>1, FS_Product DEF Tiles
<1>3. space \subseteq Tiles
  BY TilesAreTuples DEF Shape, Cells, Halls
<1>4. IsFiniteSet(space)
  BY <1>2, <1>3, FS_Subset
<1>5. links \subseteq SUBSET space
  BY LinksJoin
<1>6. IsFiniteSet(links)
  BY <1>4, <1>5, FS_SUBSET, FS_Subset
<1> QED BY <1>2, <1>3, <1>4, <1>5, <1>6

\* A pair has two elements, and a set with two different ones has more than one.
LEMMA Pairs ==
  ASSUME NEW x, NEW y, x # y
  PROVE  /\ IsFiniteSet({x, y}) /\ Cardinality({x, y}) = 2
         /\ \A S : IsFiniteSet(S) /\ x \in S /\ y \in S => Cardinality(S) >= 2
<1>1. IsFiniteSet({x}) /\ Cardinality({x}) = 1
  BY FS_Singleton
<1>2. {x} \cup {y} = {x, y} /\ y \notin {x}
  OBVIOUS
<1>3. IsFiniteSet({x, y}) /\ Cardinality({x, y}) = 2
  BY <1>1, <1>2, FS_AddElement
<1>4. ASSUME NEW S, IsFiniteSet(S), x \in S, y \in S PROVE Cardinality(S) >= 2
  <2>1. {x, y} \subseteq S
    BY <1>4
  <2>2. Cardinality({x, y}) <= Cardinality(S)
    BY <1>4, <2>1, FS_Subset
  <2>3. Cardinality(S) \in Nat
    BY <1>4, FS_CardinalityType
  <2> QED BY <1>3, <2>2, <2>3
<1> QED BY <1>3, <1>4

\* Connections of a tile: none for a wall, two at least for a hall, and no more than one
\* where only one space is connected (connectedNodes.count).
LEMMA Degrees ==
  ASSUME Shape, NEW t
  PROVE  /\ Degree(t) \in Nat
         /\ Degree(t) # 0 => t \in space
         /\ t \in space \cap Halls => Degree(t) >= 2
         /\ \A l \in links : t \in l => Degree(t) >= 1
         /\ \A x : {u \in space : {t, u} \in links} \subseteq {x} => Degree(t) <= 1
<1> DEFINE mine == {l \in links : t \in l}
<1>1. IsFiniteSet(mine) /\ Degree(t) = Cardinality(mine)
  BY AllFinite, FS_Subset DEF Degree
<1>2. Cardinality(mine) \in Nat
  BY <1>1, FS_CardinalityType
<1>3. ASSUME t \notin space PROVE Degree(t) = 0
  <2>1. mine = {}
    BY <1>3, AllFinite
  <2> QED BY <1>1, <2>1, FS_EmptySet
<1>4. ASSUME t \in space \cap Halls PROVE Degree(t) >= 2
  <2>1. PICK e \in Ends(t), f \in Ends(t) : e # f
    BY <1>4, EndsOfHall
  <2>2. {t, e} # {t, f} /\ e # t /\ f # t
    BY <1>4, <2>1, EndsOfHall
  <2>3. {t, e} \in mine /\ {t, f} \in mine
    BY <1>4 DEF Shape, Doors
  <2> HIDE DEF mine
  <2> QED BY <1>1, <2>2, <2>3, Pairs
<1>5. ASSUME NEW x, {u \in space : {t, u} \in links} \subseteq {x} PROVE Degree(t) <= 1
  <2>1. ASSUME NEW l \in mine PROVE l = {t, x}
    <3>1. PICK p \in space, e \in space : l = {p, e}
      BY LinksJoin
    <3> QED BY <1>5, <3>1
  <2>2. mine \subseteq {{t, x}}
    BY <2>1
  <2>3. IsFiniteSet({{t, x}}) /\ Cardinality({{t, x}}) = 1
    BY FS_Singleton
  <2> QED BY <1>1, <1>2, <2>2, <2>3, FS_Subset
<1>6. ASSUME NEW l \in links, t \in l PROVE Degree(t) >= 1
  <2>1. mine # {}
    BY <1>6
  <2>2. Cardinality(mine) # 0
    BY <1>1, <2>1, FS_EmptySet
  <2> QED BY <1>1, <1>2, <2>2
<1> QED BY <1>1, <1>2, <1>3, <1>4, <1>5, <1>6

----------------------------------------------------------------------------
(* Opening dead ends *)

\* openUpMap breaks into no outer wall: what it opens lies at a cell that is a space, and
\* two tiles on there is a cell, whichever directions it considers.
LEMMA OpenedInside ==
  ASSUME Shape, NEW t, NEW d \in Opened(t)
  PROVE  t \in space \cap Cells /\ d \in Directions /\ Step(t, d, 2) \in Interior
<1>1. Degree(t) = 1 /\ d \in Possible(t)
  BY DEF Opened
<1>2. t \in space \cap Cells
  BY <1>1, Degrees DEF Shape
<1>3. /\ t = <<t[1], t[2]>>
      /\ t[1] \in 1 .. Height - 2 /\ t[2] \in 1 .. Width - 2
      /\ t[1] \in Int /\ t[2] \in Int /\ Odd(t[1]) /\ Odd(t[2])
  BY <1>2, TilesAreTuples DEF Cells
<1>4. /\ t[1] # 1 => t[1] >= 3
      /\ t[2] # 1 => t[2] >= 3
      /\ t[1] # Height - 2 => t[1] <= Height - 4
      /\ t[2] # Width - 2 => t[2] <= Width - 4
  <2>1. Height \in Int /\ Width \in Int /\ Odd(Height) /\ Odd(Width) /\ Odd(1)
    BY GridSides
  <2>2. Height - 2 \in Int /\ Width - 2 \in Int
    BY <2>1
  <2>3. /\ ~Odd(1 + 1) /\ ~Odd((Height - 2) - 1) /\ ~Odd((Width - 2) - 1)
    BY <2>1, <2>2, Parity
  <2>4. t[1] # 2 /\ t[2] # 2 /\ t[1] # Height - 3 /\ t[2] # Width - 3
    <3>1. 1 + 1 = 2 /\ (Height - 2) - 1 = Height - 3 /\ (Width - 2) - 1 = Width - 3
      BY <2>1
    <3> QED BY <1>3, <2>3, <3>1
  <2> QED BY <1>3, <2>1, <2>4
<1>5. Height \in Int /\ Width \in Int /\ Height >= 5 /\ Width >= 5
  BY GridSides
<1>6. /\ d \in Directions
      /\ d = "up" => t[1] # 1
      /\ d = "down" => t[1] # Height - 2
      /\ d = "left" => t[2] # 1
      /\ d = "right" => t[2] # Width - 2
  <2> DEFINE sideways == IF t[2] = Width - 2 THEN {"left"} ELSE IF t[2] = 1 THEN {"right"} ELSE {}
             vertical == IF t[1] = Height - 2 THEN {"up"} ELSE IF t[1] = 1 THEN {"down"} ELSE {}
  <2>1. d \in sideways \cup vertical \/ (d \in Directions /\ sideways \cup vertical = {})
    BY <1>1 DEF Possible
  <2>2. d \in sideways \cup vertical => d \in Directions
    BY DEF Directions
  <2>3. CASE d \in sideways
    BY <1>3, <1>5, <2>3 DEF Directions
  <2>4. CASE d \in vertical
    BY <1>3, <1>5, <2>4 DEF Directions
  <2>5. CASE d \in Directions /\ sideways \cup vertical = {}
    <3>1. t[1] # 1 /\ t[1] # Height - 2 /\ t[2] # 1 /\ t[2] # Width - 2
      BY <2>5
    <3> QED BY <2>5, <3>1
  <2> QED BY <2>1, <2>3, <2>4, <2>5
<1>7. Step(t, d, 2) \in Interior
  <2>1. CASE d = "up"
    <3>1. Step(t, d, 2) = <<t[1] - 2, t[2]>>
      BY <2>1, StepFrom
    <3>2. t[1] - 2 \in 1 .. Height - 2
      BY <1>3, <1>4, <1>5, <1>6, <2>1
    <3> QED BY <1>3, <3>1, <3>2, TilesAreTuples
  <2>2. CASE d = "down"
    <3>1. Step(t, d, 2) = <<t[1] + 2, t[2]>>
      BY <2>2, StepFrom
    <3>2. t[1] + 2 \in 1 .. Height - 2
      BY <1>3, <1>4, <1>5, <1>6, <2>2
    <3> QED BY <1>3, <3>1, <3>2, TilesAreTuples
  <2>3. CASE d = "left"
    <3>1. Step(t, d, 2) = <<t[1], t[2] - 2>>
      BY <2>3, StepFrom
    <3>2. t[2] - 2 \in 1 .. Width - 2
      BY <1>3, <1>4, <1>5, <1>6, <2>3
    <3> QED BY <1>3, <3>1, <3>2, TilesAreTuples
  <2>4. CASE d = "right"
    <3>1. Step(t, d, 2) = <<t[1], t[2] + 2>>
      BY <2>4, StepFrom
    <3>2. t[2] + 2 \in 1 .. Width - 2
      BY <1>3, <1>4, <1>5, <1>6, <2>4
    <3> QED BY <1>3, <3>1, <3>2, TilesAreTuples
  <2> QED BY <1>6, <2>1, <2>2, <2>3, <2>4 DEF Directions
<1> QED BY <1>2, <1>6, <1>7

----------------------------------------------------------------------------
(* The walk *)

\* A set of numbers that is not empty has a least one.
LEMMA LeastNumber ==
  ASSUME NEW T \in SUBSET Nat, T # {}
  PROVE  \E n \in T : \A m \in T : n <= m
<1> DEFINE Below == {1 .. n : n \in T}
<1>1. Below \subseteq FiniteSubsetsOf(Nat) /\ Below # {}
  <2>1. \A n \in T : 1 .. n \in SUBSET Nat /\ IsFiniteSet(1 .. n)
    BY FS_Interval
  <2> QED BY <2>1 DEF FiniteSubsetsOf
<1>2. PICK x \in Below : \A y \in Below : ~ (<<y, x>> \in StrictSubsetOrdering(Nat))
  BY <1>1, FS_StrictSubsetOrderingWellFounded, WFMin
<1>3. PICK n \in T : x = 1 .. n
  OBVIOUS
<1>4. ASSUME NEW m \in T, m < n PROVE FALSE
  <2>1. 1 .. m \in Below /\ 1 .. m \subseteq 1 .. n /\ n \in 1 .. n /\ n \notin 1 .. m
    BY <1>4
  <2>2. <<1 .. m, 1 .. n>> \in StrictSubsetOrdering(Nat)
    BY <2>1 DEF StrictSubsetOrdering
  <2> QED BY <1>2, <1>3, <2>1, <2>2
<1> QED BY <1>4

\* markVisited marks tiles around a cell, itself included, of which it is the only cell;
\* away from the outer walls these are all the tiles around.
LEMMA Marked ==
  ASSUME NEW c \in Cells
  PROVE  /\ MarkVisited(c) \subseteq Tiles
         /\ c \in MarkVisited(c)
         /\ MarkVisited(c) \cap Cells = {c}
         /\ \A i, j \in {0, 1} :
              <<c[1] + i, c[2] + j>> \in Interior => <<c[1] + i, c[2] + j>> \in MarkVisited(c)
<1> DEFINE a == c[1]
           b == c[2]
           rows == {r \in {a - 1, a, a + 1} : (r < a => a > 1) /\ (r > a => a < Height - 2)}
           columns == {k \in {b - 1, b, b + 1} : (k < b => b > 1) /\ (k > b => b < Width - 2)}
           right == IF b < Width - 1 THEN {<<a, b + 1>>} ELSE {}
<1>1. /\ c = <<a, b>> /\ a \in Int /\ b \in Int /\ Odd(a) /\ Odd(b)
      /\ a \in 1 .. Height - 2 /\ b \in 1 .. Width - 2
      /\ Height \in Int /\ Width \in Int
  BY TilesAreTuples, GridSides DEF Cells
<1>2. MarkVisited(c) = (rows \X columns) \cup right
  BY DEF MarkVisited
<1>3. ~Odd(a - 1) /\ ~Odd(a + 1) /\ ~Odd(b - 1) /\ ~Odd(b + 1)
  BY <1>1, Parity
<1> HIDE DEF a, b
<1>4. rows \subseteq 0 .. Height - 1 /\ columns \subseteq 0 .. Width - 1
  BY <1>1
<1>5. right \subseteq Tiles
  <2>1. b + 1 \in 0 .. Width - 1 /\ a \in 0 .. Height - 1
    BY <1>1
  <2> QED BY <2>1, TilesAreTuples
<1>6. MarkVisited(c) \subseteq Tiles
  BY <1>2, <1>4, <1>5 DEF Tiles
<1>7. a \in rows /\ b \in columns
  BY <1>1
<1>8. c \in MarkVisited(c)
  BY <1>1, <1>2, <1>7
<1>9. ASSUME NEW t \in MarkVisited(c), t \in Cells PROVE t = c
  <2>1. t = <<t[1], t[2]>> /\ Odd(t[1]) /\ Odd(t[2])
    BY <1>9, TilesAreTuples DEF Cells
  <2>2. t \notin right
    BY <1>3, <2>1
  <2>3. t[1] \in {a - 1, a, a + 1} /\ t[2] \in {b - 1, b, b + 1}
    BY <1>2, <1>9, <2>2
  <2> QED BY <1>1, <1>3, <2>1, <2>3
<1>10. ASSUME NEW i \in {0, 1}, NEW j \in {0, 1}, <<a + i, b + j>> \in Interior
       PROVE  <<a + i, b + j>> \in MarkVisited(c)
  <2>1. a + i \in 1 .. Height - 2 /\ b + j \in 1 .. Width - 2
    BY <1>10, TilesAreTuples
  <2>2. a + i \in rows /\ b + j \in columns
    BY <1>1, <1>10, <2>1
  <2> QED BY <1>2, <2>2
<1> QED BY <1>6, <1>8, <1>9, <1>10 DEF a, b

\* A direction has room if there is a cell two tiles on.
LEMMA RoomForACell ==
  ASSUME NEW t \in Cells, NEW d \in Directions
  PROVE  HasRoom(t, d) => Step(t, d, 2) \in Interior
<1>1. /\ t = <<t[1], t[2]>> /\ t[1] \in Int /\ t[2] \in Int
      /\ t[1] \in 1 .. Height - 2 /\ t[2] \in 1 .. Width - 2
      /\ Height \in Int /\ Width \in Int
  BY TilesAreTuples, GridSides DEF Cells
<1> SUFFICES ASSUME HasRoom(t, d) PROVE Step(t, d, 2) \in Interior
  OBVIOUS
<1>2. CASE d = "up"
  <2>1. Step(t, d, 2) = <<t[1] - 2, t[2]>>
    BY <1>2, StepFrom
  <2>2. t[1] - 2 \in 1 .. Height - 2
    BY <1>1, <1>2 DEF HasRoom
  <2> QED BY <1>1, <2>1, <2>2, TilesAreTuples
<1>3. CASE d = "down"
  <2>1. Step(t, d, 2) = <<t[1] + 2, t[2]>>
    BY <1>3, StepFrom
  <2>2. t[1] + 2 \in 1 .. Height - 2
    BY <1>1, <1>3 DEF HasRoom
  <2> QED BY <1>1, <2>1, <2>2, TilesAreTuples
<1>4. CASE d = "left"
  <2>1. Step(t, d, 2) = <<t[1], t[2] - 2>>
    BY <1>4, StepFrom
  <2>2. t[2] - 2 \in 1 .. Width - 2
    BY <1>1, <1>4 DEF HasRoom
  <2> QED BY <1>1, <2>1, <2>2, TilesAreTuples
<1>5. CASE d = "right"
  <2>1. Step(t, d, 2) = <<t[1], t[2] + 2>>
    BY <1>5, StepFrom
  <2>2. t[2] + 2 \in 1 .. Width - 2
    BY <1>1, <1>5 DEF HasRoom
  <2> QED BY <1>1, <2>1, <2>2, TilesAreTuples
<1> QED BY <1>2, <1>3, <1>4, <1>5 DEF Directions

----------------------------------------------------------------------------
(* The inductive invariant *)

Basics ==
  /\ phase \in {"carving", "opening", "done"}
  /\ visited \subseteq Tiles
  /\ stack \in Seq(Tiles)
  /\ scanned \in 0 .. Height * Width

\* While the walk is under way: the cells visited are the spaces, each with the tiles around
\* it marked; a cell that left the stack has no unvisited neighbour; the maze is a tree
CarvingOK ==
  phase = "carving" =>
    /\ stack \in Seq(space \cap Cells)
    /\ \A c \in Cells : c \in visited <=> c \in space
    /\ \A c \in space \cap Cells : MarkVisited(c) \subseteq visited
    /\ Tiles \ Interior \subseteq visited
    /\ \A c \in space \cap Cells : (\E i \in 1 .. Len(stack) : stack[i] = c) \/ Neighbors(c) = {}
    /\ Cardinality(links) = Cardinality(space) - 1

MazeInv ==
  /\ Basics /\ Shape /\ Whole /\ CarvingOK
  /\ phase # "carving" => Cells \subseteq space

LEMMA MazeStarts == Init => MazeInv
<1> SUFFICES ASSUME Init PROVE MazeInv
  OBVIOUS
<1>1. Start \in Cells /\ Start \in Tiles /\ Start \notin Halls
  BY CellsAndHalls, TilesAreTuples DEF Cells
<1>2. /\ MarkVisited(Start) \subseteq Tiles /\ Start \in MarkVisited(Start)
      /\ MarkVisited(Start) \cap Cells = {Start}
  BY <1>1, Marked
<1>3. Basics
  <2>1. Height * Width \in Nat
    BY GridSides
  <2> QED BY <1>1, <1>2, <2>1 DEF Init, Basics
<1>4. Shape /\ Whole
  BY <1>1 DEF Init, Shape, Whole
<1>5. CarvingOK
  <2>1. stack \in Seq(space \cap Cells) /\ stack[1] = Start /\ Len(stack) = 1
    BY <1>1 DEF Init
  <2>2. \A c \in Cells : c \in visited <=> c \in space
    BY <1>2 DEF Init, Cells
  <2>3. IsFiniteSet({Start}) /\ Cardinality({Start}) = 1 /\ Cardinality({}) = 0
    BY FS_Singleton, FS_EmptySet
  <2> QED BY <2>1, <2>2, <2>3 DEF Init, CarvingOK
<1> QED BY <1>3, <1>4, <1>5 DEF MazeInv, Init

\* Carving adds a cell and a hall, both new, and a connection for each.
LEMMA CarveStep ==
  ASSUME MazeInv, NEW d \in Directions, Carve(d)
  PROVE  MazeInv'
<1> DEFINE t == Last(stack)
           m == Step(t, d, 1)
           c == Step(t, d, 2)
<1>1. /\ phase = "carving" /\ stack # <<>> /\ HasRoom(t, d) /\ c \notin visited
      /\ stack' = Append(stack, c)
      /\ visited' = visited \cup MarkVisited(c)
      /\ space' = space \cup {m, c}
      /\ links' = links \cup Passage(t, d)
      /\ phase' = phase /\ scanned' = scanned
  BY DEF Carve, Carving, Neighbors
<1>2. /\ stack \in Seq(space \cap Cells)
      /\ \A x \in Cells : x \in visited <=> x \in space
      /\ \A x \in space \cap Cells : MarkVisited(x) \subseteq visited
      /\ Tiles \ Interior \subseteq visited
      /\ \A x \in space \cap Cells : (\E i \in 1 .. Len(stack) : stack[i] = x) \/ Neighbors(x) = {}
      /\ Cardinality(links) = Cardinality(space) - 1
  BY <1>1 DEF MazeInv, CarvingOK
<1>3. t \in space \cap Cells
  BY <1>1, <1>2 DEF Last
<1>4. c \in Interior
  BY <1>1, <1>3, RoomForACell
<1>5. c \in Cells /\ m \in Halls /\ Ends(m) = {t, c} /\ Passage(t, d) = Doors(m)
  BY <1>3, <1>4, StepsFromCell
<1> HIDE DEF t, m, c
<1>6. c \notin space /\ m \notin space /\ m # c /\ c \in Tiles
  <2>1. c \notin space
    BY <1>1, <1>2, <1>5
  <2> QED BY <1>5, <2>1, CellsAndHalls, TilesAreTuples DEF MazeInv, Shape, Cells
<1>7. /\ MarkVisited(c) \subseteq Tiles /\ c \in MarkVisited(c)
      /\ MarkVisited(c) \cap Cells = {c}
  BY <1>5, Marked
<1>8. Shape' /\ Whole'
  <2>1. {m, c} = {Step(t, e, k) : e \in {d}, k \in {1, 2}}
    BY DEF m, c
  <2>2. Passage(t, d) = UNION {Passage(t, e) : e \in {d}}
    OBVIOUS
  <2>3. \A e \in {d} : Step(t, e, 2) \in Interior
    BY <1>4 DEF c
  <2>4. /\ space' = space \cup {Step(t, e, k) : e \in {d}, k \in {1, 2}}
        /\ links' = links \cup UNION {Passage(t, e) : e \in {d}}
    BY <1>1, <2>1, <2>2
  <2> DEFINE D == {d}
  <2>5. /\ D \in SUBSET Directions /\ \A e \in D : Step(t, e, 2) \in Interior
        /\ space' = space \cup {Step(t, e, k) : e \in D, k \in {1, 2}}
        /\ links' = links \cup UNION {Passage(t, e) : e \in D}
    BY <2>3, <2>4
  <2> HIDE DEF D
  <2> QED BY <1>3, <2>5, Dug DEF MazeInv
<1>9. Basics'
  BY <1>1, <1>6, <1>7 DEF MazeInv, Basics, Tiles
<1>10. CarvingOK'
  <2>1. stack' \in Seq(space' \cap Cells)
    BY <1>1, <1>2, <1>5
  <2>2. \A x \in Cells : x \in visited' <=> x \in space'
    BY <1>1, <1>2, <1>5, <1>7, CellsAndHalls
  <2>3. \A x \in space' \cap Cells : MarkVisited(x) \subseteq visited'
    BY <1>1, <1>2, <1>5, CellsAndHalls
  <2>4. ASSUME NEW x \in space' \cap Cells
        PROVE  (\E i \in 1 .. Len(stack') : stack'[i] = x) \/ Neighbors(x)' = {}
    <3>1. /\ Len(stack') = Len(stack) + 1 /\ stack'[Len(stack) + 1] = c
          /\ \A i \in 1 .. Len(stack) : stack'[i] = stack[i]
          /\ Len(stack) \in Nat
      BY <1>1, <1>2
    <3>2. x = c \/ x \in space
      BY <1>1, <1>5, CellsAndHalls
    <3>3. Neighbors(x) = {} => Neighbors(x)' = {}
      BY <1>1 DEF Neighbors
    <3>4. CASE x = c
      BY <3>1, <3>4
    <3>5. CASE x \in space
      BY <1>2, <3>1, <3>3, <3>5
    <3> QED BY <3>2, <3>4, <3>5
  <2>5. Cardinality(links') = Cardinality(space') - 1
    <3>1. IsFiniteSet(space) /\ IsFiniteSet(links) /\ links \subseteq SUBSET space
      BY AllFinite DEF MazeInv
    <3>2. IsFiniteSet(space \cup {m}) /\ Cardinality(space \cup {m}) = Cardinality(space) + 1
      BY <1>6, <3>1, FS_AddElement
    <3>3. Cardinality((space \cup {m}) \cup {c}) = Cardinality(space \cup {m}) + 1
      BY <1>6, <3>2, FS_AddElement
    <3>4. {m, t} \notin links
      BY <1>6, <3>1
    <3>5. IsFiniteSet(links \cup {{m, t}}) /\ Cardinality(links \cup {{m, t}}) = Cardinality(links) + 1
      BY <3>1, <3>4, FS_AddElement
    <3>6. {m, c} \notin links \cup {{m, t}}
      BY <1>3, <1>6, <3>1
    <3>7. Cardinality((links \cup {{m, t}}) \cup {{m, c}}) = Cardinality(links \cup {{m, t}}) + 1
      BY <3>5, <3>6, FS_AddElement
    <3>8. /\ space' = (space \cup {m}) \cup {c}
          /\ links' = (links \cup {{m, t}}) \cup {{m, c}}
      BY <1>1, <1>5 DEF Doors
    <3>9. Cardinality(space) \in Nat /\ Cardinality(links) \in Nat
      BY <3>1, FS_CardinalityType
    <3> QED BY <1>2, <3>2, <3>3, <3>5, <3>7, <3>8, <3>9
  <2>6. Tiles \ Interior \subseteq visited'
    BY <1>1, <1>2
  <2> QED BY <2>1, <2>2, <2>3, <2>4, <2>5, <2>6 DEF CarvingOK, Cells, Interior, Tiles, MarkVisited
<1> QED BY <1>1, <1>8, <1>9, <1>10 DEF MazeInv

\* All of a sequence but its last element.
LEMMA Fronts ==
  ASSUME NEW S, NEW s \in Seq(S), s # <<>>
  PROVE  /\ Front(s) \in Seq(S) /\ Len(s) \in Nat /\ Len(s) >= 1
         /\ Len(Front(s)) = Len(s) - 1
         /\ \A i \in 1 .. Len(s) - 1 : Front(s)[i] = s[i]
<1>1. Len(s) \in Nat /\ Len(s) >= 1 /\ \A i \in 1 .. Len(s) : s[i] \in S
  OBVIOUS
<1>2. 1 \in Int /\ Len(s) - 1 \in Int /\ \A i \in 1 .. Len(s) - 1 : s[i] \in S
  BY <1>1
<1>3. /\ SubSeq(s, 1, Len(s) - 1) \in Seq(S)
      /\ Len(SubSeq(s, 1, Len(s) - 1)) =
           IF 1 <= Len(s) - 1 THEN (Len(s) - 1) - 1 + 1 ELSE 0
      /\ \A i \in 1 .. (Len(s) - 1) - 1 + 1 : SubSeq(s, 1, Len(s) - 1)[i] = s[1 + i - 1]
  BY <1>2, SubSeqProperties
<1>4. /\ (Len(s) - 1) - 1 + 1 = Len(s) - 1
      /\ \A i \in 1 .. Len(s) - 1 : 1 + i - 1 = i
  BY <1>1
<1> QED BY <1>1, <1>3, <1>4 DEF Front

\* A cell leaves the stack when it has no unvisited neighbour.
LEMMA BacktrackStep ==
  ASSUME MazeInv, Backtrack
  PROVE  MazeInv'
<1>1. /\ phase = "carving" /\ stack # <<>> /\ Neighbors(Last(stack)) = {}
      /\ stack' = Front(stack)
      /\ UNCHANGED <<phase, visited, space, links, scanned>>
  BY DEF Backtrack, Carving
<1>2. /\ stack \in Seq(space \cap Cells) /\ stack \in Seq(Tiles)
      /\ \A x \in space \cap Cells : (\E i \in 1 .. Len(stack) : stack[i] = x) \/ Neighbors(x) = {}
  BY <1>1 DEF MazeInv, CarvingOK, Basics
<1>3. /\ stack' \in Seq(space \cap Cells) /\ stack' \in Seq(Tiles)
      /\ Len(stack') = Len(stack) - 1 /\ Len(stack) \in Nat
      /\ \A i \in 1 .. Len(stack) - 1 : stack'[i] = stack[i]
  BY <1>1, <1>2, Fronts
<1>4. ASSUME NEW x \in space \cap Cells
      PROVE  (\E i \in 1 .. Len(stack') : stack'[i] = x) \/ Neighbors(x) = {}
  <2>1. CASE Neighbors(x) = {}
    BY <2>1
  <2>2. CASE Neighbors(x) # {}
    <3>1. PICK i \in 1 .. Len(stack) : stack[i] = x
      BY <1>2, <2>2
    <3>2. i # Len(stack)
      BY <1>1, <2>2, <3>1 DEF Last
    <3>3. i \in 1 .. Len(stack) - 1
      BY <1>3, <3>2
    <3> QED BY <1>3, <3>1, <3>3
  <2> QED BY <2>1, <2>2
<1>5. Neighbors(Start)' = Neighbors(Start) /\ \A x : Neighbors(x)' = Neighbors(x)
  BY <1>1 DEF Neighbors
<1>6. Basics' /\ Shape' /\ Whole'
  BY <1>1, <1>3 DEF MazeInv, Basics, Shape, Whole
<1>7. CarvingOK'
  BY <1>1, <1>3, <1>4, <1>5 DEF MazeInv, CarvingOK
<1> QED BY <1>1, <1>6, <1>7 DEF MazeInv

\* openUpMap adds passages to a maze that holds every cell.
LEMMA OpenUpStep ==
  ASSUME MazeInv, OpenUp
  PROVE  MazeInv'
<1> DEFINE t == Scanned
           D == Opened(t)
<1>1. /\ phase = "opening" /\ phase' = "opening" /\ scanned < Height * Width
      /\ scanned' = scanned + 1 /\ visited' = visited /\ stack' = stack
      /\ space' = space \cup {Step(t, d, k) : d \in D, k \in {1, 2}}
      /\ links' = links \cup UNION {Passage(t, d) : d \in D}
  BY DEF OpenUp
<1> HIDE DEF t
<1>2. \A d \in D : t \in space \cap Cells /\ d \in Directions /\ Step(t, d, 2) \in Interior
  BY OpenedInside DEF MazeInv
<1> HIDE DEF D
<1>3. Shape' /\ Whole'
  <2>1. CASE D = {}
    <3>1. space' = space /\ links' = links
      BY <1>1, <2>1
    <3> QED BY <3>1 DEF MazeInv, Shape, Whole
  <2>2. CASE D # {}
    <3>1. t \in Cells \cap space /\ D \in SUBSET Directions
      BY <1>2, <2>2
    <3> QED BY <1>1, <1>2, <3>1, Dug DEF MazeInv
  <2> QED BY <2>1, <2>2
<1>4. Basics'
  <2>1. Height * Width \in Nat
    BY GridSides
  <2>2. scanned' \in 0 .. Height * Width
    BY <1>1, <2>1 DEF MazeInv, Basics
  <2> QED BY <1>1, <2>2 DEF MazeInv, Basics
<1>5. Cells \subseteq space'
  BY <1>1 DEF MazeInv
<1> QED BY <1>1, <1>3, <1>4, <1>5 DEF MazeInv, CarvingOK

LEMMA MazeStep == MazeInv /\ [Next]_vars => MazeInv'
<1> SUFFICES ASSUME MazeInv, [Next]_vars PROVE MazeInv'
  OBVIOUS
<1>1. ASSUME NEW d \in Directions, Carve(d) PROVE MazeInv'
  BY <1>1, CarveStep
<1>2. CASE Backtrack
  BY <1>2, BacktrackStep
<1>3. CASE Carved
  <2>1. phase' = "opening" /\ UNCHANGED <<visited, stack, space, links, scanned>>
    BY <1>3 DEF Carved
  <2>2. Cells \subseteq space
    BY <1>3, TilesAreTuples DEF Carved, MazeInv, CarvingOK, Cells
  <2> QED BY <2>1, <2>2 DEF MazeInv, Basics, Shape, Whole, CarvingOK
<1>4. CASE OpenUp
  BY <1>4, OpenUpStep
<1>5. CASE Generated
  BY <1>5 DEF Generated, MazeInv, Basics, Shape, Whole, CarvingOK
<1>6. CASE UNCHANGED vars
  BY <1>6 DEF vars, MazeInv, Basics, Shape, Whole, CarvingOK, Neighbors
<1> QED BY <1>1, <1>2, <1>3, <1>4, <1>5, <1>6 DEF Next

----------------------------------------------------------------------------
(* The walk visits everything *)

\* Every cell but the first has a cell before it that has room towards it.
LEMMA CellBefore ==
  ASSUME NEW c \in Cells, c # Start
  PROVE  \E p \in Cells, d \in Directions :
           p[1] + p[2] < c[1] + c[2] /\ HasRoom(p, d) /\ Step(p, d, 2) = c
<1> DEFINE a == c[1]
           b == c[2]
<1>1. /\ c = <<a, b>> /\ a \in Int /\ b \in Int /\ Odd(a) /\ Odd(b)
      /\ a \in 1 .. Height - 2 /\ b \in 1 .. Width - 2
      /\ Height \in Int /\ Width \in Int
  BY TilesAreTuples, GridSides DEF Cells
<1> HIDE DEF a, b
<1>2. Odd(a - 2) /\ Odd(b - 2) /\ ~Odd(2)
  BY <1>1, Parity DEF Odd
<1>3. CASE a # 1
  <2>1. a - 2 \in 1 .. Height - 2 /\ (a - 2) + b < a + b /\ a - 2 < Height - 3
    BY <1>1, <1>2, <1>3
  <2> DEFINE p == <<a - 2, b>>
  <2>2. p \in Cells /\ p[1] = a - 2 /\ p[2] = b
    BY <1>1, <1>2, <2>1, TilesAreTuples DEF Cells
  <2>3. Step(p, "down", 2) = <<(a - 2) + 2, b>>
    BY <2>2, StepFrom
  <2>4. (a - 2) + 2 = a
    BY <1>1
  <2>5. HasRoom(p, "down") /\ "down" \in Directions
    BY <2>1, <2>2 DEF HasRoom, Directions
  <2> QED BY <1>1, <2>1, <2>2, <2>3, <2>4, <2>5 DEF a, b
<1>4. CASE b # 1
  <2>1. b - 2 \in 1 .. Width - 2 /\ a + (b - 2) < a + b /\ b - 2 < Width - 3
    BY <1>1, <1>2, <1>4
  <2> DEFINE p == <<a, b - 2>>
  <2>2. p \in Cells /\ p[1] = a /\ p[2] = b - 2
    BY <1>1, <1>2, <2>1, TilesAreTuples DEF Cells
  <2>3. Step(p, "right", 2) = <<a, (b - 2) + 2>>
    BY <2>2, StepFrom
  <2>4. (b - 2) + 2 = b
    BY <1>1
  <2>5. HasRoom(p, "right") /\ "right" \in Directions
    BY <2>1, <2>2 DEF HasRoom, Directions
  <2> QED BY <1>1, <2>1, <2>2, <2>3, <2>4, <2>5 DEF a, b
<1> QED BY <1>1, <1>3, <1>4 DEF Start

\* Every tile between the outer walls is marked with some cell.
LEMMA MarkedWithACell ==
  ASSUME NEW t \in Interior
  PROVE  \E c \in Cells : t \in MarkVisited(c)
<1> DEFINE a == t[1]
           b == t[2]
<1>1. /\ t = <<a, b>> /\ a \in Int /\ b \in Int
      /\ a \in 1 .. Height - 2 /\ b \in 1 .. Width - 2
      /\ Height \in Int /\ Width \in Int
  BY TilesAreTuples, GridSides
<1> HIDE DEF a, b
<1>2. PICK i \in {0, 1} : a - i \in 1 .. Height - 2 /\ Odd(a - i)
  <2>1. CASE Odd(a)
    <3>1. a - 0 = a
      BY <1>1
    <3> QED BY <1>1, <2>1, <3>1
  <2>2. CASE ~Odd(a)
    <3>1. a # 1
      BY <2>2, GridSides
    <3>2. a - 1 \in 1 .. Height - 2 /\ Odd(a - 1)
      BY <1>1, <2>2, <3>1, Parity
    <3> QED BY <3>2
  <2> QED BY <2>1, <2>2
<1>3. PICK j \in {0, 1} : b - j \in 1 .. Width - 2 /\ Odd(b - j)
  <2>1. CASE Odd(b)
    <3>1. b - 0 = b
      BY <1>1
    <3> QED BY <1>1, <2>1, <3>1
  <2>2. CASE ~Odd(b)
    <3>1. b # 1
      BY <2>2, GridSides
    <3>2. b - 1 \in 1 .. Width - 2 /\ Odd(b - 1)
      BY <1>1, <2>2, <3>1, Parity
    <3> QED BY <3>2
  <2> QED BY <2>1, <2>2
<1> DEFINE c == <<a - i, b - j>>
<1>4. c \in Cells /\ c[1] = a - i /\ c[2] = b - j
  BY <1>2, <1>3, TilesAreTuples DEF Cells
<1>5. (a - i) + i = a /\ (b - j) + j = b
  BY <1>1, <1>2, <1>3
<1>6. t = <<c[1] + i, c[2] + j>>
  BY <1>1, <1>4, <1>5
<1> HIDE DEF c
<1> QED BY <1>4, <1>6, Marked

\* The stack is empty only when every tile is visited.
LEMMA WalkIsComplete == MazeInv => NeverPeeksEmpty
<1> SUFFICES ASSUME MazeInv, phase = "carving", stack = <<>> PROVE visited = Tiles
  BY DEF NeverPeeksEmpty, Carving
<1>1. /\ \A c \in Cells : c \in visited <=> c \in space
      /\ \A c \in space \cap Cells : MarkVisited(c) \subseteq visited
      /\ Tiles \ Interior \subseteq visited
      /\ visited \subseteq Tiles
      /\ \A c \in space \cap Cells : (\E i \in 1 .. Len(stack) : stack[i] = c) \/ Neighbors(c) = {}
  BY DEF MazeInv, CarvingOK, Basics
<1>2. \A c \in space \cap Cells : Neighbors(c) = {}
  BY <1>1
<1>3. \A c \in Cells : c[1] + c[2] \in Nat
  BY TilesAreTuples, GridSides DEF Cells
<1>4. ASSUME Cells \ space # {} PROVE FALSE
  <2> DEFINE T == {c[1] + c[2] : c \in Cells \ space}
  <2>1. T \in SUBSET Nat /\ T # {}
    BY <1>3, <1>4
  <2>2. PICK n \in T : \A m \in T : n <= m
    <3> HIDE DEF T
    <3> QED BY <2>1, LeastNumber
  <2>3. PICK c \in Cells \ space : n = c[1] + c[2]
    OBVIOUS
  <2>4. PICK p \in Cells, d \in Directions :
          p[1] + p[2] < c[1] + c[2] /\ HasRoom(p, d) /\ Step(p, d, 2) = c
    BY <2>3, CellBefore DEF MazeInv, Shape
  <2>5. p \in space
    <3>1. ASSUME p \notin space PROVE FALSE
      <4>1. p[1] + p[2] \in T
        BY <2>4, <3>1
      <4>2. c[1] + c[2] <= p[1] + p[2]
        BY <2>2, <2>3, <4>1
      <4> QED BY <1>3, <2>3, <2>4, <4>2
    <3> QED BY <3>1
  <2>6. d \in Neighbors(p)
    BY <1>1, <2>3, <2>4 DEF Neighbors
  <2> QED BY <1>2, <2>4, <2>5, <2>6
<1>5. Interior \subseteq visited
  BY <1>1, <1>4, MarkedWithACell
<1> QED BY <1>1, <1>5

----------------------------------------------------------------------------
(* Type correctness, cells, and the other device *)

LEMMA MazeTyped == MazeInv => TypeOK
<1> SUFFICES ASSUME MazeInv PROVE TypeOK
  OBVIOUS
<1>1. space \subseteq Tiles
  BY AllFinite DEF MazeInv
<1>2. ASSUME NEW l \in links PROVE l \subseteq Tiles /\ Cardinality(l) = 2
  <2>1. PICK p \in space, e \in space : l = {p, e} /\ p # e
    BY LinksJoin DEF MazeInv
  <2> QED BY <1>1, <2>1, Pairs
<1> QED BY <1>1, <1>2 DEF MazeInv, Basics, TypeOK

LEMMA MazeHasCells == MazeInv => EveryCellIsSpace
  BY DEF MazeInv, EveryCellIsSpace, Cells, Odd

LEMMA MazeRebuilt == MazeInv => JoinerRebuildsTheMaze
<1> SUFFICES ASSUME Shape PROVE JoinerRebuildsTheMaze
  BY DEF MazeInv
<1>1. space \subseteq Interior
  BY DEF Shape, Cells, Halls
<1>2. ASSUME NEW t \in space PROVE t[1] \notin {0, Height} /\ t[2] \notin {0, Width}
  <2>1. t[1] \in 1 .. Height - 2 /\ t[2] \in 1 .. Width - 2
    BY <1>1, TilesAreTuples
  <2> QED BY <2>1, GridSides
<1>3. JoinerConnections = UNION {{t} \X (space \cap {Step(t, d, 1) : d \in Directions}) : t \in space}
  <2>1. {t \in space : t[1] \notin {0, Height} /\ t[2] \notin {0, Width}} = space
    BY <1>2
  <2> QED BY <2>1 DEF JoinerConnections
<1>4. \A e : e \in JoinerConnections <=>
               \E t \in space, u \in space : e = <<t, u>> /\ {t, u} \in links
  <2>1. ASSUME NEW e, e \in JoinerConnections
        PROVE  \E t \in space, u \in space : e = <<t, u>> /\ {t, u} \in links
    <3>1. PICK t \in space : e \in {t} \X (space \cap {Step(t, d, 1) : d \in Directions})
      BY <1>3, <2>1
    <3>2. PICK u \in space : e = <<t, u>> /\ u \in {Step(t, d, 1) : d \in Directions}
      BY <3>1
    <3> QED BY <3>2, LinksAreSteps
  <2>2. ASSUME NEW t \in space, NEW u \in space, {t, u} \in links
        PROVE  <<t, u>> \in JoinerConnections
    <3>1. u \in {Step(t, d, 1) : d \in Directions}
      BY <2>2, LinksAreSteps
    <3>2. <<t, u>> \in {t} \X (space \cap {Step(t, d, 1) : d \in Directions})
      BY <3>1
    <3> QED BY <1>3, <3>2
  <2> QED BY <2>1, <2>2
<1>5. \A e : e \in UNION {{f \in l \X l : f[1] # f[2]} : l \in links} <=>
               \E t \in space, u \in space : e = <<t, u>> /\ {t, u} \in links
  <2>1. ASSUME NEW e, NEW l \in links, e \in l \X l, e[1] # e[2]
        PROVE  \E t \in space, u \in space : e = <<t, u>> /\ {t, u} \in links
    <3>1. PICK p \in space, q \in space : l = {p, q}
      BY LinksJoin
    <3>2. e = <<e[1], e[2]>> /\ {e[1], e[2]} = {p, q} /\ e[1] \in space /\ e[2] \in space
      BY <2>1, <3>1
    <3> QED BY <3>1, <3>2
  <2>2. ASSUME NEW t \in space, NEW u \in space, {t, u} \in links
        PROVE  <<t, u>> \in {t, u} \X {t, u} /\ <<t, u>>[1] # <<t, u>>[2]
    <3>1. t # u
      BY <2>2, LinksJoin
    <3> QED BY <3>1
  <2>3. \A e : e \in UNION {{f \in l \X l : f[1] # f[2]} : l \in links} <=>
                \E l \in links : e \in l \X l /\ e[1] # e[2]
    OBVIOUS
  <2> QED BY <2>1, <2>2, <2>3
<1>6. UNION links \subseteq space
  BY AllFinite
<1> QED BY <1>1, <1>4, <1>5, <1>6 DEF JoinerRebuildsTheMaze

----------------------------------------------------------------------------
(* Reaching every space *)

\* The search for what can be reached is defined on every set of tiles.
LEMMA ReachedFromDef ==
  ASSUME Shape
  PROVE  \A X \in SUBSET Tiles :
           /\ Nearby(X) \in SUBSET Tiles
           /\ ReachedFrom[X] = IF Nearby(X) = X THEN X ELSE ReachedFrom[Nearby(X)]
<1> DEFINE Closed(S) == Nearby(S) = S
           Closure(X) == {t \in Tiles : \A S \in SUBSET Tiles : X \subseteq S /\ Closed(S) => t \in S}
           f == [X \in SUBSET Tiles |-> Closure(X)]
<1>1. \A X \in SUBSET Tiles : Nearby(X) \in SUBSET Tiles /\ X \subseteq Nearby(X)
  <2>1. links \subseteq SUBSET Tiles
    BY AllFinite
  <2> QED BY <2>1 DEF Nearby
<1>2. ASSUME NEW X \in SUBSET Tiles
      PROVE  Closure(X) = IF Nearby(X) = X THEN X ELSE Closure(Nearby(X))
  <2>1. CASE Closed(X)
    BY <2>1
  <2>2. CASE ~Closed(X)
    <3>1. \A S \in SUBSET Tiles : Closed(S) => (X \subseteq S <=> Nearby(X) \subseteq S)
      <4>1. ASSUME NEW S \in SUBSET Tiles, Closed(S), X \subseteq S PROVE Nearby(X) \subseteq Nearby(S)
        BY <4>1 DEF Nearby
      <4> QED BY <1>1, <4>1
    <3> HIDE DEF Closed
    <3>2. Closure(X) = Closure(Nearby(X))
      BY <3>1
    <3> QED BY <2>2, <3>2 DEF Closed
  <2> QED BY <2>1, <2>2
<1>3. f = [X \in SUBSET Tiles |-> IF Nearby(X) = X THEN X ELSE f[Nearby(X)]]
  <2>1. \A X \in SUBSET Tiles : f[Nearby(X)] = Closure(Nearby(X))
    BY <1>1
  <2> QED BY <1>2, <2>1
<1> HIDE DEF f
<1>4. ReachedFrom = [X \in SUBSET Tiles |-> IF Nearby(X) = X THEN X ELSE ReachedFrom[Nearby(X)]]
  BY <1>3 DEF ReachedFrom
<1> QED BY <1>1, <1>4

\* From the start, and from any set of spaces that holds it, every space is reached.
LEMMA AllReached ==
  ASSUME Shape, Whole
  PROVE  Reached = space
<1> DEFINE Bad == {X \in SUBSET space : Start \in X /\ ReachedFrom[X] # space}
           Left == {space \ X : X \in Bad}
<1>1. space \subseteq Tiles /\ IsFiniteSet(space) /\ links \subseteq SUBSET space /\ Start \in space
  BY AllFinite DEF Shape
<1>2. ASSUME NEW X \in SUBSET space, Start \in X, Nearby(X) = X PROVE X = space
  <2>1. \A l \in links : l \cap X # {} => l \subseteq X
    BY <1>2 DEF Nearby
  <2> QED BY <1>2, <2>1 DEF Whole
<1>3. ASSUME Bad # {} PROVE FALSE
  <2>1. Left \subseteq FiniteSubsetsOf(Tiles) /\ Left # {}
    <3>1. \A X \in Bad : space \ X \in SUBSET Tiles /\ IsFiniteSet(space \ X)
      BY <1>1, FS_Subset
    <3>2. \A y \in Left : y \in SUBSET Tiles /\ IsFiniteSet(y)
      BY <3>1
    <3>3. Left # {}
      BY <1>3
    <3> HIDE DEF Left
    <3> QED BY <3>2, <3>3 DEF FiniteSubsetsOf
  <2>2. PICK m \in Left : \A y \in Left : ~ (<<y, m>> \in StrictSubsetOrdering(Tiles))
    <3> HIDE DEF Left
    <3> QED BY <2>1, FS_StrictSubsetOrderingWellFounded, WFMin
  <2>3. PICK X \in Bad : m = space \ X
    OBVIOUS
  <2>4. X \in SUBSET space /\ Start \in X /\ ReachedFrom[X] # space /\ X \in SUBSET Tiles
    BY <1>1
  <2>5. ReachedFrom[X] = IF Nearby(X) = X THEN X ELSE ReachedFrom[Nearby(X)]
    BY <2>4, ReachedFromDef
  <2>6. CASE Nearby(X) = X
    BY <1>2, <2>4, <2>5, <2>6
  <2>7. CASE Nearby(X) # X
    <3>1. Nearby(X) \in SUBSET space /\ X \subseteq Nearby(X)
      BY <1>1, <2>4 DEF Nearby
    <3>2. Nearby(X) \in Bad
      BY <2>4, <2>5, <2>7, <3>1
    <3>3. /\ space \ Nearby(X) \in Left
          /\ space \ Nearby(X) \subseteq m /\ space \ Nearby(X) # m
          /\ space \ Nearby(X) \in SUBSET Tiles /\ m \in SUBSET Tiles
      BY <1>1, <2>3, <2>4, <2>7, <3>1, <3>2
    <3>4. <<space \ Nearby(X), m>> \in StrictSubsetOrdering(Tiles)
      BY <3>3 DEF StrictSubsetOrdering
    <3> QED BY <2>2, <3>3, <3>4
  <2> QED BY <2>6, <2>7
<1>4. {Start} \in SUBSET space /\ Start \in {Start}
  BY <1>1
<1> QED BY <1>3, <1>4 DEF Reached

LEMMA MazeConnected == MazeInv => TreeThenConnected
  BY AllReached DEF MazeInv, CarvingOK, TreeThenConnected

----------------------------------------------------------------------------
(* Theorems about the maze *)

\* What holds of a maze and of the walk that carves it, in every state.
THEOREM MazeInvariant == Spec => []MazeInv
<1>1. MazeInv /\ [Next]_vars => MazeInv'
  BY MazeStep
<1> QED BY <1>1, MazeStarts, PTL DEF Spec

\* The variables keep their types: the walk and openUpMap stay on the grid.
THEOREM MazeTypes == Spec => []TypeOK
  BY MazeInvariant, MazeTyped, PTL

\* mazeStack.peek()! never fails, on any grid (carve, Maze.swift).
THEOREM WalkNeverPeeksEmpty == Spec => []NeverPeeksEmpty
  BY MazeInvariant, WalkIsComplete, PTL

\* A tree while it is carved, and at all times every space is reached from the start.
THEOREM MazeIsConnected == Spec => []TreeThenConnected
  BY MazeInvariant, MazeConnected, PTL

\* Every cell is a space once the walk is over, so the spawn tiles are.
THEOREM CellsAreSpaces == Spec => []EveryCellIsSpace
  BY MazeInvariant, MazeHasCells, PTL

\* From the spaces alone the joiner rebuilds the connections the host has.
THEOREM JoinerHasTheSameMaze == Spec => []JoinerRebuildsTheMaze
  BY MazeInvariant, MazeRebuilt, PTL

----------------------------------------------------------------------------
(* Walks of a monster *)

\* A monster of this module keeps the maze it is given.
THEOREM MonstersKeepTheMaze == MonsterSpec => Spec
<1>1. MonsterInit => Init
  BY DEF MonsterInit
<1>2. [MonsterNext]_<<vars, monsterVars>> => [Next]_vars
  BY DEF MonsterNext, SetRandomPosition, FirstPath, SecondPath, FirstDeadEnd, SecondDeadEnd,
         GeneratePath
<1> QED BY <1>1, <1>2, PTL DEF MonsterSpec, Spec

\* A walk goes over connections, and to no space twice
Walk(w) ==
  /\ w \in Seq(space) /\ w # <<>> /\ Len(w) <= Steps + 1
  /\ \A i \in 1 .. Len(w) - 1 : {w[i], w[i + 1]} \in links
  /\ \A i, j \in 1 .. Len(w) : w[i] = w[j] => i = j

MonsterInv ==
  /\ walking \in {"no", "first", "second", "made", "repeat"}
  /\ walking # "no" =>
       phase = "done" /\ Walk(path1) /\ Walk(path2) /\ path1[1] = path2[1]
  /\ walking = "first" =>
       /\ Len(path1) <= Steps /\ Len(path2) = 1
       /\ Len(path1) > 1 => firstDirection = path1[2]
  \* the first walk set out in the direction noted, or ended early and noted none
  /\ walking \in {"second", "made", "repeat"} =>
       /\ \/ Len(path1) > 1 /\ firstDirection = path1[2]
          \/ Len(path1) <= Steps /\ Ahead(path1) = {} /\ firstDirection = Nowhere
       /\ Len(path2) > 1 => path2[2] # firstDirection
  /\ walking = "second" => Len(path2) <= Steps
  /\ walking \in {"made", "repeat"} => Len(path2) > 1 \/ AheadAgain = {}
  /\ walking = "repeat" => path = ThereAndBack

\* A walk that goes ahead is a walk.
LEMMA WalksOn ==
  ASSUME NEW w, Walk(w), NEW t \in Ahead(w), Len(w) <= Steps
  PROVE  /\ Walk(Append(w, t))
         /\ Len(Append(w, t)) = Len(w) + 1
         /\ Append(w, t)[1] = w[1]
         /\ Len(w) > 1 => Append(w, t)[2] = w[2]
         /\ Len(w) = 1 => Append(w, t)[2] = t
<1>1. /\ w \in Seq(space) /\ w # <<>>
      /\ \A i \in 1 .. Len(w) - 1 : {w[i], w[i + 1]} \in links
      /\ \A i, j \in 1 .. Len(w) : w[i] = w[j] => i = j
  BY DEF Walk
<1> DEFINE n == Len(w)
           v == Append(w, t)
<1>2. n \in Nat /\ n >= 1
  BY <1>1
<1>3. /\ t \in space /\ {w[n], t} \in links
      /\ \A i \in 1 .. n : w[i] # t
  <2>1. DOMAIN w = 1 .. n
    BY <1>1
  <2> QED BY <2>1 DEF Ahead, Connected, Last, Range
<1>4. /\ v \in Seq(space) /\ v # <<>> /\ Len(v) = n + 1
      /\ \A i \in 1 .. n : v[i] = w[i]
      /\ v[n + 1] = t
  BY <1>1, <1>3
<1> HIDE DEF v
<1>5. ASSUME NEW i \in 1 .. Len(v) - 1 PROVE {v[i], v[i + 1]} \in links
  <2>1. i \in 1 .. n /\ i + 1 \in 1 .. n + 1
    BY <1>2, <1>4
  <2>2. CASE i = n
    BY <1>3, <1>4, <2>1, <2>2
  <2>3. CASE i # n
    <3>1. i \in 1 .. n - 1 /\ i + 1 \in 1 .. n
      BY <1>2, <2>1, <2>3
    <3> QED BY <1>1, <1>4, <3>1
  <2> QED BY <2>2, <2>3
<1>6. ASSUME NEW i \in 1 .. Len(v), NEW j \in 1 .. Len(v), v[i] = v[j] PROVE i = j
  <2>1. (i \in 1 .. n \/ i = n + 1) /\ (j \in 1 .. n \/ j = n + 1)
    BY <1>2, <1>4
  <2> QED BY <1>1, <1>3, <1>4, <1>6, <2>1
<1>7. Len(v) <= Steps + 1
  BY <1>2, <1>4, MonsterAssumption
<1>8. v[1] = w[1] /\ (n > 1 => v[2] = w[2]) /\ (n = 1 => v[2] = t)
  BY <1>2, <1>4
<1> QED BY <1>4, <1>5, <1>6, <1>7, <1>8 DEF Walk, v

\* A walk of one space.
LEMMA WalkBegins ==
  ASSUME NEW t \in space
  PROVE  Walk(<<t>>)
<1>1. <<t>> \in Seq(space) /\ <<t>> # <<>> /\ Len(<<t>>) = 1
  OBVIOUS
<1>2. 1 <= Steps + 1
  BY MonsterAssumption
<1> QED BY <1>1, <1>2 DEF Walk

LEMMA MonsterStarts == MonsterInit => MonsterInv
  BY DEF MonsterInit, MonsterInv

LEMMA MonsterStep == MazeInv /\ MonsterInv /\ [MonsterNext]_<<vars, monsterVars>> => MonsterInv'
<1> SUFFICES ASSUME MazeInv, MonsterInv, [MonsterNext]_<<vars, monsterVars>> PROVE MonsterInv'
  OBVIOUS
<1>1. ASSUME Next, UNCHANGED monsterVars PROVE MonsterInv'
  <2>1. CASE walking = "no"
    BY <1>1, <2>1 DEF MonsterInv, monsterVars
  <2>2. CASE phase = "done"
    BY <1>1, <2>2 DEF Next, Carve, Backtrack, Carved, OpenUp, Generated, Carving
  <2> QED BY <2>1, <2>2 DEF MonsterInv
<1>2. ASSUME NEW number \in 1 .. 4, NEW t \in space, SetRandomPosition(number, t)
      PROVE  MonsterInv'
  <2>1. Walk(<<t>>) /\ Len(<<t>>) = 1 /\ 1 <= Steps
    BY WalkBegins, MonsterAssumption
  <2>2. /\ phase = "done" /\ path1' = <<t>> /\ path2' = <<t>> /\ walking' = "first"
        /\ UNCHANGED vars
    BY <1>2 DEF SetRandomPosition
  <2>3. Walk(path1)' /\ Walk(path2)'
    BY <2>1, <2>2 DEF Walk, vars
  <2> QED BY <2>1, <2>2, <2>3 DEF MonsterInv, vars
<1>3. ASSUME NEW t \in space, FirstPath(t) PROVE MonsterInv'
  <2>1. /\ walking = "first" /\ t \in Ahead(path1)
        /\ path1' = Append(path1, t)
        /\ firstDirection' = IF Len(path1) = 1 THEN t ELSE firstDirection
        /\ walking' = IF Len(path1) = Steps THEN "second" ELSE "first"
        /\ UNCHANGED vars /\ path2' = path2 /\ path' = path
    BY <1>3 DEF FirstPath, LastStep
  <2>2. /\ Walk(path1) /\ Len(path1) <= Steps /\ Walk(path2) /\ Len(path2) = 1
        /\ path1[1] = path2[1] /\ phase = "done"
        /\ Len(path1) > 1 => firstDirection = path1[2]
        /\ Len(path1) \in Nat /\ Len(path1) >= 1
    BY <2>1 DEF MonsterInv, Walk
  <2>3. /\ Walk(path1') /\ Len(path1') = Len(path1) + 1 /\ path1'[1] = path1[1]
        /\ Len(path1) > 1 => path1'[2] = path1[2]
        /\ Len(path1) = 1 => path1'[2] = t
    BY <2>1, <2>2, WalksOn
  <2>4. Walk(path1)' /\ Walk(path2)' /\ phase' = "done"
    BY <2>1, <2>2, <2>3 DEF Walk, vars
  <2>5. firstDirection' = path1'[2] /\ Len(path1') > 1
    <3>1. Len(path1') > 1
      BY <2>2, <2>3
    <3>2. CASE Len(path1) = 1
      BY <2>1, <2>3, <3>1, <3>2
    <3>3. CASE Len(path1) > 1
      BY <2>1, <2>2, <2>3, <3>1, <3>3
    <3>4. Len(path1) = 1 \/ Len(path1) > 1
      BY <2>2, OneOrMore
    <3> QED BY <3>2, <3>3, <3>4
  <2>6. walking' = "first" => Len(path1') <= Steps
    BY <2>1, <2>2, <2>3, MonsterAssumption
  <2>7. walking' \in {"first", "second"} /\ Len(path2') <= Steps /\ ~ (Len(path2') > 1)
    BY <2>1, <2>2, MonsterAssumption
  <2> QED BY <2>1, <2>2, <2>3, <2>4, <2>5, <2>6, <2>7 DEF MonsterInv
<1>4. CASE FirstDeadEnd
  <2>1. /\ walking = "first" /\ Ahead(path1) = {} /\ firstDirection' = Nowhere
        /\ walking' = "second" /\ UNCHANGED vars
        /\ path1' = path1 /\ path2' = path2 /\ path' = path
    BY <1>4 DEF FirstDeadEnd
  <2>2. /\ Walk(path1) /\ Len(path1) <= Steps /\ Walk(path2) /\ Len(path2) = 1
        /\ path1[1] = path2[1] /\ phase = "done"
    BY <2>1 DEF MonsterInv
  <2>3. Walk(path1)' /\ Walk(path2)' /\ phase' = "done" /\ Ahead(path1)' = {}
    BY <2>1, <2>2 DEF Walk, vars, Ahead, Connected
  <2>4. Len(path2') <= Steps /\ ~ (Len(path2') > 1)
    BY <2>1, <2>2, MonsterAssumption
  <2>5. Nowhere' = Nowhere
    BY DEF Nowhere
  <2> QED BY <2>1, <2>2, <2>3, <2>4, <2>5 DEF MonsterInv
<1>5. ASSUME NEW t \in space, SecondPath(t) PROVE MonsterInv'
  <2>1. /\ walking = "second" /\ t \in AheadAgain
        /\ path2' = Append(path2, t)
        /\ walking' = IF Len(path2) = Steps THEN "made" ELSE "second"
        /\ UNCHANGED vars /\ path1' = path1 /\ firstDirection' = firstDirection /\ path' = path
    BY <1>5 DEF SecondPath, LastStep
  <2>2. /\ Walk(path1) /\ Walk(path2) /\ Len(path2) <= Steps
        /\ path1[1] = path2[1] /\ phase = "done"
        /\ \/ Len(path1) > 1 /\ firstDirection = path1[2]
           \/ Len(path1) <= Steps /\ Ahead(path1) = {} /\ firstDirection = Nowhere
        /\ Len(path2) > 1 => path2[2] # firstDirection
    BY <2>1 DEF MonsterInv
  <2>3. Len(path2) \in Nat /\ Len(path2) >= 1
    BY <2>2 DEF Walk
  <2>4. t \in Ahead(path2) /\ (Len(path2) = 1 => t # firstDirection)
    BY <2>1 DEF AheadAgain
  <2>5. /\ Walk(path2') /\ Len(path2') = Len(path2) + 1 /\ path2'[1] = path2[1]
        /\ Len(path2) > 1 => path2'[2] = path2[2]
        /\ Len(path2) = 1 => path2'[2] = t
    BY <2>1, <2>2, <2>4, WalksOn
  <2>6. Walk(path1)' /\ Walk(path2)' /\ phase' = "done" /\ Ahead(path1)' = Ahead(path1)
    <3>1. Ahead(path1)' = Ahead(path1)
      BY <2>1 DEF vars, Ahead, Connected
    <3>2. Walk(path1)' <=> Walk(path1)
      BY <2>1 DEF vars, Walk
    <3>3. Walk(path2)' <=> Walk(path2')
      BY <2>1 DEF vars, Walk
    <3> QED BY <2>1, <2>2, <2>5, <3>1, <3>2, <3>3 DEF vars
  <2>7. Len(path2) = 1 \/ Len(path2) > 1
    BY <2>3, OneOrMore
  <2>8. path2'[2] # firstDirection
    BY <2>2, <2>4, <2>5, <2>7
  <2>9. Len(path2') > 1 /\ (walking' = "second" => Len(path2') <= Steps)
    BY <2>1, <2>2, <2>3, <2>5, MonsterAssumption
  <2>10. walking' \in {"second", "made"} /\ Nowhere' = Nowhere
    BY <2>1 DEF Nowhere
  <2> QED BY <2>1, <2>2, <2>5, <2>6, <2>8, <2>9, <2>10 DEF MonsterInv
<1>6. CASE SecondDeadEnd
  <2>1. /\ walking = "second" /\ AheadAgain = {} /\ walking' = "made" /\ UNCHANGED vars
        /\ path1' = path1 /\ path2' = path2 /\ firstDirection' = firstDirection /\ path' = path
    BY <1>6 DEF SecondDeadEnd
  <2>2. /\ Ahead(path1)' = Ahead(path1) /\ AheadAgain' = AheadAgain /\ Nowhere' = Nowhere
        /\ Walk(path1)' <=> Walk(path1)
        /\ Walk(path2)' <=> Walk(path2)
    BY <2>1 DEF Walk, vars, Ahead, AheadAgain, Connected, Nowhere
  <2> QED BY <2>1, <2>2 DEF MonsterInv, vars
<1>7. CASE GeneratePath
  <2>1. /\ walking = "made" /\ path' = ThereAndBack /\ walking' = "repeat" /\ UNCHANGED vars
        /\ path1' = path1 /\ path2' = path2 /\ firstDirection' = firstDirection
    BY <1>7 DEF GeneratePath
  <2>2. /\ Ahead(path1)' = Ahead(path1) /\ AheadAgain' = AheadAgain /\ Nowhere' = Nowhere
        /\ Walk(path1)' <=> Walk(path1)
        /\ Walk(path2)' <=> Walk(path2)
        /\ ThereAndBack' = ThereAndBack
    BY <2>1 DEF Walk, vars, Ahead, AheadAgain, Connected, Nowhere, ThereAndBack
  <2> QED BY <2>1, <2>2 DEF MonsterInv, vars
<1>8. CASE UNCHANGED <<vars, monsterVars>>
  <2>1. /\ Ahead(path1)' = Ahead(path1) /\ AheadAgain' = AheadAgain /\ Nowhere' = Nowhere
        /\ Walk(path1)' <=> Walk(path1)
        /\ Walk(path2)' <=> Walk(path2)
        /\ ThereAndBack' = ThereAndBack
    BY <1>8 DEF Walk, vars, monsterVars, Ahead, AheadAgain, Connected, Nowhere, ThereAndBack
  <2> QED BY <1>8, <2>1 DEF MonsterInv, vars, monsterVars
<1> QED BY <1>1, <1>2, <1>3, <1>4, <1>5, <1>6, <1>7, <1>8 DEF MonsterNext

----------------------------------------------------------------------------
(* Walked there and back *)

\* A move along a path: none, or over a connection
Moves(t, u) == t = u \/ {t, u} \in links

\* A path of tiles, each a move from the one before
MovesAlong(w) == \A i \in 1 .. Len(w) - 1 : Moves(w[i], w[i + 1])

\* The way back ends where the way there began.
LEMMA WayBack ==
  ASSUME NEW S, NEW w \in Seq(S), w # <<>>, MovesAlong(w)
  PROVE  /\ Reverse(w) \in Seq(S) /\ Reverse(w) # <<>> /\ MovesAlong(Reverse(w))
         /\ Reverse(w)[1] = w[Len(w)]
         /\ Reverse(w)[Len(Reverse(w))] = w[1]
<1> DEFINE n == Len(w)
           b == Reverse(w)
<1>1. n \in Nat /\ n >= 1
  OBVIOUS
<1>2. /\ b \in Seq(S) /\ Len(b) = n
      /\ \A i \in 1 .. n : b[i] = w[(n - i) + 1]
  <2>1. b = [i \in 1 .. n |-> w[(n - i) + 1]]
    BY DEF Reverse
  <2>2. \A i \in 1 .. n : (n - i) + 1 \in 1 .. n
    BY <1>1
  <2>3. \A i \in 1 .. n : w[(n - i) + 1] \in S
    BY <2>2
  <2> HIDE DEF b
  <2>4. b \in [1 .. n -> S]
    BY <2>1, <2>3
  <2>5. b \in Seq(S) /\ Len(b) = n
    BY <1>1, <2>4
  <2> QED BY <2>1, <2>5
<1> HIDE DEF b, n
<1>3. b # <<>>
  BY <1>1, <1>2
<1>4. b[1] = w[n] /\ b[n] = w[1]
  <2>1. (n - 1) + 1 = n /\ (n - n) + 1 = 1 /\ 1 \in 1 .. n /\ n \in 1 .. n
    BY <1>1
  <2> QED BY <1>2, <2>1
<1>5. ASSUME NEW i \in 1 .. n - 1 PROVE Moves(b[i], b[i + 1])
  <2>1. /\ i \in 1 .. n /\ i + 1 \in 1 .. n
        /\ n - i \in 1 .. n - 1
        /\ (n - (i + 1)) + 1 = n - i
    BY <1>1
  <2>2. b[i] = w[(n - i) + 1] /\ b[i + 1] = w[n - i]
    BY <1>2, <2>1
  <2>3. Moves(w[n - i], w[(n - i) + 1])
    BY <2>1 DEF MovesAlong, n
  <2>4. {w[n - i], w[(n - i) + 1]} = {w[(n - i) + 1], w[n - i]}
    OBVIOUS
  <2> QED BY <2>2, <2>3, <2>4 DEF Moves
<1> QED BY <1>2, <1>3, <1>4, <1>5 DEF MovesAlong, b, n

\* Two paths of which the second begins where the first ends are one.
LEMMA OneAfterTheOther ==
  ASSUME NEW S, NEW a \in Seq(S), NEW b \in Seq(S), a # <<>>, b # <<>>,
         MovesAlong(a), MovesAlong(b), a[Len(a)] = b[1]
  PROVE  /\ a \o b \in Seq(S) /\ a \o b # <<>> /\ MovesAlong(a \o b)
         /\ (a \o b)[1] = a[1]
         /\ (a \o b)[Len(a \o b)] = b[Len(b)]
<1> DEFINE m == Len(a)
           n == Len(b)
           c == a \o b
<1>1. m \in Nat /\ m >= 1 /\ n \in Nat /\ n >= 1
  OBVIOUS
<1>2. /\ c \in Seq(S) /\ Len(c) = m + n
      /\ \A i \in 1 .. m + n : c[i] = IF i <= m THEN a[i] ELSE b[i - m]
  BY ConcatProperties
<1> HIDE DEF c, m, n
<1>3. c # <<>>
  BY <1>1, <1>2
<1>4. c[1] = a[1] /\ c[m + n] = b[n]
  <2>1. 1 \in 1 .. m + n /\ 1 <= m /\ m + n \in 1 .. m + n /\ ~ (m + n <= m) /\ (m + n) - m = n
    BY <1>1
  <2> QED BY <1>2, <2>1
<1>5. ASSUME NEW i \in 1 .. (m + n) - 1 PROVE Moves(c[i], c[i + 1])
  <2>1. i \in 1 .. m + n /\ i + 1 \in 1 .. m + n /\ i \in Int
    BY <1>1
  <2>2. CASE i < m
    <3>1. i <= m /\ i + 1 <= m /\ i \in 1 .. m - 1
      BY <1>1, <2>1, <2>2
    <3>2. c[i] = a[i] /\ c[i + 1] = a[i + 1]
      BY <1>2, <2>1, <3>1
    <3> QED BY <3>1, <3>2 DEF MovesAlong, m
  <2>3. CASE i = m
    <3>1. i <= m /\ ~ (i + 1 <= m) /\ (i + 1) - m = 1
      BY <1>1, <2>3
    <3>2. c[i] = a[m] /\ c[i + 1] = b[1]
      BY <1>2, <2>1, <2>3, <3>1
    <3> QED BY <3>2 DEF Moves, m
  <2>4. CASE i > m
    <3>1. ~ (i <= m) /\ ~ (i + 1 <= m) /\ i - m \in 1 .. n - 1 /\ (i + 1) - m = (i - m) + 1
      BY <1>1, <2>1, <2>4
    <3>2. c[i] = b[i - m] /\ c[i + 1] = b[(i - m) + 1]
      BY <1>2, <2>1, <3>1
    <3> QED BY <3>1, <3>2 DEF MovesAlong, n
  <2> QED BY <1>1, <2>1, <2>2, <2>3, <2>4
<1> QED BY <1>2, <1>3, <1>4, <1>5 DEF MovesAlong, c, m, n

\* The place after the last of n is the first.
LEMMA RoundAndRound ==
  ASSUME NEW n \in Nat, NEW i \in 1 .. n
  PROVE  i % n = IF i = n THEN 0 ELSE i
<1>1. CASE i = n
  BY <1>1
<1>2. CASE i # n
  <2>1. i \in 0 .. n - 1
    BY <1>2
  <2> QED BY <1>2, <2>1
<1> QED BY <1>1, <1>2

LEMMA MonsterMoves == MonsterInv => StaysInTheMaze
<1> SUFFICES ASSUME MonsterInv, walking = "repeat",
                    NEW i \in 1 .. Len(path)
             PROVE  Moves(path[i], path[(i % Len(path)) + 1])
  BY DEF StaysInTheMaze, Moves
<1>1. /\ path = path1 \o Reverse(path1) \o path2 \o Reverse(path2)
      /\ Walk(path1) /\ Walk(path2) /\ path1[1] = path2[1]
  BY DEF MonsterInv, ThereAndBack
<1>2. /\ path1 \in Seq(space) /\ path1 # <<>> /\ MovesAlong(path1)
      /\ path2 \in Seq(space) /\ path2 # <<>> /\ MovesAlong(path2)
  BY <1>1 DEF Walk, MovesAlong, Moves
<1> DEFINE back1 == Reverse(path1)
           back2 == Reverse(path2)
           out == path1 \o back1
           half == out \o path2
           n == Len(path)
<1>3. /\ back1 \in Seq(space) /\ back1 # <<>> /\ MovesAlong(back1)
      /\ back1[1] = path1[Len(path1)] /\ back1[Len(back1)] = path1[1]
  BY <1>2, WayBack
<1>4. /\ back2 \in Seq(space) /\ back2 # <<>> /\ MovesAlong(back2)
      /\ back2[1] = path2[Len(path2)] /\ back2[Len(back2)] = path2[1]
  BY <1>2, WayBack
<1>5. path = half \o back2
  BY <1>1
<1> HIDE DEF back1, back2
<1>6. /\ out \in Seq(space) /\ out # <<>> /\ MovesAlong(out)
      /\ out[1] = path1[1] /\ out[Len(out)] = path1[1]
  BY <1>2, <1>3, OneAfterTheOther
<1> HIDE DEF out
<1>7. /\ half \in Seq(space) /\ half # <<>> /\ MovesAlong(half)
      /\ half[1] = path1[1] /\ half[Len(half)] = path2[Len(path2)]
  BY <1>1, <1>2, <1>6, OneAfterTheOther
<1> HIDE DEF half
<1>8. /\ path \in Seq(space) /\ path # <<>> /\ MovesAlong(path)
      /\ path[1] = path1[1] /\ path[n] = path1[1]
  BY <1>1, <1>4, <1>5, <1>7, OneAfterTheOther
<1>9. n \in Nat
  BY <1>8
<1> HIDE DEF n
<1>10. i \in 1 .. n
  BY DEF n
<1>11. CASE i = n
  <2>1. (i % n) + 1 = 1
    BY <1>9, <1>10, <1>11, RoundAndRound
  <2> QED BY <1>8, <1>11, <2>1 DEF Moves, n
<1>12. CASE i # n
  <2>1. i % n = i
    BY <1>9, <1>10, <1>12, RoundAndRound
  <2>2. i \in 1 .. n - 1
    BY <1>9, <1>10, <1>12
  <2> QED BY <1>8, <2>1, <2>2 DEF MovesAlong, n
<1> QED BY <1>11, <1>12

----------------------------------------------------------------------------
(* Dead ends of short walks *)

\* Of two connected tiles one is a hall and the other one of its ends.
LEMMA Alternate ==
  ASSUME Shape, NEW t, NEW u, {t, u} \in links
  PROVE  /\ t # u /\ t \in space /\ u \in space
         /\ t \in Cells \cup Halls /\ u \in Cells \cup Halls
         /\ t \in Halls <=> u \in Cells
         /\ t \in Halls => u \in Ends(t)
         /\ u \in Halls => t \in Ends(u)
<1>1. PICK p \in space \cap Halls, e \in space \cap Cells :
        e \in Ends(p) /\ {t, u} = {p, e} /\ p # e
  BY LinksJoin
<1>2. (t = p /\ u = e) \/ (t = e /\ u = p)
  BY <1>1
<1>3. p \notin Cells /\ e \notin Halls
  BY <1>1, CellsAndHalls
<1> QED BY <1>1, <1>2, <1>3

\* Two halls do not join the same two cells.
LEMMA HallsApart ==
  ASSUME NEW p \in Halls, NEW q \in Halls, NEW e \in Ends(p) \cap Ends(q),
         NEW f \in Ends(p) \cap Ends(q), e # f
  PROVE  p = q
<1>1. /\ p = <<p[1], p[2]>> /\ p[1] \in Int /\ p[2] \in Int
      /\ q = <<q[1], q[2]>> /\ q[1] \in Int /\ q[2] \in Int
  BY TilesAreTuples DEF Halls
<1> DEFINE r == p[1]
           c == p[2]
           s == q[1]
           d == q[2]
<1>2. Ends(p) = IF Odd(r) THEN {<<r, c - 1>>, <<r, c + 1>>} ELSE {<<r - 1, c>>, <<r + 1, c>>}
  BY DEF Ends
<1>3. Ends(q) = IF Odd(s) THEN {<<s, d - 1>>, <<s, d + 1>>} ELSE {<<s - 1, d>>, <<s + 1, d>>}
  BY DEF Ends
<1>4. p = <<r, c>> /\ q = <<s, d>> /\ r \in Int /\ c \in Int /\ s \in Int /\ d \in Int
  BY <1>1
<1> HIDE DEF r, c, s, d
<1>5. Ends(p) = {e, f} /\ Ends(q) = {e, f}
  BY <1>2, <1>3
<1>6. CASE Odd(r) /\ Odd(s)
  BY <1>2, <1>3, <1>4, <1>5, <1>6
<1>7. CASE Odd(r) /\ ~Odd(s)
  BY <1>2, <1>3, <1>4, <1>5, <1>7
<1>8. CASE ~Odd(r) /\ Odd(s)
  BY <1>2, <1>3, <1>4, <1>5, <1>8
<1>9. CASE ~Odd(r) /\ ~Odd(s)
  BY <1>2, <1>3, <1>4, <1>5, <1>9
<1> QED BY <1>6, <1>7, <1>8, <1>9

\* No way around four tiles.
LEMMA NoSquares ==
  ASSUME Shape, NEW a, NEW b, NEW c, NEW d, a # c, b # d,
         {a, b} \in links, {b, c} \in links, {c, d} \in links, {d, a} \in links
  PROVE  FALSE
<1>1. CASE a \in Halls
  <2>1. b \in Cells /\ c \in Halls /\ d \in Cells
    BY <1>1, Alternate, CellsAndHalls
  <2>2. b \in Ends(a) \cap Ends(c) /\ d \in Ends(a) \cap Ends(c)
    BY <1>1, <2>1, Alternate
  <2> QED BY <1>1, <2>1, <2>2, HallsApart
<1>2. CASE a \notin Halls
  <2>1. b \in Halls /\ d \in Halls
    BY <1>2, Alternate, CellsAndHalls
  <2>2. a \in Ends(b) \cap Ends(d) /\ c \in Ends(b) \cap Ends(d)
    BY <2>1, Alternate
  <2> QED BY <2>1, <2>2, HallsApart
<1> QED BY <1>1, <1>2

\* A walk of at most five spaces that cannot go ahead has come to a dead end of the maze:
\* it is too short to have walked around a wall and into itself.
LEMMA DeadEnds ==
  ASSUME Shape, Steps <= 5, NEW w, Walk(w), Len(w) > 1, Len(w) <= Steps, Ahead(w) = {}
  PROVE  Degree(Last(w)) = 1
<1> DEFINE n == Len(w)
<1>1. /\ w \in Seq(space)
      /\ \A i \in 1 .. n - 1 : {w[i], w[i + 1]} \in links
      /\ \A i, j \in 1 .. n : w[i] = w[j] => i = j
  BY DEF Walk
<1>2. n \in Nat /\ n > 1 /\ n <= 5
  BY <1>1, MonsterAssumption
<1> DEFINE p == w[n - 1]
<1>3. {p, w[n]} \in links
  <2>1. n - 1 \in 1 .. n - 1 /\ (n - 1) + 1 = n
    BY <1>2
  <2> QED BY <1>1, <2>1
<1>4. ASSUME NEW i \in 1 .. n, {w[n], w[i]} \in links PROVE w[i] = p
  <2> DEFINE hall(j) == w[j] \in Halls
  <2>1. \A j \in 1 .. n - 1 : hall(j + 1) <=> ~hall(j)
    BY <1>1, Alternate, CellsAndHalls
  <2>2. ~hall(i) <=> hall(n)
    BY <1>4, Alternate, CellsAndHalls
  <2> HIDE DEF hall
  <2>3. i # n
    BY <2>2
  <2>4. i # n - 2
    BY <1>2, <2>1, <2>2
  <2>5. i # n - 4
    BY <1>2, <2>1, <2>2
  <2>6. ASSUME i = n - 3 PROVE FALSE
    <3>1. /\ i \in 1 .. n - 1 /\ i + 1 \in 1 .. n - 1 /\ i + 2 \in 1 .. n - 1
          /\ i + 3 = n /\ (i + 1) + 1 = i + 2 /\ (i + 2) + 1 = i + 3
      BY <1>2, <2>6
    <3>2. /\ {w[i], w[i + 1]} \in links
          /\ {w[i + 1], w[i + 2]} \in links
          /\ {w[i + 2], w[i + 3]} \in links
      BY <1>1, <3>1
    <3>3. w[i] # w[i + 2] /\ w[i + 1] # w[i + 3]
      BY <1>1, <1>2, <3>1
    <3>4. {w[i + 3], w[i]} \in links
      BY <1>4, <3>1
    <3> QED BY <3>2, <3>3, <3>4, NoSquares
  <2>7. i = n - 1
    BY <1>2, <2>3, <2>4, <2>5, <2>6
  <2> QED BY <2>7
<1>5. {u \in space : {w[n], u} \in links} \subseteq {p}
  <2>1. ASSUME NEW u \in space, {w[n], u} \in links PROVE u = p
    <3>1. u # w[n]
      BY <2>1, Alternate
    <3>2. u \in Range(w)
      BY <2>1, <3>1 DEF Ahead, Connected, Last
    <3>3. PICK i \in 1 .. n : u = w[i]
      BY <1>1, <3>2 DEF Range
    <3> QED BY <1>4, <2>1, <3>3
  <2> QED BY <2>1
<1>6. Degree(w[n]) <= 1 /\ Degree(w[n]) \in Nat /\ Degree(w[n]) >= 1
  BY <1>3, <1>5, Degrees
<1> HIDE DEF n
<1>7. Degree(w[n]) = 1
  BY <1>6
<1> QED BY <1>7 DEF Last, n

\* A monster of a crossing that found no way ahead from its first space, but for one.
LEMMA CrossingsLeadOn ==
  ASSUME Shape, NEW w, Walk(w), Len(w) = 1, NEW x, Ahead(w) \subseteq {x}
  PROVE  Degree(w[1]) <= 1
<1>1. Last(w) = w[1] /\ Range(w) = {w[1]}
  BY DEF Walk, Last, Range
<1>2. {u \in space : {w[1], u} \in links} \subseteq {x}
  BY <1>1, Alternate DEF Ahead, Connected
<1> QED BY <1>2, Degrees

LEMMA WalksDiffer == MazeInv /\ MonsterInv /\ Steps <= 5 => WalksPart
<1> SUFFICES ASSUME Shape, MonsterInv, Steps <= 5, walking = "repeat" PROVE WalksPart
  BY DEF MazeInv, WalksPart
<1>1. /\ Walk(path1) /\ Walk(path2) /\ path1[1] = path2[1]
      /\ \/ Len(path1) > 1 /\ firstDirection = path1[2]
         \/ Len(path1) <= Steps /\ Ahead(path1) = {} /\ firstDirection = Nowhere
      /\ Len(path2) > 1 => path2[2] # firstDirection
      /\ Len(path2) > 1 \/ AheadAgain = {}
  BY DEF MonsterInv
<1>2. /\ Len(path1) \in Nat /\ Len(path1) >= 1
      /\ Len(path2) \in Nat /\ Len(path2) >= 1
  BY <1>1 DEF Walk
<1>3. ASSUME Len(path1) > 1, Len(path2) > 1, path1[2] = path2[2]
      PROVE  Len(path1) <= Steps /\ Degree(Last(path1)) = 1
  BY <1>1, <1>3, DeadEnds
<1>4. ASSUME Degree(path1[1]) > 1 PROVE Len(path1) > 1 /\ Len(path2) > 1
  <2>1. Degree(path1[1]) \in Nat
    BY Degrees
  <2>2. ASSUME Len(path1) = 1 PROVE FALSE
    <3>1. Ahead(path1) \subseteq {Nowhere}
      BY <1>1, <2>2
    <3>2. Degree(path1[1]) <= 1
      BY <1>1, <2>2, <3>1, CrossingsLeadOn
    <3> QED BY <1>4, <2>1, <3>2
  <2>3. ASSUME Len(path2) = 1 PROVE FALSE
    <3>1. Ahead(path2) \subseteq {firstDirection}
      BY <1>1, <2>3 DEF AheadAgain
    <3>2. Degree(path2[1]) <= 1
      BY <1>1, <2>3, <3>1, CrossingsLeadOn
    <3> QED BY <1>1, <1>4, <2>1, <3>2
  <2> QED BY <1>2, <2>2, <2>3, OneOrMore
<1> QED BY <1>3, <1>4 DEF WalksPart

----------------------------------------------------------------------------
(* Theorems about the monsters *)

THEOREM MonsterInvariant == MonsterSpec => [](MazeInv /\ MonsterInv)
<1>1. MazeInv /\ MonsterInv /\ [MonsterNext]_<<vars, monsterVars>> => MonsterInv'
  BY MonsterStep
<1> QED BY <1>1, MonsterStarts, MonstersKeepTheMaze, MazeInvariant, PTL DEF MonsterSpec

\* A monster never moves through a wall, on any grid and for walks of any length.
THEOREM MonstersStayInTheMaze == MonsterSpec => []StaysInTheMaze
  BY MonsterInvariant, MonsterMoves, PTL

\* The two walks of a monster part, for walks of up to the five steps the code takes: one
\* of eight could run into itself around a wall and end without a dead end.
THEOREM WalksOfMonstersPart ==
  ASSUME Steps <= 5
  PROVE  MonsterSpec => []WalksPart
<1>1. MazeInv /\ MonsterInv => WalksPart
  BY WalksDiffer
<1> QED BY <1>1, MonsterInvariant, PTL

----------------------------------------------------------------------------
(* The search for distances *)

\* The placing of a trophy keeps the maze it is given.
THEOREM TrophiesKeepTheMaze == TrophySpec => Spec
<1>1. TrophyInit => Init
  BY DEF TrophyInit
<1>2. [TrophyNext]_<<vars, trophyVars>> => [Next]_vars
  BY DEF TrophyNext, MeasureDistances, Expand, Searched, MSTBasedFairPosition, NoCircles,
         CircleBasedRandomPositioning, XimingsRandomTrophyPositioning
<1> QED BY <1>1, <1>2, PTL DEF TrophySpec, Spec

\* A search under way from a, with queue q: the map has 0 at a and grows by one along the
\* maze; the queue is in the order of the map, over at most two values; a tile that left
\* the queue has no neighbour that is unknown or more than one farther
Measured(map, a, q) ==
  /\ map \in [Tiles -> Int] /\ a \in space /\ q \in Seq(space)
  /\ \A t \in Tiles : map[t] >= -1 /\ (map[t] = 0 <=> t = a) /\ (map[t] # -1 => t \in space)
  /\ \A t \in space : map[t] # -1 /\ t # a =>
       \E u \in ConnectedNodes(t) : map[u] # -1 /\ map[t] = map[u] + 1
  /\ \A i \in 1 .. Len(q) : map[q[i]] # -1
  /\ \A i, j \in 1 .. Len(q) :
       i <= j => map[q[i]] <= map[q[j]] /\ map[q[j]] <= map[q[i]] + 1
  /\ \A t \in space : map[t] # -1 /\ (\A i \in 1 .. Len(q) : q[i] # t) =>
       /\ \A u \in ConnectedNodes(t) : map[u] # -1 /\ map[u] <= map[t] + 1
       /\ \A i \in 1 .. Len(q) : map[t] <= map[q[i]]

\* Connections go both ways.
LEMMA BothWays ==
  ASSUME Shape, NEW t \in space, NEW u \in ConnectedNodes(t)
  PROVE  u \in space /\ t \in ConnectedNodes(u) /\ u # t
<1>1. u \in space /\ {t, u} \in links /\ u # t
  BY DEF ConnectedNodes
<1>2. {u, t} = {t, u}
  OBVIOUS
<1> QED BY <1>1, <1>2 DEF ConnectedNodes

\* The map before the loop.
LEMMA SearchBegins ==
  ASSUME Shape, NEW a \in space
  PROVE  Measured([Unknown EXCEPT ![a] = 0], a, <<a>>)
<1> DEFINE map == [Unknown EXCEPT ![a] = 0]
           q == <<a>>
<1>1. a \in Tiles
  BY AllFinite
<1>2. /\ map \in [Tiles -> Int] /\ map[a] = 0
      /\ \A t \in Tiles : t # a => map[t] = -1
  BY <1>1 DEF Unknown
<1>3. q \in Seq(space) /\ Len(q) = 1 /\ q[1] = a
  OBVIOUS
<1>4. space \subseteq Tiles
  BY AllFinite
<1> HIDE DEF map, q
<1>5. /\ \A t \in Tiles : map[t] >= -1 /\ (map[t] = 0 <=> t = a) /\ (map[t] # -1 => t \in space)
      /\ \A t \in space : map[t] # -1 => t = a
  BY <1>1, <1>2, <1>4
<1>6. \A i \in 1 .. Len(q) : i = 1 /\ q[i] = a
  BY <1>3
<1>7. \A t \in space : ~ (map[t] # -1 /\ \A i \in 1 .. Len(q) : q[i] # t)
  BY <1>3, <1>5
<1>8. /\ \A i \in 1 .. Len(q) : map[q[i]] # -1
      /\ \A i, j \in 1 .. Len(q) :
           i <= j => map[q[i]] <= map[q[j]] /\ map[q[j]] <= map[q[i]] + 1
  BY <1>2, <1>6
<1>9. Measured(map, a, q)
  BY <1>2, <1>3, <1>5, <1>7, <1>8 DEF Measured
<1> QED BY <1>9 DEF map, q

\* A sequence of SetToSeqs holds all of the set, and nothing else.
LEMMA Orders ==
  ASSUME NEW T, IsFiniteSet(T), NEW order \in SetToSeqs(T)
  PROVE  /\ order \in Seq(T)
         /\ \A x \in T : \E i \in 1 .. Len(order) : order[i] = x
<1> DEFINE n == Cardinality(T)
<1>1. n \in Nat
  BY FS_CardinalityType
<1>2. order \in [1 .. n -> T] /\ \A i, j \in 1 .. n : i # j => order[i] # order[j]
  BY DEF SetToSeqs
<1>3. order \in Injection(1 .. n, T)
  BY <1>2 DEF Injection, IsInjective
<1>4. Cardinality(1 .. n) = n
  BY <1>1, FS_Interval
<1>5. order \in Surjection(1 .. n, T)
  BY <1>3, <1>4, FS_Injection
<1>6. order \in Seq(T) /\ Len(order) = n
  BY <1>1, <1>2
<1> QED BY <1>5, <1>6 DEF Surjection

\* The head of the queue is expanded: it gets its unknown neighbours behind it.
LEMMA SearchGoesOn ==
  ASSUME Shape, NEW map, NEW a, NEW q, Measured(map, a, q), q # <<>>,
         NEW N, \A t : t \in N <=> t \in ConnectedNodes(q[1]) /\ map[t] = -1,
         NEW order \in SetToSeqs(N),
         NEW new \in [Tiles -> Int],
         \A t \in Tiles : new[t] = IF t \in N THEN map[q[1]] + 1 ELSE map[t]
  PROVE  Measured(new, a, Tail(q) \o order)
<1> DEFINE root == q[1]
           rest == Tail(q)
           m == Len(rest)
           n == Len(order)
           next == rest \o order
<1>1. /\ map \in [Tiles -> Int] /\ a \in space /\ q \in Seq(space)
      /\ \A t \in Tiles : map[t] >= -1 /\ (map[t] = 0 <=> t = a) /\ (map[t] # -1 => t \in space)
      /\ \A t \in space : map[t] # -1 /\ t # a =>
           \E u \in ConnectedNodes(t) : map[u] # -1 /\ map[t] = map[u] + 1
      /\ \A i \in 1 .. Len(q) : map[q[i]] # -1
      /\ \A i, j \in 1 .. Len(q) :
           i <= j => map[q[i]] <= map[q[j]] /\ map[q[j]] <= map[q[i]] + 1
      /\ \A t \in space : map[t] # -1 /\ (\A i \in 1 .. Len(q) : q[i] # t) =>
           /\ \A u \in ConnectedNodes(t) : map[u] # -1 /\ map[u] <= map[t] + 1
           /\ \A i \in 1 .. Len(q) : map[t] <= map[q[i]]
  BY DEF Measured
<1>2. /\ Len(q) \in Nat /\ Len(q) >= 1 /\ root \in space
      /\ rest \in Seq(space) /\ Len(q) = m + 1 /\ m \in Nat
      /\ \A i \in 1 .. m : rest[i] = q[i + 1]
  BY <1>1
<1>3. space \subseteq Tiles /\ root \in Tiles /\ \A t \in space : ConnectedNodes(t) \subseteq space
  BY <1>2, AllFinite DEF ConnectedNodes
<1>4. map[root] \in Int /\ map[root] >= 0 /\ root \notin N
  <2>1. 1 \in 1 .. Len(q)
    BY <1>2
  <2>2. map[root] # -1
    BY <1>1, <2>1
  <2>3. map[root] \in Int /\ map[root] >= -1
    BY <1>1, <1>3
  <2> QED BY <2>2, <2>3
<1>5. N \subseteq space /\ IsFiniteSet(N)
  <2>1. N \subseteq space
    BY <1>2, <1>3
  <2> QED BY <2>1, AllFinite, FS_Subset
<1>6. /\ order \in Seq(N) /\ n \in Nat
      /\ \A x \in N : \E i \in 1 .. n : order[i] = x
      /\ \A i \in 1 .. n : order[i] \in N
  <2>1. order \in Seq(N) /\ \A x \in N : \E i \in 1 .. n : order[i] = x
    BY <1>5, Orders
  <2> QED BY <2>1
<1>7. /\ next \in Seq(space) /\ Len(next) = m + n
      /\ \A i \in 1 .. m + n : next[i] = IF i <= m THEN rest[i] ELSE order[i - m]
  <2>1. order \in Seq(space)
    BY <1>5, <1>6
  <2> QED BY <1>2, <2>1, ConcatProperties
<1>8. /\ new \in [Tiles -> Int]
      /\ \A t \in N : new[t] = map[root] + 1 /\ map[t] = -1
      /\ \A t \in Tiles : t \notin N => new[t] = map[t]
      /\ \A t \in Tiles : map[t] # -1 => new[t] = map[t]
  BY <1>1, <1>3, <1>4, <1>5
<1> HIDE DEF root, rest, m, n, next
<1>9. ASSUME NEW t \in Tiles
      PROVE  new[t] >= -1 /\ (new[t] = 0 <=> t = a) /\ (new[t] # -1 => t \in space)
  <2>1. CASE t \in N
    <3>1. t # a
      BY <1>1, <1>8, <2>1
    <3> QED BY <1>4, <1>5, <1>8, <2>1, <3>1
  <2>2. CASE t \notin N
    BY <1>1, <1>8, <2>2
  <2> QED BY <2>1, <2>2
<1>10. ASSUME NEW t \in space, new[t] # -1, t # a
       PROVE  \E u \in ConnectedNodes(t) : new[u] # -1 /\ new[t] = new[u] + 1
  <2>1. CASE t \in N
    <3>1. root \in ConnectedNodes(t)
      BY <1>2, <2>1, BothWays DEF root
    <3>2. new[root] = map[root] /\ map[root] # -1 /\ new[t] = map[root] + 1
      BY <1>3, <1>4, <1>8, <2>1
    <3> QED BY <3>1, <3>2
  <2>2. CASE t \notin N
    <3>1. new[t] = map[t] /\ map[t] # -1
      BY <1>3, <1>8, <1>10, <2>2
    <3>2. PICK u \in ConnectedNodes(t) : map[u] # -1 /\ map[t] = map[u] + 1
      BY <1>1, <1>10, <3>1
    <3>3. new[u] = map[u]
      BY <1>3, <1>8, <3>2
    <3> QED BY <3>1, <3>2, <3>3
  <2> QED BY <2>1, <2>2
\* what was in the queue has the value of the root or one more, what is new one more
<1>11. ASSUME NEW i \in 1 .. m
       PROVE  /\ i \in 1 .. m + n /\ i + 1 \in 1 .. Len(q) /\ next[i] = q[i + 1]
              /\ new[next[i]] = map[q[i + 1]] /\ map[q[i + 1]] # -1
              /\ map[q[i + 1]] \in Int
              /\ map[root] <= map[q[i + 1]] /\ map[q[i + 1]] <= map[root] + 1
  <2>1. /\ i \in 1 .. m + n /\ i <= m /\ i + 1 \in 1 .. Len(q) /\ 1 \in 1 .. Len(q) /\ 1 <= i + 1
    BY <1>2, <1>6
  <2>2. next[i] = q[i + 1]
    BY <1>2, <1>7, <2>1
  <2>3. q[i + 1] \in Tiles /\ map[q[i + 1]] # -1 /\ map[q[i + 1]] \in Int
    BY <1>1, <1>3, <2>1
  <2>4. map[q[1]] <= map[q[i + 1]] /\ map[q[i + 1]] <= map[q[1]] + 1
    BY <1>1, <2>1
  <2> QED BY <1>8, <2>1, <2>2, <2>3, <2>4 DEF root
<1>12. ASSUME NEW i \in 1 .. m + n, i \notin 1 .. m
       PROVE  next[i] \in N /\ new[next[i]] = map[root] + 1
  <2>1. ~ (i <= m) /\ i - m \in 1 .. n
    BY <1>2, <1>6, <1>12
  <2> QED BY <1>6, <1>7, <1>8, <2>1
<1>13. ASSUME NEW i \in 1 .. m + n
       PROVE  /\ new[next[i]] # -1
              /\ map[root] <= new[next[i]] /\ new[next[i]] <= map[root] + 1
  <2>1. CASE i \in 1 .. m
    BY <1>11, <2>1
  <2>2. CASE i \notin 1 .. m
    BY <1>4, <1>12, <2>2
  <2> QED BY <2>1, <2>2
<1>14. ASSUME NEW i \in 1 .. m + n, NEW j \in 1 .. m + n, i <= j
       PROVE  new[next[i]] <= new[next[j]] /\ new[next[j]] <= new[next[i]] + 1
  <2>1. CASE i \in 1 .. m /\ j \in 1 .. m
    <3>1. i + 1 <= j + 1 /\ i + 1 \in 1 .. Len(q) /\ j + 1 \in 1 .. Len(q)
      BY <1>2, <1>14, <2>1
    <3>2. map[q[i + 1]] <= map[q[j + 1]] /\ map[q[j + 1]] <= map[q[i + 1]] + 1
      BY <1>1, <3>1
    <3> QED BY <1>11, <2>1, <3>2
  <2>2. CASE i \in 1 .. m /\ j \notin 1 .. m
    <3>1. /\ new[next[i]] = map[q[i + 1]] /\ map[q[i + 1]] \in Int
          /\ map[root] <= map[q[i + 1]] /\ map[q[i + 1]] <= map[root] + 1
      BY <1>11, <2>2
    <3>2. new[next[j]] = map[root] + 1
      BY <1>12, <2>2
    <3> QED BY <1>4, <3>1, <3>2
  <2>3. CASE i \notin 1 .. m
    <3>1. j \notin 1 .. m
      BY <1>2, <1>6, <1>14, <2>3
    <3>2. new[next[i]] = map[root] + 1 /\ new[next[j]] = map[root] + 1
      BY <1>12, <2>3, <3>1
    <3> QED BY <1>4, <3>2
  <2> QED BY <2>1, <2>2, <2>3
<1>15. ASSUME NEW t \in space, new[t] # -1, \A i \in 1 .. m + n : next[i] # t
       PROVE  /\ \A u \in ConnectedNodes(t) : new[u] # -1 /\ new[u] <= new[t] + 1
              /\ \A i \in 1 .. m + n : new[t] <= new[next[i]]
  <2>1. t \notin N
    <3>1. ASSUME t \in N PROVE FALSE
      <4>1. PICK k \in 1 .. n : order[k] = t
        BY <1>6, <3>1
      <4>2. m + k \in 1 .. m + n /\ ~ (m + k <= m) /\ (m + k) - m = k
        BY <1>2, <1>6
      <4> QED BY <1>7, <1>15, <4>1, <4>2
    <3> QED BY <3>1
  <2>2. t \in Tiles /\ new[t] = map[t] /\ map[t] # -1 /\ map[t] \in Int
    BY <1>1, <1>3, <1>8, <1>15, <2>1
  <2>3. CASE t = root
    <3>1. ASSUME NEW u \in ConnectedNodes(t) PROVE new[u] # -1 /\ new[u] <= map[root] + 1
      <4>1. u \in space /\ u \in Tiles
        BY <1>3
      <4>2. CASE u \in N
        BY <1>4, <1>8, <4>2
      <4>3. CASE u \notin N
        <5>1. map[u] # -1 /\ new[u] = map[u] /\ map[u] \in Int
          BY <1>1, <1>8, <2>3, <4>1, <4>3 DEF root
        <5>2. CASE \E i \in 1 .. Len(q) : q[i] = u
          <6>1. PICK i \in 1 .. Len(q) : q[i] = u
            BY <5>2
          <6>2. 1 \in 1 .. Len(q) /\ 1 <= i
            BY <1>2
          <6> QED BY <1>1, <5>1, <6>1, <6>2 DEF root
        <5>3. CASE \A i \in 1 .. Len(q) : q[i] # u
          <6>1. 1 \in 1 .. Len(q)
            BY <1>2
          <6>2. map[u] <= map[root]
            BY <1>1, <4>1, <5>1, <5>3, <6>1 DEF root
          <6> QED BY <1>4, <5>1, <6>2
        <5> QED BY <5>2, <5>3
      <4> QED BY <4>2, <4>3
    <3>2. \A i \in 1 .. m + n : map[root] <= new[next[i]]
      BY <1>13
    <3> QED BY <2>2, <2>3, <3>1, <3>2
  <2>4. CASE t # root
    <3>1. \A i \in 1 .. Len(q) : q[i] # t
      <4>1. ASSUME NEW i \in 1 .. Len(q), q[i] = t PROVE FALSE
        <5>1. i # 1
          BY <2>4, <4>1 DEF root
        <5>2. i - 1 \in 1 .. m /\ (i - 1) + 1 = i
          BY <1>2, <5>1
        <5>3. i - 1 \in 1 .. m + n /\ next[i - 1] = q[(i - 1) + 1]
          BY <1>11, <5>2
        <5> QED BY <1>15, <4>1, <5>2, <5>3
      <4> QED BY <4>1
    <3>2. /\ \A u \in ConnectedNodes(t) : map[u] # -1 /\ map[u] <= map[t] + 1
          /\ \A i \in 1 .. Len(q) : map[t] <= map[q[i]]
      BY <1>1, <2>2, <3>1
    <3>3. \A u \in ConnectedNodes(t) : u \in Tiles /\ new[u] = map[u]
      BY <1>3, <1>8, <3>2
    <3>4. map[t] <= map[root]
      <4>1. 1 \in 1 .. Len(q)
        BY <1>2
      <4> QED BY <3>2, <4>1 DEF root
    <3>5. ASSUME NEW i \in 1 .. m + n PROVE map[t] <= new[next[i]]
      <4>1. map[root] <= new[next[i]]
        BY <1>13
      <4>2. next[i] \in Tiles
        BY <1>3, <1>7
      <4>3. new[next[i]] \in Int
        BY <1>8, <4>2
      <4> QED BY <1>4, <2>2, <3>4, <4>1, <4>3
    <3> QED BY <2>2, <3>2, <3>3, <3>5
  <2> QED BY <2>3, <2>4
<1>16. Measured(new, a, next)
  BY <1>1, <1>7, <1>8, <1>9, <1>10, <1>13, <1>14, <1>15 DEF Measured
<1> QED BY <1>16 DEF next, rest

\* What is closed under connections and not empty is all of the maze, wherever it begins.
LEMMA ClosedIsAll ==
  ASSUME Shape, Whole, NEW S \in SUBSET space, S # {},
         \A t \in S : ConnectedNodes(t) \subseteq S
  PROVE  S = space
<1>1. ASSUME NEW l \in links, l \cap S # {} PROVE l \subseteq S
  <2>1. PICK t \in space, u \in space : l = {t, u} /\ t # u
    BY LinksJoin
  <2>2. {t, u} = {u, t}
    OBVIOUS
  <2>3. (t \in S /\ u \in ConnectedNodes(t)) \/ (u \in S /\ t \in ConnectedNodes(u))
    BY <1>1, <2>1, <2>2 DEF ConnectedNodes
  <2> QED BY <2>1, <2>3
<1>2. CASE Start \in S
  BY <1>1, <1>2 DEF Whole
<1>3. CASE Start \notin S
  <2>1. \A l \in links : l \cap (space \ S) # {} => l \subseteq space \ S
    <3>1. \A l \in links : l \subseteq space
      BY AllFinite
    <3> QED BY <1>1, <3>1
  <2>2. Start \in space \ S
    BY <1>3 DEF Shape
  <2>3. space \ S = space
    BY <2>1, <2>2 DEF Whole
  <2> QED BY <2>3
<1> QED BY <1>2, <1>3

\* When the queue is empty the map is that of the shortest distances.
LEMMA SearchEnds ==
  ASSUME Shape, Whole, NEW map, NEW a, Measured(map, a, <<>>)
  PROVE  ShortestFrom(map, a)
<1>1. /\ map \in [Tiles -> Int] /\ a \in space
      /\ \A t \in Tiles : map[t] >= -1 /\ (map[t] = 0 <=> t = a) /\ (map[t] # -1 => t \in space)
      /\ \A t \in space : map[t] # -1 /\ t # a =>
           \E u \in ConnectedNodes(t) : map[u] # -1 /\ map[t] = map[u] + 1
      /\ \A t \in space : map[t] # -1 =>
           \A u \in ConnectedNodes(t) : map[u] # -1 /\ map[u] <= map[t] + 1
  BY DEF Measured
<1>2. space \subseteq Tiles /\ \A t \in space : ConnectedNodes(t) \subseteq space
  BY AllFinite DEF ConnectedNodes
<1> DEFINE S == {t \in space : map[t] # -1}
<1>3. S = space
  <2>1. a \in S
    BY <1>1, <1>2
  <2>2. \A t \in S : ConnectedNodes(t) \subseteq S
    BY <1>1, <1>2
  <2>3. S \in SUBSET space /\ S # {}
    BY <2>1
  <2> HIDE DEF S
  <2> QED BY <2>2, <2>3, ClosedIsAll
<1>4. \A t \in space : map[t] # -1
  BY <1>3
<1>5. \A t \in Tiles : map[t] = -1 <=> t \notin space
  BY <1>1, <1>4
<1>6. ASSUME NEW t \in space
      PROVE  /\ map[t] = 0 <=> t = a
             /\ t # a => \E u \in ConnectedNodes(t) : map[t] = map[u] + 1
             /\ \A u \in ConnectedNodes(t) : map[t] <= map[u] + 1
  BY <1>1, <1>2, <1>4, BothWays
<1> QED BY <1>5, <1>6 DEF ShortestFrom

\* Of two such maps from one space none has a tile nearer than the other has it.
LEMMA NoNearer ==
  ASSUME Shape, NEW s \in space,
         NEW f \in [Tiles -> Nat \cup {-1}], NEW g \in [Tiles -> Nat \cup {-1}],
         ShortestFrom(f, s), ShortestFrom(g, s)
  PROVE  \A t \in space : g[t] <= f[t]
<1>1. space \subseteq Tiles /\ \A t \in space : ConnectedNodes(t) \subseteq space
  BY AllFinite DEF ConnectedNodes
<1>2. \A t \in space : f[t] \in Nat /\ g[t] \in Nat
  BY <1>1 DEF ShortestFrom
<1> DEFINE Nearer == {t \in space : f[t] < g[t]}
           T == {f[t] : t \in Nearer}
<1>3. ASSUME Nearer # {} PROVE FALSE
  <2>1. T \in SUBSET Nat /\ T # {}
    BY <1>2, <1>3
  <2>2. PICK n \in T : \A m \in T : n <= m
    <3> HIDE DEF T
    <3> QED BY <2>1, LeastNumber
  <2>3. PICK t \in Nearer : n = f[t]
    OBVIOUS
  <2>4. t # s
    <3>1. f[s] = 0 /\ g[s] = 0
      BY DEF ShortestFrom
    <3> QED BY <2>3, <3>1
  <2>5. PICK u \in ConnectedNodes(t) : f[t] = f[u] + 1
    BY <2>3, <2>4 DEF ShortestFrom
  <2>6. u \in space /\ g[t] <= g[u] + 1
    BY <1>1, <2>3, <2>5 DEF ShortestFrom
  <2>7. f[u] < g[u]
    BY <1>2, <2>3, <2>5, <2>6
  <2>8. f[u] \in T
    BY <2>6, <2>7
  <2>9. f[t] <= f[u]
    BY <2>2, <2>3, <2>8
  <2> QED BY <1>2, <2>3, <2>5, <2>6, <2>9
<1>4. \A t \in space : ~ (f[t] < g[t])
  BY <1>3
<1> QED BY <1>2, <1>4

\* There is one map of shortest distances: what SearchesAreShortest says of the two maps
\* leaves nothing open, so no order of the queue can give the trophy another choice.
THEOREM OneShortestMap ==
  ASSUME Shape, NEW s \in space,
         NEW f \in [Tiles -> Nat \cup {-1}], NEW g \in [Tiles -> Nat \cup {-1}],
         ShortestFrom(f, s), ShortestFrom(g, s)
  PROVE  f = g
<1>1. ASSUME NEW t \in Tiles PROVE f[t] = g[t]
  <2>1. CASE t \in space
    <3>1. g[t] <= f[t] /\ f[t] <= g[t]
      BY <2>1, NoNearer
    <3>2. f[t] \in Int /\ g[t] \in Int
      OBVIOUS
    <3> QED BY <3>1, <3>2
  <2>2. CASE t \notin space
    BY <2>2 DEF ShortestFrom
  <2> QED BY <2>1, <2>2
<1> QED BY <1>1

----------------------------------------------------------------------------
(* The place of the trophy *)

TrophyInv ==
  /\ placing \in {"no", "player", "opponent", "compare", "circles", "axes", "placed", "failed"}
  /\ dist \in [Sides -> [Tiles -> Int]]
  /\ placing # "no" => phase = "done" /\ stand \in [Sides -> space]
  /\ placing \in Sides => Measured(dist[placing], stand[placing], queue)
  /\ placing = "opponent" => ShortestFrom(dist["player"], stand["player"])
  /\ placing \in {"compare", "circles", "axes", "placed"} =>
       \A s \in Sides : ShortestFrom(dist[s], stand[s])
  /\ placing \in {"circles", "axes"} => Viable = {}
  /\ TrophyIsFairIfItCan

\* While the maze stays, what is said of maps is said of the same maze.
LEMMA MapsOfOneMaze ==
  ASSUME UNCHANGED vars
  PROVE  /\ Measured(dist[placing], stand[placing], queue)' <=>
              Measured(dist'[placing'], stand'[placing'], queue')
         /\ ShortestFrom(dist["player"], stand["player"])' <=>
              ShortestFrom(dist'["player"], stand'["player"])
         /\ ShortestFrom(dist["opponent"], stand["opponent"])' <=>
              ShortestFrom(dist'["opponent"], stand'["opponent"])
         /\ phase' = phase /\ space' = space
  BY DEF vars, Measured, ShortestFrom, ConnectedNodes

\* A fair tile is a space: the maps have -1 at walls.
LEMMA ViableIsFair ==
  ASSUME MazeInv, TrophyInv, placing \in {"compare", "circles", "axes"}
  PROVE  Viable = {t \in space : Fair(dist["player"], dist["opponent"], t)}
<1>1. /\ \A t \in Tiles : dist["player"][t] = -1 <=> t \notin space
      /\ dist["player"] \in [Tiles -> Int]
  BY DEF TrophyInv, ShortestFrom, Sides
<1>2. ASSUME NEW t \in Tiles, Fair(dist["player"], dist["opponent"], t) PROVE t \in space
  <2>1. dist["player"][t] > MinLength
    BY <1>2 DEF Fair
  <2>2. MinLength \in Nat
    BY TrophyAssumption
  <2>3. dist["player"][t] # -1
    BY <1>1, <2>1, <2>2
  <2> QED BY <1>1, <2>3
<1>3. space \subseteq Tiles
  BY AllFinite DEF MazeInv
<1> QED BY <1>2, <1>3 DEF Viable

LEMMA TrophyStarts == TrophyInit => TrophyInv
<1> SUFFICES ASSUME TrophyInit PROVE TrophyInv
  OBVIOUS
<1>1. dist \in [Sides -> [Tiles -> Int]] /\ placing = "no"
  BY DEF TrophyInit, Unknown
<1> QED BY <1>1 DEF TrophyInv, Sides, TrophyIsFairIfItCan

\* A search begins in a map without distances.
LEMMA SearchStep ==
  ASSUME MazeInv, dist \in [Sides -> [Tiles -> Int]], NEW side \in Sides, NEW at \in space,
         StartSearch(side, at)
  PROVE  /\ dist' \in [Sides -> [Tiles -> Int]]
         /\ Measured(dist'[side], at, queue')
         /\ \A s \in Sides \ {side} : dist'[s] = dist[s]
<1> DEFINE map == [Unknown EXCEPT ![at] = 0]
<1>1. dist' = [dist EXCEPT ![side] = map] /\ queue' = <<at>>
  BY DEF StartSearch
<1>2. Measured(map, at, <<at>>)
  BY SearchBegins DEF MazeInv
<1>3. map \in [Tiles -> Int]
  <2>1. at \in Tiles
    BY AllFinite DEF MazeInv
  <2> QED BY <2>1 DEF Unknown
<1> HIDE DEF map
<1> QED BY <1>1, <1>2, <1>3

LEMMA ExpandStep ==
  ASSUME MazeInv, TrophyInv, Expand
  PROVE  TrophyInv'
<1> DEFINE root == Head(queue)
           map == dist[placing]
           N == Unvisited(root)
           new == [t \in Tiles |-> IF t \in N THEN map[root] + 1 ELSE map[t]]
<1>1. /\ placing \in Sides /\ queue # <<>> /\ dist \in [Sides -> [Tiles -> Int]]
      /\ dist' = [dist EXCEPT ![placing] = new]
      /\ UNCHANGED <<vars, placing, stand, trophy>>
  BY DEF Expand, TrophyInv
<1>2. PICK order \in SetToSeqs(N) : queue' = Tail(queue) \o order
  BY DEF Expand, Enqueue
<1>3. Measured(map, stand[placing], queue)
  BY <1>1 DEF TrophyInv
<1>4. \A t : t \in N <=> t \in ConnectedNodes(root) /\ map[t] = -1
  BY DEF Unvisited
<1>5. root = queue[1]
  BY <1>1
<1>6. map \in [Tiles -> Int] /\ queue \in Seq(space) /\ root \in Tiles
  <2>1. map \in [Tiles -> Int] /\ queue \in Seq(space)
    BY <1>1, <1>3 DEF Measured
  <2>2. root \in space
    BY <1>1, <2>1
  <2> QED BY <2>1, <2>2, AllFinite DEF MazeInv
<1> HIDE DEF N, map, root
<1>7. new \in [Tiles -> Int]
  BY <1>6
<1>8. \A t \in Tiles : new[t] = IF t \in N THEN map[queue[1]] + 1 ELSE map[t]
  BY <1>5
<1> HIDE DEF new
<1>9. Measured(new, stand[placing], Tail(queue) \o order)
  BY <1>1, <1>3, <1>4, <1>5, <1>7, <1>8, SearchGoesOn DEF MazeInv
<1>10. /\ dist' \in [Sides -> [Tiles -> Int]] /\ dist'[placing] = new
       /\ placing = "opponent" => dist'["player"] = dist["player"]
  BY <1>1, <1>7 DEF Sides
<1>11. Measured(dist[placing], stand[placing], queue)'
  BY <1>1, <1>2, <1>9, <1>10, MapsOfOneMaze
<1>12. placing = "opponent" => ShortestFrom(dist["player"], stand["player"])'
  BY <1>1, <1>10, MapsOfOneMaze DEF TrophyInv
<1> QED BY <1>1, <1>10, <1>11, <1>12, MapsOfOneMaze DEF TrophyInv, Sides, TrophyIsFairIfItCan

LEMMA SearchedStep ==
  ASSUME MazeInv, TrophyInv, Searched
  PROVE  TrophyInv'
<1>1. /\ placing \in Sides /\ queue = <<>> /\ dist \in [Sides -> [Tiles -> Int]]
      /\ phase = "done" /\ stand \in [Sides -> space]
      /\ UNCHANGED <<vars, stand, trophy>>
  BY DEF Searched, TrophyInv, Sides
<1>2. ShortestFrom(dist[placing], stand[placing])
  <2>1. Measured(dist[placing], stand[placing], <<>>)
    BY <1>1 DEF TrophyInv
  <2> QED BY <2>1, SearchEnds DEF MazeInv
<1>3. CASE placing = "player" /\ StartSearch("opponent", stand["opponent"])
  <2>1. placing' = "opponent" /\ stand["opponent"] \in space /\ "opponent" \in Sides /\ "player" \in Sides
    BY <1>1, <1>3 DEF StartSearch, Sides
  <2>2. /\ dist' \in [Sides -> [Tiles -> Int]]
        /\ Measured(dist'["opponent"], stand["opponent"], queue')
        /\ dist'["player"] = dist["player"]
    BY <1>1, <1>3, <2>1, SearchStep
  <2>3. Measured(dist[placing], stand[placing], queue)'
    BY <1>1, <2>1, <2>2, MapsOfOneMaze
  <2>4. ShortestFrom(dist["player"], stand["player"])'
    BY <1>1, <1>2, <1>3, <2>2, MapsOfOneMaze
  <2> QED BY <1>1, <2>1, <2>2, <2>3, <2>4, MapsOfOneMaze DEF TrophyInv, TrophyIsFairIfItCan
<1>4. CASE placing = "opponent" /\ placing' = "compare" /\ UNCHANGED <<queue, dist>>
  <2>1. ShortestFrom(dist["player"], stand["player"])
    BY <1>4 DEF TrophyInv
  <2>2. \A s \in Sides : ShortestFrom(dist[s], stand[s])'
    BY <1>1, <1>2, <1>4, <2>1, MapsOfOneMaze DEF Sides
  <2> QED BY <1>1, <1>4, <2>2, MapsOfOneMaze DEF TrophyInv, Sides, TrophyIsFairIfItCan
<1> QED BY <1>3, <1>4 DEF Searched

\* A step of the choice keeps the maps.
LEMMA ChoiceStep ==
  ASSUME MazeInv, TrophyInv, placing \in {"compare", "circles", "axes"},
         UNCHANGED <<vars, stand, dist>>,
         \/ /\ placing' = "placed"
            /\ trophy' \in IF Viable = {} THEN space ELSE Viable
         \/ placing' \in {"circles", "axes"} /\ Viable = {}
         \/ placing' = "failed"
  PROVE  TrophyInv'
<1>1. \A s \in Sides : ShortestFrom(dist[s], stand[s])'
  BY MapsOfOneMaze DEF TrophyInv, Sides
<1>2. Viable' = Viable
  BY DEF Viable
<1>3. Viable = {t \in space : Fair(dist["player"], dist["opponent"], t)}
  BY ViableIsFair
<1>4. TrophyIsFairIfItCan'
  <2>1. CASE placing' = "placed"
    <3>1. trophy' \in IF Viable = {} THEN space ELSE Viable
      BY <2>1
    <3>2. /\ space' = space
          /\ Viable = {t \in space' : Fair(dist["player"], dist["opponent"], t)'}
      BY <1>3 DEF vars, Fair
    <3> QED BY <3>1, <3>2 DEF TrophyIsFairIfItCan
  <2>2. CASE placing' # "placed"
    BY <2>2 DEF TrophyIsFairIfItCan
  <2> QED BY <2>1, <2>2
<1> QED BY <1>1, <1>2, <1>4, MapsOfOneMaze DEF TrophyInv, Sides

\* changeToNeighbour ends the program or moves to a space.
LEMMA NeighbourIsSpace ==
  ASSUME NEW t, ChangeToNeighbour(t)
  PROVE  (placing' = "placed" /\ trophy' \in space) \/ placing' = "failed"
<1> DEFINE tried == [i \in DOMAIN PossibleDirections(t) |->
                       Neighbour(t, PossibleDirections(t)[i])]
           spaces == {i \in DOMAIN tried : tried[i] \in space}
           first == CHOOSE i \in spaces : \A j \in spaces : i <= j
<1>1. \/ spaces # {} /\ PlaceAt(tried[first])
      \/ placing' = "failed"
  BY DEF ChangeToNeighbour
<1>2. DOMAIN PossibleDirections(t) \subseteq Nat
  <2> DEFINE sideways == IF t[2] = Width - 2 THEN <<"left">>
                         ELSE IF t[2] = 1 THEN <<"right">> ELSE <<>>
             vertical == IF t[1] = Height - 2 THEN <<"up">>
                         ELSE IF t[1] = 1 THEN <<"down">> ELSE <<>>
  <2>1. "up" \in Directions /\ "down" \in Directions /\ "left" \in Directions /\ "right" \in Directions
    BY DEF Directions
  <2>2. sideways \in Seq(Directions) /\ vertical \in Seq(Directions)
    BY <2>1
  <2>3. <<"up", "down", "left", "right">> \in Seq(Directions)
    BY <2>1
  <2>4. PossibleDirections(t) = IF sideways \o vertical = <<>>
                                THEN <<"up", "down", "left", "right">>
                                ELSE sideways \o vertical
    BY DEF PossibleDirections
  <2> HIDE DEF sideways, vertical
  <2>5. sideways \o vertical \in Seq(Directions)
    BY <2>2, ConcatProperties
  <2>6. PossibleDirections(t) \in Seq(Directions)
    BY <2>3, <2>4, <2>5
  <2> QED BY <2>6
<1>3. spaces \in SUBSET Nat
  BY <1>2
<1>4. ASSUME spaces # {} PROVE tried[first] \in space
  <2>1. \E i \in spaces : \A j \in spaces : i <= j
    <3> HIDE DEF spaces
    <3> QED BY <1>3, <1>4, LeastNumber
  <2>2. first \in spaces
    <3> HIDE DEF spaces
    <3> QED BY <2>1
  <2> QED BY <2>2
<1> QED BY <1>1, <1>4 DEF PlaceAt

LEMMA TrophyStep == MazeInv /\ TrophyInv /\ [TrophyNext]_<<vars, trophyVars>> => TrophyInv'
<1> SUFFICES ASSUME MazeInv, TrophyInv, [TrophyNext]_<<vars, trophyVars>> PROVE TrophyInv'
  OBVIOUS
<1>1. ASSUME Next, UNCHANGED trophyVars PROVE TrophyInv'
  <2>1. CASE placing = "no"
    BY <1>1, <2>1 DEF TrophyInv, trophyVars, Sides, TrophyIsFairIfItCan
  <2>2. CASE phase = "done"
    BY <1>1, <2>2 DEF Next, Carve, Backtrack, Carved, OpenUp, Generated, Carving
  <2> QED BY <2>1, <2>2 DEF TrophyInv
<1>2. ASSUME NEW tiles \in [Sides -> space], MeasureDistances(tiles) PROVE TrophyInv'
  <2>1. /\ phase = "done" /\ stand' = tiles /\ UNCHANGED vars
        /\ StartSearch("player", tiles["player"]) /\ placing' = "player"
    BY <1>2 DEF MeasureDistances, StartSearch
  <2>2. "player" \in Sides /\ tiles["player"] \in space
    BY DEF Sides
  <2>3. dist' \in [Sides -> [Tiles -> Int]] /\ Measured(dist'["player"], tiles["player"], queue')
    BY <2>1, <2>2, SearchStep DEF TrophyInv
  <2>4. Measured(dist[placing], stand[placing], queue)'
    BY <2>1, <2>3, MapsOfOneMaze
  <2> QED BY <2>1, <2>3, <2>4, MapsOfOneMaze DEF TrophyInv, TrophyIsFairIfItCan
<1>3. CASE Expand
  BY <1>3, ExpandStep
<1>4. CASE Searched
  BY <1>4, SearchedStep
<1>5. CASE MSTBasedFairPosition
  <2>1. placing = "compare" /\ UNCHANGED <<vars, stand, dist>>
    BY <1>5 DEF MSTBasedFairPosition
  <2>2. \/ placing' = "placed" /\ trophy' \in Viable
        \/ placing' = "circles" /\ Viable = {}
    BY <1>5 DEF MSTBasedFairPosition, PlaceAt
  <2> QED BY <2>1, <2>2, ChoiceStep
<1>6. CASE NoCircles
  BY <1>6, ChoiceStep DEF NoCircles, TrophyInv
<1>7. ASSUME NEW row \in 0 .. Height - 1, CircleBasedRandomPositioning(row) PROVE TrophyInv'
  <2>1. placing = "circles" /\ UNCHANGED <<vars, stand, dist>> /\ Viable = {}
    BY <1>7 DEF CircleBasedRandomPositioning, TrophyInv
  <2>2. (placing' = "placed" /\ trophy' \in space) \/ placing' = "failed"
    BY <1>7, NeighbourIsSpace DEF CircleBasedRandomPositioning, PlaceAt
  <2> QED BY <2>1, <2>2, ChoiceStep
<1>8. CASE XimingsRandomTrophyPositioning
  <2>1. placing = "axes" /\ UNCHANGED <<vars, stand, dist>> /\ Viable = {}
    BY <1>8 DEF XimingsRandomTrophyPositioning, TrophyInv
  <2>2. placing' = "placed" /\ trophy' \in space
    BY <1>8 DEF XimingsRandomTrophyPositioning, PlaceAt, MazeInv, Shape
  <2> QED BY <2>1, <2>2, ChoiceStep
<1>9. CASE UNCHANGED <<vars, trophyVars>>
  <2>1. /\ UNCHANGED vars /\ placing' = placing /\ stand' = stand /\ queue' = queue
        /\ dist' = dist /\ trophy' = trophy
    BY <1>9 DEF trophyVars
  <2>2. Viable' = Viable
    BY <2>1 DEF Viable
  <2>3. TrophyIsFairIfItCan' <=> TrophyIsFairIfItCan
    BY <2>1 DEF TrophyIsFairIfItCan, vars, Fair
  <2> QED BY <2>1, <2>2, <2>3, MapsOfOneMaze DEF TrophyInv, Sides
<1> QED BY <1>1, <1>2, <1>3, <1>4, <1>5, <1>6, <1>7, <1>8, <1>9 DEF TrophyNext

THEOREM TrophyInvariant == TrophySpec => [](MazeInv /\ TrophyInv)
<1>1. MazeInv /\ TrophyInv /\ [TrophyNext]_<<vars, trophyVars>> => TrophyInv'
  BY TrophyStep
<1> QED BY <1>1, TrophyStarts, TrophiesKeepTheMaze, MazeInvariant, PTL DEF TrophySpec

\* Both searches find the shortest distances in every maze, whatever the order in which
\* neighbours are enqueued (distances(from:using:), Trophy.swift).
THEOREM DistancesAreShortest == TrophySpec => []SearchesAreShortest
<1>1. TrophyInv => SearchesAreShortest
  BY DEF TrophyInv, SearchesAreShortest
<1> QED BY <1>1, TrophyInvariant, PTL

\* The trophy lies on a space, and on a fair one if the maze has one.
THEOREM TrophyIsFair == TrophySpec => []TrophyIsFairIfItCan
<1>1. TrophyInv => TrophyIsFairIfItCan
  BY DEF TrophyInv
<1> QED BY <1>1, TrophyInvariant, PTL
=============================================================================
