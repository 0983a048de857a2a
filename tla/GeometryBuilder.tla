--------------------------- MODULE GeometryBuilder --------------------------
(***************************************************************************)
(* The shapes that geometry_builder and terrain make: loops that push      *)
(* positions, normals, colours and texture coordinates, three positions to *)
(* a triangle.  One action per pass of a loop, and one for a table.        *)
(*                                                                         *)
(* The buffers are represented by their lengths, and the positions by what *)
(* the drawn triangles make of them: which points of the shape's grid each *)
(* triangle joins, in the order that decides which of its sides is culled. *)
(* A point is a triple.  In a shape made by rings it is the ring, the      *)
(* place on the ring and 0, or 1 for the centre of a cap: two corners that *)
(* the code computes from the same angle, or from angles a full turn       *)
(* apart, are one point.  In a shape made from a table it is the table's   *)
(* entry, doubled.                                                         *)
(***************************************************************************)
EXTENDS Integers, Sequences, FiniteSets

CONSTANTS
  Shapes,  \* the shapes that are asked for
  Sizes    \* the numbers of stacks, slices, columns or rows they are asked for with

Tables == {"box", "tetrahedron", "pyramid", "quad"}
Rings  == {"disk", "cylinder", "sphere", "torus"}
Grids  == {"plane", "terrain"}

\* No caller asks for no slices: add_buffer asserts that a buffer is not empty.
ASSUME ShapesAssumption ==
  /\ Shapes \subseteq Tables \cup Rings \cup Grids
  /\ Sizes \subseteq Nat \ {0}

VARIABLES
  shape,       \* what is being built
  rows, cols,  \* stacks and slices, width and depth, or the height map's width and height
  stage,       \* "idle", the loop that runs, or "built"
  i, j,        \* its counters
  positions, normals, colours, texCoords,  \* lengths; for a terrain, colours are the weights
  highest,     \* the highest index a terrain has pushed, -1 for none
  triangles    \* the triangles of what is drawn

size    == <<shape, rows, cols>>
buffers == <<positions, normals, colours, texCoords>>
vars    == <<size, stage, i, j, buffers, highest, triangles>>

Init ==
  /\ shape = "none" /\ rows = 0 /\ cols = 0
  /\ stage = "idle" /\ i = 0 /\ j = 0
  /\ positions = 0 /\ normals = 0 /\ colours = 0 /\ texCoords = 0
  /\ highest = -1 /\ triangles = {}

\* A terrain of one column or row has no triangle, and no index buffer may be empty.
Create(s, r, c) ==
  /\ stage = "idle"
  /\ s = "terrain" => r > 1 /\ c > 1
  /\ shape' = s /\ rows' = r /\ cols' = c
  /\ stage' = CASE s \in Tables   -> "table"
                [] s = "disk"     -> "centre"
                [] s = "cylinder" -> "top"
                [] s = "terrain"  -> "points"
                [] OTHER          -> "grid"
  /\ i' = IF s = "cylinder" THEN 1 ELSE 0
  /\ UNCHANGED <<j, buffers, highest, triangles>>

\* n of each are pushed, and the triangles they make.
Push(n, ts) ==
  /\ positions' = positions + n
  /\ normals' = normals + n
  /\ colours' = colours + n
  /\ texCoords' = texCoords + n
  /\ triangles' = triangles \cup ts
  /\ UNCHANGED <<size, highest>>

-----------------------------------------------------------------------------
(* Shapes made from a table, by their triangles.                            *)

box_positions ==
  LET a == <<-1, -1, 1>>    b == <<-1, 1, 1>>    c == <<-1, 1, -1>>   d == <<-1, -1, -1>>
      e == <<1, -1, -1>>    f == <<1, 1, -1>>    g == <<1, 1, 1>>     h == <<1, -1, 1>>
  IN  {<<a, b, c>>, <<a, c, d>>, <<e, f, g>>, <<e, g, h>>, <<e, h, a>>, <<e, a, d>>,
       <<g, f, c>>, <<g, c, b>>, <<d, c, f>>, <<d, f, e>>, <<h, g, b>>, <<h, b, a>>}

tetra_positions ==
  LET p == <<1, -1, 1>>  q == <<-1, -1, 1>>  r == <<0, -1, -1>>  top == <<0, 1, 0>>
  IN  {<<p, top, q>>, <<r, top, p>>, <<q, top, r>>, <<q, r, p>>}

pyramid_positions ==
  LET a == <<-1, -1, 1>>  d == <<-1, -1, -1>>  e == <<1, -1, -1>>  h == <<1, -1, 1>>
      top == <<0, 1, 0>>
  IN  {<<h, top, a>>, <<e, top, h>>, <<d, top, e>>, <<a, top, d>>, <<h, a, d>>, <<h, d, e>>}

\* A plane that is not subdivided.
quad_positions ==
  LET a == <<1, 0, 1>>  b == <<1, 0, -1>>  c == <<-1, 0, -1>>  d == <<-1, 0, 1>>
  IN  {<<a, b, c>>, <<c, d, a>>}

Table ==
  CASE shape = "box"         -> box_positions
    [] shape = "tetrahedron" -> tetra_positions
    [] shape = "pyramid"     -> pyramid_positions
    [] OTHER                 -> quad_positions

\* Texture coordinates are pushed side by side, three at a time, in loops of their own.
TableCoords ==
  CASE shape = "box"         -> 36
    [] shape = "tetrahedron" -> 3 + 3 + 3 + 3
    [] shape = "pyramid"     -> 3 + 3 + 3 + 3 + (3 + 1 + 1 + 1)
    [] OTHER                 -> 3 + 3

\* Normals are pushed with the positions, or by a loop over every third of them.
PushTable ==
  /\ stage = "table"
  /\ stage' = "built"
  /\ triangles' = Table
  /\ positions' = CASE shape = "box" -> 36 [] shape = "tetrahedron" -> 12
                    [] shape = "pyramid" -> 18 [] OTHER -> 6
  /\ colours' = positions'
  /\ normals' = 3 * ((positions' + 2) \div 3)
  /\ texCoords' = TableCoords
  /\ UNCHANGED <<size, i, j, highest>>

-----------------------------------------------------------------------------
(* Shapes made by loops.                                                    *)

Centre(ring) == <<ring, 0, 1>>

\* Mutant: the last place on a ring is not the first.
RimOpen(ring, k) == <<ring, k, 0>>

\* A place on a ring, by its angle in slices.
Rim(ring, k) == <<ring, k % cols, 0>>

\* The disk: a fan around its centre, clockwise in the code's angles.
PushCentre ==
  /\ stage = "centre"
  /\ stage' = "fan" /\ i' = 1
  /\ Push(2, {})
  /\ UNCHANGED j

PushFan ==
  /\ stage = "fan"
  /\ Push(1, {<<Centre(0), Rim(0, -(i - 1)), Rim(0, -i)>>})
  /\ IF i < cols THEN i' = i + 1 /\ UNCHANGED stage ELSE stage' = "built" /\ UNCHANGED i
  /\ UNCHANGED j

\* The caps of a cylinder.
PushTop ==
  /\ stage = "top"
  /\ Push(3, {<<Centre(0), Rim(0, -(i - 1)), Rim(0, -i)>>})
  /\ IF i < cols THEN i' = i + 1 /\ UNCHANGED stage ELSE stage' = "bottom" /\ i' = 1
  /\ UNCHANGED j

PushBottom ==
  /\ stage = "bottom"
  /\ Push(3, {<<Centre(rows), Rim(rows, i - 1), Rim(rows, i)>>})
  /\ IF i < cols THEN i' = i + 1 /\ UNCHANGED stage ELSE stage' = "grid" /\ i' = 0
  /\ UNCHANGED j

\* A column of a height map.
PushPoints ==
  /\ stage = "points"
  /\ positions' = positions + cols
  /\ IF i + 1 < rows THEN i' = i + 1 /\ UNCHANGED stage ELSE stage' = "grid" /\ i' = 0
  /\ UNCHANGED <<size, j, normals, colours, texCoords, highest, triangles>>

Vertex(a, b) ==
  CASE shape = "sphere"   -> IF a \in {0, rows} THEN <<a, 0, 0>> ELSE Rim(a, b)
    [] shape = "torus"    -> Rim(a % rows, b)
    [] shape = "cylinder" -> Rim(a, b)
    [] OTHER              -> <<a, b, 0>>

\* Mutant: the rows of the height map are taken to be one shorter.
IndexNarrow(x, y) == y * (rows - 1) + x

\* What a terrain pushes for the corner of a patch, and the point that stands there.
Index(x, y) == y * rows + x

PointAt(k) == <<k \div cols, k % cols, 0>>

Patch ==
  LET v(a, b) == IF shape = "terrain" THEN PointAt(Index(a, b)) ELSE Vertex(a, b)
      p == v(i, j)  q == v(i + 1, j)  r == v(i, j + 1)  s == v(i + 1, j + 1)
  IN  CASE shape \in {"sphere", "torus"}  -> {<<p, q, r>>, <<q, s, r>>}
        [] shape = "cylinder"             -> {<<p, s, q>>, <<p, r, s>>}
        [] OTHER                          -> {<<p, s, r>>, <<p, q, s>>}

\* Mutant: a terrain's patches are one more than fit between its rows.
RowLimitInclusive == rows

RowLimit == IF shape = "terrain" THEN rows - 1 ELSE rows

\* Mutant: a cylinder's stacks go around once and a slice more.
ColumnLimitInclusive ==
  CASE shape = "terrain" -> cols - 1
    [] shape \in {"torus", "cylinder"} -> cols + 1
    [] OTHER             -> cols

\* The torus goes around once and a slice more.
ColumnLimit ==
  CASE shape = "terrain" -> cols - 1
    [] shape = "torus"   -> cols + 1
    [] OTHER             -> cols

\* Mutant: the inner counter is not set back.
AdvanceNoReset ==
  IF i + 1 < RowLimit \/ j + 1 < ColumnLimit
  THEN /\ IF j + 1 < ColumnLimit THEN UNCHANGED i ELSE i' = i + 1
       /\ j' = j + 1
       /\ UNCHANGED stage
  ELSE stage' = "rest" /\ UNCHANGED <<i, j>>

\* To the next patch, or out of both loops.
Advance ==
  CASE j + 1 < ColumnLimit -> j' = j + 1 /\ UNCHANGED <<i, stage>>
    [] j + 1 >= ColumnLimit /\ i + 1 < RowLimit -> i' = i + 1 /\ j' = 0 /\ UNCHANGED stage
    [] OTHER -> stage' = "rest" /\ UNCHANGED <<i, j>>

PushPatch ==
  /\ stage = "grid"
  /\ shape # "terrain"
  /\ positions' = positions + 6
  /\ normals' = normals + 6
  /\ texCoords' = texCoords + 6
  /\ colours' = IF shape = "sphere" THEN colours ELSE colours + 6
  /\ triangles' = triangles \cup Patch
  /\ Advance
  /\ UNCHANGED <<size, highest>>

PushIndices ==
  /\ stage = "grid"
  /\ shape = "terrain"
  /\ highest' = LET k == Index(i + 1, j + 1) IN IF k > highest THEN k ELSE highest
  /\ triangles' = triangles \cup Patch
  /\ Advance
  /\ UNCHANGED <<size, buffers>>

\* Mutant: the colours of a sphere are forgotten.
FinishPlain ==
  /\ stage = "rest"
  /\ stage' = "built"
  /\ IF shape = "terrain"
     THEN normals' = positions /\ texCoords' = rows * cols /\ colours' = rows * cols
     ELSE UNCHANGED <<normals, texCoords, colours>>
  /\ UNCHANGED <<size, i, j, positions, highest, triangles>>

\* What is pushed after the loops: a sphere's colours; a terrain's normals, one for each
\* position, and its texture coordinates and weights, one for each point of the map.
Finish ==
  /\ stage = "rest"
  /\ stage' = "built"
  /\ CASE shape = "sphere"  -> colours' = positions /\ UNCHANGED <<normals, texCoords>>
       [] shape = "terrain" -> /\ normals' = positions
                               /\ texCoords' = rows * cols /\ colours' = rows * cols
       [] OTHER -> UNCHANGED <<normals, colours, texCoords>>
  /\ UNCHANGED <<size, i, j, positions, highest, triangles>>

\* The geometry is returned; the next one starts with buffers of its own.
Return ==
  /\ stage = "built"
  /\ shape' = "none" /\ rows' = 0 /\ cols' = 0
  /\ stage' = "idle" /\ i' = 0 /\ j' = 0
  /\ positions' = 0 /\ normals' = 0 /\ colours' = 0 /\ texCoords' = 0
  /\ highest' = -1 /\ triangles' = {}

Next ==
  \/ \E s \in Shapes, r, c \in Sizes : Create(s, r, c)
  \/ PushTable
  \/ PushCentre \/ PushFan
  \/ PushTop \/ PushBottom
  \/ PushPoints
  \/ PushPatch \/ PushIndices
  \/ Finish
  \/ Return

Spec == Init /\ [][Next]_vars

-----------------------------------------------------------------------------
(* Properties.                                                              *)

built == stage = "built"

\* The types; the counters stay within the loops they count.
TypeOK ==
  /\ shape \in Shapes \cup {"none"}
  /\ rows \in Sizes \cup {0} /\ cols \in Sizes \cup {0}
  /\ stage \in {"idle", "table", "centre", "fan", "top", "bottom", "points", "grid",
                "rest", "built"}
  /\ i \in Nat /\ j \in Nat
  /\ stage \in {"fan", "top", "bottom"} => i \in 1 .. cols
  /\ stage = "points" => i < rows
  /\ stage = "grid" => i < RowLimit /\ j < ColumnLimit
  /\ positions \in Nat /\ normals \in Nat /\ colours \in Nat /\ texCoords \in Nat
  /\ highest \in Nat \cup {-1}

\* When a geometry is built its four buffers have the same length, though they are pushed
\* by different loops.  add_buffer refuses a buffer of another length than the first one
\* (geometry.cpp:170), and generate_tb reads a normal for each position.
BuffersAgree ==
  built => normals = positions /\ colours = positions /\ texCoords = positions

\* The corners that are drawn: three to a triangle, or a fan.
Drawn == IF shape = "disk" THEN positions - 2 ELSE positions \div 3

\* A shape asked for with enough slices, stacks or columns that none of its triangles
\* folds onto another.
Proper ==
  /\ shape \in Rings => cols >= 3
  /\ shape = "torus" => rows >= 3
  /\ shape = "sphere" => rows >= 2

\* No triangle is pushed twice: the positions are three times the triangles.  The one
\* exception is the torus, whose inner loop goes one slice too far (geometry_builder.cpp:638)
\* and pushes the first patch of every stack again.  At a sphere's poles two corners of a
\* patch are one, so its degenerate triangles are as many as its slices at each pole.
EveryTriangleOnce ==
  built /\ Proper /\ shape # "terrain" =>
    Drawn = Cardinality(triangles) + (IF shape = "torus" THEN 2 * rows ELSE 0)

Degenerate(t) == t[1] = t[2] \/ t[2] = t[3] \/ t[3] = t[1]

EdgesOf(t) == {<<t[1], t[2]>>, <<t[2], t[3]>>, <<t[3], t[1]>>}

Surface == {t \in triangles : ~ Degenerate(t)}

Edges == UNION {EdgesOf(t) : t \in Surface}

\* How many edges of a shape border on nothing: a closed shape has none.
Border ==
  CASE shape = "disk"    -> cols
    [] shape = "quad"    -> 4
    [] shape = "plane"   -> 2 * (rows + cols)
    [] shape = "terrain" -> 2 * (rows - 1 + cols - 1)
    [] OTHER             -> 0

\* The triangles make one surface: each edge belongs to one triangle in each of its two
\* directions, so that there is no hole, no overlap and no triangle turned the other way
\* (which culling would hide), whichever loops pushed the triangles on its two sides.  Only
\* a flat shape has a border.  Of terrains it is said of square ones.
Watertight ==
  built /\ Proper /\ (shape = "terrain" => rows = cols) =>
    /\ Cardinality(Edges) = 3 * Cardinality(Surface)
    /\ Cardinality({e \in Edges : <<e[2], e[1]>> \notin Edges}) = Border

\* Every index of a terrain is that of a position, whatever the sides of the height map.
IndicesInRange == built => highest < positions

\* The three points of a square terrain's triangle are neighbours.  The map is pushed by
\* columns and indexed by rows (terrain.cpp:35, 53), which agree on a square map only.
TerrainLocal ==
  built /\ shape = "terrain" /\ rows = cols =>
    \A t \in triangles : \A a, b \in {t[1], t[2], t[3]} :
      /\ a[1] - b[1] \in -1 .. 1
      /\ a[2] - b[2] \in -1 .. 1

=============================================================================
