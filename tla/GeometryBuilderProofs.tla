------------------------ MODULE GeometryBuilderProofs -----------------------
(***************************************************************************)
(* What GeometryBuilder's runs show for sizes up to five holds for every   *)
(* size: the lengths of the four buffers agree, a terrain's indices are    *)
(* those of its positions and a square one's patches join neighbours, no   *)
(* triangle is pushed twice, and the triangles of every shape make one     *)
(* surface, closed or with the border of a flat one.                       *)
(*                                                                         *)
(* Inv says at each stage how much has been pushed, Once that what the     *)
(* loops push next is not there yet, and Traced which triangles are there, *)
(* so that of a built shape they are known one by one.                     *)
(***************************************************************************)
EXTENDS GeometryBuilder, FiniteSetTheorems, TLAPS

\* Which shape goes through which loops, with which sizes.
Places ==
  /\ stage = "idle" => shape = "none" /\ i = 0
  /\ stage = "table" => shape \in Tables
  /\ stage \in {"centre", "fan"} => shape = "disk"
  /\ stage \in {"top", "bottom"} => shape = "cylinder"
  /\ stage = "points" => shape = "terrain"
  /\ stage \in {"grid", "rest"} => shape \in {"cylinder", "sphere", "torus", "plane", "terrain"}
  /\ stage # "idle" => shape # "none" /\ rows >= 1 /\ cols >= 1
  /\ shape = "terrain" => rows > 1 /\ cols > 1
  /\ stage \notin {"grid", "rest", "built"} => j = 0

\* What has been pushed: of each the same, but that a sphere's colours follow its loop and
\* all of a terrain's but the positions, which come a column at a time.
Lengths ==
  /\ stage \in {"idle", "table"} =>
       positions = 0 /\ normals = 0 /\ colours = 0 /\ texCoords = 0
  /\ shape # "terrain" => normals = positions /\ texCoords = positions
  /\ shape \notin {"terrain", "sphere"} => colours = positions
  /\ stage = "points" => positions = i * cols
  /\ shape = "terrain" /\ stage \in {"grid", "rest", "built"} => positions = rows * cols
  /\ built => BuffersAgree

\* The indices pushed so far.
Below ==
  /\ shape # "terrain" => highest = -1
  /\ shape = "terrain" => highest < rows * cols

Inv == TypeOK /\ Places /\ Lengths /\ Below

USE ShapesAssumption

\* A loop's limits, where the loop is entered, are not below its first pass.
LEMMA Limits ==
  ASSUME TypeOK, Places, shape # "none", stage # "idle"
  PROVE  /\ RowLimit \in Nat /\ ColumnLimit \in Nat
         /\ 1 <= RowLimit /\ RowLimit <= rows
         /\ 1 <= ColumnLimit
         /\ shape = "terrain" => RowLimit = rows - 1 /\ ColumnLimit = cols - 1
<1>1. rows \in Nat /\ cols \in Nat /\ rows >= 1 /\ cols >= 1
  BY DEF TypeOK, Places
<1>2. CASE shape = "terrain"
  <2>1. RowLimit = rows - 1 /\ ColumnLimit = cols - 1
    BY <1>2 DEF RowLimit, ColumnLimit
  <2>2. rows > 1 /\ cols > 1
    BY <1>2 DEF Places
  <2>. QED
    BY <1>1, <2>1, <2>2
<1>3. CASE shape # "terrain"
  <2>1. RowLimit = rows /\ (ColumnLimit = cols \/ ColumnLimit = cols + 1)
    BY <1>3 DEF RowLimit, ColumnLimit
  <2>. QED
    BY <1>1, <1>3, <2>1
<1>. QED
  BY <1>2, <1>3

\* A point within the sides of the height map has an index below their product.
LEMMA IndexBound ==
  ASSUME NEW w \in Nat, NEW h \in Nat, NEW x \in Nat, NEW y \in Nat, x < w, y < h
  PROVE  y * w + x \in Nat /\ y * w + x < w * h
<1>1. (y + 1) * w <= h * w
  BY SMT
<1>2. (y + 1) * w = y * w + w
  BY SMT
<1>3. h * w = w * h /\ y * w \in Nat /\ w * h \in Nat
  BY SMT
<1>. QED
  BY <1>1, <1>2, <1>3

LEMMA InvInit == Init => Inv
  BY DEF Init, Inv, TypeOK, Places, Lengths, Below, BuffersAgree, built

\* A step of either pair of loops stays within them, or leaves both.
LEMMA AdvanceStays ==
  ASSUME Inv, stage = "grid", Advance, UNCHANGED size
  PROVE  /\ i' \in Nat /\ j' \in Nat
         /\ stage' \in {"grid", "rest"}
         /\ stage' = "grid" => i' < RowLimit /\ j' < ColumnLimit
         /\ RowLimit' = RowLimit /\ ColumnLimit' = ColumnLimit
<1>1. i \in Nat /\ j \in Nat /\ i < RowLimit /\ j < ColumnLimit
  BY DEF Inv, TypeOK
<1>2. RowLimit' = RowLimit /\ ColumnLimit' = ColumnLimit
  BY DEF RowLimit, ColumnLimit, size
<1>3. RowLimit \in Nat /\ ColumnLimit \in Nat /\ 1 <= ColumnLimit
  <2>1. shape # "none" /\ stage # "idle" /\ TypeOK /\ Places
    BY DEF Inv, Places
  <2>. QED
    BY <2>1, Limits
<1>4. CASE j + 1 < ColumnLimit
  <2>1. j' = j + 1 /\ i' = i /\ stage' = stage
    BY <1>1, <1>3, <1>4 DEF Advance
  <2>. QED
    BY <1>1, <1>2, <1>3, <1>4, <2>1
<1>5. CASE ~(j + 1 < ColumnLimit) /\ i + 1 < RowLimit
  <2>1. i' = i + 1 /\ j' = 0 /\ stage' = stage
    BY <1>1, <1>3, <1>5 DEF Advance
  <2>. QED
    BY <1>1, <1>2, <1>3, <1>5, <2>1
<1>6. CASE ~(j + 1 < ColumnLimit) /\ ~(i + 1 < RowLimit)
  <2>1. stage' = "rest" /\ i' = i /\ j' = j
    BY <1>1, <1>3, <1>6 DEF Advance
  <2>. QED
    BY <1>1, <1>2, <2>1
<1>. QED
  BY <1>4, <1>5, <1>6

LEMMA InvStep == Inv /\ [Next]_vars => Inv'
<1>. SUFFICES ASSUME Inv, [Next]_vars
              PROVE  Inv'
  OBVIOUS
<1>. USE DEF Inv, built
<1>1. ASSUME NEW s \in Shapes, NEW r \in Sizes, NEW c \in Sizes, Create(s, r, c)
      PROVE  Inv'
  <2>. USE <1>1
  <2>1. r \in Nat /\ c \in Nat /\ r >= 1 /\ c >= 1
    OBVIOUS
  <2>2. shape' = s /\ rows' = r /\ cols' = c /\ j' = 0 /\ s # "none"
    BY DEF Create, Places, Tables, Rings, Grids
  <2>3. stage = "idle" /\ i = 0 /\ j = 0 /\ shape = "none" /\ highest = -1
        /\ positions = 0 /\ normals = 0 /\ colours = 0 /\ texCoords = 0
    BY DEF Create, Places, Lengths, Below
  <2>4. UNCHANGED <<positions, normals, colours, texCoords, highest>>
    BY DEF Create, buffers
  <2>5. s = "terrain" => r > 1 /\ c > 1
    BY DEF Create
  <2>6. i' = IF s = "cylinder" THEN 1 ELSE 0
    BY DEF Create
  <2>7. /\ s \in Tables => stage' = "table"
        /\ s = "disk" => stage' = "centre"
        /\ s = "cylinder" => stage' = "top"
        /\ s = "terrain" => stage' = "points"
        /\ s \notin Tables \cup {"disk", "cylinder", "terrain"} => stage' = "grid"
    BY DEF Create, Tables
  <2>8. s \in Tables \/ s \in {"disk", "cylinder", "sphere", "torus", "plane", "terrain"}
    BY DEF Tables, Rings, Grids
  <2>9. Places'
    BY <2>1, <2>2, <2>5, <2>6, <2>7, <2>8 DEF Places, Tables
  <2>10. stage' = "grid" => i' < RowLimit' /\ j' < ColumnLimit'
    BY <2>1, <2>2, <2>6, <2>7, <2>8 DEF RowLimit, ColumnLimit, Tables
  <2>11. TypeOK'
    BY <2>1, <2>2, <2>3, <2>4, <2>6, <2>7, <2>8, <2>10 DEF TypeOK, Tables
  <2>12. Lengths'
    BY <2>1, <2>2, <2>3, <2>4, <2>6, <2>7, <2>8 DEF Lengths, Tables
  <2>13. Below'
    <3>1. s = "terrain" => r * c \in Nat
      BY <2>1
    <3>. QED
      BY <2>2, <2>3, <2>4, <3>1 DEF Below
  <2>. QED
    BY <2>9, <2>11, <2>12, <2>13
<1>2. CASE PushTable
  <2>1. shape \in Tables /\ shape \notin Rings \cup Grids
    BY <1>2 DEF PushTable, Places, Tables, Rings, Grids
  <2>2. /\ positions' \in Nat /\ normals' = positions' /\ colours' = positions'
        /\ texCoords' = positions'
    BY <1>2, <2>1 DEF PushTable, TableCoords, Tables
  <2>3. stage' = "built" /\ UNCHANGED <<size, i, j, highest>>
    BY <1>2 DEF PushTable
  <2>. QED
    BY <2>1, <2>2, <2>3, <1>2 DEF size, TypeOK, Places, Lengths, Below, BuffersAgree, Tables,
       PushTable
<1>3. CASE PushCentre
  BY <1>3 DEF PushCentre, Push, size, TypeOK, Places, Lengths, Below, BuffersAgree, RowLimit,
     ColumnLimit
<1>4. CASE PushFan
  BY <1>4 DEF PushFan, Push, size, TypeOK, Places, Lengths, Below, BuffersAgree, RowLimit,
     ColumnLimit
<1>5. CASE PushTop
  BY <1>5 DEF PushTop, Push, size, TypeOK, Places, Lengths, Below, BuffersAgree, RowLimit,
     ColumnLimit
<1>6. CASE PushBottom
  <2>1. shape = "cylinder" /\ rows \in Nat /\ cols \in Nat /\ rows >= 1 /\ cols >= 1 /\ j = 0
    BY <1>6 DEF PushBottom, Places, TypeOK
  <2>2. RowLimit' = rows' /\ ColumnLimit' = cols'
    BY <2>1, <1>6 DEF PushBottom, Push, size, RowLimit, ColumnLimit
  <2>. QED
    BY <1>6, <2>1, <2>2 DEF PushBottom, Push, size, TypeOK, Places, Lengths, Below, BuffersAgree
<1>7. CASE PushPoints
  <2>1. shape = "terrain" /\ rows \in Nat /\ cols \in Nat /\ rows > 1 /\ cols > 1 /\ j = 0
        /\ i \in Nat /\ i < rows /\ positions = i * cols
    BY <1>7 DEF PushPoints, Places, TypeOK, Lengths
  <2>2. RowLimit' = rows' - 1 /\ ColumnLimit' = cols' - 1
    BY <2>1, <1>7 DEF PushPoints, size, RowLimit, ColumnLimit
  <2>3. (i + 1) * cols = i * cols + cols
    BY <2>1, SMT
  <2>4. positions' = (i + 1) * cols /\ positions' \in Nat
    BY <2>1, <2>3, <1>7 DEF PushPoints, TypeOK
  <2>5. UNCHANGED <<shape, rows, cols, j, normals, colours, texCoords, highest>>
    BY <1>7 DEF PushPoints, size
  <2>6. CASE i + 1 < rows
    <3>1. i' = i + 1 /\ stage' = "points"
      BY <1>7, <2>6 DEF PushPoints
    <3>. QED
      BY <2>1, <2>4, <2>5, <2>6, <3>1 DEF TypeOK, Places, Lengths, Below
  <2>7. CASE ~(i + 1 < rows)
    <3>1. i' = 0 /\ stage' = "grid"
      BY <1>7, <2>7 DEF PushPoints
    <3>2. i + 1 = rows
      BY <2>1, <2>7
    <3>. QED
      BY <2>1, <2>2, <2>4, <2>5, <3>1, <3>2 DEF TypeOK, Places, Lengths, Below
  <2>. QED
    BY <2>6, <2>7
<1>8. CASE PushPatch
  <2>1. stage = "grid" /\ shape # "terrain" /\ Advance /\ UNCHANGED <<size, highest>>
        /\ positions' = positions + 6 /\ normals' = normals + 6 /\ texCoords' = texCoords + 6
        /\ colours' = IF shape = "sphere" THEN colours ELSE colours + 6
    BY <1>8 DEF PushPatch
  <2>2. /\ i' \in Nat /\ j' \in Nat
        /\ stage' \in {"grid", "rest"}
        /\ stage' = "grid" => i' < RowLimit' /\ j' < ColumnLimit'
    BY <2>1, AdvanceStays
  <2>3. positions' \in Nat /\ normals' \in Nat /\ texCoords' \in Nat /\ colours' \in Nat
    BY <2>1 DEF TypeOK
  <2>4. TypeOK'
    BY <2>1, <2>2, <2>3 DEF TypeOK, size
  <2>5. Places' /\ Below'
    BY <2>1, <2>2 DEF Places, Below, size
  <2>6. Lengths'
    BY <2>1, <2>2 DEF Lengths, size
  <2>. QED
    BY <2>4, <2>5, <2>6
<1>9. CASE PushIndices
  <2>1. stage = "grid" /\ shape = "terrain" /\ Advance /\ UNCHANGED <<size, buffers>>
    BY <1>9 DEF PushIndices
  <2>2. /\ i' \in Nat /\ j' \in Nat
        /\ stage' \in {"grid", "rest"}
        /\ stage' = "grid" => i' < RowLimit' /\ j' < ColumnLimit'
    BY <2>1, AdvanceStays
  <2>3. rows \in Nat /\ cols \in Nat /\ i \in Nat /\ j \in Nat /\ i + 1 < rows /\ j + 1 < cols
    BY <2>1 DEF TypeOK, Places, RowLimit, ColumnLimit
  <2>4. Index(i + 1, j + 1) \in Nat /\ Index(i + 1, j + 1) < rows * cols
    BY <2>3, IndexBound DEF Index
  <2>5. highest' = Index(i + 1, j + 1) \/ highest' = highest
    BY <1>9 DEF PushIndices
  <2>6. highest' \in Nat \cup {-1} /\ highest' < rows * cols
    BY <2>1, <2>4, <2>5 DEF TypeOK, Below
  <2>. QED
    BY <2>1, <2>2, <2>6 DEF size, buffers, TypeOK, Places, Lengths, Below
<1>10. CASE Finish
  <2>1. CASE shape = "terrain"
    <3>1. normals' = positions /\ texCoords' = rows * cols /\ colours' = rows * cols
      BY <1>10, <2>1 DEF Finish
    <3>. QED
      BY <1>10, <2>1, <3>1 DEF Finish, size, TypeOK, Places, Lengths, Below, BuffersAgree
  <2>2. CASE shape # "terrain"
    <3>1. colours' = positions /\ UNCHANGED <<normals, texCoords>>
      BY <1>10, <2>2 DEF Finish, Lengths
    <3>. QED
      BY <1>10, <2>2, <3>1 DEF Finish, size, TypeOK, Places, Lengths, Below, BuffersAgree
  <2>. QED
    BY <2>1, <2>2
<1>11. CASE Return
  BY <1>11 DEF Return, TypeOK, Places, Lengths, Below, BuffersAgree, Tables
<1>12. CASE UNCHANGED vars
  BY <1>12 DEF vars, size, buffers, TypeOK, Places, Lengths, Below, BuffersAgree, RowLimit,
     ColumnLimit
<1>. QED
  BY <1>1, <1>2, <1>3, <1>4, <1>5, <1>6, <1>7, <1>8, <1>9, <1>10, <1>11, <1>12 DEF Next

LEMMA Invariant == Spec => []Inv
<1>. QED
  BY InvInit, InvStep, PTL DEF Spec

\* Whatever is built and however large, each counter stays within the loop that it counts.
THEOREM TypeCorrect == Spec => []TypeOK
<1>1. Inv => TypeOK
  BY DEF Inv
<1>. QED
  BY Invariant, <1>1, PTL

\* The four buffers of every shape of every size are of one length, so that add_buffer
\* takes each of them and generate_tb finds a normal for each position.
THEOREM BuffersCorrect == Spec => []BuffersAgree
<1>1. Inv => BuffersAgree
  BY DEF Inv, Lengths, BuffersAgree
<1>. QED
  BY Invariant, <1>1, PTL

\* A terrain of any sides, square or not, names only positions that it has.
THEOREM IndicesCorrect == Spec => []IndicesInRange
<1>1. Inv => IndicesInRange
  <2>1. ASSUME Inv, built
        PROVE  highest < positions
    <3>1. CASE shape = "terrain"
      BY <2>1, <3>1 DEF Inv, Lengths, Below, built
    <3>2. CASE shape # "terrain"
      BY <2>1, <3>2 DEF Inv, TypeOK, Below
    <3>. QED
      BY <3>1, <3>2
  <2>. QED
    BY <2>1 DEF IndicesInRange
<1>. QED
  BY Invariant, <1>1, PTL

-----------------------------------------------------------------------------
(* The triangles of a square terrain.                                       *)

Neighbours(t) ==
  \A a, b \in {t[1], t[2], t[3]} : a[1] - b[1] \in -1 .. 1 /\ a[2] - b[2] \in -1 .. 1

Local ==
  /\ stage = "idle" => triangles = {}
  /\ shape = "terrain" /\ rows = cols => \A t \in triangles : Neighbours(t)

\* A number is put together of one quotient and one remainder.
LEMMA QuotientRemainder ==
  ASSUME NEW n \in Nat \ {0}, NEW x \in 0 .. n - 1, NEW y \in Int
  PROVE  (y * n + x) \div n = y /\ (y * n + x) % n = x
<1>. DEFINE k == y * n + x
            q == k \div n
            r == k % n
<1>1. k \in Int /\ q \in Int /\ r \in 0 .. n - 1 /\ k = n * q + r
  <2>1. y * n \in Int
    BY SMT
  <2>. QED
    BY <2>1, SMT
<1>2. n * (q - y) = x - r
  BY <1>1, SMT
<1>3. ~ (q - y >= 1)
  <2>1. ASSUME q - y >= 1
        PROVE  n * (q - y) >= n
    BY <1>1, <2>1, SMT
  <2>. QED
    BY <1>1, <1>2, <2>1
<1>4. ~ (q - y <= -1)
  <2>1. ASSUME q - y <= -1
        PROVE  n * (q - y) <= -n
    BY <1>1, <2>1, SMT
  <2>. QED
    BY <1>1, <1>2, <2>1
<1>5. q = y
  BY <1>1, <1>3, <1>4
<1>6. r = x
  BY <1>1, <1>5, SMT
<1>. QED
  BY <1>5, <1>6

\* On a square map the index of a corner is that of the point in its column and row.
LEMMA SquareIndex ==
  ASSUME rows \in Nat \ {0}, rows = cols, NEW x \in 0 .. rows - 1, NEW y \in Nat
  PROVE  PointAt(Index(x, y)) = <<y, x, 0>>
  BY QuotientRemainder DEF PointAt, Index

\* So the corners of a patch are the four corners of a square.
LEMMA PatchLocal ==
  ASSUME Inv, shape = "terrain", rows = cols, stage = "grid"
  PROVE  \A t \in Patch : Neighbours(t)
<1>1. rows \in Nat \ {0} /\ i \in Nat /\ j \in Nat /\ i + 1 < rows
  BY DEF Inv, TypeOK, Places, RowLimit
<1>. DEFINE p == <<j, i, 0>>          q == <<j, i + 1, 0>>
            r == <<j + 1, i, 0>>      s == <<j + 1, i + 1, 0>>
<1>2. /\ PointAt(Index(i, j)) = p
      /\ PointAt(Index(i + 1, j)) = q
      /\ PointAt(Index(i, j + 1)) = r
      /\ PointAt(Index(i + 1, j + 1)) = s
  BY <1>1, SquareIndex
<1>3. Patch = {<<p, s, r>>, <<p, q, s>>}
  BY <1>2 DEF Patch
<1>4. Neighbours(<<p, s, r>>)
  BY <1>1 DEF Neighbours
<1>5. Neighbours(<<p, q, s>>)
  BY <1>1 DEF Neighbours
<1>. QED
  BY <1>3, <1>4, <1>5

LEMMA LocalInit == Init => Local
  BY DEF Init, Local

LEMMA LocalStep == Inv /\ Local /\ [Next]_vars => Local'
<1>. SUFFICES ASSUME Inv, Local, [Next]_vars
              PROVE  Local'
  OBVIOUS
<1>1. ASSUME NEW s \in Shapes, NEW r \in Sizes, NEW c \in Sizes, Create(s, r, c)
      PROVE  Local'
  <2>1. triangles' = {}
    BY <1>1 DEF Create, Local
  <2>. QED
    BY <2>1 DEF Local
<1>2. CASE PushTable \/ PushCentre \/ PushFan \/ PushTop \/ PushBottom \/ PushPatch
  <2>1. shape' # "terrain" /\ stage # "idle"
    BY <1>2 DEF Inv, Places, Tables, PushTable, PushCentre, PushFan, PushTop, PushBottom,
       PushPatch, Push, size
  <2>2. stage' # "idle"
    <3>1. CASE PushPatch
      BY <3>1, AdvanceStays DEF PushPatch
    <3>2. CASE ~ PushPatch
      BY <1>2, <3>2 DEF PushTable, PushCentre, PushFan, PushTop, PushBottom
    <3>. QED
      BY <3>1, <3>2
  <2>. QED
    BY <2>1, <2>2 DEF Local
<1>3. CASE PushPoints \/ Finish
  <2>1. stage' # "idle" /\ UNCHANGED <<shape, rows, cols, triangles>>
    BY <1>3 DEF PushPoints, Finish, size
  <2>. QED
    BY <2>1 DEF Local, Neighbours
<1>4. CASE PushIndices
  <2>1. /\ stage = "grid" /\ shape = "terrain" /\ Advance /\ UNCHANGED size
        /\ triangles' = triangles \cup Patch
    BY <1>4 DEF PushIndices
  <2>2. stage' # "idle"
    BY <2>1, AdvanceStays
  <2>3. rows = cols => \A t \in Patch : Neighbours(t)
    BY <2>1, PatchLocal
  <2>. QED
    BY <2>1, <2>2, <2>3 DEF Local, Neighbours, size
<1>5. CASE Return
  BY <1>5 DEF Return, Local
<1>6. CASE UNCHANGED vars
  BY <1>6 DEF vars, size, Local, Neighbours
<1>. QED
  BY <1>1, <1>2, <1>3, <1>4, <1>5, <1>6 DEF Next

\* However large a square height map is, the patches that it is drawn with join points that
\* are next to each other, though they are pushed by columns and indexed by rows.
THEOREM TerrainCorrect == Spec => []TerrainLocal
<1>1. Local => TerrainLocal
  BY DEF Local, Neighbours, TerrainLocal
<1>. QED
  BY InvInit, InvStep, LocalInit, LocalStep, <1>1, PTL DEF Spec

-----------------------------------------------------------------------------
(* How often a triangle is pushed.                                          *)

\* The corners of the patches, and the two triangles of each.
Corner(a, b) == IF shape = "terrain" THEN PointAt(Index(a, b)) ELSE Vertex(a, b)

Lower(a, b) ==
  CASE shape \in {"sphere", "torus"} -> <<Corner(a, b), Corner(a + 1, b), Corner(a, b + 1)>>
    [] shape = "cylinder" -> <<Corner(a, b), Corner(a + 1, b + 1), Corner(a + 1, b)>>
    [] OTHER              -> <<Corner(a, b), Corner(a + 1, b + 1), Corner(a, b + 1)>>

Upper(a, b) ==
  CASE shape \in {"sphere", "torus"} ->
         <<Corner(a + 1, b), Corner(a + 1, b + 1), Corner(a, b + 1)>>
    [] shape = "cylinder" -> <<Corner(a, b), Corner(a, b + 1), Corner(a + 1, b + 1)>>
    [] OTHER              -> <<Corner(a, b), Corner(a + 1, b), Corner(a + 1, b + 1)>>

Looped == {"cylinder", "sphere", "torus", "plane"}

\* The triangles of the caps are told apart by their first place on the rim.
Caps ==
  /\ stage \in {"fan", "top"} =>
       \A t \in triangles : t[1] = Centre(0) /\ \E k \in 0 .. i - 2 : t[2] = Rim(0, -k)
  /\ stage = "bottom" =>
       \A t \in triangles :
         \/ t[1] = Centre(0)
         \/ t[1] = Centre(rows) /\ \E k \in 0 .. i - 2 : t[2] = Rim(rows, k)

\* All others are of a patch that the loops have passed.
Passed ==
  stage = "grid" /\ shape # "terrain" =>
    \A t \in triangles :
      \/ t[1][3] = 1
      \/ \E a \in 0 .. i, b \in 0 .. cols - 1 :
           (a < i \/ b < j) /\ t \in {Lower(a, b), Upper(a, b)}

\* What the torus is about to push again.
FirstOfStack ==
  stage = "grid" /\ shape = "torus" /\ j > 0 => {Lower(i, 0), Upper(i, 0)} \subseteq triangles

\* The triangles that the torus has pushed twice so far.
Repeated == IF shape = "torus" THEN 2 * (IF stage = "grid" THEN i ELSE rows) ELSE 0

Tally ==
  /\ IsFiniteSet(triangles)
  /\ stage \in {"idle", "centre"} => triangles = {}
  /\ stage = "centre" => positions = 0
  /\ stage = "fan" => positions = Cardinality(triangles) + 2
  /\ stage \in {"top", "bottom", "grid", "rest"} /\ Proper /\ shape # "terrain" =>
       positions = 3 * (Cardinality(triangles) + Repeated)
  /\ EveryTriangleOnce

Once == Caps /\ Passed /\ FirstOfStack /\ Tally

LEMMA AddOne ==
  ASSUME NEW S, IsFiniteSet(S), NEW x, x \notin S
  PROVE  /\ IsFiniteSet(S \cup {x}) /\ Cardinality(S \cup {x}) = Cardinality(S) + 1
         /\ Cardinality(S) \in Nat
  BY FS_AddElement, FS_CardinalityType

LEMMA AddTwo ==
  ASSUME NEW S, IsFiniteSet(S), NEW x, NEW y, x \notin S, y \notin S, x # y
  PROVE  IsFiniteSet(S \cup {x, y}) /\ Cardinality(S \cup {x, y}) = Cardinality(S) + 2
<1>1. (S \cup {x}) \cup {y} = S \cup {x, y}
  OBVIOUS
<1>2. IsFiniteSet(S \cup {x}) /\ Cardinality(S \cup {x}) = Cardinality(S) + 1
      /\ Cardinality(S) \in Nat
  BY AddOne
<1>3. IsFiniteSet((S \cup {x}) \cup {y})
      /\ Cardinality((S \cup {x}) \cup {y}) = Cardinality(S \cup {x}) + 1
  BY <1>2, AddOne
<1>. QED
  BY <1>1, <1>2, <1>3

LEMMA AddAny ==
  ASSUME NEW S, IsFiniteSet(S), NEW x, NEW y
  PROVE  IsFiniteSet(S \cup {x, y})
<1>1. (S \cup {x}) \cup {y} = S \cup {x, y}
  OBVIOUS
<1>2. IsFiniteSet((S \cup {x}) \cup {y})
  BY FS_AddElement
<1>. QED
  BY <1>1, <1>2

\* The places on a ring, in either direction, and where it closes.
LEMMA Around ==
  ASSUME NEW n \in Nat \ {0}, NEW k \in 0 .. n - 1
  PROVE  /\ k % n = k
         /\ n % n = 0
         /\ (n + 1) % n = 1 % n
         /\ (-k) % n = IF k = 0 THEN 0 ELSE n - k
<1>1. k % n = k
  BY QuotientRemainder, 0 * n + k = k
<1>2. n % n = 0
  BY QuotientRemainder, 1 * n + 0 = n
<1>3. (n + 1) % n = 1 % n
  <2>1. CASE n = 1
    <3>1. 1 % 1 = 0 /\ 2 % 1 = 0
      BY SMT
    <3>. QED
      BY <2>1, <3>1
  <2>2. CASE n # 1
    <3>1. 0 * n + 1 = 1 /\ 1 * n + 1 = n + 1 /\ 1 \in 0 .. n - 1
      BY <2>2
    <3>. QED
      BY <3>1, QuotientRemainder
  <2>. QED
    BY <2>1, <2>2
<1>4. (-k) % n = IF k = 0 THEN 0 ELSE n - k
  <2>1. CASE k = 0
    <3>1. 0 * n + 0 = -k /\ 0 \in 0 .. n - 1
      BY <2>1
    <3>. QED
      BY <2>1, <3>1, QuotientRemainder
  <2>2. CASE k # 0
    <3>1. (-1) * n + (n - k) = -k /\ n - k \in 0 .. n - 1
      BY <2>2
    <3>. QED
      BY <2>2, <3>1, QuotientRemainder
  <2>. QED
    BY <2>1, <2>2
<1>. QED
  BY <1>1, <1>2, <1>3, <1>4

\* Two places less than a turn apart are different points.
LEMMA RimPlaces ==
  ASSUME cols \in Nat \ {0}, NEW r, NEW k \in 0 .. cols - 1, NEW l \in 0 .. cols - 1, k # l
  PROVE  /\ Rim(r, k) # Rim(r, l)
         /\ Rim(r, -k) # Rim(r, -l)
         /\ Rim(r, k + 1) # Rim(r, l + 1)
<1>1. k % cols # l % cols
  BY Around
<1>2. (-k) % cols # (-l) % cols
  BY Around
<1>3. (k + 1) % cols # (l + 1) % cols
  <2>1. ASSUME NEW m \in 0 .. cols - 1
        PROVE  (m + 1) % cols = IF m + 1 = cols THEN 0 ELSE m + 1
    <3>1. m + 1 # cols => m + 1 \in 0 .. cols - 1
      OBVIOUS
    <3>. QED
      BY <3>1, Around
  <2>. QED
    BY <2>1
<1>. QED
  BY <1>1, <1>2, <1>3 DEF Rim

LEMMA VertexPlaces ==
  ASSUME rows \in Nat \ {0}, cols \in Nat \ {0}, shape \in Looped, Proper
  PROVE  /\ shape = "plane" => \A a, b \in Nat : Vertex(a, b) = <<a, b, 0>>
         /\ shape = "cylinder" => \A a, b \in Nat : Vertex(a, b) = Rim(a, b)
         /\ shape = "torus" => \A a \in 0 .. rows - 1, b \in Nat :
              /\ Vertex(a, b) = Rim(a, b)
              /\ Vertex(a + 1, b) = Rim(IF a + 1 = rows THEN 0 ELSE a + 1, b)
         /\ shape = "sphere" => \A a \in 0 .. rows, b \in Nat :
              /\ Vertex(a, b)[1] = a
              /\ a \notin {0, rows} => Vertex(a, b) = Rim(a, b)
<1>1. ASSUME shape = "torus", NEW a \in 0 .. rows - 1, NEW b \in Nat
      PROVE  /\ Vertex(a, b) = Rim(a, b)
             /\ Vertex(a + 1, b) = Rim(IF a + 1 = rows THEN 0 ELSE a + 1, b)
  <2>1. a % rows = a
    BY Around
  <2>2. a + 1 # rows => a + 1 \in 0 .. rows - 1
    OBVIOUS
  <2>3. (a + 1) % rows = IF a + 1 = rows THEN 0 ELSE a + 1
    BY <2>2, Around
  <2>. QED
    BY <1>1, <2>1, <2>3 DEF Vertex
<1>. QED
  BY <1>1 DEF Vertex, Rim, Looped

\* No triangle of a patch is one of another patch, nor are its two the same.
LEMMA Distinct ==
  ASSUME rows \in Nat \ {0}, cols \in Nat \ {0}, shape \in Looped, Proper,
         NEW a \in 0 .. rows - 1, NEW b \in 0 .. cols - 1,
         NEW c \in 0 .. rows - 1, NEW d \in 0 .. cols - 1
  PROVE  /\ Lower(a, b) # Upper(c, d)
         /\ a # c \/ b # d => Lower(a, b) # Lower(c, d) /\ Upper(a, b) # Upper(c, d)
<1>0. a \in Nat /\ b \in Nat /\ c \in Nat /\ d \in Nat
  OBVIOUS
<1>1. CASE shape = "plane"
  <2>1. \A m, n \in Nat : Vertex(m, n) = <<m, n, 0>>
    BY <1>1, VertexPlaces
  <2>2. \A m \in 0 .. rows - 1, n \in Nat :
          /\ Lower(m, n) = <<Vertex(m, n), Vertex(m + 1, n + 1), Vertex(m, n + 1)>>
          /\ Upper(m, n) = <<Vertex(m, n), Vertex(m + 1, n), Vertex(m + 1, n + 1)>>
    BY <1>1 DEF Lower, Upper, Corner
  <2>3. Vertex(a, b) = Vertex(c, d) => a = c /\ b = d
    BY <1>0, <2>1
  <2>4. ~ (Vertex(a, b) = Vertex(c, d) /\ Vertex(a + 1, b + 1) = Vertex(c + 1, d))
    <3>1. /\ Vertex(a, b) = <<a, b, 0>> /\ Vertex(a + 1, b + 1) = <<a + 1, b + 1, 0>>
          /\ Vertex(c, d) = <<c, d, 0>> /\ Vertex(c + 1, d) = <<c + 1, d, 0>>
      BY <1>0, <2>1
    <3>. QED
      BY <3>1
  <2>. QED
    BY <1>0, <2>2, <2>3, <2>4
<1>2. CASE shape = "cylinder"
  <2>1. \A m, n \in Nat : Vertex(m, n) = Rim(m, n)
    BY <1>2, VertexPlaces
  <2>2. \A m \in 0 .. rows - 1, n \in Nat :
          /\ Lower(m, n) = <<Vertex(m, n), Vertex(m + 1, n + 1), Vertex(m + 1, n)>>
          /\ Upper(m, n) = <<Vertex(m, n), Vertex(m, n + 1), Vertex(m + 1, n + 1)>>
    BY <1>2 DEF Lower, Upper, Corner
  <2>3. Vertex(a, b) = Vertex(c, d) => a = c /\ b = d
    BY <1>0, <2>1, RimPlaces DEF Rim
  <2>4. ~ (Vertex(a, b) = Vertex(c, d) /\ Vertex(a + 1, b + 1) = Vertex(c, d + 1))
    <3>1. /\ Vertex(a, b) = Rim(a, b) /\ Vertex(a + 1, b + 1) = Rim(a + 1, b + 1)
          /\ Vertex(c, d) = Rim(c, d) /\ Vertex(c, d + 1) = Rim(c, d + 1)
      BY <1>0, <2>1
    <3>. QED
      BY <3>1 DEF Rim
  <2>. QED
    BY <1>0, <2>2, <2>3, <2>4
<1>3. CASE shape = "torus"
  <2>. DEFINE up(m) == IF m + 1 = rows THEN 0 ELSE m + 1
  <2>1. \A m \in 0 .. rows - 1, n \in Nat :
          Vertex(m, n) = Rim(m, n) /\ Vertex(m + 1, n) = Rim(up(m), n)
    BY <1>3, VertexPlaces
  <2>2. \A m \in 0 .. rows - 1, n \in Nat :
          /\ Lower(m, n) = <<Rim(m, n), Rim(up(m), n), Rim(m, n + 1)>>
          /\ Upper(m, n) = <<Rim(up(m), n), Rim(up(m), n + 1), Rim(m, n + 1)>>
    BY <1>3, <2>1 DEF Lower, Upper, Corner
  <2>3. rows >= 3
    BY <1>3 DEF Proper
  <2>4. a # up(a) /\ (up(a) = up(c) => a = c)
    BY <2>3
  <2>. HIDE DEF up
  <2>5. Rim(a, b) = Rim(c, d) => a = c /\ b = d
    BY RimPlaces DEF Rim
  <2>6. Rim(up(a), b) = Rim(up(c), d) => a = c /\ b = d
    BY <2>4, RimPlaces DEF Rim
  <2>7. ~ (Rim(a, b) = Rim(up(c), d) /\ Rim(up(a), b) = Rim(up(c), d + 1))
    BY <2>4 DEF Rim
  <2>. QED
    BY <1>0, <2>2, <2>5, <2>6, <2>7
<1>4. CASE shape = "sphere"
  <2>1. \A m \in 0 .. rows, n \in Nat :
          /\ Vertex(m, n)[1] = m
          /\ m \notin {0, rows} => Vertex(m, n) = Rim(m, n)
    BY <1>4, VertexPlaces
  <2>2. \A m \in 0 .. rows - 1, n \in Nat :
          /\ Lower(m, n) = <<Vertex(m, n), Vertex(m + 1, n), Vertex(m, n + 1)>>
          /\ Upper(m, n) = <<Vertex(m + 1, n), Vertex(m + 1, n + 1), Vertex(m, n + 1)>>
    BY <1>4 DEF Lower, Upper, Corner
  <2>3. rows >= 2 /\ a + 1 \in 0 .. rows /\ c + 1 \in 0 .. rows
    BY <1>4 DEF Proper, Rings
  <2>4. Lower(a, b) # Upper(c, d)
    <3>1. ~ (Vertex(a, b) = Vertex(c + 1, d) /\ Vertex(a + 1, b) = Vertex(c + 1, d + 1))
      <4>1. /\ Vertex(a, b)[1] = a /\ Vertex(a + 1, b)[1] = a + 1
            /\ Vertex(c + 1, d)[1] = c + 1 /\ Vertex(c + 1, d + 1)[1] = c + 1
        BY <1>0, <2>1, <2>3
      <4>. QED
        BY <4>1
    <3>. QED
      BY <1>0, <2>2, <3>1
  <2>5. ASSUME Lower(a, b) = Lower(c, d)
        PROVE  a = c /\ b = d
    <3>1. Vertex(a, b) = Vertex(c, d) /\ Vertex(a + 1, b) = Vertex(c + 1, d)
      BY <1>0, <2>2, <2>5
    <3>2. a = c
      <4>1. Vertex(a, b)[1] = a /\ Vertex(c, d)[1] = c
        BY <1>0, <2>1
      <4>. QED
        BY <3>1, <4>1
    <3>3. CASE a # 0
      <4>1. Rim(a, b) = Rim(a, d)
        BY <1>0, <2>1, <3>1, <3>2, <3>3
      <4>. QED
        BY <3>2, <4>1, RimPlaces
    <3>4. CASE a = 0
      <4>1. a + 1 \notin {0, rows}
        BY <2>3, <3>4
      <4>2. Rim(a + 1, b) = Rim(a + 1, d)
        BY <1>0, <2>1, <2>3, <3>1, <3>2, <4>1
      <4>. QED
        BY <3>2, <4>2, RimPlaces
    <3>. QED
      BY <3>3, <3>4
  <2>6. ASSUME Upper(a, b) = Upper(c, d)
        PROVE  a = c /\ b = d
    <3>1. Vertex(a + 1, b) = Vertex(c + 1, d) /\ Vertex(a, b + 1) = Vertex(c, d + 1)
      BY <1>0, <2>2, <2>6
    <3>2. a = c
      <4>1. Vertex(a + 1, b)[1] = a + 1 /\ Vertex(c + 1, d)[1] = c + 1
        BY <1>0, <2>1, <2>3
      <4>. QED
        BY <3>1, <4>1
    <3>3. CASE a + 1 # rows
      <4>1. Rim(a + 1, b) = Rim(a + 1, d)
        BY <1>0, <2>1, <2>3, <3>1, <3>2, <3>3
      <4>. QED
        BY <3>2, <4>1, RimPlaces
    <3>4. CASE a + 1 = rows
      <4>1. a \notin {0, rows} /\ b + 1 \in Nat /\ d + 1 \in Nat /\ a \in 0 .. rows
        BY <2>3, <3>4
      <4>2. Rim(a, b + 1) = Rim(a, d + 1)
        BY <2>1, <3>1, <3>2, <4>1
      <4>. QED
        BY <3>2, <4>2, RimPlaces
    <3>. QED
      BY <3>3, <3>4
  <2>. QED
    BY <2>4, <2>5, <2>6
<1>. QED
  BY <1>1, <1>2, <1>3, <1>4 DEF Looped

LEMMA PatchOf ==
  ASSUME shape \in Looped \cup {"terrain"}
  PROVE  Patch = {Lower(i, j), Upper(i, j)}
<1>1. CASE shape = "terrain"
  BY <1>1 DEF Patch, Lower, Upper, Corner
<1>2. CASE shape \in {"sphere", "torus"}
  BY <1>2 DEF Patch, Lower, Upper, Corner
<1>3. CASE shape = "cylinder"
  BY <1>3 DEF Patch, Lower, Upper, Corner
<1>4. CASE shape = "plane"
  BY <1>4 DEF Patch, Lower, Upper, Corner
<1>. QED
  BY <1>1, <1>2, <1>3, <1>4 DEF Looped

\* The torus' last pass of a stack is its first again.
LEMMA TorusCloses ==
  ASSUME shape = "torus", cols \in Nat \ {0}, NEW a
  PROVE  Lower(a, cols) = Lower(a, 0) /\ Upper(a, cols) = Upper(a, 0)
<1>1. cols % cols = 0 % cols /\ (cols + 1) % cols = 1 % cols
  BY 0 \in 0 .. cols - 1, Around
<1>2. \A m : Vertex(m, cols) = Vertex(m, 0) /\ Vertex(m, cols + 1) = Vertex(m, 0 + 1)
  BY <1>1 DEF Vertex, Rim
<1>. QED
  BY <1>2 DEF Lower, Upper, Corner

\* No patch has a corner in the middle of a cap.
LEMMA NoCap ==
  ASSUME shape \in Looped, NEW a, NEW b
  PROVE  Lower(a, b)[1][3] = 0 /\ Upper(a, b)[1][3] = 0
<1>1. \A m, n : Vertex(m, n)[3] = 0
  BY DEF Vertex, Rim
<1>2. \A m, n : Corner(m, n) = Vertex(m, n)
  BY DEF Corner, Looped
<1>. QED
  BY <1>1, <1>2 DEF Lower, Upper

\* What a pass within the circumference pushes is new.
LEMMA PatchNew ==
  ASSUME Inv, Passed, Proper, stage = "grid", shape # "terrain", j < cols
  PROVE  /\ Lower(i, j) \notin triangles /\ Upper(i, j) \notin triangles
         /\ Lower(i, j) # Upper(i, j)
<1>1. /\ shape \in Looped /\ rows \in Nat \ {0} /\ cols \in Nat \ {0}
      /\ i \in 0 .. rows - 1 /\ j \in 0 .. cols - 1
  BY DEF Inv, TypeOK, Places, RowLimit, Looped
<1>2. ASSUME NEW t \in triangles, t \in {Lower(i, j), Upper(i, j)}
      PROVE  FALSE
  <2>1. t[1][3] = 0
    BY <1>1, <1>2, NoCap
  <2>2. PICK a \in 0 .. i, b \in 0 .. cols - 1 :
          (a < i \/ b < j) /\ t \in {Lower(a, b), Upper(a, b)}
    BY <2>1 DEF Passed
  <2>3. a \in 0 .. rows - 1 /\ (a # i \/ b # j)
    BY <1>1, <2>2
  <2>. QED
    BY <1>1, <1>2, <2>2, <2>3, Distinct
<1>3. Lower(i, j) # Upper(i, j)
  BY <1>1, Distinct
<1>. QED
  BY <1>2, <1>3

\* The triangles of the tables.
Counts(S, n) == IsFiniteSet(S) /\ Cardinality(S) = n

LEMMA EmptyCounts == Counts({}, 0)
  BY FS_EmptySet DEF Counts

\* T has two members more than S.
AddsTwo(S, T) == \E x, y : x \notin S /\ y \notin S /\ x # y /\ T = S \cup {x, y}

LEMMA CountTwo ==
  ASSUME NEW S, NEW T, NEW n \in Nat, Counts(S, n), AddsTwo(S, T)
  PROVE  Counts(T, n + 2)
<1>1. PICK x, y : x \notin S /\ y \notin S /\ x # y /\ T = S \cup {x, y}
  BY DEF AddsTwo
<1>. QED
  BY <1>1, AddTwo DEF Counts

LEMMA TableOnce ==
  ASSUME shape \in Tables
  PROVE  Counts(Table, CASE shape = "box" -> 12 [] shape = "tetrahedron" -> 4
                         [] shape = "pyramid" -> 6 [] OTHER -> 2)
<1>1. Counts(quad_positions, 2)
  <2>. DEFINE a == <<1, 0, 1>>  b == <<1, 0, -1>>  c == <<-1, 0, -1>>  d == <<-1, 0, 1>>
              S1 == {} \cup {<<a, b, c>>, <<c, d, a>>}
  <2>1. /\ a # b /\ a # c /\ a # d
        /\ b # c /\ b # d
        /\ c # d
    OBVIOUS
  <2>2. quad_positions = S1
    BY DEF quad_positions
  <2>. HIDE DEF a, b, c, d
  <2>3. AddsTwo({}, S1)
    <3>1. <<a, b, c>> # <<c, d, a>>
      BY <2>1
    <3>. QED
      BY <3>1 DEF AddsTwo
  <2>. HIDE DEF S1
  <2>4. Counts(S1, 2)
    BY <2>3, EmptyCounts, CountTwo
  <2>. QED
    BY <2>2, <2>4
<1>2. Counts(tetra_positions, 4)
  <2>. DEFINE p == <<1, -1, 1>>  q == <<-1, -1, 1>>  r == <<0, -1, -1>>  top == <<0, 1, 0>>
              S1 == {} \cup {<<p, top, q>>, <<r, top, p>>}
              S2 == S1 \cup {<<q, top, r>>, <<q, r, p>>}
  <2>1. /\ p # q /\ p # r /\ p # top
        /\ q # r /\ q # top
        /\ r # top
    OBVIOUS
  <2>2. tetra_positions = S2
    BY DEF tetra_positions
  <2>. HIDE DEF p, q, r, top
  <2>3. AddsTwo({}, S1)
    <3>1. <<p, top, q>> # <<r, top, p>>
      BY <2>1
    <3>. QED
      BY <3>1 DEF AddsTwo
  <2>4. AddsTwo(S1, S2)
    <3>1. <<q, top, r>> \notin S1 /\ <<q, r, p>> \notin S1 /\ <<q, top, r>> # <<q, r, p>>
      BY <2>1
    <3>. QED
      BY <3>1 DEF AddsTwo
  <2>. HIDE DEF S1, S2
  <2>5. Counts(S1, 2)
    BY <2>3, EmptyCounts, CountTwo
  <2>6. Counts(S2, 4)
    BY <2>4, <2>5, CountTwo
  <2>. QED
    BY <2>2, <2>6
<1>3. Counts(pyramid_positions, 6)
  <2>. DEFINE a == <<-1, -1, 1>>  d == <<-1, -1, -1>>  e == <<1, -1, -1>>  h == <<1, -1, 1>>
              top == <<0, 1, 0>>
              S1 == {} \cup {<<h, top, a>>, <<e, top, h>>}
              S2 == S1 \cup {<<d, top, e>>, <<a, top, d>>}
              S3 == S2 \cup {<<h, a, d>>, <<h, d, e>>}
  <2>1. /\ a # d /\ a # e /\ a # h /\ a # top
        /\ d # e /\ d # h /\ d # top
        /\ e # h /\ e # top
        /\ h # top
    OBVIOUS
  <2>2. pyramid_positions = S3
    BY DEF pyramid_positions
  <2>. HIDE DEF a, d, e, h, top
  <2>3. AddsTwo({}, S1)
    <3>1. <<h, top, a>> # <<e, top, h>>
      BY <2>1
    <3>. QED
      BY <3>1 DEF AddsTwo
  <2>4. AddsTwo(S1, S2)
    <3>1. <<d, top, e>> \notin S1 /\ <<a, top, d>> \notin S1 /\ <<d, top, e>> # <<a, top, d>>
      BY <2>1
    <3>. QED
      BY <3>1 DEF AddsTwo
  <2>5. AddsTwo(S2, S3)
    <3>1. <<h, a, d>> \notin S2 /\ <<h, d, e>> \notin S2 /\ <<h, a, d>> # <<h, d, e>>
      BY <2>1
    <3>. QED
      BY <3>1 DEF AddsTwo
  <2>. HIDE DEF S1, S2, S3
  <2>6. Counts(S1, 2)
    BY <2>3, EmptyCounts, CountTwo
  <2>7. Counts(S2, 4)
    BY <2>4, <2>6, CountTwo
  <2>8. Counts(S3, 6)
    BY <2>5, <2>7, CountTwo
  <2>. QED
    BY <2>2, <2>8
<1>4. Counts(box_positions, 12)
  <2>. DEFINE a == <<-1, -1, 1>>  b == <<-1, 1, 1>>  c == <<-1, 1, -1>>  d == <<-1, -1, -1>>
              e == <<1, -1, -1>>  f == <<1, 1, -1>>  g == <<1, 1, 1>>    h == <<1, -1, 1>>
              S1 == {} \cup {<<a, b, c>>, <<a, c, d>>}
              S2 == S1 \cup {<<e, f, g>>, <<e, g, h>>}
              S3 == S2 \cup {<<e, h, a>>, <<e, a, d>>}
              S4 == S3 \cup {<<g, f, c>>, <<g, c, b>>}
              S5 == S4 \cup {<<d, c, f>>, <<d, f, e>>}
              S6 == S5 \cup {<<h, g, b>>, <<h, b, a>>}
  <2>1. /\ a # b /\ a # c /\ a # d /\ a # e /\ a # f /\ a # g /\ a # h
        /\ b # c /\ b # d /\ b # e /\ b # f /\ b # g /\ b # h
        /\ c # d /\ c # e /\ c # f /\ c # g /\ c # h
        /\ d # e /\ d # f /\ d # g /\ d # h
        /\ e # f /\ e # g /\ e # h
        /\ f # g /\ f # h
        /\ g # h
    OBVIOUS
  <2>2. box_positions = S6
    BY DEF box_positions
  <2>. HIDE DEF a, b, c, d, e, f, g, h
  <2>3. AddsTwo({}, S1)
    <3>1. <<a, b, c>> # <<a, c, d>>
      BY <2>1
    <3>. QED
      BY <3>1 DEF AddsTwo
  <2>4. AddsTwo(S1, S2)
    <3>1. <<e, f, g>> \notin S1 /\ <<e, g, h>> \notin S1 /\ <<e, f, g>> # <<e, g, h>>
      BY <2>1
    <3>. QED
      BY <3>1 DEF AddsTwo
  <2>5. AddsTwo(S2, S3)
    <3>1. <<e, h, a>> \notin S2 /\ <<e, a, d>> \notin S2 /\ <<e, h, a>> # <<e, a, d>>
      BY <2>1
    <3>. QED
      BY <3>1 DEF AddsTwo
  <2>6. AddsTwo(S3, S4)
    <3>1. <<g, f, c>> \notin S3 /\ <<g, c, b>> \notin S3 /\ <<g, f, c>> # <<g, c, b>>
      BY <2>1
    <3>. QED
      BY <3>1 DEF AddsTwo
  <2>7. AddsTwo(S4, S5)
    <3>1. <<d, c, f>> \notin S4 /\ <<d, f, e>> \notin S4 /\ <<d, c, f>> # <<d, f, e>>
      BY <2>1
    <3>. QED
      BY <3>1 DEF AddsTwo
  <2>8. AddsTwo(S5, S6)
    <3>1. <<h, g, b>> \notin S5 /\ <<h, b, a>> \notin S5 /\ <<h, g, b>> # <<h, b, a>>
      BY <2>1
    <3>. QED
      BY <3>1 DEF AddsTwo
  <2>. HIDE DEF S1, S2, S3, S4, S5, S6
  <2>9. Counts(S1, 2)
    BY <2>3, EmptyCounts, CountTwo
  <2>10. Counts(S2, 4)
    BY <2>4, <2>9, CountTwo
  <2>11. Counts(S3, 6)
    BY <2>5, <2>10, CountTwo
  <2>12. Counts(S4, 8)
    BY <2>6, <2>11, CountTwo
  <2>13. Counts(S5, 10)
    BY <2>7, <2>12, CountTwo
  <2>14. Counts(S6, 12)
    BY <2>8, <2>13, CountTwo
  <2>. QED
    BY <2>2, <2>14
<1>. QED
  BY <1>1, <1>2, <1>3, <1>4 DEF Table, Tables

LEMMA OnceInit == Init => Once
<1>. SUFFICES ASSUME Init
              PROVE  Once
  OBVIOUS
<1>1. stage = "idle" /\ triangles = {}
  BY DEF Init
<1>. QED
  BY <1>1, FS_EmptySet DEF Once, Caps, Passed, FirstOfStack, Tally, EveryTriangleOnce, built

\* While a shape is made neither it nor its size changes.
LEMMA SameShape ==
  ASSUME UNCHANGED size
  PROVE  /\ Proper' = Proper
         /\ \A a, b : Rim(a, b)' = Rim(a, b)
         /\ \A a, b : Lower(a, b)' = Lower(a, b) /\ Upper(a, b)' = Upper(a, b)
<1>1. shape' = shape /\ rows' = rows /\ cols' = cols
  BY DEF size
<1>2. Proper' = Proper
  BY <1>1 DEF Proper
<1>3. \A a, b : Rim(a, b)' = Rim(a, b)
  BY <1>1 DEF Rim
<1>4. \A a, b : Vertex(a, b)' = Vertex(a, b)
  BY <1>1, <1>3 DEF Vertex
<1>5. \A a, b : Corner(a, b)' = Corner(a, b)
  BY <1>1, <1>4 DEF Corner, PointAt, Index
<1>6. \A a, b : Lower(a, b)' = Lower(a, b) /\ Upper(a, b)' = Upper(a, b)
  BY <1>1, <1>5 DEF Lower, Upper
<1>. QED
  BY <1>2, <1>3, <1>6

\* A shape is begun, or its table is pushed.
LEMMA OnceBegun ==
  ASSUME Inv, Once, NEW s \in Shapes, NEW r \in Sizes, NEW c \in Sizes, Create(s, r, c)
  PROVE  Once'
<1>1. stage = "idle" /\ triangles' = triangles /\ positions' = positions
      /\ shape' = s /\ j' = j
  BY DEF Create, buffers
<1>2. triangles' = {} /\ positions' = 0 /\ j' = 0
  BY <1>1 DEF Inv, Lengths, Places, Once, Tally
<1>3. /\ stage' \in {"table", "centre", "top", "points", "grid"}
      /\ stage' = "centre" => s = "disk"
      /\ s = "torus" => stage' = "grid" /\ i' = 0
  BY DEF Create, Tables
<1>4. IsFiniteSet(triangles') /\ Cardinality(triangles') = 0
  BY <1>2, FS_EmptySet
<1>5. Repeated' = 0
  BY <1>1, <1>3 DEF Repeated
<1>6. Caps' /\ Passed' /\ FirstOfStack'
  BY <1>2, <1>3 DEF Caps, Passed, FirstOfStack
<1>7. EveryTriangleOnce'
  BY <1>3 DEF EveryTriangleOnce, built
<1>. QED
  BY <1>2, <1>3, <1>4, <1>5, <1>6, <1>7 DEF Once, Tally

LEMMA OnceTable ==
  ASSUME Inv, PushTable
  PROVE  Once'
<1>1. shape \in Tables /\ stage' = "built" /\ shape' = shape /\ triangles' = Table
  BY DEF PushTable, Inv, Places, size
<1>2. positions' = CASE shape = "box" -> 36 [] shape = "tetrahedron" -> 12
                     [] shape = "pyramid" -> 18 [] OTHER -> 6
  BY DEF PushTable
<1>3. IsFiniteSet(triangles')
      /\ Cardinality(triangles') = CASE shape = "box" -> 12 [] shape = "tetrahedron" -> 4
                                     [] shape = "pyramid" -> 6 [] OTHER -> 2
  BY <1>1, TableOnce DEF Counts
<1>4. Drawn' = positions' \div 3 /\ shape' # "torus"
  BY <1>1 DEF Drawn, Tables
<1>5. EveryTriangleOnce'
  <2>1. 36 \div 3 = 12 /\ 12 \div 3 = 4 /\ 18 \div 3 = 6 /\ 6 \div 3 = 2
    BY SMT
  <2>2. Drawn' = Cardinality(triangles')
    BY <1>1, <1>2, <1>3, <1>4, <2>1 DEF Tables
  <2>3. Cardinality(triangles') \in Nat
    BY <1>3, FS_CardinalityType
  <2>. QED
    BY <1>4, <2>2, <2>3 DEF EveryTriangleOnce
<1>. QED
  BY <1>1, <1>3, <1>5 DEF Once, Caps, Passed, FirstOfStack, Tally

\* The disk.
LEMMA OnceDisk ==
  ASSUME Inv, Once, PushCentre \/ PushFan
  PROVE  Once'
<1>1. shape = "disk" /\ cols \in Nat /\ cols >= 1 /\ UNCHANGED size
  BY DEF PushCentre, PushFan, Push, Inv, Places, TypeOK
<1>2. CASE PushCentre
  <2>1. stage' = "fan" /\ triangles' = {} /\ positions' = 2
    BY <1>2 DEF PushCentre, Push, Once, Tally
  <2>. QED
    BY <2>1, FS_EmptySet DEF Once, Caps, Passed, FirstOfStack, Tally, EveryTriangleOnce, built
<1>3. CASE PushFan
  <2>. DEFINE t == <<Centre(0), Rim(0, -(i - 1)), Rim(0, -i)>>
  <2>1. /\ stage = "fan" /\ triangles' = triangles \cup {t} /\ positions' = positions + 1
        /\ \/ i < cols /\ i' = i + 1 /\ stage' = "fan"
           \/ stage' = "built"
    BY <1>3 DEF PushFan, Push
  <2>2. i \in 1 .. cols /\ i - 1 \in 0 .. cols - 1
    BY <2>1 DEF Inv, TypeOK
  <2>3. t \notin triangles
    <3>1. ASSUME NEW k \in 0 .. i - 2
          PROVE  Rim(0, -k) # Rim(0, -(i - 1))
      BY <1>1, <2>2, RimPlaces
    <3>2. t[2] = Rim(0, -(i - 1))
      OBVIOUS
    <3>. QED
      BY <2>1, <3>1, <3>2 DEF Once, Caps
  <2>4. /\ IsFiniteSet(triangles') /\ Cardinality(triangles') = Cardinality(triangles) + 1
        /\ Cardinality(triangles) \in Nat
    BY <2>1, <2>3, AddOne DEF Once, Tally
  <2>5. positions' = Cardinality(triangles') + 2
    BY <2>1, <2>4 DEF Once, Tally
  <2>6. Caps'
    <3>1. ASSUME stage' = "fan", NEW u \in triangles'
          PROVE  u[1] = Centre(0) /\ \E k \in 0 .. i' - 2 : u[2] = Rim(0, -k)
      <4>1. CASE u \in triangles
        BY <2>1, <2>2, <3>1, <4>1 DEF Once, Caps
      <4>2. CASE u = t
        <5>1. i - 1 \in 0 .. i' - 2
          BY <2>1, <2>2, <3>1
        <5>. QED
          BY <4>2, <5>1
      <4>. QED
        BY <2>1, <3>1, <4>1, <4>2
    <3>. QED
      BY <1>1, <2>1, <3>1, SameShape DEF Caps
  <2>7. EveryTriangleOnce'
    <3>1. Drawn' = positions' - 2 /\ shape' = "disk"
      BY <1>1 DEF Drawn, size
    <3>. QED
      BY <2>4, <2>5, <3>1 DEF EveryTriangleOnce
  <2>. QED
    BY <2>1, <2>4, <2>5, <2>6, <2>7 DEF Once, Passed, FirstOfStack, Tally
<1>. QED
  BY <1>2, <1>3

\* The caps of a cylinder.
LEMMA OnceCaps ==
  ASSUME Inv, Once, PushTop \/ PushBottom
  PROVE  Once'
<1>1. /\ shape = "cylinder" /\ UNCHANGED size
      /\ rows \in Nat /\ cols \in Nat /\ rows >= 1 /\ cols >= 1
      /\ i \in 1 .. cols /\ i - 1 \in 0 .. cols - 1 /\ j = 0 /\ j' = j
      /\ positions' = positions + 3
  BY DEF PushTop, PushBottom, Push, Inv, Places, TypeOK
<1>2. Repeated = 0 /\ Repeated' = 0 /\ shape' = "cylinder"
  BY <1>1 DEF Repeated, size
<1>3. ASSUME NEW t, t \notin triangles, triangles' = triangles \cup {t},
             stage \in {"top", "bottom"}, stage' \in {"top", "bottom", "grid"}
      PROVE  Tally'
  <2>1. /\ IsFiniteSet(triangles') /\ Cardinality(triangles') = Cardinality(triangles) + 1
        /\ Cardinality(triangles) \in Nat
    BY <1>3, AddOne DEF Once, Tally
  <2>2. Proper => positions = 3 * (Cardinality(triangles) + Repeated)
    BY <1>1, <1>3 DEF Once, Tally
  <2>3. Proper' => positions' = 3 * (Cardinality(triangles') + Repeated')
    <3>1. Proper' = Proper
      BY <1>1, SameShape
    <3>. QED
      BY <1>1, <1>2, <2>1, <2>2, <3>1
  <2>. QED
    BY <1>3, <2>1, <2>3 DEF Tally, EveryTriangleOnce, built
<1>4. CASE PushTop
  <2>. DEFINE t == <<Centre(0), Rim(0, -(i - 1)), Rim(0, -i)>>
  <2>1. /\ stage = "top" /\ triangles' = triangles \cup {t}
        /\ \/ i' = i + 1 /\ stage' = "top"
           \/ i' = 1 /\ stage' = "bottom"
    BY <1>4 DEF PushTop, Push
  <2>2. t[1] = Centre(0) /\ t[2] = Rim(0, -(i - 1))
    OBVIOUS
  <2>3. t \notin triangles
    <3>1. ASSUME NEW k \in 0 .. i - 2
          PROVE  Rim(0, -k) # Rim(0, -(i - 1))
      <4>1. /\ cols \in Nat \ {0} /\ k \in 0 .. cols - 1
            /\ i - 1 \in 0 .. cols - 1 /\ k # i - 1
        BY <1>1
      <4>. QED
        BY <4>1, RimPlaces
    <3>. QED
      BY <2>1, <2>2, <3>1 DEF Once, Caps
  <2>4. Caps'
    <3>1. ASSUME stage' = "top", NEW u \in triangles'
          PROVE  u[1] = Centre(0) /\ \E k \in 0 .. i' - 2 : u[2] = Rim(0, -k)
      <4>1. CASE u \in triangles
        BY <1>1, <2>1, <3>1, <4>1 DEF Once, Caps
      <4>2. CASE u = t
        <5>1. i - 1 \in 0 .. i' - 2
          BY <1>1, <2>1, <3>1
        <5>. QED
          BY <4>2, <5>1
      <4>. QED
        BY <2>1, <4>1, <4>2
    <3>2. \A u \in triangles' : u[1] = Centre(0)
      BY <2>1, <2>2 DEF Once, Caps
    <3>. QED
      BY <1>1, <2>1, <3>1, <3>2, SameShape DEF Caps
  <2>. QED
    BY <1>3, <2>1, <2>3, <2>4 DEF Once, Passed, FirstOfStack
<1>5. CASE PushBottom
  <2>. DEFINE t == <<Centre(rows), Rim(rows, i - 1), Rim(rows, i)>>
  <2>1. /\ stage = "bottom" /\ triangles' = triangles \cup {t}
        /\ \/ i' = i + 1 /\ stage' = "bottom"
           \/ i' = 0 /\ stage' = "grid"
    BY <1>5 DEF PushBottom, Push
  <2>2. t[1] = Centre(rows) /\ t[2] = Rim(rows, i - 1) /\ Centre(rows) # Centre(0)
    BY <1>1 DEF Centre
  <2>3. t \notin triangles
    <3>1. ASSUME NEW k \in 0 .. i - 2
          PROVE  Rim(rows, k) # Rim(rows, i - 1)
      BY <1>1, RimPlaces
    <3>. QED
      BY <2>1, <2>2, <3>1 DEF Once, Caps
  <2>4. Caps'
    <3>1. ASSUME stage' = "bottom", NEW u \in triangles'
          PROVE  \/ u[1] = Centre(0)
                 \/ u[1] = Centre(rows) /\ \E k \in 0 .. i' - 2 : u[2] = Rim(rows, k)
      <4>1. CASE u \in triangles
        BY <1>1, <2>1, <3>1, <4>1 DEF Once, Caps
      <4>2. CASE u = t
        <5>1. i - 1 \in 0 .. i' - 2
          BY <1>1, <2>1, <3>1
        <5>. QED
          BY <2>2, <4>2, <5>1
      <4>. QED
        BY <2>1, <4>1, <4>2
    <3>2. rows' = rows
      BY <1>1 DEF size
    <3>. QED
      BY <1>1, <2>1, <3>1, <3>2, SameShape DEF Caps
  <2>5. Passed'
    <3>1. \A u \in triangles' : u[1][3] = 1
      BY <2>1, <2>2 DEF Once, Caps, Centre
    <3>. QED
      BY <3>1 DEF Passed
  <2>. QED
    BY <1>1, <1>2, <1>3, <2>1, <2>3, <2>4, <2>5 DEF Once, FirstOfStack
<1>. QED
  BY <1>4, <1>5

\* A patch of a shape that is not a terrain.
LEMMA OncePatch ==
  ASSUME Inv, Once, PushPatch
  PROVE  Once'
<1>1. /\ stage = "grid" /\ shape \in Looped /\ UNCHANGED size /\ Advance
      /\ positions' = positions + 6 /\ triangles' = triangles \cup Patch
      /\ rows \in Nat /\ cols \in Nat /\ rows >= 1 /\ cols >= 1
      /\ i \in Nat /\ j \in Nat /\ i < rows /\ j < ColumnLimit
      /\ RowLimit = rows /\ ColumnLimit = IF shape = "torus" THEN cols + 1 ELSE cols
  BY DEF PushPatch, Inv, Places, TypeOK, Looped, RowLimit, ColumnLimit
<1>2. \/ j + 1 < ColumnLimit /\ j' = j + 1 /\ i' = i /\ stage' = "grid"
      \/ j + 1 = ColumnLimit /\ j' = 0 /\ i' = i + 1 /\ i + 1 < rows /\ stage' = "grid"
      \/ j + 1 = ColumnLimit /\ i + 1 = rows /\ stage' = "rest"
  BY <1>1 DEF Advance
<1>3. Patch = {Lower(i, j), Upper(i, j)} /\ shape' = shape /\ rows' = rows /\ cols' = cols
  BY <1>1, PatchOf DEF size
<1>4. shape = "torus" /\ j = cols =>
        Patch = {Lower(i, 0), Upper(i, 0)} /\ Patch \subseteq triangles
  BY <1>1, <1>3, TorusCloses DEF Once, FirstOfStack
<1>5. Caps'
  BY <1>2 DEF Caps
<1>6. Passed'
  <2>1. ASSUME stage' = "grid", NEW t \in triangles', t[1][3] # 1
        PROVE  \E a \in 0 .. i', b \in 0 .. cols - 1 :
                 (a < i' \/ b < j') /\ t \in {Lower(a, b), Upper(a, b)}
    <3>1. CASE t \in triangles
      <4>1. PICK a \in 0 .. i, b \in 0 .. cols - 1 :
              (a < i \/ b < j) /\ t \in {Lower(a, b), Upper(a, b)}
        BY <1>1, <2>1, <3>1 DEF Once, Passed, Looped
      <4>2. a \in 0 .. i' /\ (a < i' \/ b < j')
        BY <1>1, <1>2, <2>1, <4>1
      <4>. QED
        BY <4>1, <4>2
    <3>2. CASE t \notin triangles
      <4>1. t \in {Lower(i, j), Upper(i, j)} /\ j < cols
        BY <1>1, <1>3, <1>4, <3>2
      <4>2. i \in 0 .. i' /\ j \in 0 .. cols - 1 /\ (i < i' \/ j < j')
        BY <1>1, <1>2, <2>1, <4>1
      <4>. QED
        BY <4>1, <4>2
    <3>. QED
      BY <3>1, <3>2
  <2>. QED
    BY <1>1, <1>3, <2>1, SameShape DEF Passed
<1>7. FirstOfStack'
  <2>1. ASSUME stage' = "grid", shape = "torus", j' > 0
        PROVE  {Lower(i', 0), Upper(i', 0)} \subseteq triangles'
    <3>1. i' = i
      BY <1>2, <2>1
    <3>2. CASE j = 0
      BY <1>1, <1>3, <3>1, <3>2
    <3>3. CASE j # 0
      BY <1>1, <2>1, <3>1, <3>3 DEF Once, FirstOfStack
    <3>. QED
      BY <3>2, <3>3
  <2>. QED
    BY <1>1, <1>3, <2>1, SameShape DEF FirstOfStack
<1>8. IsFiniteSet(triangles) /\ Cardinality(triangles) \in Nat
  BY FS_CardinalityType DEF Once, Tally
<1>9. CASE shape = "torus" /\ j = cols
  <2>1. triangles' = triangles
    BY <1>1, <1>4, <1>9
  <2>2. Repeated' = Repeated + 2 /\ Repeated \in Nat
    BY <1>1, <1>2, <1>3, <1>9 DEF Repeated
  <2>3. Proper' => positions' = 3 * (Cardinality(triangles') + Repeated')
    <3>1. Proper' = Proper
      BY <1>1, SameShape
    <3>2. Proper => positions = 3 * (Cardinality(triangles) + Repeated)
      BY <1>1, <1>9 DEF Once, Tally
    <3>3. positions' = positions + 6
      BY <1>1
    <3>. QED
      BY <1>8, <2>1, <2>2, <3>1, <3>2, <3>3
  <2>. QED
    BY <1>2, <1>5, <1>6, <1>7, <1>8, <2>1, <2>3 DEF Once, Tally, EveryTriangleOnce, built
<1>10. CASE ~ (shape = "torus" /\ j = cols)
  <2>1. j < cols
    BY <1>1, <1>10
  <2>2. Repeated' = Repeated /\ Repeated \in Nat
    BY <1>1, <1>2, <1>3, <1>10 DEF Repeated
  <2>3. IsFiniteSet(triangles')
    BY <1>1, <1>3, <1>8, AddAny
  <2>4. Proper' => positions' = 3 * (Cardinality(triangles') + Repeated')
    <3>1. ASSUME Proper
          PROVE  positions' = 3 * (Cardinality(triangles') + Repeated')
      <4>1. /\ Lower(i, j) \notin triangles /\ Upper(i, j) \notin triangles
            /\ Lower(i, j) # Upper(i, j)
        BY <1>1, <2>1, <3>1, PatchNew DEF Once, Looped
      <4>2. Cardinality(triangles') = Cardinality(triangles) + 2
        BY <1>1, <1>3, <1>8, <4>1, AddTwo
      <4>3. positions = 3 * (Cardinality(triangles) + Repeated)
        BY <1>1, <3>1 DEF Once, Tally, Looped
      <4>. QED
        BY <1>1, <1>8, <2>2, <4>2, <4>3
    <3>. QED
      BY <1>1, <3>1, SameShape
  <2>. QED
    BY <1>2, <1>5, <1>6, <1>7, <2>3, <2>4 DEF Once, Tally, EveryTriangleOnce, built
<1>. QED
  BY <1>9, <1>10

\* What is left: a terrain, the end of the loops, and the return.
LEMMA OnceRest ==
  ASSUME Inv, Once, PushPoints \/ PushIndices \/ Finish \/ Return \/ UNCHANGED vars
  PROVE  Once'
<1>1. CASE PushPoints
  <2>1. /\ shape = "terrain" /\ shape' = shape /\ triangles' = triangles
        /\ stage' \in {"points", "grid"}
    BY <1>1 DEF PushPoints, Inv, Places, size
  <2>. QED
    BY <2>1 DEF Once, Caps, Passed, FirstOfStack, Tally, EveryTriangleOnce, built
<1>2. CASE PushIndices
  <2>1. /\ shape = "terrain" /\ shape' = shape /\ triangles' = triangles \cup Patch
        /\ stage = "grid" /\ Advance /\ UNCHANGED size
    BY <1>2 DEF PushIndices, size
  <2>2. stage' \in {"grid", "rest"}
    BY <2>1, AdvanceStays
  <2>. DEFINE p == PointAt(Index(i, j))      q == PointAt(Index(i + 1, j))
              r == PointAt(Index(i, j + 1))  s == PointAt(Index(i + 1, j + 1))
  <2>3. Patch = {<<p, s, r>>, <<p, q, s>>}
    BY <2>1 DEF Patch
  <2>. HIDE DEF p, q, r, s
  <2>4. IsFiniteSet(triangles')
    BY <2>1, <2>3, AddAny DEF Once, Tally
  <2>. QED
    BY <2>1, <2>2, <2>4 DEF Once, Caps, Passed, FirstOfStack, Tally, EveryTriangleOnce, built
<1>3. CASE Finish
  <2>1. /\ stage = "rest" /\ stage' = "built" /\ UNCHANGED size
        /\ positions' = positions /\ triangles' = triangles
        /\ shape \in Looped \cup {"terrain"}
    BY <1>3 DEF Finish, Inv, Places, Looped
  <2>2. Drawn' = positions \div 3 /\ shape' = shape /\ rows' = rows
    BY <2>1 DEF Drawn, Looped, size
  <2>3. Cardinality(triangles) \in Nat /\ rows \in Nat
    BY FS_CardinalityType DEF Once, Tally, Inv, TypeOK
  <2>4. Proper /\ shape # "terrain" =>
          positions \div 3 = Cardinality(triangles) + (IF shape = "torus" THEN 2 * rows ELSE 0)
    <3>1. \A n \in Nat : (3 * n) \div 3 = n
      BY SMT
    <3>2. Repeated = IF shape = "torus" THEN 2 * rows ELSE 0
      BY <2>1 DEF Repeated
    <3>. QED
      BY <2>1, <2>3, <3>1, <3>2 DEF Once, Tally
  <2>5. EveryTriangleOnce'
    BY <2>1, <2>2, <2>4, SameShape DEF EveryTriangleOnce
  <2>. QED
    BY <2>1, <2>5 DEF Once, Caps, Passed, FirstOfStack, Tally
<1>4. CASE Return
  <2>1. stage' = "idle" /\ triangles' = {}
    BY <1>4 DEF Return
  <2>. QED
    BY <2>1, FS_EmptySet DEF Once, Caps, Passed, FirstOfStack, Tally, EveryTriangleOnce, built
<1>5. CASE UNCHANGED vars
  <2>1. UNCHANGED <<shape, rows, cols, stage, i, j, positions, triangles>> /\ UNCHANGED size
    BY <1>5 DEF vars, size, buffers
  <2>2. Repeated' = Repeated /\ Drawn' = Drawn
    BY <2>1 DEF Repeated, Drawn
  <2>. QED
    BY <2>1, <2>2, SameShape DEF Once, Caps, Passed, FirstOfStack, Tally, EveryTriangleOnce, built
<1>. QED
  BY <1>1, <1>2, <1>3, <1>4, <1>5

LEMMA OnceStep == Inv /\ Once /\ [Next]_vars => Once'
  BY OnceBegun, OnceTable, OnceDisk, OnceCaps, OncePatch, OnceRest DEF Next

\* However many stacks and slices are asked for, from the fewest that make a shape, no triangle
\* is pushed twice, except the first two of each of the torus' stacks.
THEOREM OnceCorrect == Spec => []EveryTriangleOnce
<1>1. Once => EveryTriangleOnce
  BY DEF Once, Tally
<1>. QED
  BY InvInit, InvStep, OnceInit, OnceStep, <1>1, PTL DEF Spec

-----------------------------------------------------------------------------
(* Which triangles a shape is made of.                                      *)

\* The next place on a ring, and the two triangles of the caps that begin at a place.
Turn(n, b) == IF b + 1 = n THEN 0 ELSE b + 1

Top(b)    == <<Centre(0), <<0, Turn(cols, b), 0>>, <<0, b, 0>>>>
Bottom(b) == <<Centre(rows), <<rows, b, 0>>, <<rows, Turn(cols, b), 0>>>>

Meshed == Looped \cup {"terrain"}

\* The patches beside each other; the torus' last pass of a stack makes no other.
Across == IF shape = "terrain" THEN cols - 1 ELSE cols

\* Which triangles the loops have pushed by now.
TopDone(b) ==
  /\ shape \in {"disk", "cylinder"}
  /\ stage # "centre"
  /\ stage \in {"fan", "top"} => b + i > cols

BottomDone(b) ==
  /\ shape = "cylinder"
  /\ stage # "top"
  /\ stage = "bottom" => b + 1 < i

PatchDone(a, b) ==
  /\ shape \in Meshed
  /\ stage \in {"grid", "rest", "built"}
  /\ stage = "grid" => a < i \/ (a = i /\ b < j)

Pushed(t) ==
  \/ \E b \in 0 .. cols - 1 : TopDone(b) /\ t = Top(b)
  \/ \E b \in 0 .. cols - 1 : BottomDone(b) /\ t = Bottom(b)
  \/ \E a \in 0 .. RowLimit - 1, b \in 0 .. Across - 1 :
       PatchDone(a, b) /\ t \in {Lower(a, b), Upper(a, b)}

\* They are all that is there.
Traced ==
  /\ shape \notin Tables => \A t : t \in triangles <=> Pushed(t)
  /\ shape \in Tables /\ built => triangles = Table
  /\ stage = "idle" => triangles = {}

LEMMA SameMesh ==
  ASSUME UNCHANGED size
  PROVE  /\ \A b : Top(b)' = Top(b) /\ Bottom(b)' = Bottom(b)
         /\ RowLimit' = RowLimit /\ Across' = Across
         /\ shape' = shape /\ rows' = rows /\ cols' = cols
<1>1. shape' = shape /\ rows' = rows /\ cols' = cols
  BY DEF size
<1>2. \A b : Turn(cols', b) = Turn(cols, b)
  BY <1>1 DEF Turn
<1>. QED
  BY <1>1, <1>2 DEF Top, Bottom, Centre, RowLimit, Across

\* The i-th triangle of a cap, by the place on the rim at which it begins.
LEMMA CapTriangle ==
  ASSUME cols \in Nat \ {0}, i \in 1 .. cols
  PROVE  /\ <<Centre(0), Rim(0, -(i - 1)), Rim(0, -i)>> = Top(cols - i)
         /\ <<Centre(rows), Rim(rows, i - 1), Rim(rows, i)>> = Bottom(i - 1)
<1>1. i - 1 \in 0 .. cols - 1
  OBVIOUS
<1>2. (i - 1) % cols = i - 1 /\ (-(i - 1)) % cols = Turn(cols, cols - i)
  <2>1. /\ (i - 1) % cols = i - 1
        /\ (-(i - 1)) % cols = IF i - 1 = 0 THEN 0 ELSE cols - (i - 1)
    BY <1>1, Around
  <2>. QED
    BY <2>1 DEF Turn
<1>3. i % cols = Turn(cols, i - 1) /\ (-i) % cols = cols - i
  <2>1. CASE i = cols
    <3>1. (-1) * cols + 0 = -i /\ 0 \in 0 .. cols - 1
      BY <2>1
    <3>2. (-i) % cols = 0
      BY <3>1, QuotientRemainder
    <3>. QED
      BY <2>1, <3>2, Around DEF Turn
  <2>2. CASE i # cols
    <3>1. i \in 0 .. cols - 1 /\ i # 0
      BY <2>2
    <3>2. i % cols = i /\ (-i) % cols = IF i = 0 THEN 0 ELSE cols - i
      BY <3>1, Around
    <3>. QED
      BY <2>2, <3>1, <3>2 DEF Turn
  <2>. QED
    BY <2>1, <2>2
<1>. QED
  BY <1>2, <1>3 DEF Rim, Top, Bottom

\* What a step pushes is what is done after it and was not before.
LEMMA TracedAdds ==
  ASSUME Traced, shape \notin Tables, UNCHANGED size, stage' # "idle", NEW N,
         triangles' = triangles \cup N,
         \A b \in 0 .. cols - 1 :
           /\ TopDone(b) => TopDone(b)'
           /\ TopDone(b)' => TopDone(b) \/ Top(b) \in N
           /\ BottomDone(b) => BottomDone(b)'
           /\ BottomDone(b)' => BottomDone(b) \/ Bottom(b) \in N,
         \A a \in 0 .. RowLimit - 1, b \in 0 .. Across - 1 :
           /\ PatchDone(a, b) => PatchDone(a, b)'
           /\ PatchDone(a, b)' => PatchDone(a, b) \/ {Lower(a, b), Upper(a, b)} \subseteq N,
         \A t \in N : Pushed(t)'
  PROVE  Traced'
<1>1. ASSUME NEW t, Pushed(t)
      PROVE  Pushed(t)'
  <2>1. ASSUME NEW b \in 0 .. cols - 1, TopDone(b), t = Top(b)
        PROVE  Pushed(t)'
    BY <2>1, SameMesh DEF Pushed
  <2>2. ASSUME NEW b \in 0 .. cols - 1, BottomDone(b), t = Bottom(b)
        PROVE  Pushed(t)'
    BY <2>2, SameMesh DEF Pushed
  <2>3. ASSUME NEW a \in 0 .. RowLimit - 1, NEW b \in 0 .. Across - 1,
               PatchDone(a, b), t \in {Lower(a, b), Upper(a, b)}
        PROVE  Pushed(t)'
    BY <2>3, SameMesh, SameShape DEF Pushed
  <2>. QED
    BY <1>1, <2>1, <2>2, <2>3 DEF Pushed
<1>2. ASSUME NEW t, Pushed(t)'
      PROVE  Pushed(t) \/ t \in N
  <2>1. \/ \E b \in 0 .. cols - 1 : TopDone(b)' /\ t = Top(b)
        \/ \E b \in 0 .. cols - 1 : BottomDone(b)' /\ t = Bottom(b)
        \/ \E a \in 0 .. RowLimit - 1, b \in 0 .. Across - 1 :
             PatchDone(a, b)' /\ t \in {Lower(a, b), Upper(a, b)}
    BY <1>2, SameMesh, SameShape DEF Pushed
  <2>. QED
    BY <2>1 DEF Pushed
<1>. QED
  BY <1>1, <1>2, SameMesh DEF Traced

LEMMA TracedKeeps ==
  ASSUME Traced, shape \notin Tables, UNCHANGED <<size, triangles>>, stage' # "idle",
         \A b \in 0 .. cols - 1 :
           (TopDone(b)' <=> TopDone(b)) /\ (BottomDone(b)' <=> BottomDone(b)),
         \A a \in 0 .. RowLimit - 1, b \in 0 .. Across - 1 :
           PatchDone(a, b)' <=> PatchDone(a, b)
  PROVE  Traced'
<1>1. \A t : Pushed(t)' <=> Pushed(t)
  BY SameMesh, SameShape DEF Pushed
<1>. QED
  BY <1>1, SameMesh DEF Traced

LEMMA TracedInit == Init => Traced
  BY DEF Init, Traced, Pushed, TopDone, BottomDone, PatchDone, Tables, Meshed, Looped, built

LEMMA TracedBegun ==
  ASSUME Inv, Traced, NEW s \in Shapes, NEW r \in Sizes, NEW c \in Sizes, Create(s, r, c)
  PROVE  Traced'
<1>1. /\ triangles' = {} /\ shape' = s /\ cols' = c /\ c \in Nat /\ j' = 0
      /\ i' = IF s = "cylinder" THEN 1 ELSE 0
      /\ s \in {"disk", "cylinder"} => stage' \in {"centre", "top"}
      /\ s = "disk" => stage' = "centre"
      /\ stage' \in {"table", "centre", "top", "points", "grid"}
      /\ s = "cylinder" => stage' = "top"
  BY DEF Create, Traced, Tables, Inv, Places
<1>2. ASSUME NEW b \in 0 .. cols' - 1
      PROVE  ~ TopDone(b)' /\ ~ BottomDone(b)'
  BY <1>1, <1>2 DEF TopDone, BottomDone
<1>3. RowLimit' \in Int /\ Across' \in Int
  <2>1. r \in Nat /\ rows' = r
    BY DEF Create
  <2>. QED
    BY <1>1, <2>1 DEF RowLimit, Across
<1>4. ASSUME NEW a \in 0 .. RowLimit' - 1, NEW b \in 0 .. Across' - 1
      PROVE  ~ PatchDone(a, b)'
  <2>1. s # "cylinder" => i' = 0
    BY <1>1
  <2>2. stage' = "grid" => s # "cylinder"
    BY <1>1
  <2>. QED
    BY <1>1, <1>3, <2>1, <2>2 DEF PatchDone
<1>5. \A t : ~ Pushed(t)'
  BY <1>2, <1>4 DEF Pushed
<1>. QED
  BY <1>1, <1>5 DEF Traced, built

\* The disk and the caps of a cylinder.
LEMMA TracedCaps ==
  ASSUME Inv, Traced, PushCentre \/ PushFan \/ PushTop \/ PushBottom
  PROVE  Traced'
<1>1. /\ shape \in {"disk", "cylinder"} /\ UNCHANGED size /\ cols \in Nat \ {0}
      /\ stage \in {"top", "bottom"} => shape = "cylinder"
      /\ stage \in {"centre", "fan"} => shape = "disk"
      /\ stage \in {"fan", "top", "bottom"} => i \in 1 .. cols
      /\ j' = 0
  BY DEF PushCentre, PushFan, PushTop, PushBottom, Push, Inv, Places, TypeOK
<1>2. shape \notin Tables /\ UNCHANGED <<shape, cols>>
  BY <1>1, SameMesh DEF Tables
<1>3. \A a, b : ~ PatchDone(a, b)
  BY DEF PatchDone, Meshed, Looped, PushCentre, PushFan, PushTop, PushBottom
<1>4. CASE PushCentre
  <2>1. stage = "centre" /\ stage' = "fan" /\ i' = 1 /\ triangles' = triangles
    BY <1>4 DEF PushCentre, Push
  <2>2. \A b \in 0 .. cols - 1 : ~ TopDone(b)' /\ ~ TopDone(b) /\ ~ BottomDone(b)
                                 /\ ~ BottomDone(b)'
    BY <1>1, <1>2, <2>1 DEF TopDone, BottomDone
  <2>3. \A a, b : ~ PatchDone(a, b)'
    BY <2>1 DEF PatchDone
  <2>. QED
    BY <1>1, <1>2, <1>3, <2>1, <2>2, <2>3, TracedKeeps
<1>5. CASE PushFan \/ PushTop
  <2>0. PICK t : t = <<Centre(0), Rim(0, -(i - 1)), Rim(0, -i)>>
    OBVIOUS
  <2>1. /\ stage \in {"fan", "top"} /\ triangles' = triangles \cup {t}
        /\ \/ i < cols /\ i' = i + 1 /\ stage' = stage
           \/ i = cols /\ i' = i /\ stage' = "built" /\ stage = "fan"
           \/ i = cols /\ i' = 1 /\ stage' = "bottom" /\ stage = "top"
    BY <1>1, <1>5, <2>0 DEF PushFan, PushTop, Push
  <2>2. t = Top(cols - i) /\ cols - i \in 0 .. cols - 1
    BY <1>1, <2>0, <2>1, CapTriangle
  <2>3. \A b \in 0 .. cols - 1 : TopDone(b)' <=> TopDone(b) \/ b = cols - i
    BY <1>1, <1>2, <2>1 DEF TopDone
  <2>4. \A b \in 0 .. cols - 1 : ~ BottomDone(b) /\ ~ BottomDone(b)'
    BY <1>1, <1>2, <2>1 DEF BottomDone
  <2>5. \A a, b : ~ PatchDone(a, b)'
    BY <1>1, <1>2, <2>1 DEF PatchDone, Meshed, Looped
  <2>6. Pushed(t)'
    BY <1>1, <1>2, <2>2, <2>3, SameMesh DEF Pushed
  <2>7. PICK N : N = {t}
    OBVIOUS
  <2>8. stage' # "idle" /\ triangles' = triangles \cup N
    BY <2>1, <2>7
  <2>9. \A b \in 0 .. cols - 1 :
          /\ TopDone(b) => TopDone(b)'
          /\ TopDone(b)' => TopDone(b) \/ Top(b) \in N
    BY <2>2, <2>3, <2>7
  <2>. QED
    BY <1>1, <1>2, <1>3, <2>4, <2>5, <2>6, <2>7, <2>8, <2>9, TracedAdds
<1>6. CASE PushBottom
  <2>0. PICK t : t = <<Centre(rows), Rim(rows, i - 1), Rim(rows, i)>>
    OBVIOUS
  <2>1. /\ stage = "bottom" /\ triangles' = triangles \cup {t}
        /\ \/ i < cols /\ i' = i + 1 /\ stage' = "bottom"
           \/ i = cols /\ i' = 0 /\ stage' = "grid"
    BY <1>1, <1>6, <2>0 DEF PushBottom, Push
  <2>2. t = Bottom(i - 1) /\ i - 1 \in 0 .. cols - 1
    BY <1>1, <2>0, <2>1, CapTriangle
  <2>3. \A b \in 0 .. cols - 1 : TopDone(b) /\ TopDone(b)'
    BY <1>1, <1>2, <2>1 DEF TopDone
  <2>4. \A b \in 0 .. cols - 1 : BottomDone(b)' <=> BottomDone(b) \/ b = i - 1
    BY <1>1, <1>2, <2>1 DEF BottomDone
  <2>5. RowLimit \in Int /\ Across \in Int
    BY <1>1 DEF Inv, TypeOK, RowLimit, Across
  <2>6. \A a \in 0 .. RowLimit - 1, b \in 0 .. Across - 1 : ~ PatchDone(a, b)'
    BY <1>1, <1>2, <2>1, <2>5 DEF PatchDone
  <2>7. Pushed(t)'
    BY <1>1, <1>2, <2>2, <2>4, SameMesh DEF Pushed
  <2>8. PICK N : N = {t}
    OBVIOUS
  <2>. QED
    BY <1>1, <1>2, <1>3, <2>1, <2>2, <2>3, <2>4, <2>6, <2>7, <2>8, TracedAdds
<1>. QED
  BY <1>4, <1>5, <1>6

\* A patch.
LEMMA TracedPatch ==
  ASSUME Inv, Traced, PushPatch \/ PushIndices
  PROVE  Traced'
<1>1. /\ stage = "grid" /\ shape \in Meshed /\ UNCHANGED size /\ Advance
      /\ triangles' = triangles \cup Patch
      /\ rows \in Nat \ {0} /\ cols \in Nat \ {0}
      /\ i \in Nat /\ j \in Nat /\ i < RowLimit /\ j < ColumnLimit
  BY DEF PushPatch, PushIndices, Inv, Places, TypeOK, Meshed, Looped, size
<1>2. /\ RowLimit \in Nat /\ Across \in Nat
      /\ ColumnLimit = IF shape = "torus" THEN Across + 1 ELSE Across
      /\ shape = "torus" => Across = cols
  BY <1>1, Limits DEF Inv, Places, ColumnLimit, Across
<1>3. \/ j + 1 < ColumnLimit /\ j' = j + 1 /\ i' = i /\ stage' = "grid"
      \/ j + 1 = ColumnLimit /\ j' = 0 /\ i' = i + 1 /\ i + 1 < RowLimit /\ stage' = "grid"
      \/ j + 1 = ColumnLimit /\ i + 1 = RowLimit /\ stage' = "rest"
  BY <1>1, <1>2 DEF Advance
<1>4. Patch = {Lower(i, j), Upper(i, j)} /\ shape \notin Tables
  BY <1>1, PatchOf DEF Meshed, Looped, Tables
<1>5. UNCHANGED <<shape, rows, cols, RowLimit, Across>>
  BY <1>1, SameMesh
<1>6. \A b : (TopDone(b)' <=> TopDone(b)) /\ (BottomDone(b)' <=> BottomDone(b))
  BY <1>1, <1>3, <1>5 DEF TopDone, BottomDone
<1>7. \A a \in 0 .. RowLimit - 1, b \in 0 .. Across - 1 :
        PatchDone(a, b)' <=> PatchDone(a, b) \/ (a = i /\ b = j)
  BY <1>1, <1>2, <1>3, <1>5 DEF PatchDone
<1>8. \A t \in Patch : Pushed(t)'
  <2>1. PICK a \in 0 .. RowLimit - 1 : a = i
    BY <1>1, <1>2
  <2>2. PICK b \in 0 .. Across - 1 : PatchDone(a, b)' /\ Patch = {Lower(a, b), Upper(a, b)}
    <3>1. CASE j < Across
      <4>1. PICK b \in 0 .. Across - 1 : b = j
        BY <1>1, <1>2, <3>1
      <4>2. PatchDone(a, b)'
        BY <1>7, <2>1, <4>1
      <4>. QED
        BY <1>4, <2>1, <4>1, <4>2
    <3>2. CASE ~ (j < Across)
      <4>1. shape = "torus" /\ j = cols /\ Across = cols
        BY <1>1, <1>2, <3>2
      <4>2. PatchDone(a, 0)'
        BY <1>1, <1>2, <1>7, <2>1, <4>1 DEF PatchDone
      <4>3. Patch = {Lower(a, 0), Upper(a, 0)}
        BY <1>1, <1>4, <2>1, <4>1, TorusCloses
      <4>. QED
        BY <1>1, <4>1, <4>2, <4>3
    <3>. QED
      BY <3>1, <3>2
  <2>. QED
    BY <1>1, <1>2, <1>5, <2>1, <2>2, SameShape DEF Pushed
<1>9. \A a \in 0 .. RowLimit - 1, b \in 0 .. Across - 1 :
        /\ PatchDone(a, b) => PatchDone(a, b)'
        /\ PatchDone(a, b)' => PatchDone(a, b) \/ {Lower(a, b), Upper(a, b)} \subseteq Patch
  BY <1>4, <1>7
<1>. QED
  BY <1>1, <1>3, <1>4, <1>6, <1>8, <1>9, TracedAdds

LEMMA TracedRest ==
  ASSUME Inv, Traced, PushTable \/ PushPoints \/ Finish \/ Return \/ UNCHANGED vars
  PROVE  Traced'
<1>1. CASE PushTable
  <2>1. shape \in Tables /\ shape' = shape /\ triangles' = Table /\ stage' = "built"
        /\ Table' = Table
    BY <1>1 DEF PushTable, Inv, Places, Table, size
  <2>. QED
    BY <2>1 DEF Traced
<1>2. CASE PushPoints \/ Finish
  <2>1. /\ UNCHANGED <<size, triangles>> /\ shape \in Meshed
        /\ \/ shape = "terrain" /\ stage = "points" /\ stage' = "points"
           \/ shape = "terrain" /\ stage = "points" /\ stage' = "grid" /\ i' = 0
           \/ stage = "rest" /\ stage' = "built"
        /\ j' = j
    BY <1>2 DEF PushPoints, Finish, Inv, Places, Meshed, Looped, size
  <2>2. shape \notin Tables /\ UNCHANGED <<shape, cols>>
    BY <2>1 DEF Meshed, Looped, Tables, size
  <2>3. \A b : (TopDone(b)' <=> TopDone(b)) /\ (BottomDone(b)' <=> BottomDone(b))
    BY <2>1, <2>2 DEF TopDone, BottomDone
  <2>4. stage = "points" => j = 0
    BY DEF Inv, Places
  <2>5. RowLimit \in Int /\ Across \in Int
    BY <2>1 DEF Inv, TypeOK, RowLimit, Across
  <2>6. \A a \in 0 .. RowLimit - 1, b \in 0 .. Across - 1 :
          PatchDone(a, b)' <=> PatchDone(a, b)
    BY <2>1, <2>2, <2>4, <2>5 DEF PatchDone
  <2>. QED
    BY <2>1, <2>2, <2>3, <2>6, TracedKeeps
<1>3. CASE Return
  <2>1. shape' = "none" /\ triangles' = {} /\ stage' = "idle"
    BY <1>3 DEF Return
  <2>. QED
    BY <2>1 DEF Traced, Pushed, TopDone, BottomDone, PatchDone, Meshed, Looped, Tables, built
<1>4. CASE UNCHANGED vars
  <2>1. UNCHANGED <<shape, rows, cols, stage, i, j, triangles>> /\ UNCHANGED size
    BY <1>4 DEF vars, size
  <2>2. CASE shape \in Tables
    <3>1. Table' = Table
      BY <2>1 DEF Table
    <3>. QED
      BY <2>1, <2>2, <3>1 DEF Traced, built
  <2>3. CASE shape \notin Tables /\ stage # "idle"
    <3>1. /\ \A b : (TopDone(b)' <=> TopDone(b)) /\ (BottomDone(b)' <=> BottomDone(b))
          /\ \A a, b : PatchDone(a, b)' <=> PatchDone(a, b)
      BY <2>1 DEF TopDone, BottomDone, PatchDone
    <3>. QED
      BY <2>1, <2>3, <3>1, TracedKeeps
  <2>4. CASE shape \notin Tables /\ stage = "idle"
    <3>1. shape' = "none" /\ stage' = "idle" /\ triangles' = {}
      BY <2>1, <2>4 DEF Traced, Inv, Places
    <3>. QED
      BY <3>1 DEF Traced, Pushed, TopDone, BottomDone, PatchDone, Meshed, Looped, Tables, built
  <2>. QED
    BY <2>2, <2>3, <2>4
<1>. QED
  BY <1>1, <1>2, <1>3, <1>4

LEMMA TracedStep == Inv /\ Traced /\ [Next]_vars => Traced'
  BY TracedBegun, TracedCaps, TracedPatch, TracedRest DEF Next

-----------------------------------------------------------------------------
(* The edges of a surface.                                                  *)

\* Two triangles have a side in common, with one direction.
Share(t, u) ==
  \/ t[1] = u[1] /\ t[2] = u[2]
  \/ t[1] = u[2] /\ t[2] = u[3]
  \/ t[1] = u[3] /\ t[2] = u[1]
  \/ t[2] = u[1] /\ t[3] = u[2]
  \/ t[2] = u[2] /\ t[3] = u[3]
  \/ t[2] = u[3] /\ t[3] = u[1]
  \/ t[3] = u[1] /\ t[1] = u[2]
  \/ t[3] = u[2] /\ t[1] = u[3]
  \/ t[3] = u[3] /\ t[1] = u[1]

LEMMA ShareBoth == \A t, u : Share(t, u) => Share(u, t)
  BY DEF Share

\* No directed edge belongs to two triangles.
Single == \A t, u \in Surface : Share(t, u) => t = u

\* The edges whose other side is none; and that there are none.
Outline == {e \in Edges : <<e[2], e[1]>> \notin Edges}

Closed == \A e \in Edges : <<e[2], e[1]>> \in Edges

LEMMA SameCount ==
  ASSUME NEW S, NEW T, NEW f \in [S -> T], IsFiniteSet(S),
         \A x, y \in S : f[x] = f[y] => x = y,
         \A z \in T : \E x \in S : f[x] = z
  PROVE  IsFiniteSet(T) /\ Cardinality(T) = Cardinality(S)
<1>1. f \in Bijection(S, T)
  BY DEF Bijection, Injection, Surjection, IsInjective
<1>2. ExistsBijection(S, T)
  BY <1>1 DEF ExistsBijection
<1>. QED
  BY <1>2, FS_Bijection

LEMMA IntervalCounts ==
  ASSUME NEW n \in Nat, NEW T, NEW f \in [0 .. n - 1 -> T],
         \A x, y \in 0 .. n - 1 : f[x] = f[y] => x = y,
         \A z \in T : \E x \in 0 .. n - 1 : f[x] = z
  PROVE  Counts(T, n)
<1>1. IsFiniteSet(0 .. n - 1) /\ Cardinality(0 .. n - 1) = n
  BY FS_Interval
<1>2. IsFiniteSet(T) /\ Cardinality(T) = Cardinality(0 .. n - 1)
  <2>. DEFINE S == 0 .. n - 1
  <2>1. /\ IsFiniteSet(S) /\ f \in [S -> T]
        /\ \A x, y \in S : f[x] = f[y] => x = y
        /\ \A z \in T : \E x \in S : f[x] = z
    BY <1>1
  <2>. HIDE DEF S
  <2>2. IsFiniteSet(T) /\ Cardinality(T) = Cardinality(S)
    BY <2>1, SameCount
  <2>. QED
    BY <2>2 DEF S
<1>. QED
  BY <1>1, <1>2 DEF Counts

\* The sides of a triangle, in turn.
Side(t, k) == CASE k = 1 -> <<t[1], t[2]>> [] k = 2 -> <<t[2], t[3]>> [] OTHER -> <<t[3], t[1]>>

LEMMA Thrice ==
  ASSUME IsFiniteSet(triangles), Single
  PROVE  Cardinality(Edges) = 3 * Cardinality(Surface)
<1>. DEFINE D == Surface \X (1 .. 3)
            f == [c \in D |-> Side(c[1], c[2])]
<1>1. IsFiniteSet(Surface) /\ Cardinality(Surface) \in Nat
  BY FS_Subset, FS_CardinalityType DEF Surface
<1>2. IsFiniteSet(1 .. 3) /\ Cardinality(1 .. 3) = 3
  <2>1. \A a, b \in Int : IsFiniteSet(a .. b)
                          /\ Cardinality(a .. b) = IF a > b THEN 0 ELSE b - a + 1
    BY FS_Interval
  <2>2. IsFiniteSet(1 .. 3) /\ Cardinality(1 .. 3) = IF 1 > 3 THEN 0 ELSE 3 - 1 + 1
    BY <2>1, 1 \in Int, 3 \in Int, Zenon
  <2>. QED
    BY <2>2
<1>3. IsFiniteSet(D) /\ Cardinality(D) = 3 * Cardinality(Surface)
  <2>1. IsFiniteSet(D) /\ Cardinality(D) = Cardinality(Surface) * Cardinality(1 .. 3)
    BY <1>1, <1>2, FS_Product
  <2>. QED
    BY <1>1, <1>2, <2>1
<1>4. \A t \in Surface, k \in 1 .. 3 : Side(t, k) \in EdgesOf(t)
  BY DEF Side, EdgesOf
<1>5. f \in [D -> Edges]
  BY <1>4 DEF Edges
<1>6. ASSUME NEW t \in Surface, NEW k \in 1 .. 3, NEW u \in Surface, NEW l \in 1 .. 3,
             Side(t, k) = Side(u, l)
      PROVE  t = u /\ k = l
  <2>1. t = u
    <3>1. Share(t, u)
      BY <1>6 DEF Share, Side
    <3>. QED
      BY <3>1 DEF Single
  <2>2. t[1] # t[2] /\ t[2] # t[3] /\ t[3] # t[1]
    BY DEF Surface, Degenerate
  <2>. QED
    BY <1>6, <2>1, <2>2 DEF Side
<1>7. \A x, y \in D : f[x] = f[y] => x = y
  <2>1. ASSUME NEW x \in D, NEW y \in D, f[x] = f[y]
        PROVE  x = y
    <3>1. /\ x = <<x[1], x[2]>> /\ x[1] \in Surface /\ x[2] \in 1 .. 3
          /\ y = <<y[1], y[2]>> /\ y[1] \in Surface /\ y[2] \in 1 .. 3
      OBVIOUS
    <3>2. Side(x[1], x[2]) = Side(y[1], y[2])
      BY <2>1
    <3>3. x[1] = y[1] /\ x[2] = y[2]
      BY <1>6, <3>1, <3>2
    <3>. QED
      BY <3>1, <3>3
  <2>. QED
    BY <2>1
<1>8. ASSUME NEW e \in Edges
      PROVE  \E x \in D : f[x] = e
  <2>1. PICK t \in Surface : e \in EdgesOf(t)
    BY DEF Edges
  <2>2. PICK k \in 1 .. 3 : e = Side(t, k)
    BY <2>1 DEF EdgesOf, Side
  <2>3. <<t, k>> \in D /\ f[<<t, k>>] = e
    BY <2>2
  <2>. QED
    BY <2>3
<1>. HIDE DEF D, f
<1>. QED
  BY <1>3, <1>5, <1>7, <1>8, SameCount

LEMMA NoBorder ==
  ASSUME Closed
  PROVE  Cardinality(Outline) = 0
<1>1. Outline = {}
  BY DEF Closed, Outline
<1>. QED
  BY <1>1, FS_EmptySet

\* The edges are the sides of the triangles.
LEMMA EdgeOf ==
  /\ \A x, y, z : <<x, y, z>> \in Surface =>
       <<x, y>> \in Edges /\ <<y, z>> \in Edges /\ <<z, x>> \in Edges
  /\ \A e : e \in Edges <=> \E t \in Surface : e \in EdgesOf(t)
<1>1. \A x, y, z : EdgesOf(<<x, y, z>>) = {<<x, y>>, <<y, z>>, <<z, x>>}
  BY DEF EdgesOf
<1>2. \A e : e \in Edges <=> \E t \in Surface : e \in EdgesOf(t)
  BY DEF Edges
<1>3. ASSUME NEW x, NEW y, NEW z, <<x, y, z>> \in Surface
      PROVE  <<x, y>> \in Edges /\ <<y, z>> \in Edges /\ <<z, x>> \in Edges
  <2>1. /\ <<x, y>> \in EdgesOf(<<x, y, z>>)
        /\ <<y, z>> \in EdgesOf(<<x, y, z>>)
        /\ <<z, x>> \in EdgesOf(<<x, y, z>>)
    BY <1>1
  <2>. QED
    BY <1>2, <1>3, <2>1
<1>. QED
  BY <1>2, <1>3

LEMMA ClosedBy ==
  ASSUME \A t \in Surface :
           <<t[2], t[1]>> \in Edges /\ <<t[3], t[2]>> \in Edges /\ <<t[1], t[3]>> \in Edges
  PROVE  Closed
<1>1. ASSUME NEW e \in Edges
      PROVE  <<e[2], e[1]>> \in Edges
  <2>1. PICK t \in Surface : e \in EdgesOf(t)
    BY EdgeOf
  <2>2. e = <<t[1], t[2]>> \/ e = <<t[2], t[3]>> \/ e = <<t[3], t[1]>>
    BY <2>1 DEF EdgesOf
  <2>3. \A x, y : e = <<x, y>> => <<e[2], e[1]>> = <<y, x>>
    OBVIOUS
  <2>. QED
    BY <2>2, <2>3
<1>. QED
  BY <1>1 DEF Closed

\* The tables: the other side of each edge is that of the triangle beside it.
LEMMA QuadEdges ==
  ASSUME triangles = quad_positions
  PROVE  Single /\ Counts(Outline, 4)
<1>. DEFINE a == <<1, 0, 1>>  b == <<1, 0, -1>>  c == <<-1, 0, -1>>  d == <<-1, 0, 1>>
           S == {<<a, b, c>>, <<c, d, a>>}
<1>1. /\ a # b /\ a # c /\ a # d
        /\ b # c /\ b # d
        /\ c # d
  OBVIOUS
<1>2. triangles = S
  BY DEF quad_positions
<1>. HIDE DEF a, b, c, d
<1>3. Surface = S
  BY <1>1, <1>2 DEF Surface, Degenerate
<1>4. Single
  BY <1>1, <1>3 DEF Single, Share
<1>. DEFINE E1 == {} \cup {<<a, b>>, <<b, c>>}
            E2 == E1 \cup {<<c, d>>, <<d, a>>}
<1>5. Outline = E2
  <2>1. Edges = {<<a, b>>, <<b, c>>, <<c, a>>, <<c, d>>, <<d, a>>, <<a, c>>}
    BY <1>3 DEF Edges, EdgesOf
  <2>2. /\ <<b, a>> \notin Edges /\ <<c, b>> \notin Edges
        /\ <<d, c>> \notin Edges /\ <<a, d>> \notin Edges
    BY <1>1, <2>1
  <2>. QED
    BY <2>1, <2>2 DEF Outline
<1>6. AddsTwo({}, E1)
  <2>1. <<a, b>> # <<b, c>>
    BY <1>1
  <2>. QED
    BY <2>1 DEF AddsTwo
<1>7. AddsTwo(E1, E2)
  <2>1. <<c, d>> \notin E1 /\ <<d, a>> \notin E1 /\ <<c, d>> # <<d, a>>
    BY <1>1
  <2>. QED
    BY <2>1 DEF AddsTwo
<1>. HIDE DEF E1, E2
<1>8. Counts(E1, 2)
  BY <1>6, EmptyCounts, CountTwo
<1>9. Counts(E2, 4)
  BY <1>7, <1>8, CountTwo
<1>. QED
  BY <1>4, <1>5, <1>9

LEMMA TetrahedronEdges ==
  ASSUME triangles = tetra_positions
  PROVE  Single /\ Closed
<1>. DEFINE p == <<1, -1, 1>>  q == <<-1, -1, 1>>  r == <<0, -1, -1>>  top == <<0, 1, 0>>
           S == {<<p, top, q>>, <<r, top, p>>, <<q, top, r>>, <<q, r, p>>}
<1>1. /\ p # q /\ p # r /\ p # top
        /\ q # r /\ q # top
        /\ r # top
  OBVIOUS
<1>2. triangles = S
  BY DEF tetra_positions
<1>. HIDE DEF p, q, r, top
<1>3. Surface = S
  BY <1>1, <1>2 DEF Surface, Degenerate
<1>4. Single
  BY <1>1, <1>3 DEF Single, Share
<1>5. Closed
  <2>1. /\ <<p, top>> \in Edges /\ <<top, q>> \in Edges /\ <<q, p>> \in Edges
        /\ <<r, top>> \in Edges /\ <<top, p>> \in Edges /\ <<p, r>> \in Edges
        /\ <<q, top>> \in Edges /\ <<top, r>> \in Edges /\ <<r, q>> \in Edges
        /\ <<q, r>> \in Edges /\ <<r, p>> \in Edges /\ <<p, q>> \in Edges
    BY <1>3, EdgeOf
  <2>2. ASSUME NEW t \in S
        PROVE  <<t[2], t[1]>> \in Edges /\ <<t[3], t[2]>> \in Edges /\ <<t[1], t[3]>> \in Edges
    BY <2>1, <2>2
  <2>. QED
    BY <1>3, <2>2, ClosedBy
<1>. QED
  BY <1>4, <1>5

LEMMA PyramidEdges ==
  ASSUME triangles = pyramid_positions
  PROVE  Single /\ Closed
<1>. DEFINE a == <<-1, -1, 1>>  d == <<-1, -1, -1>>  e == <<1, -1, -1>>  h == <<1, -1, 1>>
              top == <<0, 1, 0>>
           S == {<<h, top, a>>, <<e, top, h>>, <<d, top, e>>, <<a, top, d>>,
                    <<h, a, d>>, <<h, d, e>>}
<1>1. /\ a # d /\ a # e /\ a # h /\ a # top
        /\ d # e /\ d # h /\ d # top
        /\ e # h /\ e # top
        /\ h # top
  OBVIOUS
<1>2. triangles = S
  BY DEF pyramid_positions
<1>. HIDE DEF a, d, e, h, top
<1>3. Surface = S
  BY <1>1, <1>2 DEF Surface, Degenerate
<1>4. Single
  BY <1>1, <1>3 DEF Single, Share
<1>5. Closed
  <2>1. /\ <<h, top>> \in Edges /\ <<top, a>> \in Edges /\ <<a, h>> \in Edges
        /\ <<e, top>> \in Edges /\ <<top, h>> \in Edges /\ <<h, e>> \in Edges
        /\ <<d, top>> \in Edges /\ <<top, e>> \in Edges /\ <<e, d>> \in Edges
        /\ <<a, top>> \in Edges /\ <<top, d>> \in Edges /\ <<d, a>> \in Edges
        /\ <<h, a>> \in Edges /\ <<a, d>> \in Edges /\ <<d, h>> \in Edges
        /\ <<h, d>> \in Edges /\ <<d, e>> \in Edges /\ <<e, h>> \in Edges
    BY <1>3, EdgeOf
  <2>2. ASSUME NEW t \in S
        PROVE  <<t[2], t[1]>> \in Edges /\ <<t[3], t[2]>> \in Edges /\ <<t[1], t[3]>> \in Edges
    BY <2>1, <2>2
  <2>. QED
    BY <1>3, <2>2, ClosedBy
<1>. QED
  BY <1>4, <1>5

LEMMA BoxEdges ==
  ASSUME triangles = box_positions
  PROVE  Single /\ Closed
<1>. DEFINE a == <<-1, -1, 1>>  b == <<-1, 1, 1>>  c == <<-1, 1, -1>>  d == <<-1, -1, -1>>
              e == <<1, -1, -1>>  f == <<1, 1, -1>>  g == <<1, 1, 1>>  h == <<1, -1, 1>>
           S == {<<a, b, c>>, <<a, c, d>>, <<e, f, g>>, <<e, g, h>>, <<e, h, a>>,
                    <<e, a, d>>, <<g, f, c>>, <<g, c, b>>, <<d, c, f>>, <<d, f, e>>,
                    <<h, g, b>>, <<h, b, a>>}
<1>1. /\ a # b /\ a # c /\ a # d /\ a # e /\ a # f /\ a # g /\ a # h
        /\ b # c /\ b # d /\ b # e /\ b # f /\ b # g /\ b # h
        /\ c # d /\ c # e /\ c # f /\ c # g /\ c # h
        /\ d # e /\ d # f /\ d # g /\ d # h
        /\ e # f /\ e # g /\ e # h
        /\ f # g /\ f # h
        /\ g # h
  OBVIOUS
<1>2. triangles = S
  BY DEF box_positions
<1>. HIDE DEF a, b, c, d, e, f, g, h
<1>3. Surface = S
  BY <1>1, <1>2 DEF Surface, Degenerate
<1>4. Single
  BY <1>1, <1>3 DEF Single, Share
<1>5. Closed
  <2>1. /\ <<a, b>> \in Edges /\ <<b, c>> \in Edges /\ <<c, a>> \in Edges
        /\ <<a, c>> \in Edges /\ <<c, d>> \in Edges /\ <<d, a>> \in Edges
        /\ <<e, f>> \in Edges /\ <<f, g>> \in Edges /\ <<g, e>> \in Edges
        /\ <<e, g>> \in Edges /\ <<g, h>> \in Edges /\ <<h, e>> \in Edges
        /\ <<e, h>> \in Edges /\ <<h, a>> \in Edges /\ <<a, e>> \in Edges
        /\ <<e, a>> \in Edges /\ <<a, d>> \in Edges /\ <<d, e>> \in Edges
        /\ <<g, f>> \in Edges /\ <<f, c>> \in Edges /\ <<c, g>> \in Edges
        /\ <<g, c>> \in Edges /\ <<c, b>> \in Edges /\ <<b, g>> \in Edges
        /\ <<d, c>> \in Edges /\ <<c, f>> \in Edges /\ <<f, d>> \in Edges
        /\ <<d, f>> \in Edges /\ <<f, e>> \in Edges /\ <<e, d>> \in Edges
        /\ <<h, g>> \in Edges /\ <<g, b>> \in Edges /\ <<b, h>> \in Edges
        /\ <<h, b>> \in Edges /\ <<b, a>> \in Edges /\ <<a, h>> \in Edges
    BY <1>3, EdgeOf
  <2>2. ASSUME NEW t \in S
        PROVE  <<t[2], t[1]>> \in Edges /\ <<t[3], t[2]>> \in Edges /\ <<t[1], t[3]>> \in Edges
    <3>1. CASE t \in {<<a, b, c>>, <<a, c, d>>}
      BY <2>1, <3>1
    <3>2. CASE t \in {<<e, f, g>>, <<e, g, h>>}
      BY <2>1, <3>2
    <3>3. CASE t \in {<<e, h, a>>, <<e, a, d>>}
      BY <2>1, <3>3
    <3>4. CASE t \in {<<g, f, c>>, <<g, c, b>>}
      BY <2>1, <3>4
    <3>5. CASE t \in {<<d, c, f>>, <<d, f, e>>}
      BY <2>1, <3>5
    <3>6. CASE t \in {<<h, g, b>>, <<h, b, a>>}
      BY <2>1, <3>6
    <3>. QED
      BY <2>2, <3>1, <3>2, <3>3, <3>4, <3>5, <3>6
  <2>. QED
    BY <1>3, <2>2, ClosedBy
<1>. QED
  BY <1>4, <1>5

-----------------------------------------------------------------------------
(* The shapes that close.                                                   *)

\* Two pairs of places, each next to the other, on a ring of three or more or on a line.
Apart(x, x1, y, y1) ==
  /\ x # x1 /\ y # y1
  /\ x = y <=> x1 = y1
  /\ ~ (x1 = y /\ y1 = x)

LEMMA Turns ==
  ASSUME NEW n \in Nat, n >= 3
  PROVE  \A b \in 0 .. n - 1 :
           /\ Turn(n, b) \in 0 .. n - 1
           /\ b % n = b /\ (b + 1) % n = Turn(n, b)
           /\ \E c \in 0 .. n - 1 : Turn(n, c) = b
           /\ \A d \in 0 .. n - 1 : Apart(b, Turn(n, b), d, Turn(n, d))
<1>1. ASSUME NEW b \in 0 .. n - 1
      PROVE  b % n = b /\ (b + 1) % n = Turn(n, b)
  <2>1. b % n = b /\ n % n = 0
    BY Around
  <2>2. ASSUME b + 1 # n
        PROVE  (b + 1) % n = b + 1
    <3>1. b + 1 \in 0 .. n - 1
      BY <2>2
    <3>2. \A k \in 0 .. n - 1 : k % n = k
      BY Around
    <3>. QED
      BY <3>1, <3>2
  <2>. QED
    BY <2>1, <2>2 DEF Turn
<1>2. ASSUME NEW b \in 0 .. n - 1
      PROVE  \E c \in 0 .. n - 1 : Turn(n, c) = b
  <2>1. CASE b = 0
    <3>1. n - 1 \in 0 .. n - 1 /\ Turn(n, n - 1) = b
      BY <2>1 DEF Turn
    <3>. QED
      BY <3>1
  <2>2. CASE b # 0
    <3>1. b - 1 \in 0 .. n - 1 /\ Turn(n, b - 1) = b
      BY <2>2 DEF Turn
    <3>. QED
      BY <3>1
  <2>. QED
    BY <2>1, <2>2
<1>3. \A b, d \in 0 .. n - 1 : Turn(n, b) \in 0 .. n - 1 /\ Apart(b, Turn(n, b), d, Turn(n, d))
  BY DEF Turn, Apart
<1>. QED
  BY <1>1, <1>2, <1>3

\* A side of a torus' patch is no side, in that direction, of another.
LEMMA PatchesRound ==
  ASSUME NEW a, NEW a1, NEW b, NEW b1, NEW c, NEW c1, NEW d, NEW d1,
         Apart(a, a1, c, c1), Apart(b, b1, d, d1),
         NEW L, L = <<<<a, b, 0>>, <<a1, b, 0>>, <<a, b1, 0>>>>,
         NEW U, U = <<<<a1, b, 0>>, <<a1, b1, 0>>, <<a, b1, 0>>>>,
         NEW M, M = <<<<c, d, 0>>, <<c1, d, 0>>, <<c, d1, 0>>>>,
         NEW V, V = <<<<c1, d, 0>>, <<c1, d1, 0>>, <<c, d1, 0>>>>
  PROVE  /\ Share(L, M) => a = c /\ b = d
         /\ ~ Share(L, V)
         /\ Share(U, V) => a = c /\ b = d
<1>1. Share(L, M) => a = c /\ b = d
  BY DEF Share, Apart
<1>2. ~ Share(L, V)
  BY DEF Share, Apart
<1>3. Share(U, V) => a = c /\ b = d
  BY DEF Share, Apart
<1>. QED
  BY <1>1, <1>2, <1>3

\* What a built shape is made of.
LEMMA BuiltMesh ==
  ASSUME Inv, Traced, built, shape \in Meshed, NEW t
  PROVE  t \in triangles <=>
           \/ shape = "cylinder" /\ \E b \in 0 .. cols - 1 : t = Top(b) \/ t = Bottom(b)
           \/ \E a \in 0 .. RowLimit - 1, b \in 0 .. Across - 1 : t \in {Lower(a, b), Upper(a, b)}
<1>1. shape \notin Tables /\ shape # "disk" /\ stage = "built"
  BY DEF Meshed, Looped, Tables, built
<1>2. \A b : (TopDone(b) <=> shape = "cylinder") /\ (BottomDone(b) <=> shape = "cylinder")
  BY <1>1 DEF TopDone, BottomDone
<1>3. \A a, b : PatchDone(a, b)
  BY <1>1 DEF PatchDone
<1>. QED
  BY <1>1, <1>2, <1>3 DEF Traced, Pushed

LEMMA TorusEdges ==
  ASSUME Inv, Traced, built, Proper, shape = "torus"
  PROVE  Single /\ Closed
<1>. DEFINE up(a) == Turn(rows, a)
            on(b) == Turn(cols, b)
            L(a, b) == <<<<a, b, 0>>, <<up(a), b, 0>>, <<a, on(b), 0>>>>
            U(a, b) == <<<<up(a), b, 0>>, <<up(a), on(b), 0>>, <<a, on(b), 0>>>>
            Row == 0 .. rows - 1
            Col == 0 .. cols - 1
<1>1. rows \in Nat /\ cols \in Nat /\ rows >= 3 /\ cols >= 3
  BY DEF Inv, TypeOK, Proper, Rings
<1>2. \A a \in Row : up(a) \in Row /\ a % rows = a /\ (a + 1) % rows = up(a)
                     /\ (\E c \in Row : up(c) = a) /\ \A c \in Row : Apart(a, up(a), c, up(c))
  BY <1>1, Turns
<1>3. \A b \in Col : on(b) \in Col /\ b % cols = b /\ (b + 1) % cols = on(b)
                     /\ (\E d \in Col : on(d) = b) /\ \A d \in Col : Apart(b, on(b), d, on(d))
  BY <1>1, Turns
<1>. HIDE DEF up, on
<1>4. ASSUME NEW a \in Row, NEW b \in Col
      PROVE  Lower(a, b) = L(a, b) /\ Upper(a, b) = U(a, b)
  <2>1. /\ Corner(a, b) = <<a, b, 0>> /\ Corner(a + 1, b) = <<up(a), b, 0>>
        /\ Corner(a, b + 1) = <<a, on(b), 0>> /\ Corner(a + 1, b + 1) = <<up(a), on(b), 0>>
    BY <1>2, <1>3 DEF Corner, Vertex, Rim
  <2>. QED
    BY <2>1 DEF Lower, Upper
<1>5. \A t : t \in triangles <=> \E a \in Row, b \in Col : t = L(a, b) \/ t = U(a, b)
  <2>1. RowLimit = rows /\ Across = cols
    BY DEF RowLimit, Across
  <2>2. \A t : t \in triangles <=>
               \E a \in Row, b \in Col : t \in {Lower(a, b), Upper(a, b)}
    BY <2>1, BuiltMesh DEF Meshed, Looped
  <2>. QED
    BY <1>4, <2>2
<1>6. \A a \in Row, b \in Col : ~ Degenerate(L(a, b)) /\ ~ Degenerate(U(a, b))
  BY <1>2, <1>3 DEF Degenerate, Apart
<1>. HIDE DEF L, U, Row, Col
<1>7. \A t : t \in Surface <=> \E a \in Row, b \in Col : t = L(a, b) \/ t = U(a, b)
  BY <1>5, <1>6 DEF Surface
<1>8. Single
  <2>1. ASSUME NEW a \in Row, NEW b \in Col, NEW c \in Row, NEW d \in Col
        PROVE  /\ Share(L(a, b), L(c, d)) => a = c /\ b = d
               /\ ~ Share(L(a, b), U(c, d))
               /\ Share(U(a, b), U(c, d)) => a = c /\ b = d
    <3>1. Apart(a, up(a), c, up(c)) /\ Apart(b, on(b), d, on(d))
      BY <1>2, <1>3
    <3>. QED
      BY <3>1, PatchesRound DEF L, U
  <2>. QED
    BY <1>7, <2>1, ShareBoth DEF Single
<1>9. Closed
  <2>1. ASSUME NEW a \in Row, NEW b \in Col
        PROVE  /\ <<<<a, b, 0>>, <<up(a), b, 0>>>> \in Edges
               /\ <<<<up(a), b, 0>>, <<a, on(b), 0>>>> \in Edges
               /\ <<<<a, on(b), 0>>, <<a, b, 0>>>> \in Edges
               /\ <<<<up(a), b, 0>>, <<up(a), on(b), 0>>>> \in Edges
               /\ <<<<up(a), on(b), 0>>, <<a, on(b), 0>>>> \in Edges
               /\ <<<<a, on(b), 0>>, <<up(a), b, 0>>>> \in Edges
    <3>1. L(a, b) \in Surface /\ U(a, b) \in Surface
      BY <1>7
    <3>. QED
      BY <3>1, EdgeOf DEF L, U
  <2>2. ASSUME NEW a \in Row, NEW b \in Col
        PROVE  /\ <<<<up(a), b, 0>>, <<a, b, 0>>>> \in Edges
               /\ <<<<a, b, 0>>, <<a, on(b), 0>>>> \in Edges
    BY <1>2, <1>3, <2>1
  <2>3. ASSUME NEW a \in Row, NEW b \in Col
        PROVE  /\ <<<<up(a), on(b), 0>>, <<up(a), b, 0>>>> \in Edges
               /\ <<<<a, on(b), 0>>, <<up(a), on(b), 0>>>> \in Edges
    BY <1>2, <1>3, <2>1
  <2>4. ASSUME NEW t \in Surface
        PROVE  <<t[2], t[1]>> \in Edges /\ <<t[3], t[2]>> \in Edges /\ <<t[1], t[3]>> \in Edges
    <3>1. PICK a \in Row, b \in Col : t = L(a, b) \/ t = U(a, b)
      BY <1>7
    <3>2. CASE t = L(a, b)
      BY <2>1, <2>2, <3>2 DEF L
    <3>3. CASE t = U(a, b)
      BY <2>1, <2>3, <3>3 DEF U
    <3>. QED
      BY <3>1, <3>2, <3>3
  <2>. QED
    BY <2>4, ClosedBy
<1>. QED
  BY <1>8, <1>9

\* On each ring between a sphere's poles stand the triangles that it shares with the next
\* and the one before; all but these fold onto a pole.
LEMMA SphereEdges ==
  ASSUME Inv, Traced, built, Proper, shape = "sphere"
  PROVE  Single /\ Closed
<1>. DEFINE on(b) == Turn(cols, b)
            at(m, b) == IF m \in {0, rows} THEN 0 ELSE b
            L(m, b) == <<<<m, b, 0>>, <<m + 1, at(m + 1, b), 0>>, <<m, on(b), 0>>>>
            U(m, b) == <<<<m, b, 0>>, <<m, on(b), 0>>, <<m - 1, at(m - 1, on(b)), 0>>>>
            Ring == 1 .. rows - 1
            Col == 0 .. cols - 1
<1>1. rows \in Nat /\ cols \in Nat /\ rows >= 2 /\ cols >= 3
  BY DEF Inv, TypeOK, Proper, Rings
<1>2. \A b \in Col : on(b) \in Col /\ b % cols = b /\ (b + 1) % cols = on(b)
                     /\ (\E d \in Col : on(d) = b) /\ \A d \in Col : Apart(b, on(b), d, on(d))
  BY <1>1, Turns
<1>. HIDE DEF on
<1>3. /\ \A m \in Ring, b \in Col : at(m, b) = b
      /\ \A b \in Col : at(0, b) = 0 /\ at(rows, b) = 0
  BY <1>1
<1>4. \A m \in 0 .. rows, b \in Col :
        Corner(m, b) = <<m, at(m, b), 0>> /\ Corner(m, b + 1) = <<m, at(m, on(b)), 0>>
  BY <1>1, <1>2 DEF Corner, Vertex, Rim
<1>5. \A t : t \in triangles <=>
               \E m \in 0 .. rows - 1, b \in Col : t = Lower(m, b) \/ t = Upper(m, b)
  <2>1. RowLimit = rows /\ Across = cols
    BY DEF RowLimit, Across
  <2>. QED
    BY <2>1, BuiltMesh DEF Meshed, Looped
<1>. HIDE DEF at
<1>6. ASSUME NEW m \in 0 .. rows - 1, NEW b \in Col
      PROVE  /\ Lower(m, b) = <<<<m, at(m, b), 0>>, <<m + 1, at(m + 1, b), 0>>,
                                <<m, at(m, on(b)), 0>>>>
             /\ Upper(m, b) = <<<<m + 1, at(m + 1, b), 0>>, <<m + 1, at(m + 1, on(b)), 0>>,
                                <<m, at(m, on(b)), 0>>>>
  <2>1. m \in 0 .. rows /\ m + 1 \in 0 .. rows
    BY <1>1
  <2>2. /\ Corner(m, b) = <<m, at(m, b), 0>>
        /\ Corner(m, b + 1) = <<m, at(m, on(b)), 0>>
        /\ Corner(m + 1, b) = <<m + 1, at(m + 1, b), 0>>
        /\ Corner(m + 1, b + 1) = <<m + 1, at(m + 1, on(b)), 0>>
    BY <1>4, <2>1
  <2>. QED
    BY <2>2 DEF Lower, Upper
<1>7. ASSUME NEW b \in Col
      PROVE  /\ \A m \in Ring : Lower(m, b) = L(m, b) /\ ~ Degenerate(L(m, b))
             /\ \A m \in Ring : Upper(m - 1, b) = U(m, b) /\ ~ Degenerate(U(m, b))
             /\ Degenerate(Lower(0, b)) /\ Degenerate(Upper(rows - 1, b))
  <2>1. on(b) \in Col /\ on(b) # b
    BY <1>2 DEF Apart
  <2>2. \A m \in Ring : Lower(m, b) = L(m, b)
    BY <1>1, <1>3, <1>6, <2>1
  <2>3. \A m \in Ring : Upper(m - 1, b) = U(m, b)
    BY <1>1, <1>3, <1>6, <2>1
  <2>4. \A m \in Ring : ~ Degenerate(L(m, b)) /\ ~ Degenerate(U(m, b))
    BY <1>1, <2>1 DEF Degenerate
  <2>5. Degenerate(Lower(0, b))
    <3>1. Lower(0, b) = <<<<0, 0, 0>>, <<1, at(1, b), 0>>, <<0, 0, 0>>>>
      BY <1>1, <1>3, <1>6, <2>1
    <3>. QED
      BY <3>1 DEF Degenerate
  <2>6. Degenerate(Upper(rows - 1, b))
    <3>1. Upper(rows - 1, b) = <<<<rows, 0, 0>>, <<rows, 0, 0>>,
                                 <<rows - 1, at(rows - 1, on(b)), 0>>>>
      BY <1>1, <1>3, <1>6, <2>1
    <3>. QED
      BY <3>1 DEF Degenerate
  <2>. QED
    BY <2>2, <2>3, <2>4, <2>5, <2>6
<1>8. \A t : t \in Surface <=> \E m \in Ring, b \in Col : t = L(m, b) \/ t = U(m, b)
  <2>1. ASSUME NEW t \in Surface
        PROVE  \E m \in Ring, b \in Col : t = L(m, b) \/ t = U(m, b)
    <3>1. PICK m \in 0 .. rows - 1, b \in Col : t = Lower(m, b) \/ t = Upper(m, b)
      BY <1>5 DEF Surface
    <3>2. ~ Degenerate(t)
      BY DEF Surface
    <3>3. CASE t = Lower(m, b)
      <4>1. m \in Ring
        BY <1>1, <1>7, <3>2, <3>3
      <4>. QED
        BY <1>7, <3>3, <4>1
    <3>4. CASE t = Upper(m, b)
      <4>1. m # rows - 1
        BY <1>7, <3>2, <3>4
      <4>2. m + 1 \in Ring /\ (m + 1) - 1 = m
        BY <1>1, <4>1
      <4>3. Upper((m + 1) - 1, b) = U(m + 1, b)
        BY <1>7, <4>2
      <4>. QED
        BY <3>4, <4>2, <4>3
    <3>. QED
      BY <3>1, <3>3, <3>4
  <2>2. ASSUME NEW m \in Ring, NEW b \in Col
        PROVE  L(m, b) \in Surface /\ U(m, b) \in Surface
    <3>1. m \in 0 .. rows - 1 /\ m - 1 \in 0 .. rows - 1
      BY <1>1
    <3>2. Lower(m, b) \in triangles /\ Upper(m - 1, b) \in triangles
      BY <1>5, <3>1
    <3>. QED
      BY <1>7, <3>2 DEF Surface
  <2>. QED
    BY <2>1, <2>2
<1>9. Single
  <2>1. ASSUME NEW m \in Ring, NEW b \in Col, NEW n \in Ring, NEW d \in Col
        PROVE  /\ Share(L(m, b), L(n, d)) => m = n /\ b = d
               /\ ~ Share(L(m, b), U(n, d))
               /\ Share(U(m, b), U(n, d)) => m = n /\ b = d
    <3>1. Apart(b, on(b), d, on(d)) /\ on(b) \in Col /\ on(d) \in Col
      BY <1>2
    <3>2. Share(L(m, b), L(n, d)) => m = n /\ b = d
      BY <1>1, <3>1 DEF Share, Apart
    <3>3. Share(U(m, b), U(n, d)) => m = n /\ b = d
      BY <1>1, <3>1 DEF Share, Apart
    <3>4. /\ at(m, on(d)) = on(d)
          /\ n = m + 1 => at(m + 1, b) = b
      BY <1>3, <3>1
    <3>5. ~ Share(L(m, b), U(n, d))
      BY <1>1, <3>1, <3>4 DEF Share, Apart
    <3>. QED
      BY <3>2, <3>3, <3>5
  <2>. HIDE DEF L, U, Ring, Col
  <2>. QED
    BY <1>8, <2>1, ShareBoth DEF Single
<1>10. Closed
  <2>1. ASSUME NEW m \in Ring, NEW b \in Col
        PROVE  /\ <<<<m, b, 0>>, <<m + 1, at(m + 1, b), 0>>>> \in Edges
               /\ <<<<m + 1, at(m + 1, b), 0>>, <<m, on(b), 0>>>> \in Edges
               /\ <<<<m, on(b), 0>>, <<m, b, 0>>>> \in Edges
               /\ <<<<m, b, 0>>, <<m, on(b), 0>>>> \in Edges
               /\ <<<<m, on(b), 0>>, <<m - 1, at(m - 1, on(b)), 0>>>> \in Edges
               /\ <<<<m - 1, at(m - 1, on(b)), 0>>, <<m, b, 0>>>> \in Edges
    <3>1. L(m, b) \in Surface /\ U(m, b) \in Surface
      BY <1>8
    <3>. QED
      BY <3>1, EdgeOf
  <2>2. ASSUME NEW m \in Ring, NEW b \in Col
        PROVE  /\ <<<<m + 1, at(m + 1, b), 0>>, <<m, b, 0>>>> \in Edges
               /\ <<<<m, on(b), 0>>, <<m + 1, at(m + 1, b), 0>>>> \in Edges
    <3>1. PICK d \in Col : on(d) = b
      BY <1>2
    <3>2. on(b) \in Col
      BY <1>2
    <3>3. CASE m + 1 = rows
      <4>1. at(m + 1, b) = 0 /\ at(m + 1, d) = 0 /\ at(m + 1, on(b)) = 0
        BY <1>3, <3>2, <3>3
      <4>. QED
        BY <2>1, <3>1, <3>2, <4>1
    <3>4. CASE m + 1 # rows
      <4>1. PICK n \in Ring : n = m + 1 /\ n - 1 = m
        BY <1>1, <3>4
      <4>2. at(n, b) = b /\ at(m, on(d)) = b /\ at(m, on(b)) = on(b)
        BY <1>3, <3>1, <3>2
      <4>. QED
        BY <2>1, <3>1, <4>1, <4>2
    <3>. QED
      BY <3>3, <3>4
  <2>3. ASSUME NEW m \in Ring, NEW b \in Col
        PROVE  /\ <<<<m - 1, at(m - 1, on(b)), 0>>, <<m, on(b), 0>>>> \in Edges
               /\ <<<<m, b, 0>>, <<m - 1, at(m - 1, on(b)), 0>>>> \in Edges
    <3>1. PICK d \in Col : on(d) = b
      BY <1>2
    <3>2. on(b) \in Col /\ on(on(b)) \in Col
      BY <1>2
    <3>3. CASE m - 1 = 0
      <4>1. at(m - 1, on(b)) = 0 /\ at(m - 1, on(d)) = 0 /\ at(m - 1, on(on(b))) = 0
        BY <1>3, <3>1, <3>2, <3>3
      <4>. QED
        BY <2>1, <3>1, <3>2, <4>1
    <3>4. CASE m - 1 # 0
      <4>1. PICK n \in Ring : n = m - 1 /\ n + 1 = m
        BY <1>1, <3>4
      <4>2. at(m, b) = b /\ at(n, on(b)) = on(b) /\ at(m, on(b)) = on(b)
        BY <1>3, <3>2
      <4>. QED
        BY <2>1, <3>2, <4>1, <4>2
    <3>. QED
      BY <3>3, <3>4
  <2>4. ASSUME NEW t \in Surface
        PROVE  <<t[2], t[1]>> \in Edges /\ <<t[3], t[2]>> \in Edges /\ <<t[1], t[3]>> \in Edges
    <3>1. PICK m \in Ring, b \in Col : t = L(m, b) \/ t = U(m, b)
      BY <1>8
    <3>2. CASE t = L(m, b)
      BY <2>1, <2>2, <3>2
    <3>3. CASE t = U(m, b)
      BY <2>1, <2>3, <3>3
    <3>. QED
      BY <3>1, <3>2, <3>3
  <2>. QED
    BY <2>4, ClosedBy
<1>. QED
  BY <1>9, <1>10

\* A cylinder's patches and its caps.
LEMMA CylinderEdges ==
  ASSUME Inv, Traced, built, Proper, shape = "cylinder"
  PROVE  Single /\ Closed
<1>. DEFINE on(b) == Turn(cols, b)
            L(a, b) == <<<<a, b, 0>>, <<a + 1, on(b), 0>>, <<a + 1, b, 0>>>>
            U(a, b) == <<<<a, b, 0>>, <<a, on(b), 0>>, <<a + 1, on(b), 0>>>>
            T(b) == <<<<0, 0, 1>>, <<0, on(b), 0>>, <<0, b, 0>>>>
            B(b) == <<<<rows, 0, 1>>, <<rows, b, 0>>, <<rows, on(b), 0>>>>
            Row == 0 .. rows - 1
            Col == 0 .. cols - 1
            Of(t) == \/ \E b \in Col : t = T(b) \/ t = B(b)
                     \/ \E a \in Row, b \in Col : t = L(a, b) \/ t = U(a, b)
<1>1. rows \in Nat /\ cols \in Nat /\ rows >= 1 /\ cols >= 3
  BY DEF Inv, TypeOK, Places, Proper, Rings, built
<1>2. \A b \in Col : on(b) \in Col /\ b % cols = b /\ (b + 1) % cols = on(b)
                     /\ (\E d \in Col : on(d) = b) /\ \A d \in Col : Apart(b, on(b), d, on(d))
  BY <1>1, Turns
<1>3. \A b \in Col : Top(b) = T(b) /\ Bottom(b) = B(b)
  BY DEF Top, Bottom, Centre
<1>. HIDE DEF on
<1>4. ASSUME NEW a \in Row, NEW b \in Col
      PROVE  Lower(a, b) = L(a, b) /\ Upper(a, b) = U(a, b)
  <2>1. /\ Corner(a, b) = <<a, b, 0>> /\ Corner(a + 1, b) = <<a + 1, b, 0>>
        /\ Corner(a, b + 1) = <<a, on(b), 0>> /\ Corner(a + 1, b + 1) = <<a + 1, on(b), 0>>
    BY <1>2 DEF Corner, Vertex, Rim
  <2>. QED
    BY <2>1 DEF Lower, Upper
<1>5. \A t : t \in triangles <=> Of(t)
  <2>1. RowLimit = rows /\ Across = cols
    BY DEF RowLimit, Across
  <2>2. \A t : t \in triangles <=>
               \/ \E b \in Col : t = Top(b) \/ t = Bottom(b)
               \/ \E a \in Row, b \in Col : t \in {Lower(a, b), Upper(a, b)}
    BY <2>1, BuiltMesh DEF Meshed, Looped
  <2>. QED
    BY <1>3, <1>4, <2>2
<1>6. /\ \A a \in Row, b \in Col : ~ Degenerate(L(a, b)) /\ ~ Degenerate(U(a, b))
      /\ \A b \in Col : ~ Degenerate(T(b)) /\ ~ Degenerate(B(b))
  BY <1>1, <1>2 DEF Degenerate, Apart
<1>. HIDE DEF L, U, T, B, Row, Col
<1>7. \A t : t \in Surface <=> Of(t)
  BY <1>5, <1>6 DEF Surface
<1>8. Single
  <2>1. ASSUME NEW a \in Row, NEW b \in Col, NEW c \in Row, NEW d \in Col
        PROVE  /\ Share(L(a, b), L(c, d)) => a = c /\ b = d
               /\ ~ Share(L(a, b), U(c, d))
               /\ Share(U(a, b), U(c, d)) => a = c /\ b = d
    <3>1. Apart(b, on(b), d, on(d)) /\ a \in Nat /\ c \in Nat
      BY <1>1, <1>2 DEF Row
    <3>2. Share(L(a, b), L(c, d)) => a = c /\ b = d
      BY <3>1 DEF Share, Apart, L
    <3>3. ~ Share(L(a, b), U(c, d))
      BY <3>1 DEF Share, Apart, L, U
    <3>4. Share(U(a, b), U(c, d)) => a = c /\ b = d
      BY <3>1 DEF Share, Apart, U
    <3>. QED
      BY <3>2, <3>3, <3>4
  <2>2. ASSUME NEW b \in Col, NEW c \in Row, NEW d \in Col
        PROVE  /\ ~ Share(T(b), L(c, d)) /\ ~ Share(T(b), U(c, d))
               /\ ~ Share(B(b), L(c, d)) /\ ~ Share(B(b), U(c, d))
    <3>1. Apart(b, on(b), d, on(d)) /\ c \in Nat /\ c < rows
      BY <1>1, <1>2 DEF Row
    <3>2. ~ Share(T(b), L(c, d))
      BY <3>1 DEF Share, Apart, T, L
    <3>3. ~ Share(T(b), U(c, d))
      BY <3>1 DEF Share, Apart, T, U
    <3>4. ~ Share(B(b), L(c, d))
      BY <1>1, <3>1 DEF Share, Apart, B, L
    <3>5. ~ Share(B(b), U(c, d))
      BY <1>1, <3>1 DEF Share, Apart, B, U
    <3>. QED
      BY <3>2, <3>3, <3>4, <3>5
  <2>3. ASSUME NEW b \in Col, NEW d \in Col
        PROVE  /\ Share(T(b), T(d)) => b = d
               /\ ~ Share(T(b), B(d))
               /\ Share(B(b), B(d)) => b = d
    <3>1. Apart(b, on(b), d, on(d))
      BY <1>2
    <3>2. Share(T(b), T(d)) => b = d
      BY <3>1 DEF Share, Apart, T
    <3>3. ~ Share(T(b), B(d))
      BY <1>1, <3>1 DEF Share, Apart, T, B
    <3>4. Share(B(b), B(d)) => b = d
      BY <3>1 DEF Share, Apart, B
    <3>. QED
      BY <3>2, <3>3, <3>4
  <2>4. ASSUME NEW t \in Surface, NEW u \in Surface, Share(t, u)
        PROVE  t = u
    <3>1. Of(t) /\ Of(u) /\ Share(u, t)
      BY <1>7, <2>4, ShareBoth
    <3>2. CASE \E b \in Col : t = T(b) \/ t = B(b)
      BY <2>2, <2>3, <2>4, <3>1, <3>2
    <3>3. CASE \E a \in Row, b \in Col : t = L(a, b) \/ t = U(a, b)
      BY <2>1, <2>2, <2>4, <3>1, <3>3
    <3>. QED
      BY <3>1, <3>2, <3>3
  <2>. QED
    BY <2>4 DEF Single
<1>9. Closed
  <2>1. ASSUME NEW a \in Row, NEW b \in Col
        PROVE  /\ <<<<a, b, 0>>, <<a + 1, on(b), 0>>>> \in Edges
               /\ <<<<a + 1, on(b), 0>>, <<a + 1, b, 0>>>> \in Edges
               /\ <<<<a + 1, b, 0>>, <<a, b, 0>>>> \in Edges
               /\ <<<<a, b, 0>>, <<a, on(b), 0>>>> \in Edges
               /\ <<<<a, on(b), 0>>, <<a + 1, on(b), 0>>>> \in Edges
               /\ <<<<a + 1, on(b), 0>>, <<a, b, 0>>>> \in Edges
    <3>1. L(a, b) \in Surface /\ U(a, b) \in Surface
      BY <1>7
    <3>. QED
      BY <3>1, EdgeOf DEF L, U
  <2>2. ASSUME NEW b \in Col
        PROVE  /\ <<<<0, 0, 1>>, <<0, on(b), 0>>>> \in Edges
               /\ <<<<0, on(b), 0>>, <<0, b, 0>>>> \in Edges
               /\ <<<<0, b, 0>>, <<0, 0, 1>>>> \in Edges
               /\ <<<<rows, 0, 1>>, <<rows, b, 0>>>> \in Edges
               /\ <<<<rows, b, 0>>, <<rows, on(b), 0>>>> \in Edges
               /\ <<<<rows, on(b), 0>>, <<rows, 0, 1>>>> \in Edges
    <3>1. T(b) \in Surface /\ B(b) \in Surface
      BY <1>7
    <3>. QED
      BY <3>1, EdgeOf DEF T, B
  <2>3. ASSUME NEW a \in Row, NEW b \in Col
        PROVE  /\ <<<<a + 1, b, 0>>, <<a + 1, on(b), 0>>>> \in Edges
               /\ <<<<a, on(b), 0>>, <<a, b, 0>>>> \in Edges
    <3>1. <<<<a + 1, b, 0>>, <<a + 1, on(b), 0>>>> \in Edges
      <4>1. CASE a + 1 = rows
        BY <2>2, <4>1
      <4>2. CASE a + 1 # rows
        <5>1. a + 1 \in Row
          BY <1>1, <4>2 DEF Row
        <5>. QED
          BY <2>1, <5>1
      <4>. QED
        BY <4>1, <4>2
    <3>2. <<<<a, on(b), 0>>, <<a, b, 0>>>> \in Edges
      <4>1. CASE a = 0
        BY <2>2, <4>1
      <4>2. CASE a # 0
        <5>1. PICK c \in Row : c + 1 = a
          <6>1. a - 1 \in Row /\ (a - 1) + 1 = a
            BY <1>1, <4>2 DEF Row
          <6>. QED
            BY <6>1
        <5>. QED
          BY <2>1, <5>1
      <4>. QED
        BY <4>1, <4>2
    <3>. QED
      BY <3>1, <3>2
  <2>4. ASSUME NEW a \in Row, NEW b \in Col
        PROVE  /\ <<<<a, b, 0>>, <<a + 1, b, 0>>>> \in Edges
               /\ <<<<a + 1, on(b), 0>>, <<a, on(b), 0>>>> \in Edges
    BY <1>2, <2>1
  <2>5. ASSUME NEW b \in Col
        PROVE  /\ <<<<0, on(b), 0>>, <<0, 0, 1>>>> \in Edges
               /\ <<<<0, b, 0>>, <<0, on(b), 0>>>> \in Edges
               /\ <<<<0, 0, 1>>, <<0, b, 0>>>> \in Edges
    <3>1. 0 \in Row
      BY <1>1 DEF Row
    <3>. QED
      BY <1>2, <2>1, <2>2, <3>1
  <2>6. ASSUME NEW b \in Col
        PROVE  /\ <<<<rows, b, 0>>, <<rows, 0, 1>>>> \in Edges
               /\ <<<<rows, on(b), 0>>, <<rows, b, 0>>>> \in Edges
               /\ <<<<rows, 0, 1>>, <<rows, on(b), 0>>>> \in Edges
    <3>1. PICK c \in Row : c + 1 = rows
      <4>1. rows - 1 \in Row /\ (rows - 1) + 1 = rows
        BY <1>1 DEF Row
      <4>. QED
        BY <4>1
    <3>. QED
      BY <1>2, <2>1, <2>2, <3>1
  <2>7. ASSUME NEW t \in Surface
        PROVE  <<t[2], t[1]>> \in Edges /\ <<t[3], t[2]>> \in Edges /\ <<t[1], t[3]>> \in Edges
    <3>1. ASSUME NEW b \in Col, t = T(b)
          PROVE  <<t[2], t[1]>> \in Edges /\ <<t[3], t[2]>> \in Edges /\ <<t[1], t[3]>> \in Edges
      BY <2>5, <3>1 DEF T
    <3>2. ASSUME NEW b \in Col, t = B(b)
          PROVE  <<t[2], t[1]>> \in Edges /\ <<t[3], t[2]>> \in Edges /\ <<t[1], t[3]>> \in Edges
      BY <2>6, <3>2 DEF B
    <3>3. ASSUME NEW a \in Row, NEW b \in Col, t = L(a, b)
          PROVE  <<t[2], t[1]>> \in Edges /\ <<t[3], t[2]>> \in Edges /\ <<t[1], t[3]>> \in Edges
      BY <2>1, <2>3, <2>4, <3>3 DEF L
    <3>4. ASSUME NEW a \in Row, NEW b \in Col, t = U(a, b)
          PROVE  <<t[2], t[1]>> \in Edges /\ <<t[3], t[2]>> \in Edges /\ <<t[1], t[3]>> \in Edges
      BY <2>1, <2>3, <2>4, <3>4 DEF U
    <3>5. Of(t)
      BY <1>7
    <3>. QED
      BY <3>1, <3>2, <3>3, <3>4, <3>5
  <2>. QED
    BY <2>7, ClosedBy
<1>. QED
  BY <1>8, <1>9

-----------------------------------------------------------------------------
(* The flat shapes, and where they end.                                     *)

\* A disk ends at the rim of its fan.
LEMMA DiskEdges ==
  ASSUME Inv, Traced, built, Proper, shape = "disk"
  PROVE  Single /\ Counts(Outline, cols)
<1>. DEFINE on(b) == Turn(cols, b)
            T(b) == <<<<0, 0, 1>>, <<0, on(b), 0>>, <<0, b, 0>>>>
            Col == 0 .. cols - 1
            rim == [b \in 0 .. cols - 1 |-> <<<<0, on(b), 0>>, <<0, b, 0>>>>]
<1>1. cols \in Nat /\ cols >= 3
  BY DEF Inv, TypeOK, Proper, Rings
<1>2. \A b \in Col : on(b) \in Col /\ (\E d \in Col : on(d) = b)
                     /\ \A d \in Col : Apart(b, on(b), d, on(d))
  BY <1>1, Turns
<1>3. \A b \in Col : Top(b) = T(b)
  BY DEF Top, Centre
<1>. HIDE DEF on
<1>4. \A t : t \in triangles <=> \E b \in Col : t = T(b)
  <2>1. shape \notin Tables /\ shape \notin Meshed /\ shape # "cylinder"
    BY DEF Tables, Meshed, Looped
  <2>2. \A b : TopDone(b) /\ ~ BottomDone(b)
    BY DEF TopDone, BottomDone, built
  <2>3. \A a, b : ~ PatchDone(a, b)
    BY <2>1 DEF PatchDone
  <2>4. \A t : Pushed(t) <=> \E b \in Col : t = Top(b)
    BY <2>2, <2>3 DEF Pushed
  <2>. QED
    BY <1>3, <2>1, <2>4 DEF Traced
<1>5. \A t : t \in Surface <=> \E b \in Col : t = T(b)
  <2>1. \A b \in Col : ~ Degenerate(T(b))
    BY <1>2 DEF Degenerate, Apart
  <2>. QED
    BY <1>4, <2>1 DEF Surface
<1>6. ASSUME NEW b \in Col, NEW d \in Col, Share(T(b), T(d))
      PROVE  b = d
  BY <1>2, <1>6 DEF Share, Apart
<1>7. Single
  <2>. HIDE DEF T, Col
  <2>. QED
    BY <1>5, <1>6 DEF Single
<1>8. \A e : e \in Edges <=> \E b \in Col : \/ e = <<<<0, 0, 1>>, <<0, on(b), 0>>>>
                                            \/ e = <<<<0, on(b), 0>>, <<0, b, 0>>>>
                                            \/ e = <<<<0, b, 0>>, <<0, 0, 1>>>>
  <2>1. \A b : EdgesOf(T(b)) = {<<<<0, 0, 1>>, <<0, on(b), 0>>>>,
                                <<<<0, on(b), 0>>, <<0, b, 0>>>>,
                                <<<<0, b, 0>>, <<0, 0, 1>>>>}
    BY DEF EdgesOf
  <2>. HIDE DEF T, Col
  <2>. QED
    BY <1>5, <2>1, EdgeOf
<1>9. \A e : e \in Outline <=> \E b \in Col : e = <<<<0, on(b), 0>>, <<0, b, 0>>>>
  <2>1. ASSUME NEW b \in Col
        PROVE  /\ <<<<0, on(b), 0>>, <<0, 0, 1>>>> \in Edges
               /\ <<<<0, 0, 1>>, <<0, b, 0>>>> \in Edges
    BY <1>2, <1>8
  <2>2. ASSUME NEW b \in Col
        PROVE  <<<<0, b, 0>>, <<0, on(b), 0>>>> \notin Edges
    BY <1>2, <1>8 DEF Apart
  <2>3. \A e : e \in Outline <=> e \in Edges /\ <<e[2], e[1]>> \notin Edges
    BY DEF Outline
  <2>4. \A e, x, y : e = <<x, y>> => <<e[2], e[1]>> = <<y, x>>
    OBVIOUS
  <2>. HIDE DEF Col
  <2>5. ASSUME NEW e \in Outline
        PROVE  \E b \in Col : e = <<<<0, on(b), 0>>, <<0, b, 0>>>>
    <3>1. e \in Edges /\ <<e[2], e[1]>> \notin Edges
      BY <2>3
    <3>2. PICK b \in Col : \/ e = <<<<0, 0, 1>>, <<0, on(b), 0>>>>
                           \/ e = <<<<0, on(b), 0>>, <<0, b, 0>>>>
                           \/ e = <<<<0, b, 0>>, <<0, 0, 1>>>>
      BY <1>8, <3>1
    <3>3. e # <<<<0, 0, 1>>, <<0, on(b), 0>>>>
      <4>1. e = <<<<0, 0, 1>>, <<0, on(b), 0>>>> =>
              <<e[2], e[1]>> = <<<<0, on(b), 0>>, <<0, 0, 1>>>>
        BY <2>4
      <4>. QED
        BY <2>1, <3>1, <4>1
    <3>4. e # <<<<0, b, 0>>, <<0, 0, 1>>>>
      <4>1. e = <<<<0, b, 0>>, <<0, 0, 1>>>> =>
              <<e[2], e[1]>> = <<<<0, 0, 1>>, <<0, b, 0>>>>
        BY <2>4
      <4>. QED
        BY <2>1, <3>1, <4>1
    <3>. QED
      BY <3>2, <3>3, <3>4
  <2>6. ASSUME NEW b \in Col, NEW e, e = <<<<0, on(b), 0>>, <<0, b, 0>>>>
        PROVE  e \in Outline
    <3>1. e \in Edges
      BY <1>8, <2>6
    <3>2. <<e[2], e[1]>> = <<<<0, b, 0>>, <<0, on(b), 0>>>>
      BY <2>4, <2>6
    <3>. QED
      BY <2>2, <2>3, <3>1, <3>2
  <2>. QED
    BY <2>5, <2>6
<1>10. Counts(Outline, cols)
  <2>1. rim \in [0 .. cols - 1 -> Outline]
    BY <1>9
  <2>2. \A x, y \in 0 .. cols - 1 : rim[x] = rim[y] => x = y
    OBVIOUS
  <2>3. \A e \in Outline : \E x \in 0 .. cols - 1 : rim[x] = e
    BY <1>9
  <2>. HIDE DEF rim
  <2>. QED
    BY <1>1, <2>1, <2>2, <2>3, IntervalCounts
<1>. QED
  BY <1>7, <1>10

LEMMA CountUnion ==
  ASSUME NEW S, NEW T, NEW p \in Nat, NEW q \in Nat, Counts(S, p), Counts(T, q), S \cap T = {}
  PROVE  Counts(S \cup T, p + q)
<1>1. /\ IsFiniteSet(S \cup T)
      /\ Cardinality(S \cup T) = Cardinality(S) + Cardinality(T) - Cardinality(S \cap T)
  BY FS_Union DEF Counts
<1>2. Cardinality(S \cap T) = 0
  BY FS_EmptySet
<1>. QED
  BY <1>1, <1>2 DEF Counts

\* The border of a plane or a square terrain is its four sides.
LEMMA FlatEdges ==
  ASSUME Inv, Traced, built, shape \in {"plane", "terrain"}, shape = "terrain" => rows = cols
  PROVE  Single /\ Counts(Outline, 2 * (RowLimit + Across))
<1>. DEFINE m == RowLimit
            n == Across
            Row == 0 .. m - 1
            Col == 0 .. n - 1
            row(x) == IF shape = "plane" THEN x[1] ELSE x[2]
            col(x) == IF shape = "plane" THEN x[2] ELSE x[1]
            P(a, b) == Corner(a, b)
            L(a, b) == <<P(a, b), P(a + 1, b + 1), P(a, b + 1)>>
            U(a, b) == <<P(a, b), P(a + 1, b), P(a + 1, b + 1)>>
<1>1. m \in Nat /\ n \in Nat /\ m >= 1 /\ n >= 1 /\ rows \in Nat /\ cols \in Nat
      /\ m = (IF shape = "plane" THEN rows ELSE rows - 1)
      /\ n = (IF shape = "plane" THEN cols ELSE cols - 1)
  BY DEF Inv, TypeOK, Places, built, RowLimit, Across
<1>2. ASSUME NEW a \in 0 .. m, NEW b \in 0 .. n
      PROVE  row(P(a, b)) = a /\ col(P(a, b)) = b
  <2>1. CASE shape = "plane"
    <3>1. Corner(a, b) = <<a, b, 0>>
      BY <2>1 DEF Corner, Vertex
    <3>. QED
      BY <2>1, <3>1
  <2>2. CASE shape = "terrain"
    <3>1. rows \in Nat \ {0} /\ rows = cols /\ a \in 0 .. rows - 1 /\ b \in Nat
      BY <1>1, <2>2
    <3>2. Corner(a, b) = <<b, a, 0>>
      BY <2>2, <3>1, SquareIndex DEF Corner
    <3>. QED
      BY <2>2, <3>2
  <2>. QED
    BY <2>1, <2>2
<1>3. \A t : t \in triangles <=> \E a \in Row, b \in Col : t = L(a, b) \/ t = U(a, b)
  <2>1. \A a, b : Lower(a, b) = L(a, b) /\ Upper(a, b) = U(a, b)
    BY DEF Lower, Upper
  <2>2. \A t : t \in triangles <=> \E a \in Row, b \in Col : t \in {Lower(a, b), Upper(a, b)}
    BY BuiltMesh DEF Meshed, Looped
  <2>. QED
    BY <2>1, <2>2
<1>. HIDE DEF m, n, row, col, P
<1>4. ASSUME NEW a \in Row, NEW b \in Col
      PROVE  /\ a \in Nat /\ b \in Nat /\ a < m /\ b < n
             /\ row(P(a, b)) = a /\ col(P(a, b)) = b
             /\ row(P(a + 1, b)) = a + 1 /\ col(P(a + 1, b)) = b
             /\ row(P(a, b + 1)) = a /\ col(P(a, b + 1)) = b + 1
             /\ row(P(a + 1, b + 1)) = a + 1 /\ col(P(a + 1, b + 1)) = b + 1
  <2>1. a \in 0 .. m /\ a + 1 \in 0 .. m /\ b \in 0 .. n /\ b + 1 \in 0 .. n
    BY <1>1
  <2>. QED
    BY <1>1, <1>2, <2>1
<1>5. \A a \in Row, b \in Col : ~ Degenerate(L(a, b)) /\ ~ Degenerate(U(a, b))
  <2>1. ASSUME NEW a \in Row, NEW b \in Col
        PROVE  /\ P(a, b) # P(a + 1, b + 1) /\ P(a + 1, b + 1) # P(a, b + 1)
               /\ P(a, b + 1) # P(a, b) /\ P(a, b) # P(a + 1, b)
               /\ P(a + 1, b) # P(a + 1, b + 1)
    BY <1>4
  <2>. QED
    BY <2>1 DEF Degenerate
<1>. HIDE DEF Row, Col
<1>6. \A t : t \in Surface <=> \E a \in Row, b \in Col : t = L(a, b) \/ t = U(a, b)
  <2>. HIDE DEF L, U
  <2>. QED
    BY <1>3, <1>5 DEF Surface
<1>7. Single
  <2>1. ASSUME NEW a \in Row, NEW b \in Col, NEW c \in Row, NEW d \in Col
        PROVE  /\ Share(L(a, b), L(c, d)) => a = c /\ b = d
               /\ ~ Share(L(a, b), U(c, d))
               /\ Share(U(a, b), U(c, d)) => a = c /\ b = d
    <3>1. Share(L(a, b), L(c, d)) => a = c /\ b = d
      BY <1>4 DEF Share
    <3>2. ~ Share(L(a, b), U(c, d))
      BY <1>4 DEF Share
    <3>3. Share(U(a, b), U(c, d)) => a = c /\ b = d
      BY <1>4 DEF Share
    <3>. QED
      BY <3>1, <3>2, <3>3
  <2>. HIDE DEF L, U
  <2>. QED
    BY <1>6, <2>1, ShareBoth DEF Single
<1>8. ASSUME NEW e
      PROVE  e \in Edges <=>
               \E a \in Row, b \in Col :
                 \/ e = <<P(a, b), P(a + 1, b + 1)>>      \/ e = <<P(a + 1, b + 1), P(a, b + 1)>>
                 \/ e = <<P(a, b + 1), P(a, b)>>          \/ e = <<P(a, b), P(a + 1, b)>>
                 \/ e = <<P(a + 1, b), P(a + 1, b + 1)>>  \/ e = <<P(a + 1, b + 1), P(a, b)>>
  <2>1. \A a, b : /\ e \in EdgesOf(L(a, b)) <=> \/ e = <<P(a, b), P(a + 1, b + 1)>>
                                                \/ e = <<P(a + 1, b + 1), P(a, b + 1)>>
                                                \/ e = <<P(a, b + 1), P(a, b)>>
                  /\ e \in EdgesOf(U(a, b)) <=> \/ e = <<P(a, b), P(a + 1, b)>>
                                                \/ e = <<P(a + 1, b), P(a + 1, b + 1)>>
                                                \/ e = <<P(a + 1, b + 1), P(a, b)>>
    BY DEF EdgesOf
  <2>. HIDE DEF L, U
  <2>2. e \in Edges <=> \E a \in Row, b \in Col : e \in EdgesOf(L(a, b)) \/ e \in EdgesOf(U(a, b))
    BY <1>6, EdgeOf
  <2>. QED
    BY <2>1, <2>2
<1>9. ASSUME NEW a \in Row, NEW b \in Col
      PROVE  /\ <<P(a, b), P(a + 1, b + 1)>> \in Edges
             /\ <<P(a + 1, b + 1), P(a, b + 1)>> \in Edges
             /\ <<P(a, b + 1), P(a, b)>> \in Edges
             /\ <<P(a, b), P(a + 1, b)>> \in Edges
             /\ <<P(a + 1, b), P(a + 1, b + 1)>> \in Edges
             /\ <<P(a + 1, b + 1), P(a, b)>> \in Edges
  BY <1>8
<1>10. \A e \in Edges :
         LET down == row(e[2]) - row(e[1])
             along == col(e[2]) - col(e[1])
         IN  \/ down = 1 /\ along = 1
             \/ down = -1 /\ along = -1
             \/ down = -1 /\ along = 0 /\ col(e[1]) # 0
             \/ down = 1 /\ along = 0 /\ col(e[1]) # n
             \/ down = 0 /\ along = -1 /\ row(e[1]) # m
             \/ down = 0 /\ along = 1 /\ row(e[1]) # 0
  <2>1. ASSUME NEW e \in Edges
        PROVE  \/ row(e[2]) - row(e[1]) = 1 /\ col(e[2]) - col(e[1]) = 1
               \/ row(e[2]) - row(e[1]) = -1 /\ col(e[2]) - col(e[1]) = -1
               \/ row(e[2]) - row(e[1]) = -1 /\ col(e[2]) - col(e[1]) = 0 /\ col(e[1]) # 0
               \/ row(e[2]) - row(e[1]) = 1 /\ col(e[2]) - col(e[1]) = 0 /\ col(e[1]) # n
               \/ row(e[2]) - row(e[1]) = 0 /\ col(e[2]) - col(e[1]) = -1 /\ row(e[1]) # m
               \/ row(e[2]) - row(e[1]) = 0 /\ col(e[2]) - col(e[1]) = 1 /\ row(e[1]) # 0
    <3>1. PICK a \in Row, b \in Col :
            \/ e = <<P(a, b), P(a + 1, b + 1)>>      \/ e = <<P(a + 1, b + 1), P(a, b + 1)>>
            \/ e = <<P(a, b + 1), P(a, b)>>          \/ e = <<P(a, b), P(a + 1, b)>>
            \/ e = <<P(a + 1, b), P(a + 1, b + 1)>>  \/ e = <<P(a + 1, b + 1), P(a, b)>>
      BY <1>8
    <3>. QED
      BY <1>1, <1>4, <3>1
  <2>. QED
    BY <2>1
<1>. DEFINE right == [a \in 0 .. m - 1 |-> <<P(a + 1, n), P(a, n)>>]
            left  == [a \in 0 .. m - 1 |-> <<P(a, 0), P(a + 1, 0)>>]
            top   == [b \in 0 .. n - 1 |-> <<P(0, b + 1), P(0, b)>>]
            foot  == [b \in 0 .. n - 1 |-> <<P(m, b), P(m, b + 1)>>]
            S1 == {right[a] : a \in 0 .. m - 1}
            S2 == {left[a] : a \in 0 .. m - 1}
            S3 == {top[b] : b \in 0 .. n - 1}
            S4 == {foot[b] : b \in 0 .. n - 1}
<1>11. ASSUME NEW a \in Row
       PROVE  /\ row(P(a, 0)) = a /\ row(P(a + 1, 0)) = a + 1
              /\ col(P(a, 0)) = 0 /\ col(P(a + 1, 0)) = 0
              /\ row(P(a, n)) = a /\ row(P(a + 1, n)) = a + 1
              /\ col(P(a, n)) = n /\ col(P(a + 1, n)) = n
  <2>1. a \in 0 .. m /\ a + 1 \in 0 .. m /\ 0 \in 0 .. n /\ n \in 0 .. n
    BY <1>1 DEF Row
  <2>. QED
    BY <1>2, <2>1
<1>12. ASSUME NEW b \in Col
       PROVE  /\ row(P(0, b)) = 0 /\ row(P(0, b + 1)) = 0
              /\ col(P(0, b)) = b /\ col(P(0, b + 1)) = b + 1
              /\ row(P(m, b)) = m /\ row(P(m, b + 1)) = m
              /\ col(P(m, b)) = b /\ col(P(m, b + 1)) = b + 1
  <2>1. b \in 0 .. n /\ b + 1 \in 0 .. n /\ 0 \in 0 .. m /\ m \in 0 .. m
    BY <1>1 DEF Col
  <2>. QED
    BY <1>2, <2>1
<1>13. Counts(S1, m) /\ Counts(S2, m)
  <2>1. right \in [0 .. m - 1 -> S1]
    OBVIOUS
  <2>2. left \in [0 .. m - 1 -> S2]
    OBVIOUS
  <2>3. \A x, y \in 0 .. m - 1 : right[x] = right[y] => x = y
    BY <1>11 DEF Row
  <2>4. \A x, y \in 0 .. m - 1 : left[x] = left[y] => x = y
    BY <1>11 DEF Row
  <2>5. \A z \in S1 : \E x \in 0 .. m - 1 : right[x] = z
    OBVIOUS
  <2>6. \A z \in S2 : \E x \in 0 .. m - 1 : left[x] = z
    OBVIOUS
  <2>. HIDE DEF right, left, S1, S2
  <2>7. Counts(S1, m)
    BY <1>1, <2>1, <2>3, <2>5, IntervalCounts
  <2>8. Counts(S2, m)
    BY <1>1, <2>2, <2>4, <2>6, IntervalCounts
  <2>. QED
    BY <2>7, <2>8
<1>14. Counts(S3, n) /\ Counts(S4, n)
  <2>1. top \in [0 .. n - 1 -> S3]
    OBVIOUS
  <2>2. foot \in [0 .. n - 1 -> S4]
    OBVIOUS
  <2>3. \A x, y \in 0 .. n - 1 : top[x] = top[y] => x = y
    BY <1>12 DEF Col
  <2>4. \A x, y \in 0 .. n - 1 : foot[x] = foot[y] => x = y
    BY <1>12 DEF Col
  <2>5. \A z \in S3 : \E x \in 0 .. n - 1 : top[x] = z
    OBVIOUS
  <2>6. \A z \in S4 : \E x \in 0 .. n - 1 : foot[x] = z
    OBVIOUS
  <2>. HIDE DEF top, foot, S3, S4
  <2>7. Counts(S3, n)
    BY <1>1, <2>1, <2>3, <2>5, IntervalCounts
  <2>8. Counts(S4, n)
    BY <1>1, <2>2, <2>4, <2>6, IntervalCounts
  <2>. QED
    BY <2>7, <2>8
<1>15. /\ \A e : e \in S1 <=> \E a \in Row : e = <<P(a + 1, n), P(a, n)>>
       /\ \A e : e \in S2 <=> \E a \in Row : e = <<P(a, 0), P(a + 1, 0)>>
       /\ \A e : e \in S3 <=> \E b \in Col : e = <<P(0, b + 1), P(0, b)>>
       /\ \A e : e \in S4 <=> \E b \in Col : e = <<P(m, b), P(m, b + 1)>>
  BY DEF Row, Col
<1>. HIDE DEF L, U, right, left, top, foot, S1, S2, S3, S4
<1>16. S1 \cap S2 = {} /\ S3 \cap S4 = {} /\ (S1 \cup S2) \cap (S3 \cup S4) = {}
  <2>1. \A e \in S1 \cup S2 : row(e[1]) # row(e[2])
    BY <1>1, <1>11, <1>15 DEF Row
  <2>2. \A e \in S3 \cup S4 : row(e[1]) = row(e[2])
    BY <1>12, <1>15
  <2>3. /\ \A e \in S1 : col(e[1]) = n
        /\ \A e \in S2 : col(e[1]) = 0
    BY <1>11, <1>15
  <2>4. /\ \A e \in S3 : row(e[1]) = 0
        /\ \A e \in S4 : row(e[1]) = m
    BY <1>12, <1>15
  <2>. QED
    BY <1>1, <2>1, <2>2, <2>3, <2>4
<1>17. ASSUME NEW e \in Outline
       PROVE  e \in (S1 \cup S2) \cup (S3 \cup S4)
  <2>1. e \in Edges /\ <<e[2], e[1]>> \notin Edges
    BY DEF Outline
  <2>2. \A x, y : e = <<x, y>> => <<y, x>> \notin Edges
    BY <2>1
  <2>3. PICK a \in Row, b \in Col :
          \/ e = <<P(a, b), P(a + 1, b + 1)>>      \/ e = <<P(a + 1, b + 1), P(a, b + 1)>>
          \/ e = <<P(a, b + 1), P(a, b)>>          \/ e = <<P(a, b), P(a + 1, b)>>
          \/ e = <<P(a + 1, b), P(a + 1, b + 1)>>  \/ e = <<P(a + 1, b + 1), P(a, b)>>
    BY <1>8, <2>1
  <2>4. CASE e = <<P(a, b), P(a + 1, b + 1)>> \/ e = <<P(a + 1, b + 1), P(a, b)>>
    BY <1>9, <2>2, <2>4
  <2>5. CASE e = <<P(a + 1, b + 1), P(a, b + 1)>>
    <3>1. b + 1 \notin Col
      BY <1>9, <2>2, <2>5
    <3>2. b + 1 = n
      BY <1>1, <3>1 DEF Col
    <3>. QED
      BY <1>15, <2>5, <3>2
  <2>6. CASE e = <<P(a, b), P(a + 1, b)>>
    <3>1. ASSUME NEW d \in Col, b = d + 1
          PROVE  FALSE
      BY <1>9, <2>2, <2>6, <3>1
    <3>2. b = 0
      <4>1. b # 0 => b - 1 \in Col /\ b = (b - 1) + 1
        BY <1>1 DEF Col
      <4>. QED
        BY <3>1, <4>1
    <3>. QED
      BY <1>15, <2>6, <3>2
  <2>7. CASE e = <<P(a, b + 1), P(a, b)>>
    <3>1. ASSUME NEW c \in Row, a = c + 1
          PROVE  FALSE
      BY <1>9, <2>2, <2>7, <3>1
    <3>2. a = 0
      <4>1. a # 0 => a - 1 \in Row /\ a = (a - 1) + 1
        BY <1>1 DEF Row
      <4>. QED
        BY <3>1, <4>1
    <3>. QED
      BY <1>15, <2>7, <3>2
  <2>8. CASE e = <<P(a + 1, b), P(a + 1, b + 1)>>
    <3>1. a + 1 \notin Row
      BY <1>9, <2>2, <2>8
    <3>2. a + 1 = m
      BY <1>1, <3>1 DEF Row
    <3>. QED
      BY <1>15, <2>8, <3>2
  <2>. QED
    BY <2>3, <2>4, <2>5, <2>6, <2>7, <2>8
<1>18. ASSUME NEW e \in (S1 \cup S2) \cup (S3 \cup S4)
       PROVE  e \in Outline
  <2>1. ASSUME NEW x, NEW y, e = <<x, y>>, <<x, y>> \in Edges, <<y, x>> \notin Edges
        PROVE  e \in Outline
    BY <2>1 DEF Outline
  <2>2. ASSUME NEW x, NEW y, <<y, x>> \in Edges
        PROVE  LET down == row(x) - row(y)
                   along == col(x) - col(y)
               IN  \/ down = 1 /\ along = 1
                   \/ down = -1 /\ along = -1
                   \/ down = -1 /\ along = 0 /\ col(y) # 0
                   \/ down = 1 /\ along = 0 /\ col(y) # n
                   \/ down = 0 /\ along = -1 /\ row(y) # m
                   \/ down = 0 /\ along = 1 /\ row(y) # 0
    BY <1>10, <2>2
  <2>3. CASE e \in S1
    <3>1. PICK a \in Row : e = <<P(a + 1, n), P(a, n)>>
      BY <1>15, <2>3
    <3>2. PICK b \in Col : b + 1 = n
      <4>1. n - 1 \in Col /\ (n - 1) + 1 = n
        BY <1>1 DEF Col
      <4>. QED
        BY <4>1
    <3>3. <<P(a + 1, n), P(a, n)>> \in Edges
      BY <1>9, <3>2
    <3>4. <<P(a, n), P(a + 1, n)>> \notin Edges
      BY <1>1, <1>4, <1>11, <2>2
    <3>. QED
      BY <2>1, <3>1, <3>3, <3>4
  <2>4. CASE e \in S2
    <3>1. PICK a \in Row : e = <<P(a, 0), P(a + 1, 0)>>
      BY <1>15, <2>4
    <3>2. 0 \in Col
      BY <1>1 DEF Col
    <3>3. <<P(a, 0), P(a + 1, 0)>> \in Edges
      BY <1>9, <3>2
    <3>4. <<P(a + 1, 0), P(a, 0)>> \notin Edges
      <4>1. /\ row(P(a, 0)) - row(P(a + 1, 0)) = -1 /\ col(P(a, 0)) - col(P(a + 1, 0)) = 0
            /\ col(P(a + 1, 0)) = 0
        BY <1>4, <1>11, <3>2
      <4>. QED
        BY <2>2, <4>1
    <3>. QED
      BY <2>1, <3>1, <3>3, <3>4
  <2>5. CASE e \in S3
    <3>1. PICK b \in Col : e = <<P(0, b + 1), P(0, b)>>
      BY <1>15, <2>5
    <3>2. 0 \in Row
      BY <1>1 DEF Row
    <3>3. <<P(0, b + 1), P(0, b)>> \in Edges
      BY <1>9, <3>2
    <3>4. <<P(0, b), P(0, b + 1)>> \notin Edges
      <4>1. /\ row(P(0, b + 1)) - row(P(0, b)) = 0 /\ col(P(0, b + 1)) - col(P(0, b)) = 1
            /\ row(P(0, b)) = 0
        BY <1>4, <1>12, <3>2
      <4>. QED
        BY <2>2, <4>1
    <3>. QED
      BY <2>1, <3>1, <3>3, <3>4
  <2>6. CASE e \in S4
    <3>1. PICK b \in Col : e = <<P(m, b), P(m, b + 1)>>
      BY <1>15, <2>6
    <3>2. PICK a \in Row : a + 1 = m
      <4>1. m - 1 \in Row /\ (m - 1) + 1 = m
        BY <1>1 DEF Row
      <4>. QED
        BY <4>1
    <3>3. <<P(m, b), P(m, b + 1)>> \in Edges
      BY <1>9, <3>2
    <3>4. <<P(m, b + 1), P(m, b)>> \notin Edges
      BY <1>1, <1>4, <1>12, <2>2
    <3>. QED
      BY <2>1, <3>1, <3>3, <3>4
  <2>. QED
    BY <2>3, <2>4, <2>5, <2>6
<1>19. Counts(Outline, 2 * (m + n))
  <2>1. Outline = (S1 \cup S2) \cup (S3 \cup S4)
    BY <1>17, <1>18
  <2>2. Counts(S1 \cup S2, m + m)
    BY <1>1, <1>13, <1>16, CountUnion
  <2>3. Counts(S3 \cup S4, n + n)
    BY <1>1, <1>14, <1>16, CountUnion
  <2>4. Counts((S1 \cup S2) \cup (S3 \cup S4), (m + m) + (n + n))
    <3>1. m + m \in Nat /\ n + n \in Nat
      BY <1>1
    <3>. QED
      BY <1>16, <2>2, <2>3, <3>1, CountUnion
  <2>5. (m + m) + (n + n) = 2 * (m + n)
    BY <1>1
  <2>. QED
    BY <2>1, <2>4, <2>5
<1>. QED
  BY <1>7, <1>19 DEF m, n

LEMMA WatertightBuilt ==
  ASSUME Inv, Traced, IsFiniteSet(triangles)
  PROVE  Watertight
<1>. SUFFICES ASSUME built, Proper, shape = "terrain" => rows = cols
              PROVE  /\ Cardinality(Edges) = 3 * Cardinality(Surface)
                     /\ Cardinality(Outline) = Border
  BY DEF Watertight, Outline
<1>1. shape \in Tables \cup Rings \cup Grids
  BY DEF Inv, TypeOK, Places, built
<1>2. Closed => Cardinality(Outline) = 0
  BY NoBorder
<1>3. ASSUME Single, Closed, shape \notin {"disk", "quad", "plane", "terrain"}
      PROVE  Cardinality(Edges) = 3 * Cardinality(Surface) /\ Cardinality(Outline) = Border
  BY <1>2, <1>3, Thrice DEF Border
<1>4. CASE shape \in Tables
  <2>1. triangles = Table
    BY <1>4 DEF Traced
  <2>2. CASE shape = "box"
    <3>1. triangles = box_positions
      BY <2>1, <2>2 DEF Table
    <3>. QED
      BY <1>3, <2>2, <3>1, BoxEdges
  <2>3. CASE shape = "tetrahedron"
    <3>1. triangles = tetra_positions
      BY <2>1, <2>3 DEF Table
    <3>. QED
      BY <1>3, <2>3, <3>1, TetrahedronEdges
  <2>4. CASE shape = "pyramid"
    <3>1. triangles = pyramid_positions
      BY <2>1, <2>4 DEF Table
    <3>. QED
      BY <1>3, <2>4, <3>1, PyramidEdges
  <2>5. CASE shape = "quad"
    <3>1. triangles = quad_positions
      BY <2>1, <2>5 DEF Table
    <3>2. Single /\ Cardinality(Outline) = 4
      BY <3>1, QuadEdges DEF Counts
    <3>. QED
      BY <2>5, <3>2, Thrice DEF Border
  <2>. QED
    BY <1>4, <2>2, <2>3, <2>4, <2>5 DEF Tables
<1>5. CASE shape = "disk"
  <2>1. Single /\ Cardinality(Outline) = cols
    BY <1>5, DiskEdges DEF Counts
  <2>. QED
    BY <1>5, <2>1, Thrice DEF Border
<1>6. CASE shape = "cylinder"
  BY <1>3, <1>6, CylinderEdges
<1>7. CASE shape = "sphere"
  BY <1>3, <1>7, SphereEdges
<1>8. CASE shape = "torus"
  BY <1>3, <1>8, TorusEdges
<1>9. CASE shape \in {"plane", "terrain"}
  <2>1. Single /\ Cardinality(Outline) = 2 * (RowLimit + Across)
    BY <1>9, FlatEdges DEF Counts
  <2>2. rows \in Nat /\ cols \in Nat
    BY DEF Inv, TypeOK
  <2>3. Border = 2 * (RowLimit + Across)
    <3>1. CASE shape = "plane"
      BY <3>1 DEF Border, RowLimit, Across
    <3>2. CASE shape = "terrain"
      <4>1. rows - 1 + cols - 1 = (rows - 1) + (cols - 1)
        BY <2>2
      <4>. QED
        BY <3>2, <4>1 DEF Border, RowLimit, Across
    <3>. QED
      BY <1>9, <3>1, <3>2
  <2>. QED
    BY <2>1, <2>3, Thrice
<1>. QED
  BY <1>1, <1>4, <1>5, <1>6, <1>7, <1>8, <1>9 DEF Rings, Grids

\* However many stacks, slices, rows and columns a shape is asked for with, from the fewest
\* that make it, and whichever loops pushed the triangles on the two sides of an edge, its
\* triangles make one surface: no directed edge belongs to two of them, and those whose other
\* side belongs to none are as many as the shape's border, none for a closed one.
THEOREM WatertightCorrect == Spec => []Watertight
<1>1. Inv /\ Traced /\ Once => Watertight
  BY WatertightBuilt DEF Once, Tally
<1>. QED
  BY InvInit, InvStep, OnceInit, OnceStep, TracedInit, TracedStep, <1>1, PTL DEF Spec

=============================================================================
