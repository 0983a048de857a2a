------------------------------- MODULE Geometry -----------------------------
(***************************************************************************)
(* A geometry: lists of positions, normals, ... are added to it as buffers *)
(* for the attributes of its vertices.  The lists come from a shape of the *)
(* geometry_builder, which makes them equally long (GeometryBuilder), from *)
(* the two quads that load_content writes out, or from a model file that   *)
(* assimp reads, sub-mesh by sub-mesh.  The sub-meshes of a model need not *)
(* agree: assimp makes normals for those of triangles, but for one of only *)
(* points or lines it has what the file has.                               *)
(***************************************************************************)
EXTENDS OpenGL

CONSTANTS
  MaxMeshes,   \* bound: sub-meshes of a model
  MaxVertices  \* bound: vertices of a sub-mesh

ASSUME ModelAssumption == MaxMeshes \in Nat \ {0} /\ MaxVertices \in Nat \ {0}

Attributes == {"position", "colour", "normal", "coords", "tangent", "binormal"}

\* What is read past the one or two indices of a point or a line, when it is no vertex's.
Stray == -1

VARIABLES
  lists,         \* how long the list for each attribute is
  vertex_begin,  \* the vertices of the sub-meshes that were read before
  indices,       \* the indices that the model's triangles name
  mixed,         \* the attributes that some of the sub-meshes have and some have not
  todo,          \* the attributes to add, in order
  vertices,      \* _vertices, the length of the first list that was added
  buffers,       \* _buffers: the attributes with a buffer, and how many elements it has
  hollow         \* attributes that were enabled for a buffer that could not be filled, or
                 \* that is filled with what was not computed from the normals

lists_   == <<lists, vertex_begin, indices, mixed>>
geometry == <<todo, vertices, buffers, hollow>>
geomVars == <<lists_, geometry>>

NoLists == [a \in Attributes |-> 0]

NewGeometry ==
  /\ lists = NoLists /\ vertex_begin = 0 /\ indices = {} /\ mixed = {}
  /\ todo = <<>> /\ vertices = 0 /\ buffers = <<>> /\ hollow = {}

Shape == <<"position", "normal", "colour", "coords", "tangent", "binormal">>
Quad  == <<"position", "coords">>

\* A model has normals, and with them tangents and binormals, if one of its sub-meshes has,
\* and so it is with texture coordinates: it is of how many there are.
Model(normals, coords) ==
  CASE normals # 0 /\ coords # 0 ->
         <<"position", "colour", "normal", "tangent", "binormal", "coords">>
    [] normals # 0 /\ coords = 0 -> <<"position", "colour", "normal", "tangent", "binormal">>
    [] normals = 0 /\ coords # 0 -> <<"position", "colour", "coords">>
    [] normals = 0 /\ coords = 0 -> <<"position", "colour">>

FromShape ==
  /\ At("open") /\ kind = "geometry"
  /\ Goto("add buffer")
  /\ \E s \in {Shape, Quad} :
       /\ todo' = s
       /\ lists' = [a \in Attributes |-> IF \E n \in DOMAIN s : s[n] = a THEN 1 ELSE 0]
  /\ UNCHANGED <<object, parts, k, target, glError, devil, failed, faults, blame,
                 vertex_begin, indices, mixed, vertices, buffers, hollow>>

OpenModel ==
  /\ At("open") /\ kind = "geometry"
  /\ OpenFile("read file")
  /\ UNCHANGED geomVars

\* Assimp fails with a reason that is displayed, or hands over a model.
ReadFile ==
  /\ At("read file")
  /\ \E ok \in BOOLEAN : Attempt(ok, {}) /\ Goto(IF ok THEN "read mesh" ELSE "thrown")
  /\ UNCHANGED <<object, parts, k, target, glError, devil, blame, geomVars>>

\* A sub-mesh of v vertices, each of which some face names, with or without normals and texture
\* coordinates.  Colours are made up where there are none.  Three indices are taken from each
\* face, however many it has.
ReadMesh ==
  /\ At("read mesh")
  /\ \E v \in 1 .. MaxVertices, normals, textured, last \in BOOLEAN, stray \in SUBSET {Stray} :
       /\ k = MaxMeshes => last
       /\ lists' = [lists EXCEPT !["position"] = @ + v, !["colour"] = @ + v,
                                 !["normal"] = IF normals THEN @ + v ELSE @,
                                 !["coords"] = IF textured THEN @ + v ELSE @]
       /\ indices' = indices \cup {vertex_begin + n : n \in 0 .. v - 1} \cup stray
       /\ vertex_begin' = vertex_begin + v
       /\ mixed' = {a \in {"normal", "coords"} : lists'[a] \notin {0, lists'["position"]}}
       /\ IF last
          THEN /\ Goto("add buffer") /\ UNCHANGED k
               /\ todo' = Model(lists'["normal"], lists'["coords"])
          ELSE k' = k + 1 /\ UNCHANGED <<pc, todo>>
  /\ UNCHANGED <<object, parts, target, glError, devil, failed, faults, blame,
                 vertices, buffers, hollow>>

\* generate_tb takes a normal for each vertex, and there are fewer normals.
Overruns ==
  /\ todo # <<>> /\ Head(todo) = "tangent"
  /\ lists["normal"] < vertices /\ "tangent" \notin hollow

\* What is read past the last normal is undefined: that ends the program, or the tangents and
\* binormals come from whatever is there.
GenerateTb ==
  /\ At("add buffer") /\ Overruns
  /\ \/ Goto("thrown") /\ UNCHANGED hollow
     \/ UNCHANGED pc /\ hollow' = hollow \cup {"tangent", "binormal"}
  /\ UNCHANGED <<object, parts, k, target, glError, devil, failed, faults, blame, lists_,
                 todo, vertices, buffers>>

\* The vertex array is made for the first buffer, and asked for again while there is none.
GenVertexArray ==
  /\ At("add buffer") /\ todo # <<>> /\ ~Overruns
  /\ "vertex array" \notin parts
  /\ \E ok \in BOOLEAN : Checked(ok, {}, {"vertex array"}, {}, "fill buffer")
  /\ UNCHANGED <<object, k, target, devil, geomVars>>

Filling ==
  \/ At("fill buffer")
  \/ At("add buffer") /\ todo # <<>> /\ ~Overruns /\ "vertex array" \in parts

\* generate_tb makes tangents and binormals, one for each vertex.
Length(a) == IF a \in {"tangent", "binormal"} THEN vertices ELSE lists[a]

\* Mutant: any number of vertices is taken.
RefusesNone(a) == FALSE

\* The first buffer says how many vertices there are, and others must agree.
Refuses(a) == vertices # 0 /\ Length(a) # vertices

\* The result, that the buffer was refused, is ignored by every caller.
RefuseBuffer ==
  /\ Filling
  /\ Refuses(Head(todo))
  /\ Goto("add buffer")
  /\ todo' = Tail(todo)
  /\ UNCHANGED <<object, parts, k, target, glError, devil, failed, faults, blame, lists_,
                 vertices, buffers, hollow>>

\* Mutant: after a buffer that could not be filled no other is added.
FillBufferGivesUp ==
  /\ Filling
  /\ ~Refuses(Head(todo))
  /\ LET a == Head(todo) IN
     /\ vertices' = IF vertices = 0 THEN Length(a) ELSE vertices
     /\ \E ok \in BOOLEAN :
          /\ Noted(ok, {"vertex array"}, {}, "add buffer")
          /\ hollow' = IF ok THEN hollow ELSE hollow \cup {a}
          /\ buffers' = IF ok THEN [b \in DOMAIN buffers \cup {a} |->
                                      IF b = a THEN Length(a) ELSE buffers[b]]
                        ELSE buffers
          /\ todo' = IF ok THEN Tail(todo) ELSE <<>>
  /\ UNCHANGED <<object, k, target, devil, lists_>>

\* The buffer is generated, bound, filled and enabled before OpenGL is asked, once, whether
\* it worked; that it did not is ignored as well.
FillBuffer ==
  /\ Filling
  /\ ~Refuses(Head(todo))
  /\ LET a == Head(todo) IN
     /\ vertices' = IF vertices = 0 THEN Length(a) ELSE vertices
     /\ \E ok \in BOOLEAN :
          /\ Noted(ok, {"vertex array"}, {}, "add buffer")
          /\ hollow' = IF ok /\ "vertex array" \in parts THEN hollow ELSE hollow \cup {a}
          /\ buffers' = IF ok \/ build = "Release"
                        THEN [b \in DOMAIN buffers \cup {a} |->
                                IF b = a THEN Length(a) ELSE buffers[b]]
                        ELSE buffers
  /\ todo' = Tail(todo)
  /\ UNCHANGED <<object, k, target, devil, lists_>>

\* A model's triangles.  The result is ignored.
AddIndexBuffer ==
  /\ At("add buffer") /\ todo = <<>> /\ indices # {}
  /\ \E ok \in BOOLEAN : Noted(ok, {"vertex array"}, {"index"}, "made")
  /\ UNCHANGED <<object, k, target, devil, geomVars>>

NoIndexBuffer ==
  /\ At("add buffer") /\ todo = <<>> /\ indices = {}
  /\ Goto("made")
  /\ UNCHANGED <<object, parts, k, target, glError, devil, failed, faults, blame, geomVars>>

GeometryNext ==
  \/ FromShape \/ OpenModel \/ ReadFile \/ ReadMesh
  \/ GenerateTb \/ GenVertexArray \/ RefuseBuffer \/ FillBuffer
  \/ AddIndexBuffer \/ NoIndexBuffer

-----------------------------------------------------------------------------

\* The attributes that the lists are for.
Wanted ==
  {a \in Attributes : lists[a] > 0}
    \cup (IF lists["normal"] > 0 THEN {"tangent", "binormal"} ELSE {})

\* What was meant for it and is not there to be drawn.
GeometryLacks ==
  ({"vertex array"} \ parts)
    \cup (Wanted \ (DOMAIN buffers \ hollow))
    \cup (IF indices # {} THEN {"index"} \ parts ELSE {})

\* What a geometry lacks for the attributes that its sub-meshes disagree about.
Excused(attributes) ==
  attributes \cup (IF "normal" \in attributes THEN {"tangent", "binormal"} ELSE {})

=============================================================================
