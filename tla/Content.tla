------------------------------- MODULE Content ------------------------------
(***************************************************************************)
(* load_content makes its objects in one order: the frame buffer, the      *)
(* shadow map's depth buffer, the geometries, the effects, and the         *)
(* textures and cubemaps.  An instance makes some of them and takes the    *)
(* others to be made without incident.  Then the frame loop runs, in which *)
(* key I saves the shadow map.                                             *)
(*                                                                         *)
(* Texture, Buffers, Effect and Geometry are the constructors; what one of *)
(* them leaves behind in OpenGL and DevIL is what the next one finds.      *)
(***************************************************************************)
EXTENDS Texture, Buffers, Effect, Geometry

CONSTANT MaxObjects   \* bound: objects made

ASSUME ObjectsAssumption == MaxObjects \in Nat

vars == <<glVars, geomVars>>

Kinds == {"frame", "depth", "geometry", "effect", "texture", "cubemap"}

Rank == [frame |-> 1, depth |-> 2, geometry |-> 3, effect |-> 4, texture |-> 5, cubemap |-> 5]

FirstPlace ==
  [frame |-> "gen frame", depth |-> "gen depth", geometry |-> "open", effect |-> "open",
   texture |-> "open", cubemap |-> "open"]

Init == GLInit /\ NewGeometry

\* load_content goes on to an object of this kind.  There is one frame buffer and one
\* shadow map.
Begin(next) ==
  /\ At("choose") /\ Len(loaded) < MaxObjects
  /\ \A n \in 1 .. Len(loaded) :
       /\ Rank[loaded[n].kind] <= Rank[next]
       /\ next \in BufferKinds => loaded[n].kind # next
  /\ kind' = next /\ k' = 1 /\ parts' = {} /\ failed' = FALSE
  /\ Goto(FirstPlace[next])
  /\ UNCHANGED <<build, loaded, target, glError, devil, faults, blame, geomVars>>

\* What the object that was made should have and has not.
Missing ==
  CASE kind \in BufferKinds -> BufferParts[kind] \ parts
    [] kind = "geometry"    -> GeometryLacks
    [] kind = "effect"      -> EffectParts \ parts
    [] OTHER                -> TextureParts[kind] \ parts

\* The constructor returns, and the program keeps the object.
End ==
  /\ At("made")
  /\ loaded' = Append(loaded, [kind |-> kind, parts |-> parts, lacks |-> Missing,
                               failed |-> failed, mixed |-> mixed])
  /\ kind' = "none" /\ parts' = {} /\ k' = 0 /\ failed' = FALSE
  /\ lists' = NoLists /\ vertex_begin' = 0 /\ indices' = {} /\ mixed' = {}
  /\ todo' = <<>> /\ vertices' = 0 /\ buffers' = <<>> /\ hollow' = {}
  /\ Goto("choose")
  /\ UNCHANGED <<build, target, glError, devil, faults, blame>>

\* load_content returns true.
Return ==
  /\ At("choose")
  /\ Goto("running")
  /\ UNCHANGED <<object, parts, k, target, glError, devil, failed, faults, blame, geomVars>>

Load ==
  \/ \E next \in Kinds : Begin(next)
  \/ (TextureNext \/ BufferNext \/ EffectNext) /\ UNCHANGED geomVars
  \/ GeometryNext
  \/ End
  \/ Return

Save == SaveNext /\ UNCHANGED geomVars

Next == Load \/ Save

\* The program is one thread, whose calls return; nobody has to press key I.
Spec == Init /\ [][Next]_vars /\ WF_vars(Load)

-----------------------------------------------------------------------------
(* Properties.                                                              *)

Serials == 1 .. MaxObjects + 1

\* The types.
TypeOK ==
  /\ build \in Builds
  /\ Len(loaded) <= MaxObjects
  /\ \A n \in 1 .. Len(loaded) :
       loaded[n].kind \in Kinds /\ loaded[n].mixed \subseteq {"normal", "coords"}
  /\ kind \in Kinds \cup {"none"}
  /\ k \in 0 .. 6 \cup 1 .. MaxMeshes
  /\ target \in {"screen"} \cup BufferKinds
  /\ glError \in Serials \cup {0} /\ blame \in Serials \cup {0}
  /\ ilErrors \subseteq Serials /\ bad \subseteq Serials
  /\ images \in 0 .. 1
  /\ faults \in 0 .. MaxFaults
  /\ DOMAIN buffers \subseteq Attributes
  /\ hollow \subseteq Attributes

\* Every object that is handed over has everything that it was meant to have, unless one of
\* the calls that made it failed, which nobody may have noticed, but for the attributes that
\* some sub-meshes of a model have and some have not, whose buffers add_buffer refuses
\* (geometry.cpp:164).  What a throw or a deletion takes back is never handed over.
ObjectsUsable ==
  \A n \in 1 .. Len(loaded) :
    loaded[n].failed \/ loaded[n].lacks \subseteq Excused(loaded[n].mixed)

\* In a Debug build the damage of failing calls stays with what they were to make: a buffer
\* that could not be filled, an index buffer, or the answer to a status query.  Whatever the
\* objects handed over lack beyond what sub-meshes disagree about, each piece of it is
\* accounted for by a failure of its own; nothing else is left out because of it.
LossBounded ==
  build = "Debug" =>
    Cardinality(UNION {{n} \X (loaded[n].lacks \ Excused(loaded[n].mixed)) :
                         n \in 1 .. Len(loaded)}) <= faults

\* When a check for OpenGL errors throws, it is at an error of the object that is being made,
\* or of the one made just before it, and then that is an effect, because effect::build ends
\* with a call after which nothing is checked: no other constructor, and no save, leaves an
\* error pending that a later check would take for its own.
BlameNear ==
  blame # 0 =>
    \/ blame = This
    \/ blame = Len(loaded) /\ loaded[blame].kind = "effect"

\* A picture that could not be made RGBA, though nobody looks at the result
\* (texture.cpp:62), is reported at the latest by the next picture's load; until then its
\* error stays with DevIL, whatever other objects are made or saved in between.
PicturesGood == pc # "thrown" => bad \subseteq ilErrors

\* Between two objects and between two saves the screen is what is drawn to.
TargetRestored == pc \in {"choose", "running"} => target = "screen"

\* No picture outlives the constructor that read it, and a cubemap's one image serves six.
NothingLost == pc \in {"choose", "running"} => images = 0

\* All buffers of a geometry have an element for each vertex; generate_tb finds a normal for
\* each vertex, if the sub-meshes of a model agree whether they have normals; and the indices
\* of a model name each of its vertices and no other, but for what is read past the indices of
\* a point or a line.
AttributesCover ==
  /\ \A a \in DOMAIN buffers : buffers[a] = vertices
  /\ todo # <<>> /\ Head(todo) = "tangent" => vertices <= lists["normal"] \/ "normal" \in mixed
  /\ pc = "made" /\ indices # {} => indices \ {Stray} = 0 .. vertices - 1

\* generate_tb iterates through each normal (geometry.cpp:323): it reads none past the last.
NormalsRead ==
  pc = "add buffer" /\ todo # <<>> /\ Head(todo) = "tangent" => vertices <= lists["normal"]

-----------------------------------------------------------------------------
(* The refinement.                                                          *)

Promise ==
  INSTANCE Loading WITH
    Objects <- Kinds,
    mode    <- build,
    state   <- CASE pc = "thrown" -> "ended"
                 [] pc \in {"running", "save picture", "save end"} -> "loaded"
                 [] OTHER -> "loading",
    objects <- [n \in 1 .. Len(loaded) |->
                  [kind |-> loaded[n].kind, usable |-> loaded[n].lacks = {}]]

\* load_content makes usable objects, but for what Loading excepts, in every run of it, and
\* comes to an end, whichever of its calls fail.
ImplementsLoading == Promise!Spec

=============================================================================
