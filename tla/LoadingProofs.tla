---------------------------- MODULE LoadingProofs ---------------------------
(***************************************************************************)
(* What load_content hands over, however many objects of whatever kinds it *)
(* makes, from models of any size, and however many calls fail: the parts  *)
(* that each constructor has made when it gets to each of its places, and  *)
(* from them that the objects are usable, that the buffers of a geometry   *)
(* agree, and that every step of load_content is one that Loading allows.  *)
(***************************************************************************)
EXTENDS ContentProofs, SequenceTheorems

-----------------------------------------------------------------------------
(* The types, and which constructor is at a place.                          *)

FramePlaces == {"gen frame", "frame image", "frame parameters", "gen depth again"}

DepthPlaces ==
  {"gen depth", "bind depth", "depth image", "depth parameters", "gen buffer", "attach",
   "draw buffer", "unbind buffer"}

PicturePlaces ==
  {"bind image", "load image", "convert image", "gen texture", "texture parameters", "upload",
   "mipmaps"}

GeometryPlaces == {"read file", "read mesh", "add buffer", "fill buffer"}

PartNames ==
  {"frame", "frame image", "depth", "depth image", "buffer", "attached", "draw",
   "vertex", "fragment", "program", "vertex attached", "fragment attached", "linked",
   "vertex compiled", "fragment compiled", "id", "image", "+x", "-x", "+y", "-y", "+z", "-z",
   "mipmaps", "vertex array", "index"}

Built ==
  [kind : Kinds, parts : SUBSET PartNames, lacks : SUBSET (PartNames \cup Attributes),
   failed : BOOLEAN, mixed : SUBSET {"normal", "coords"}]

Kept ==
  /\ loaded \in Seq(Built) /\ Len(loaded) <= MaxObjects
  /\ kind \in Kinds \cup {"none"}
  /\ kind # "none" => Len(loaded) < MaxObjects

\* What a call and the check after it change.
Counted ==
  /\ parts \in SUBSET PartNames /\ failed \in BOOLEAN /\ faults \in 0 .. MaxFaults
  /\ glError \in Serials \cup {0} /\ blame \in Serials \cup {0}

Shared ==
  /\ build \in Builds /\ target \in {"screen"} \cup BufferKinds
  /\ ilErrors \subseteq Serials /\ bad \subseteq Serials
  /\ images \in 0 .. 1

Where ==
  /\ pc \in FramePlaces => kind = "frame"
  /\ pc \in DepthPlaces => kind \in BufferKinds
  /\ pc = "open" => kind \in Kinds \ BufferKinds
  /\ pc \in PicturePlaces => kind \in Pictures
  /\ pc \in EffectPlaces => kind = "effect"
  /\ pc \in GeometryPlaces => kind = "geometry"
  /\ pc = "made" => kind \in Kinds
  /\ pc \in {"choose", "running", "save picture", "save end"} => kind = "none"

\* The counter, in the constructors that have one.
Counting ==
  /\ k \in 0 .. 6 \cup 1 .. MaxMeshes
  /\ (pc = "open" /\ kind \in Pictures) \/ pc \in PicturePlaces => k \in 1 .. 6
  /\ (pc = "open" /\ kind = "effect") \/ pc \in EffectPlaces => k \in 1 .. 2
  /\ (pc = "open" /\ kind = "geometry") \/ pc = "read file" => k = 1
  /\ pc = "read mesh" => k \in 1 .. MaxMeshes

-----------------------------------------------------------------------------
(* What has been made, unless a call failed in a Release build.  A Debug    *)
(* build throws at a call that failed, but for those that make no part, and *)
(* the status queries: whether shaders compiled and a program was linked is *)
(* known only when no call failed.                                          *)

Sound == build = "Debug" \/ ~failed

Linked == {"link program", "link status", "made"}

BufferDue ==
  Sound /\ kind \in BufferKinds /\ pc # "thrown" =>
    /\ kind = "frame" /\ pc # "gen frame" => "frame" \in parts
    /\ pc \notin {"gen frame", "gen depth"} => "depth" \in parts
    /\ kind = "frame" /\ pc \notin {"gen frame", "gen depth", "frame image"} =>
         "frame image" \in parts
    /\ pc \in {"depth parameters", "gen buffer", "attach", "draw buffer", "unbind buffer", "made"}
         => "depth image" \in parts
    /\ pc \in {"attach", "draw buffer", "unbind buffer", "made"} => "buffer" \in parts
    /\ pc \in {"draw buffer", "unbind buffer", "made"} => "attached" \in parts
    /\ pc \in {"unbind buffer", "made"} => "draw" \in parts

EffectDue ==
  Sound /\ kind = "effect" /\ pc # "thrown" =>
    /\ pc \notin {"open", "create shader"} \/ k = 2 => "vertex" \in parts
    /\ pc \notin {"open", "create shader"} /\ (pc \in {"compile shader", "compile status"} => k = 2)
         => "fragment" \in parts
    /\ pc \in {"attach shader"} \cup Linked => "program" \in parts
    /\ (pc = "attach shader" /\ k = 2) \/ pc \in Linked => "vertex attached" \in parts
    /\ pc \in Linked => "fragment attached" \in parts

Compiling == {"open", "create shader", "compile shader", "compile status"}

AnswersDue ==
  kind = "effect" /\ ~failed /\ pc # "thrown" =>
    /\ k = 2 \/ pc \notin Compiling => "vertex compiled" \in parts
    /\ pc \notin Compiling => "fragment compiled" \in parts
    /\ pc = "made" => "linked" \in parts

TextureDue ==
  Sound /\ kind = "texture" /\ pc # "thrown" =>
    /\ pc \in {"texture parameters", "upload", "mipmaps", "made"} => "id" \in parts
    /\ pc \in {"mipmaps", "made"} => "image" \in parts

CubemapDue ==
  Sound /\ kind = "cubemap" /\ pc # "thrown" =>
    /\ pc \notin {"open", "gen texture"} => "id" \in parts
    /\ pc \in {"load image", "convert image", "upload"} =>
         \A n \in 1 .. k - 1 : targets[n] \in parts
    /\ pc \in {"mipmaps", "made"} => \A n \in 1 .. 6 : targets[n] \in parts

-----------------------------------------------------------------------------
(* The lists of a geometry, and the buffers that are made from them.        *)

Sizes ==
  /\ lists \in [Attributes -> Nat] /\ vertex_begin \in Nat /\ vertices \in Nat
  /\ mixed \subseteq {"normal", "coords"} /\ todo \in Seq(Attributes) /\ hollow \subseteq Attributes
  /\ DOMAIN buffers \subseteq Attributes

\* Nothing is left from the geometry before.
Untouched == pc \notin {"read mesh", "add buffer", "fill buffer", "made", "thrown"} => NewGeometry

\* The lists of a model, while its sub-meshes are read.
Reading ==
  pc = "read mesh" =>
    /\ lists["position"] = vertex_begin /\ lists["colour"] = vertex_begin
    /\ lists["tangent"] = 0 /\ lists["binormal"] = 0
    /\ indices \ {Stray} = 0 .. vertex_begin - 1
    /\ todo = <<>> /\ vertices = 0 /\ buffers = <<>> /\ hollow = {}

First == todo # <<>> /\ todo[1] = "position"

\* There is a normal for each position, if the sub-meshes agree about them.
Normals == lists["normal"] = lists["position"] \/ "normal" \in mixed

\* The lists, while buffers are made from them: positions first, and then as many of all but
\* those that the sub-meshes disagree about.
Adding ==
  pc \in {"add buffer", "fill buffer"} =>
    /\ lists["position"] >= 1
    /\ vertices = IF First THEN 0 ELSE lists["position"]
    /\ First => buffers = <<>> /\ hollow = {}
    /\ \A n \in 2 .. Len(todo) : todo[n] # "position"
    /\ \A n \in 1 .. Len(todo) :
         \/ todo[n] \in mixed
         \/ todo[n] \in {"tangent", "binormal"}
         \/ lists[todo[n]] = lists["position"]
    /\ (\E n \in 1 .. Len(todo) : todo[n] = "tangent") => Normals
    /\ indices = {} \/ indices \ {Stray} = 0 .. lists["position"] - 1
    /\ pc = "fill buffer" => todo # <<>>

Agree ==
  /\ \A a \in DOMAIN buffers : buffers[a] = vertices
  /\ todo # <<>> /\ Head(todo) = "tangent" => vertices <= lists["normal"] \/ "normal" \in mixed
  /\ pc = "made" /\ indices # {} => indices \ {Stray} = 0 .. vertices - 1

\* What a geometry has, of which no call failed, but for what its sub-meshes disagree about.
GeometryDue ==
  kind = "geometry" /\ ~failed =>
    /\ hollow \subseteq Excused(mixed)
    /\ pc \in {"fill buffer", "made"} \/ (pc = "add buffer" /\ ~First) => "vertex array" \in parts
    /\ pc \in {"add buffer", "fill buffer", "made"} =>
         \A a \in Wanted \ Excused(mixed) :
           a \in DOMAIN buffers \/ \E n \in 1 .. Len(todo) : todo[n] = a
    /\ pc = "made" => todo = <<>> /\ (indices # {} => "index" \in parts)

\* The objects that have been handed over.
Handed ==
  \A n \in 1 .. Len(loaded) :
    /\ loaded[n].failed \/ loaded[n].lacks \subseteq Excused(loaded[n].mixed)
    /\ build = "Debug" => loaded[n].lacks = {} \/ loaded[n].kind \in {"geometry", "effect"}

-----------------------------------------------------------------------------
(* One call.                                                                *)

LEMMA ThisSerial == Kept => This \in Serials
  BY ObjectsAssumption DEF Kept, This, Serials

LEMMA Unfailed == ASSUME NEW ok, NEW needs, Attempt(ok, needs), ~failed'
                  PROVE  ~failed /\ (needs \subseteq parts => ok)
  BY DEF Attempt

LEMMA AttemptCounts ==
  ASSUME NEW ok, NEW needs, Counted, Attempt(ok, needs)
  PROVE  failed' \in BOOLEAN /\ faults' \in 0 .. MaxFaults
<1>. DEFINE itself == ~ok /\ needs \subseteq parts
<1>1. CASE itself
  BY <1>1, BuildsAssumption DEF Attempt, Counted
<1>2. CASE ~itself
  BY <1>2, BuildsAssumption DEF Attempt, Counted
<1>. QED
  BY <1>1, <1>2

\* What a step does that comes to a place having made something, if what it needs was there.
Makes(needs, made, place) ==
  /\ Counted' /\ pc' \in {place, "thrown"}
  /\ Sound' /\ pc' # "thrown" => Sound /\ (needs \subseteq parts => parts' = parts \cup made)

\* After calls that succeed what they make is there.  After a check at which a Debug build
\* does not throw they have all succeeded.
LEMMA CheckedStep ==
  ASSUME NEW ok \in BOOLEAN, NEW needs, NEW made \in SUBSET PartNames, NEW deleted, NEW place,
         Inv, Kept, Counted, This \in Serials, Checked(ok, needs, made, deleted, place),
         UNCHANGED object
  PROVE  Makes(needs, made, place)
<1>1. Attempt(ok, needs)
  BY DEF Checked
<1>2. failed' \in BOOLEAN /\ faults' \in 0 .. MaxFaults
  BY <1>1, AttemptCounts
<1>3. build' = build /\ pc' \in {place, "thrown"}
  BY DEF Checked, object, Goto
<1>4. Counted'
  BY <1>2 DEF Checked, Counted, Pending, Made
<1>5. ASSUME Sound', pc' # "thrown"
      PROVE  Sound /\ (needs \subseteq parts => parts' = parts \cup made)
  <2>1. parts' = Made(ok, needs, made) /\ ~(build = "Debug" /\ Pending(ok) # 0)
    BY <1>5 DEF Checked, Goto
  <2>2. CASE build = "Debug"
    <3>1. This # 0
      BY DEF This, Kept
    <3>2. ok
      BY <2>1, <2>2, <3>1 DEF Pending
    <3>. QED
      BY <2>1, <2>2, <3>2 DEF Made, Sound
  <2>3. CASE ~failed'
    BY <1>1, <2>1, <2>3, Unfailed DEF Made, Sound
  <2>. QED
    BY <1>3, <1>5, <2>2, <2>3 DEF Sound
<1>. QED
  BY <1>3, <1>4, <1>5 DEF Makes

LEMMA CheckedFails ==
  ASSUME NEW ok \in BOOLEAN, NEW needs, NEW made, NEW deleted, NEW place,
         Checked(ok, needs, made, deleted, place)
  PROVE  ~failed' => ~failed
  BY Unfailed DEF Checked

Notes(place) ==
  /\ Counted' /\ pc' = place /\ parts \subseteq parts'
  /\ Sound' => Sound

LEMMA NotedStep ==
  ASSUME NEW ok \in BOOLEAN, NEW needs, NEW made \in SUBSET PartNames, NEW place,
         Counted, This \in Serials, Noted(ok, needs, made, place), UNCHANGED object
  PROVE  /\ Notes(place)
         /\ ~failed' => ~failed /\ (needs \subseteq parts => ok /\ parts' = parts \cup made)
<1>1. Attempt(ok, needs)
  BY DEF Noted
<1>2. failed' \in BOOLEAN /\ faults' \in 0 .. MaxFaults
  BY <1>1, AttemptCounts
<1>3. Counted'
  BY <1>2 DEF Noted, Counted, Pending, Made
<1>4. Sound' => Sound
  BY <1>1, Unfailed DEF Sound, object
<1>5. ~failed' => ~failed /\ (needs \subseteq parts => ok /\ parts' = parts \cup made)
  BY <1>1, Unfailed DEF Noted, Made
<1>6. pc' = place /\ parts \subseteq parts'
  BY DEF Noted, Made, Goto
<1>. QED
  BY <1>3, <1>4, <1>5, <1>6 DEF Notes

-----------------------------------------------------------------------------
(* The frame buffer and the shadow map.                                     *)

Types == Kept /\ Counted /\ Shared /\ Where /\ Counting

BufferMove ==
  \/ pc = "gen frame" /\ Makes({}, {"frame"}, "gen depth")
  \/ pc = "gen depth"
     /\ Makes({}, {"depth"}, IF kind = "frame" THEN "frame image" ELSE "bind depth")
  \/ pc = "frame image" /\ Makes({"frame"}, {"frame image"}, "frame parameters")
  \/ pc = "frame parameters" /\ Notes("gen depth again")
  \/ pc = "gen depth again" /\ Makes({}, {"depth"}, "bind depth")
  \/ pc = "bind depth" /\ Makes({"depth"}, {}, "depth image")
  \/ pc = "depth image" /\ Makes({"depth"}, {"depth image"}, "depth parameters")
  \/ pc = "depth parameters" /\ Notes("gen buffer")
  \/ pc = "gen buffer" /\ Makes({}, {"buffer"}, "attach")
  \/ pc = "attach"
     /\ Makes(BufferParts[kind] \cap {"frame", "depth", "buffer"}, {"attached"}, "draw buffer")
  \/ pc = "draw buffer" /\ Makes({"buffer"}, {"draw"}, "unbind buffer")
  \/ pc = "unbind buffer" /\ Notes("made")

LEMMA BufferMoves ==
  ASSUME Inv, Kept, Counted, This \in Serials, BufferNext
  PROVE  UNCHANGED <<object, k>> /\ BufferMove
<1>. USE DEF At, BufferMove, PartNames
<1>1. CASE GenFrame
  BY <1>1, CheckedStep DEF GenFrame
<1>2. CASE GenDepth
  BY <1>2, CheckedStep DEF GenDepth
<1>3. CASE FrameImage
  BY <1>3, CheckedStep DEF FrameImage
<1>4. CASE FrameParameters
  BY <1>4, NotedStep DEF FrameParameters
<1>5. CASE GenDepthAgain
  <2>1. PICK ok \in BOOLEAN :
          /\ Attempt(ok, {})
          /\ IF build = "Debug" /\ Pending(ok) # 0
             THEN Goto("thrown") /\ blame' = Pending(ok) /\ glError' = 0 /\ UNCHANGED parts
             ELSE /\ Goto("bind depth") /\ glError' = Pending(ok)
                  /\ parts' = IF ok THEN parts \cup {"depth"} ELSE parts \ {"depth"}
                  /\ UNCHANGED blame
    BY <1>5, Zenon DEF GenDepthAgain
  <2>2. failed' \in BOOLEAN /\ faults' \in 0 .. MaxFaults
    BY <2>1, AttemptCounts
  <2>3. ~failed' => ~failed /\ ok
    BY <2>1 DEF Attempt
  <2>4. Counted' /\ pc' \in {"bind depth", "thrown"}
    BY <2>1, <2>2 DEF Counted, Pending, Goto
  <2>5. UNCHANGED <<object, k>> /\ pc = "gen depth again"
    BY <1>5 DEF GenDepthAgain
  <2>6. ASSUME Sound', pc' # "thrown"
        PROVE  Sound /\ parts' = parts \cup {"depth"}
    <3>1. This # 0
      BY DEF This, Kept
    <3>2. build = "Debug" => ok
      BY <2>1, <2>6, <3>1 DEF Pending, Goto
    <3>. QED
      BY <2>1, <2>3, <2>5, <2>6, <3>2 DEF Sound, object, Goto
  <2>. QED
    BY <2>4, <2>5, <2>6 DEF Makes
<1>6. CASE BindDepth
  BY <1>6, CheckedStep DEF BindDepth
<1>7. CASE DepthImage
  BY <1>7, CheckedStep DEF DepthImage
<1>8. CASE DepthParameters
  BY <1>8, NotedStep DEF DepthParameters
<1>9. CASE GenBuffer
  BY <1>9, CheckedStep DEF GenBuffer
<1>10. CASE Attach
  BY <1>10, CheckedStep DEF Attach
<1>11. CASE DrawBuffer
  BY <1>11, CheckedStep DEF DrawBuffer
<1>12. CASE UnbindBuffer
  BY <1>12, NotedStep DEF UnbindBuffer
<1>. QED
  BY <1>1, <1>2, <1>3, <1>4, <1>5, <1>6, <1>7, <1>8, <1>9, <1>10, <1>11, <1>12 DEF BufferNext

LEMMA BufferMakes ==
  Inv /\ Types /\ BufferDue /\ BufferNext => Counted' /\ Where' /\ Counting' /\ BufferDue'
<1>. SUFFICES ASSUME Inv, Types, BufferDue, BufferNext
              PROVE  Counted' /\ Where' /\ Counting' /\ BufferDue'
  OBVIOUS
<1>1. pc \in FramePlaces \cup DepthPlaces
  BY DEF BufferNext, GenFrame, GenDepth, FrameImage, FrameParameters, GenDepthAgain, BindDepth,
     DepthImage, DepthParameters, GenBuffer, Attach, DrawBuffer, UnbindBuffer, At,
     FramePlaces, DepthPlaces
<1>2. kind \in BufferKinds
  BY <1>1 DEF Types, Where, BufferKinds
<1>3. This \in Serials
  BY <1>2, ThisSerial DEF Types, BufferKinds
<1>4. UNCHANGED <<object, k>> /\ BufferMove
  BY <1>3, BufferMoves DEF Types
<1>. USE DEF Types, Where, Counting, FramePlaces, DepthPlaces, PicturePlaces, EffectPlaces,
     GeometryPlaces, Kinds, BufferKinds, Pictures, BufferDue, object, Makes, Notes
<1>5. Counted'
  BY <1>4 DEF BufferMove
<1>6. Where' /\ Counting'
  BY <1>2, <1>4 DEF BufferMove
<1>7. Sound /\ pc = "attach" => BufferParts[kind] \cap {"frame", "depth", "buffer"} \subseteq parts
  <2>1. BufferParts["frame"] \cap {"frame", "depth", "buffer"} = {"frame", "depth", "buffer"}
        /\ BufferParts["depth"] \cap {"frame", "depth", "buffer"} = {"depth", "buffer"}
    BY DEF BufferParts
  <2>. QED
    BY <1>2, <2>1
<1>8. BufferDue'
  BY <1>2, <1>4, <1>7 DEF BufferMove
<1>. QED
  BY <1>5, <1>6, <1>8

-----------------------------------------------------------------------------
(* The textures and the cubemaps.                                           *)

\* A step that makes nothing and looks at nothing of OpenGL's.
Passes(places) == Counted' /\ pc' \in places /\ parts' = parts /\ (Sound' => Sound)

LEMMA AttemptPasses ==
  ASSUME NEW ok \in BOOLEAN, NEW needs, NEW places, Counted, Attempt(ok, needs), pc' \in places,
         UNCHANGED <<object, parts, glError, blame>>
  PROVE  Passes(places)
<1>1. failed' \in BOOLEAN /\ faults' \in 0 .. MaxFaults
  BY AttemptCounts
<1>2. Counted'
  BY <1>1 DEF Counted
<1>3. Sound' => Sound
  BY Unfailed DEF Sound, object
<1>. QED
  BY <1>2, <1>3 DEF Passes

TextureMove ==
  \/ /\ k' = k
     /\ \/ pc = "open"
           /\ Passes({"thrown", IF kind = "texture" THEN "bind image" ELSE "gen texture"})
        \/ pc = "load image" /\ Passes({"thrown", "convert image"})
        \/ pc = "convert image"
           /\ Passes({IF kind = "texture" THEN "gen texture" ELSE "upload"})
        \/ pc = "gen texture" /\ Makes({}, {"id"}, "texture parameters")
        \/ pc = "texture parameters"
           /\ Notes(IF kind = "texture" THEN "upload" ELSE "bind image")
        \/ pc = "upload" /\ kind = "texture" /\ Makes({"id"}, {"image"}, "mipmaps")
        \/ pc = "mipmaps" /\ Notes("made")
  \/ k' = 1 /\ pc = "bind image" /\ Passes({"load image"})
  \/ pc = "upload" /\ kind = "cubemap" /\ k' = (IF k < 6 THEN k + 1 ELSE k)
     /\ Makes({"id"}, {targets[k]}, IF k < 6 THEN "load image" ELSE "mipmaps")

LEMMA TargetNames ==
  /\ targets[1] = "+x" /\ targets[2] = "-x" /\ targets[3] = "+y"
  /\ targets[4] = "-y" /\ targets[5] = "+z" /\ targets[6] = "-z"
  BY DEF targets

LEMMA TextureMoves ==
  ASSUME Inv, Types, This \in Serials, TextureNext
  PROVE  UNCHANGED object /\ TextureMove
<1>. USE DEF At, Goto, TextureMove, PartNames
<1>0. Kept /\ Counted
  BY DEF Types
<1>1. CASE OpenPictures
  <2>1. PICK ok \in BOOLEAN : Attempt(ok, {})
          /\ pc' = IF ok THEN IF kind = "texture" THEN "bind image" ELSE "gen texture" ELSE "thrown"
    BY <1>1 DEF OpenPictures, OpenFile
  <2>2. pc = "open" /\ UNCHANGED <<object, parts, k, glError, blame>>
    BY <1>1 DEF OpenPictures, OpenFile
  <2>. DEFINE place == IF kind = "texture" THEN "bind image" ELSE "gen texture"
  <2>3. pc' \in {"thrown", place}
    BY <2>1
  <2>. HIDE DEF place
  <2>4. Passes({"thrown", place})
    BY <1>0, <2>1, <2>2, <2>3, AttemptPasses
  <2>. QED
    BY <2>2, <2>4 DEF place
<1>2. CASE BindImage
  BY <1>0, <1>2 DEF BindImage, Passes, Counted, Sound, object
<1>3. CASE LoadImage
  <2>1. pc = "load image" /\ UNCHANGED <<object, parts, k, glError, blame>>
        /\ \E ok \in BOOLEAN : Attempt(ok, {}) /\ pc' \in {"thrown", "convert image"}
    BY <1>3 DEF LoadImage
  <2>2. Passes({"thrown", "convert image"})
    BY <1>0, <2>1, AttemptPasses
  <2>. QED
    BY <2>1, <2>2
<1>4. CASE ConvertImage
  <2>. DEFINE place == IF kind = "texture" THEN "gen texture" ELSE "upload"
  <2>1. pc = "convert image" /\ UNCHANGED <<object, parts, k, glError, blame>>
        /\ \E ok \in BOOLEAN : Attempt(ok, {}) /\ pc' \in {place}
    BY <1>4 DEF ConvertImage
  <2>2. Passes({place})
    BY <1>0, <2>1, AttemptPasses
  <2>. QED
    BY <2>1, <2>2
<1>5. CASE GenTexture
  BY <1>0, <1>5, CheckedStep DEF GenTexture
<1>6. CASE TextureParameters
  BY <1>0, <1>6, NotedStep DEF TextureParameters
<1>7. CASE Upload
  BY <1>0, <1>7, CheckedStep DEF Upload
<1>8. CASE UploadFace
  <2>. DEFINE place == IF k < 6 THEN "load image" ELSE "mipmaps"
  <2>1. pc = "upload" /\ kind = "cubemap" /\ UNCHANGED object
        /\ k' = (IF k < 6 THEN k + 1 ELSE k)
        /\ \E ok \in BOOLEAN : Checked(ok, {"id"}, {targets[k]}, {"id"}, place)
    BY <1>8 DEF UploadFace
  <2>2. k \in 1 .. 6
    BY <2>1 DEF Types, Counting, PicturePlaces
  <2>3. {targets[k]} \in SUBSET PartNames
    <3>1. k = 1 \/ k = 2 \/ k = 3 \/ k = 4 \/ k = 5 \/ k = 6
      BY <2>2
    <3>. QED
      BY <3>1, TargetNames
  <2>4. Makes({"id"}, {targets[k]}, place)
    BY <1>0, <2>1, <2>3, CheckedStep
  <2>. QED
    BY <2>1, <2>4
<1>9. CASE GenerateMipmap
  <2>1. pc = "mipmaps" /\ UNCHANGED <<object, k>>
        /\ \E ok \in BOOLEAN : Noted(ok, TextureParts[kind], {"mipmaps"}, "made")
    BY <1>9 DEF GenerateMipmap
  <2>. QED
    BY <1>0, <2>1, NotedStep
<1>. QED
  BY <1>1, <1>2, <1>3, <1>4, <1>5, <1>6, <1>7, <1>8, <1>9 DEF TextureNext

LEMMA OneMoreFace ==
  ASSUME NEW n \in Nat, NEW old, NEW new, \A m \in 1 .. n - 1 : targets[m] \in old,
         new = old \cup {targets[n]}
  PROVE  \A m \in 1 .. n : targets[m] \in new
  OBVIOUS

LEMMA NoFace == ASSUME NEW m, m = 1 PROVE \A n \in 1 .. m - 1 : FALSE
  OBVIOUS

LEMMA Successor == ASSUME NEW n \in 1 .. 6, NEW m, m = n + 1
                  PROVE  m - 1 = n /\ (n < 6 => m \in 1 .. 6)
  OBVIOUS

LEMMA Faces ==
  ASSUME TextureMove, k \in 1 .. 6
  PROVE  k' \in 1 .. 6
<1>1. CASE k' = k
  BY <1>1
<1>2. CASE k' = 1
  BY <1>2
<1>3. CASE k' = IF k < 6 THEN k + 1 ELSE k
  BY <1>3, Successor
<1>. QED
  BY <1>1, <1>2, <1>3 DEF TextureMove

LEMMA CubemapStep ==
  ASSUME CubemapDue, TextureMove, UNCHANGED object, k \in 1 .. 6
  PROVE  CubemapDue'
<1>1. SUFFICES ASSUME kind = "cubemap", Sound', pc' # "thrown"
               PROVE  CubemapDue'
  BY DEF CubemapDue, object
<1>2. CASE pc = "bind image" /\ k' = 1 /\ Passes({"load image"})
  <2>1. "id" \in parts /\ parts' = parts /\ pc' = "load image"
    BY <1>1, <1>2 DEF CubemapDue, Passes
  <2>2. \A n \in 1 .. k' - 1 : FALSE
    BY <1>2, NoFace, Zenon
  <2>. QED
    BY <2>1, <2>2 DEF CubemapDue
<1>3. CASE /\ pc = "upload" /\ k' = (IF k < 6 THEN k + 1 ELSE k)
           /\ Makes({"id"}, {targets[k]}, IF k < 6 THEN "load image" ELSE "mipmaps")
  <2>1. "id" \in parts /\ \A n \in 1 .. k - 1 : targets[n] \in parts
    BY <1>1, <1>3 DEF CubemapDue, Makes
  <2>2. parts' = parts \cup {targets[k]}
    BY <1>1, <1>3, <2>1 DEF Makes
  <2>3. \A n \in 1 .. k : targets[n] \in parts'
    BY <2>1, <2>2, OneMoreFace
  <2>4. CASE k < 6
    <3>1. pc' = "load image"
      BY <1>1, <1>3, <2>4 DEF Makes
    <3>2. k' = k + 1
      BY <1>3, <2>4, Zenon
    <3>3. k' - 1 = k
      BY <3>2, Successor, Zenon
    <3>. QED
      BY <2>1, <2>2, <2>3, <3>1, <3>3 DEF CubemapDue
  <2>5. CASE ~(k < 6)
    <3>1. pc' = "mipmaps" /\ k = 6
      BY <1>1, <1>3, <2>5 DEF Makes
    <3>. QED
      BY <2>1, <2>2, <2>3, <3>1 DEF CubemapDue
  <2>. QED
    BY <2>4, <2>5
<1>4. CASE pc \in {"open", "load image", "convert image"} /\ k' = k
  BY <1>1, <1>4 DEF CubemapDue, TextureMove, Passes, object
<1>5. CASE pc \in {"gen texture", "texture parameters", "mipmaps"}
  BY <1>1, <1>5 DEF CubemapDue, TextureMove, Makes, Notes, object
<1>. QED
  BY <1>1, <1>2, <1>3, <1>4, <1>5 DEF TextureMove, object

LEMMA TextureMakes ==
  Inv /\ Types /\ TextureDue /\ CubemapDue /\ TextureNext
    => Counted' /\ Where' /\ Counting' /\ TextureDue' /\ CubemapDue'
<1>. SUFFICES ASSUME Inv, Types, TextureDue, CubemapDue, TextureNext
              PROVE  Counted' /\ Where' /\ Counting' /\ TextureDue' /\ CubemapDue'
  OBVIOUS
<1>1. kind \in Pictures /\ pc \in PicturePlaces \cup {"open"}
  BY DEF TextureNext, OpenPictures, BindImage, LoadImage, ConvertImage, GenTexture,
     TextureParameters, Upload, UploadFace, GenerateMipmap, At, PicturePlaces, Types, Where
<1>2. This \in Serials
  BY <1>1, ThisSerial DEF Types, Pictures
<1>3. UNCHANGED object /\ TextureMove
  BY <1>2, TextureMoves
<1>4. k \in 1 .. 6
  BY <1>1 DEF Types, Counting
<1>5. pc' \in PicturePlaces \cup {"made", "thrown"} /\ kind' = kind
  BY <1>1, <1>3 DEF TextureMove, Makes, Notes, Passes, PicturePlaces, object
<1>6. Counting'
  <2>1. k' \in 1 .. 6
    BY <1>3, <1>4, Faces
  <2>2. k' \in 0 .. 6 \cup 1 .. MaxMeshes
    BY <2>1
  <2>3. pc' \notin EffectPlaces \cup {"open", "read file", "read mesh"}
    BY <1>5 DEF PicturePlaces, EffectPlaces
  <2>. QED
    BY <2>1, <2>2, <2>3 DEF Counting
<1>. USE DEF Types, Where, Counting, FramePlaces, DepthPlaces, PicturePlaces, EffectPlaces,
     GeometryPlaces, Kinds, BufferKinds, Pictures, object, Makes, Notes, Passes
<1>7. Counted'
  BY <1>3 DEF TextureMove
<1>8. Where'
  BY <1>1, <1>3 DEF TextureMove
<1>9. TextureDue'
  BY <1>1, <1>3 DEF TextureMove, TextureDue
<1>10. CubemapDue'
  BY <1>1, <1>2, <1>3, <1>4, CubemapStep
<1>. QED
  BY <1>6, <1>7, <1>8, <1>9, <1>10

-----------------------------------------------------------------------------
(* The effects.                                                             *)

Starts == {"program", "vertex attached", "fragment attached"}

\* What is there when a status query goes on, unless it failed.
Answered(part) == Makes({}, {}, pc') /\ (~failed' /\ pc' # "thrown" => part \in parts)

EffectMove ==
  /\ ~failed' => ~failed
  /\ \/ /\ k' = k
        /\ \/ pc = "open" /\ Passes({"thrown", "create shader"})
           \/ pc = "create shader" /\ Makes({}, {_shaders[k]}, "compile shader")
           \/ /\ pc = "compile shader"
              /\ \E made \in {{}, {Compiled[k]}} : Makes({_shaders[k]}, made, "compile status")
           \/ /\ pc = "link program"
              /\ \E made \in {{}, {"linked"}} : Makes(Starts, made, "link status")
           \/ pc = "link status" /\ pc' \in {"made", "thrown"} /\ Answered("linked")
     \/ /\ pc = "compile status" /\ k' = (IF pc' = "open" THEN 2 ELSE k)
        /\ pc' \in {IF k = 1 THEN "open" ELSE "create program", "thrown"} /\ Answered(Compiled[k])
     \/ pc = "create program" /\ k' = 1 /\ Makes({}, {"program"}, "attach shader")
     \/ pc = "attach shader" /\ k' = (IF k = 1 THEN 2 ELSE k)
        /\ Makes({"program", _shaders[k]}, {Attached[k]},
                 IF k = 1 THEN "attach shader" ELSE "link program")

LEMMA ShaderNames ==
  /\ _shaders[1] = "vertex" /\ _shaders[2] = "fragment"
  /\ Attached[1] = "vertex attached" /\ Attached[2] = "fragment attached"
  /\ Compiled[1] = "vertex compiled" /\ Compiled[2] = "fragment compiled"
  /\ Starts = {"program"} \cup Each(Attached)
  /\ EffectParts = {"program", "linked", "vertex", "fragment", "vertex compiled",
                    "fragment compiled", "vertex attached", "fragment attached"}
<1>1. /\ _shaders[1] = "vertex" /\ _shaders[2] = "fragment"
      /\ Attached[1] = "vertex attached" /\ Attached[2] = "fragment attached"
      /\ Compiled[1] = "vertex compiled" /\ Compiled[2] = "fragment compiled"
  BY DEF _shaders, Attached, Compiled
<1>2. 1 .. 2 = {1, 2}
  OBVIOUS
<1>3. Each(Attached) = {"vertex attached", "fragment attached"}
  BY <1>1, <1>2 DEF Each
<1>4. Each(_shaders) = {"vertex", "fragment"}
  BY <1>1, <1>2 DEF Each
<1>5. Each(Compiled) = {"vertex compiled", "fragment compiled"}
  BY <1>1, <1>2 DEF Each
<1>. QED
  BY <1>1, <1>3, <1>4, <1>5 DEF EffectParts, Starts

\* A status query that goes on, having failed or been answered.
LEMMA QueryStep ==
  ASSUME Counted, NEW ok \in BOOLEAN, NEW answer \in BOOLEAN, NEW needs, NEW part, NEW gone,
         This \in Serials, Attempt(ok, needs), needs \subseteq parts \/ failed \/ build = "Debug",
         Told(ok, answer, part), glError' \in {0, glError, This},
         IF answer THEN pc' # "thrown" /\ UNCHANGED parts
                   ELSE pc' = "thrown" /\ parts' = parts \ gone,
         ~failed => needs \subseteq parts,
         UNCHANGED <<object, blame>>
  PROVE  Answered(part) /\ (~failed' => ~failed)
<1>1. failed' \in BOOLEAN /\ faults' \in 0 .. MaxFaults
  BY AttemptCounts
<1>2. Counted'
  BY <1>1 DEF Counted
<1>3. ~failed' => ~failed /\ ok
  BY Unfailed
<1>4. Sound' /\ pc' # "thrown" => Sound /\ parts' = parts
  BY <1>3 DEF Sound, object
<1>5. ~failed' /\ pc' # "thrown" => part \in parts
  BY <1>3 DEF Told
<1>. QED
  BY <1>2, <1>3, <1>4, <1>5 DEF Answered, Makes

LEMMA EffectMoves ==
  ASSUME Inv, Types, EffectDue, kind = "effect", This \in Serials, k \in 1 .. 2, EffectNext
  PROVE  UNCHANGED object /\ EffectMove
<1>. USE DEF At, Goto, PartNames
<1>0. Kept /\ Counted
  BY DEF Types
<1>1. /\ {_shaders[k]} \in SUBSET PartNames /\ {Attached[k]} \in SUBSET PartNames
      /\ {Compiled[k]} \in SUBSET PartNames
  <2>1. k = 1 \/ k = 2
    OBVIOUS
  <2>. QED
    BY <2>1, ShaderNames
<1>2. CASE OpenShader
  <2>1. pc = "open" /\ UNCHANGED <<object, parts, k, glError, blame>>
        /\ \E ok \in BOOLEAN : Attempt(ok, {}) /\ pc' \in {"thrown", "create shader"}
    BY <1>2 DEF OpenShader, OpenFile
  <2>2. Passes({"thrown", "create shader"}) /\ (~failed' => ~failed)
    BY <1>0, <2>1, AttemptPasses, Unfailed
  <2>. QED
    BY <2>1, <2>2 DEF EffectMove
<1>3. CASE CreateShader
  <2>1. pc = "create shader" /\ UNCHANGED <<object, k>>
        /\ \E ok \in BOOLEAN : Checked(ok, {}, {_shaders[k]}, {}, "compile shader")
    BY <1>3 DEF CreateShader
  <2>2. Makes({}, {_shaders[k]}, "compile shader") /\ (~failed' => ~failed)
    BY <1>0, <1>1, <2>1, CheckedStep, CheckedFails
  <2>. QED
    BY <2>1, <2>2 DEF EffectMove
<1>4. CASE CompileShader
  <2>1. pc = "compile shader" /\ UNCHANGED <<object, k>>
    BY <1>4 DEF CompileShader
  <2>2. PICK ok \in BOOLEAN, made \in {{}, {Compiled[k]}} :
          Checked(ok, {_shaders[k]}, made, {}, "compile status")
    BY <1>4 DEF CompileShader
  <2>3. Makes({_shaders[k]}, made, "compile status") /\ (~failed' => ~failed)
    BY <1>0, <1>1, <2>1, <2>2, CheckedStep, CheckedFails
  <2>. QED
    BY <2>1, <2>3 DEF EffectMove
<1>5. CASE CompileStatus
  <2>. DEFINE place == IF k = 1 THEN "open" ELSE "create program"
  <2>1. PICK ok \in BOOLEAN, compiled \in BOOLEAN :
          /\ Attempt(ok, {_shaders[k]}) /\ Told(ok, compiled, Compiled[k])
          /\ glError' \in {0, glError, This}
          /\ IF compiled
             THEN pc' = place /\ k' = (IF k = 1 THEN 2 ELSE k) /\ UNCHANGED parts
             ELSE pc' = "thrown" /\ parts' = parts \ {_shaders[k]} /\ UNCHANGED k
    BY <1>5 DEF CompileStatus, Pending
  <2>2. pc = "compile status" /\ UNCHANGED <<object, blame>>
    BY <1>5 DEF CompileStatus
  <2>3. Sound => {_shaders[k]} \subseteq parts
    <3>1. k = 1 \/ k = 2
      OBVIOUS
    <3>. QED
      BY <2>2, <3>1, ShaderNames DEF EffectDue
  <2>4. Answered(Compiled[k]) /\ (~failed' => ~failed)
    BY <1>0, <2>1, <2>2, <2>3, QueryStep DEF Sound
  <2>5. pc' \in {place, "thrown"} /\ k' = IF pc' = "open" THEN 2 ELSE k
    BY <2>1
  <2>. QED
    BY <2>2, <2>4, <2>5 DEF EffectMove
<1>6. CASE CreateProgram
  <2>1. pc = "create program" /\ k' = 1 /\ UNCHANGED object
        /\ \E ok \in BOOLEAN : Checked(ok, {}, {"program"}, {}, "attach shader")
    BY <1>6 DEF CreateProgram
  <2>2. Makes({}, {"program"}, "attach shader") /\ (~failed' => ~failed)
    BY <1>0, <2>1, CheckedStep, CheckedFails
  <2>. QED
    BY <2>1, <2>2 DEF EffectMove
<1>7. CASE AttachShader
  <2>. DEFINE place == IF k = 1 THEN "attach shader" ELSE "link program"
  <2>1. pc = "attach shader" /\ UNCHANGED object /\ k' = (IF k = 1 THEN 2 ELSE k)
        /\ \E ok \in BOOLEAN : Checked(ok, {"program", _shaders[k]}, {Attached[k]}, {}, place)
    BY <1>7 DEF AttachShader
  <2>2. Makes({"program", _shaders[k]}, {Attached[k]}, place) /\ (~failed' => ~failed)
    BY <1>0, <1>1, <2>1, CheckedStep, CheckedFails
  <2>. QED
    BY <2>1, <2>2 DEF EffectMove
<1>8. CASE LinkProgram
  <2>1. pc = "link program" /\ UNCHANGED <<object, k>>
    BY <1>8 DEF LinkProgram
  <2>2. PICK ok \in BOOLEAN, made \in {{}, {"linked"}} :
          Checked(ok, Starts, made, {"program"} \cup Each(_shaders), "link status")
    BY <1>8, ShaderNames DEF LinkProgram
  <2>3. made \in SUBSET PartNames
    OBVIOUS
  <2>4. Makes(Starts, made, "link status") /\ (~failed' => ~failed)
    BY <1>0, <2>1, <2>2, <2>3, CheckedStep, CheckedFails
  <2>. QED
    BY <2>1, <2>4 DEF EffectMove
<1>9. CASE LinkStatus
  <2>1. PICK ok \in BOOLEAN, linked \in BOOLEAN :
          /\ Attempt(ok, {"program"}) /\ Told(ok, linked, "linked")
          /\ glError' \in {0, glError, This}
          /\ IF linked
             THEN pc' = "made" /\ UNCHANGED parts
             ELSE pc' = "thrown" /\ parts' = parts \ EffectParts
    BY <1>9 DEF LinkStatus, Pending
  <2>2. pc = "link status" /\ UNCHANGED <<object, k, blame>>
    BY <1>9 DEF LinkStatus
  <2>3. Sound => {"program"} \subseteq parts
    BY <2>2 DEF EffectDue, Linked
  <2>4. Answered("linked") /\ (~failed' => ~failed)
    BY <1>0, <2>1, <2>2, <2>3, QueryStep DEF Sound
  <2>5. pc' \in {"made", "thrown"}
    BY <2>1
  <2>. QED
    BY <2>2, <2>4, <2>5 DEF EffectMove
<1>. QED
  BY <1>2, <1>3, <1>4, <1>5, <1>6, <1>7, <1>8, <1>9 DEF EffectNext

LEMMA EffectStep ==
  ASSUME EffectDue, EffectMove, UNCHANGED object, kind = "effect", k \in 1 .. 2
  PROVE  EffectDue'
<1>1. SUFFICES ASSUME Sound', pc' # "thrown"
               PROVE  EffectDue'
  BY DEF EffectDue
<1>2. k = 1 \/ k = 2
  OBVIOUS
<1>. USE <1>1, <1>2, ShaderNames
     DEF EffectDue, EffectMove, Makes, Passes, Answered, Starts, Linked, object
<1>3. CASE pc = "open"
  BY <1>3
<1>4. CASE pc = "create shader"
  BY <1>4
<1>5. CASE pc = "compile shader"
  BY <1>5
<1>6. CASE pc = "compile status"
  BY <1>6
<1>7. CASE pc = "create program"
  BY <1>7
<1>8. CASE pc = "attach shader"
  BY <1>8
<1>9. CASE pc = "link program"
  BY <1>9
<1>10. CASE pc = "link status"
  BY <1>10
<1>. QED
  BY <1>3, <1>4, <1>5, <1>6, <1>7, <1>8, <1>9, <1>10

\* When no call failed an effect goes on only with what compiled and was linked.
LEMMA AnswersStep ==
  ASSUME EffectDue, AnswersDue, EffectMove, UNCHANGED object, kind = "effect", k \in 1 .. 2
  PROVE  AnswersDue'
<1>1. SUFFICES ASSUME ~failed', pc' # "thrown"
               PROVE  AnswersDue'
  BY DEF AnswersDue
<1>2. k = 1 \/ k = 2
  OBVIOUS
<1>3. ~failed /\ Sound /\ Sound'
  BY <1>1 DEF EffectMove, Sound
<1>. USE <1>1, <1>2, <1>3, ShaderNames
     DEF EffectDue, AnswersDue, EffectMove, Makes, Passes, Answered, Starts, Linked, Compiling,
         object
<1>4. CASE pc = "open"
  BY <1>4
<1>5. CASE pc = "create shader"
  BY <1>5
<1>6. CASE pc = "compile shader"
  BY <1>6
<1>7. CASE pc = "compile status"
  BY <1>7
<1>8. CASE pc = "create program"
  BY <1>8
<1>9. CASE pc = "attach shader"
  BY <1>9
<1>10. CASE pc = "link program"
  BY <1>10
<1>11. CASE pc = "link status"
  BY <1>11
<1>. QED
  BY <1>4, <1>5, <1>6, <1>7, <1>8, <1>9, <1>10, <1>11

LEMMA EffectMakes ==
  Inv /\ Types /\ EffectDue /\ AnswersDue /\ EffectNext
    => Counted' /\ Where' /\ Counting' /\ EffectDue' /\ AnswersDue'
<1>. SUFFICES ASSUME Inv, Types, EffectDue, AnswersDue, EffectNext
              PROVE  Counted' /\ Where' /\ Counting' /\ EffectDue' /\ AnswersDue'
  OBVIOUS
<1>1. kind = "effect" /\ pc \in EffectPlaces \cup {"open"}
  BY DEF EffectNext, OpenShader, CreateShader, CompileShader, CompileStatus, CreateProgram,
     AttachShader, LinkProgram, LinkStatus, At, EffectPlaces, Types, Where
<1>2. This \in Serials
  BY <1>1, ThisSerial DEF Types
<1>3. k \in 1 .. 2
  BY <1>1 DEF Types, Counting
<1>4. UNCHANGED object /\ EffectMove
  BY <1>1, <1>2, <1>3, EffectMoves
<1>5. k' \in 1 .. 2
  <2>1. k' \in {k, 1, 2}
    BY <1>4 DEF EffectMove
  <2>. QED
    BY <1>3, <2>1
<1>6. pc' \in EffectPlaces \cup {"open", "made", "thrown"}
  BY <1>4 DEF EffectMove, Makes, Passes, Answered, EffectPlaces
<1>7. Counted'
  BY <1>4 DEF EffectMove, Makes, Passes, Answered
<1>8. Counting'
  <2>1. k' \in 0 .. 6 \cup 1 .. MaxMeshes
    BY <1>5
  <2>2. kind' = "effect" /\ pc' \notin PicturePlaces \cup {"read file", "read mesh"}
    BY <1>1, <1>4, <1>6 DEF EffectPlaces, PicturePlaces, object
  <2>. QED
    BY <1>5, <2>1, <2>2 DEF Counting, Pictures
<1>9. Where'
  BY <1>1, <1>4, <1>6 DEF Where, FramePlaces, DepthPlaces, PicturePlaces, EffectPlaces,
     GeometryPlaces, Kinds, BufferKinds, object
<1>10. EffectDue' /\ AnswersDue'
  BY <1>1, <1>3, <1>4, EffectStep, AnswersStep
<1>. QED
  BY <1>7, <1>8, <1>9, <1>10

-----------------------------------------------------------------------------
(* The geometries.                                                          *)

Buffered == Sizes /\ Untouched /\ Reading /\ Adding /\ Agree /\ GeometryDue

LEMMA SequenceNames ==
  /\ Len(Shape) = 6 /\ Shape[1] = "position" /\ Shape[2] = "normal" /\ Shape[3] = "colour"
  /\ Shape[4] = "coords" /\ Shape[5] = "tangent" /\ Shape[6] = "binormal"
  /\ Len(Quad) = 2 /\ Quad[1] = "position" /\ Quad[2] = "coords"
  /\ Shape \in Seq(Attributes) /\ Quad \in Seq(Attributes)
  BY DEF Shape, Quad, Attributes

LEMMA Nowhere == DOMAIN <<>> = {}
  OBVIOUS

LEMMA NoIndex == ASSUME NEW b, b = 0 PROVE 0 .. b - 1 = {}
  OBVIOUS

LEMMA ZeroNat == 0 \in Nat
  OBVIOUS

LEMMA Heads ==
  ASSUME NEW S, NEW s \in Seq(S), s # <<>>
  PROVE  /\ Head(s) = s[1] /\ s[1] \in S /\ Tail(s) \in Seq(S)
         /\ 1 \in 1 .. Len(s) /\ Len(s) \in Nat \ {0} /\ Len(Tail(s)) = Len(s) - 1
         /\ \A n \in 1 .. Len(s) - 1 : Tail(s)[n] = s[n + 1]
  OBVIOUS

LEMMA Tails ==
  ASSUME NEW S, NEW s \in Seq(S), s # <<>>, NEW t, t = Tail(s)
  PROVE  /\ t \in Seq(S) /\ (t # <<>> => 1 \in 1 .. Len(t) /\ Head(t) = t[1])
         /\ \A n \in 2 .. Len(t) : n \in 1 .. Len(t)
         /\ \A n \in 1 .. Len(t) :
              n + 1 \in 1 .. Len(s) /\ n + 1 \in 2 .. Len(s) /\ t[n] = s[n + 1]
         /\ \A n \in 1 .. Len(s) : s[n] = Head(s) \/ \E m \in 1 .. Len(t) : t[m] = s[n]
<1>1. t \in Seq(S) /\ (t # <<>> => 1 \in 1 .. Len(t) /\ Head(t) = t[1])
      /\ \A n \in 2 .. Len(t) : n \in 1 .. Len(t)
  OBVIOUS
<1>2. \A n \in 1 .. Len(t) : n + 1 \in 1 .. Len(s) /\ n + 1 \in 2 .. Len(s) /\ t[n] = s[n + 1]
  OBVIOUS
<1>3. ASSUME NEW n \in 1 .. Len(s), n # 1
      PROVE  \E m \in 1 .. Len(t) : t[m] = s[n]
  <2>1. n - 1 \in 1 .. Len(t) /\ t[n - 1] = s[n]
    BY <1>3
  <2>. QED
    BY <2>1
<1>. QED
  BY <1>1, <1>2, <1>3, Heads

LEMMA Extended ==
  ASSUME NEW b \in Nat, NEW v \in Nat \ {0}
  PROVE  (0 .. b - 1) \cup {b + n : n \in 0 .. v - 1} = 0 .. (b + v) - 1
<1>. DEFINE new == {b + n : n \in 0 .. v - 1}
<1>1. ASSUME NEW x \in 0 .. (b + v) - 1, x \notin 0 .. b - 1
      PROVE  x \in new
  <2>1. x - b \in 0 .. v - 1 /\ x = b + (x - b)
    BY <1>1
  <2>. QED
    BY <2>1
<1>2. ASSUME NEW x \in new
      PROVE  x \in 0 .. (b + v) - 1
  OBVIOUS
<1>3. 0 .. b - 1 \subseteq 0 .. (b + v) - 1
  OBVIOUS
<1>. HIDE DEF new
<1>. QED
  BY <1>1, <1>2, <1>3

\* Before anything of a geometry is read.
Unread ==
  NewGeometry /\ pc \notin {"add buffer", "fill buffer"} /\ (kind = "geometry" => pc # "made")

LEMMA NewBuffered == Unread => Buffered
<1>. SUFFICES ASSUME NewGeometry, pc \notin {"add buffer", "fill buffer"},
                     kind = "geometry" => pc # "made"
              PROVE  Buffered
  BY DEF Unread
<1>1. lists = [a \in Attributes |-> 0] /\ DOMAIN buffers = {}
  <2>1. buffers = <<>>
    BY DEF NewGeometry
  <2>2. DOMAIN buffers = {}
    BY <2>1, Nowhere, Zenon
  <2>. QED
    BY <2>2 DEF NewGeometry, NoLists
<1>2. vertex_begin = 0 /\ indices = {} /\ mixed = {} /\ todo = <<>> /\ vertices = 0
      /\ buffers = <<>> /\ hollow = {}
  BY DEF NewGeometry
<1>3. Sizes
  <2>1. lists \in [Attributes -> Nat] /\ hollow \subseteq Attributes
    BY <1>1, <1>2
  <2>2. vertex_begin \in Nat /\ vertices \in Nat /\ mixed \subseteq {"normal", "coords"}
    BY <1>2
  <2>3. todo \in Seq(Attributes)
    BY <1>2, EmptySeq, Zenon
  <2>. QED
    BY <1>1, <2>1, <2>2, <2>3 DEF Sizes
<1>4. Untouched
  BY DEF Untouched
<1>5. Reading
  <2>1. 0 .. vertex_begin - 1 = {}
    BY <1>2, NoIndex, Zenon
  <2>2. \A a \in {"position", "colour", "tangent", "binormal"} : lists[a] = 0
    BY <1>1 DEF Attributes
  <2>. QED
    BY <1>2, <2>1, <2>2 DEF Reading
<1>6. Adding
  BY DEF Adding
<1>7. Agree
  BY <1>1, <1>2 DEF Agree
<1>8. GeometryDue
  BY <1>1, <1>2 DEF GeometryDue
<1>. QED
  BY <1>3, <1>4, <1>5, <1>6, <1>7, <1>8 DEF Buffered

\* A step that finds nothing of a geometry and leaves it so.
LEMMA FreshKeeps ==
  ASSUME NewGeometry, UNCHANGED geomVars, pc' \notin {"add buffer", "fill buffer"},
         kind' = "geometry" => pc' # "made"
  PROVE  Buffered'
<1>1. Unread'
  BY DEF Unread, NewGeometry, geomVars, lists_, geometry, NoLists
<1>. QED
  BY <1>1, NewBuffered, PTL

LEMMA FromShapeKeeps ==
  ASSUME Types, Buffered, FromShape
  PROVE  Buffered'
<1>1. /\ pc = "open" /\ pc' = "add buffer" /\ kind = "geometry"
      /\ UNCHANGED <<object, parts, failed>>
      /\ UNCHANGED <<vertex_begin, indices, mixed, vertices, buffers, hollow>>
  BY DEF FromShape, At, Goto
<1>2. NewGeometry
  BY <1>1 DEF Buffered, Untouched
<1>3. PICK s \in {Shape, Quad} :
        /\ todo' = s
        /\ lists' = [a \in Attributes |-> IF \E n \in DOMAIN s : s[n] = a THEN 1 ELSE 0]
  BY DEF FromShape
<1>4. /\ s \in Seq(Attributes) /\ DOMAIN s = 1 .. Len(s) /\ Len(s) >= 1 /\ s[1] = "position"
      /\ s # <<>>
      /\ \A n \in 2 .. Len(s) : s[n] # "position"
      /\ \A n \in 1 .. Len(s) : s[n] = "tangent" => s = Shape
  <2>1. CASE s = Shape
    BY <2>1, SequenceNames
  <2>2. CASE s = Quad
    <3>1. s \in Seq(Attributes) /\ Len(s) = 2 /\ s[1] = "position" /\ s[2] = "coords"
      BY <2>2, SequenceNames
    <3>. QED
      BY <3>1
  <2>. QED
    BY <2>1, <2>2
<1>5. \A a \in Attributes : lists'[a] = IF \E n \in 1 .. Len(s) : s[n] = a THEN 1 ELSE 0
  BY <1>3, <1>4
<1>6. lists' \in [Attributes -> Nat]
  BY <1>3
<1>7. \A n \in 1 .. Len(s) : lists'[s[n]] = 1
  BY <1>4, <1>5
<1>8. s = Shape => lists'["normal"] = 1
  BY <1>7, SequenceNames
<1>9. Sizes'
  BY <1>1, <1>3, <1>4, <1>6 DEF Buffered, Sizes
<1>10. Untouched' /\ Reading'
  BY <1>1 DEF Untouched, Reading
<1>11. First' /\ lists'["position"] = 1
  BY <1>3, <1>4, <1>7 DEF First
<1>12. Adding'
  <2>1. vertices' = 0 /\ buffers' = <<>> /\ hollow' = {} /\ indices' = {} /\ pc' # "fill buffer"
    BY <1>1, <1>2 DEF NewGeometry
  <2>2. \A n \in 1 .. Len(s) : s[n] = "tangent" => lists'["normal"] = lists'["position"]
    BY <1>4, <1>8, <1>11
  <2>3. \A n \in 1 .. Len(todo') : lists'[todo'[n]] = lists'["position"]
    BY <1>3, <1>7, <1>11
  <2>4. \A n \in 2 .. Len(todo') : todo'[n] # "position"
    BY <1>3, <1>4
  <2>5. (\E n \in 1 .. Len(todo') : todo'[n] = "tangent") => Normals'
    BY <1>3, <2>2 DEF Normals
  <2>6. lists'["position"] >= 1
    BY <1>11
  <2>7. vertices' = IF First' THEN 0 ELSE lists'["position"]
    BY <1>11, <2>1
  <2>. QED
    BY <2>1, <2>3, <2>4, <2>5, <2>6, <2>7 DEF Adding
<1>13. Agree'
  <2>1. DOMAIN buffers' = {} /\ indices' = {}
    <3>1. buffers' = <<>> /\ indices' = {}
      BY <1>1, <1>2 DEF NewGeometry
    <3>. QED
      BY <3>1, Nowhere, Zenon
  <2>2. Head(s) = "position"
    BY <1>4, Heads
  <2>3. Head(todo') # "tangent"
    BY <1>3, <2>2
  <2>. QED
    BY <1>1, <2>1, <2>3 DEF Agree
<1>14. GeometryDue'
  <2>1. \A a \in Attributes : lists'[a] > 0 => \E n \in 1 .. Len(s) : s[n] = a
    BY <1>5
  <2>2. lists'["normal"] > 0 => s = Shape
    <3>1. ASSUME s = Quad
          PROVE  \A n \in 1 .. Len(s) : s[n] # "normal"
      <4>1. Len(s) = 2 /\ s[1] = "position" /\ s[2] = "coords"
        BY <3>1, SequenceNames
      <4>. QED
        BY <4>1
    <3>. QED
      BY <1>5, <3>1 DEF Attributes
  <2>3. s = Shape => \A a \in {"tangent", "binormal"} : \E n \in 1 .. Len(s) : s[n] = a
    <3>1. 5 \in 1 .. 6 /\ 6 \in 1 .. 6
      OBVIOUS
    <3>2. s = Shape => Len(s) = 6 /\ s[5] = "tangent" /\ s[6] = "binormal"
      BY SequenceNames
    <3>3. s = Shape => /\ \E n \in 1 .. Len(s) : s[n] = "tangent"
                       /\ \E n \in 1 .. Len(s) : s[n] = "binormal"
      BY <3>1, <3>2, Zenon
    <3>. QED
      BY <3>3
  <2>4. \A a \in Wanted' : \E n \in 1 .. Len(s) : s[n] = a
    BY <2>1, <2>2, <2>3 DEF Wanted
  <2>. QED
    BY <1>1, <1>2, <1>3, <1>11, <2>4 DEF GeometryDue, NewGeometry, Excused
<1>. QED
  BY <1>9, <1>10, <1>12, <1>13, <1>14 DEF Buffered

\* The file's opening and reading leave a geometry as it was made.
LEMMA OpenModelKeeps ==
  ASSUME Types, Buffered, OpenModel
  PROVE  Buffered'
<1>1. pc = "open" /\ pc' \in {"thrown", "read file"} /\ UNCHANGED <<kind, parts, geomVars>>
      /\ \E ok \in BOOLEAN : Attempt(ok, {})
  BY DEF OpenModel, OpenFile, At, Goto, object
<1>2. NewGeometry
  BY <1>1 DEF Buffered, Untouched
<1>3. ~failed' => ~failed
  BY <1>1, Unfailed
<1>. QED
  BY <1>1, <1>2, <1>3, FreshKeeps

LEMMA ReadFileKeeps ==
  ASSUME Types, Buffered, ReadFile
  PROVE  Buffered'
<1>1. pc = "read file" /\ pc' \in {"thrown", "read mesh"} /\ UNCHANGED <<kind, parts, geomVars>>
      /\ \E ok \in BOOLEAN : Attempt(ok, {})
  BY DEF ReadFile, At, Goto, object
<1>2. NewGeometry
  BY <1>1 DEF Buffered, Untouched
<1>3. ~failed' => ~failed
  BY <1>1, Unfailed
<1>. QED
  BY <1>1, <1>2, <1>3, FreshKeeps

PositionsFirst(t) == t # <<>> /\ t[1] = "position" /\ \A n \in 2 .. Len(t) : t[n] # "position"

\* The lists that are added, in any order.
Names(t) == {t[n] : n \in 1 .. Len(t)}

\* A model's positions are added first.
LEMMA ModelLists ==
  ASSUME NEW normals \in Nat, NEW coords \in Nat, NEW t, t = Model(normals, coords)
  PROVE  /\ t \in Seq(Attributes) /\ PositionsFirst(t)
         /\ Names(t) = {"position", "colour"}
                         \cup (IF normals # 0 THEN {"normal", "tangent", "binormal"} ELSE {})
                         \cup (IF coords # 0 THEN {"coords"} ELSE {})
<1>1. CASE normals # 0 /\ coords # 0
  <2>1. t = <<"position", "colour", "normal", "tangent", "binormal", "coords">>
    BY <1>1 DEF Model
  <2>2. /\ t \in Seq(Attributes) /\ Len(t) = 6
        /\ t[1] = "position" /\ t[2] = "colour" /\ t[3] = "normal"
        /\ t[4] = "tangent" /\ t[5] = "binormal" /\ t[6] = "coords"
    BY <2>1 DEF Attributes
  <2>3. 1 .. Len(t) = {1, 2, 3, 4, 5, 6}
    BY <2>2
  <2>4. Names(t) = {t[1], t[2], t[3], t[4], t[5], t[6]}
    BY <2>3 DEF Names
  <2>5. PositionsFirst(t)
    <3>1. \A n \in 2 .. Len(t) : n \in {2, 3, 4, 5, 6}
      BY <2>2
    <3>2. t # <<>>
      <4>1. Len(<<>>) = 0 /\ Len(t) # 0
        BY <2>2
      <4>. QED
        BY <4>1
    <3>3. \A n \in {2, 3, 4, 5, 6} : t[n] # "position"
      BY <2>2
    <3>. QED
      BY <2>2, <3>1, <3>2, <3>3 DEF PositionsFirst
  <2>6. Names(t) = {"position", "colour"} \cup {"normal", "tangent", "binormal"} \cup {"coords"}
    BY <2>2, <2>4
  <2>. QED
    BY <1>1, <2>2, <2>5, <2>6
<1>2. CASE normals # 0 /\ coords = 0
  <2>1. t = <<"position", "colour", "normal", "tangent", "binormal">>
    BY <1>2 DEF Model
  <2>2. /\ t \in Seq(Attributes) /\ Len(t) = 5
        /\ t[1] = "position" /\ t[2] = "colour" /\ t[3] = "normal"
        /\ t[4] = "tangent" /\ t[5] = "binormal"
    BY <2>1 DEF Attributes
  <2>3. 1 .. Len(t) = {1, 2, 3, 4, 5}
    BY <2>2
  <2>4. Names(t) = {t[1], t[2], t[3], t[4], t[5]}
    BY <2>3 DEF Names
  <2>5. PositionsFirst(t)
    <3>1. \A n \in 2 .. Len(t) : n \in {2, 3, 4, 5}
      BY <2>2
    <3>2. t # <<>>
      <4>1. Len(<<>>) = 0 /\ Len(t) # 0
        BY <2>2
      <4>. QED
        BY <4>1
    <3>3. \A n \in {2, 3, 4, 5} : t[n] # "position"
      BY <2>2
    <3>. QED
      BY <2>2, <3>1, <3>2, <3>3 DEF PositionsFirst
  <2>. QED
    BY <1>2, <2>2, <2>4, <2>5
<1>3. CASE normals = 0 /\ coords # 0
  <2>1. t = <<"position", "colour", "coords">>
    BY <1>3 DEF Model
  <2>2. /\ t \in Seq(Attributes) /\ Len(t) = 3
        /\ t[1] = "position" /\ t[2] = "colour" /\ t[3] = "coords"
    BY <2>1 DEF Attributes
  <2>3. 1 .. Len(t) = {1, 2, 3}
    BY <2>2
  <2>4. Names(t) = {t[1], t[2], t[3]}
    BY <2>3 DEF Names
  <2>5. PositionsFirst(t)
    <3>1. \A n \in 2 .. Len(t) : n \in {2, 3}
      BY <2>2
    <3>2. t # <<>>
      <4>1. Len(<<>>) = 0 /\ Len(t) # 0
        BY <2>2
      <4>. QED
        BY <4>1
    <3>3. \A n \in {2, 3} : t[n] # "position"
      BY <2>2
    <3>. QED
      BY <2>2, <3>1, <3>2, <3>3 DEF PositionsFirst
  <2>. QED
    BY <1>3, <2>2, <2>4, <2>5
<1>4. CASE normals = 0 /\ coords = 0
  <2>1. t = <<"position", "colour">>
    BY <1>4 DEF Model
  <2>2. /\ t \in Seq(Attributes) /\ Len(t) = 2
        /\ t[1] = "position" /\ t[2] = "colour"
    BY <2>1 DEF Attributes
  <2>3. 1 .. Len(t) = {1, 2}
    BY <2>2
  <2>4. Names(t) = {t[1], t[2]}
    BY <2>3 DEF Names
  <2>5. PositionsFirst(t)
    <3>1. \A n \in 2 .. Len(t) : n \in {2}
      BY <2>2
    <3>2. t # <<>>
      <4>1. Len(<<>>) = 0 /\ Len(t) # 0
        BY <2>2
      <4>. QED
        BY <4>1
    <3>3. \A n \in {2} : t[n] # "position"
      BY <2>2
    <3>. QED
      BY <2>2, <3>1, <3>2, <3>3 DEF PositionsFirst
  <2>. QED
    BY <1>4, <2>2, <2>4, <2>5
<1>. QED
  BY <1>1, <1>2, <1>3, <1>4

LEMMA ReadMeshKeeps ==
  ASSUME Types, Buffered, ReadMesh
  PROVE  Buffered'
<1>1. pc = "read mesh" /\ kind = "geometry"
      /\ UNCHANGED <<object, parts, failed, vertices, buffers, hollow>>
  BY DEF ReadMesh, At, Types, Where, GeometryPlaces
<1>2. PICK v \in 1 .. MaxVertices, normals \in BOOLEAN, textured \in BOOLEAN, last \in BOOLEAN,
           stray \in SUBSET {Stray} :
        /\ lists' = [lists EXCEPT !["position"] = @ + v, !["colour"] = @ + v,
                                  !["normal"] = IF normals THEN @ + v ELSE @,
                                  !["coords"] = IF textured THEN @ + v ELSE @]
        /\ indices' = indices \cup {vertex_begin + n : n \in 0 .. v - 1} \cup stray
        /\ vertex_begin' = vertex_begin + v
        /\ mixed' = {a \in {"normal", "coords"} : lists'[a] \notin {0, lists'["position"]}}
        /\ IF last
           THEN /\ Goto("add buffer")
                /\ todo' = Model(lists'["normal"], lists'["coords"])
           ELSE UNCHANGED <<pc, todo>>
  BY DEF ReadMesh
<1>3. v \in Nat \ {0} /\ vertex_begin \in Nat /\ lists \in [Attributes -> Nat]
  <2>1. v \in Nat \ {0}
    BY ModelAssumption
  <2>. QED
    BY <2>1 DEF Buffered, Sizes
<1>4. /\ lists["position"] = vertex_begin /\ lists["colour"] = vertex_begin
      /\ lists["tangent"] = 0 /\ lists["binormal"] = 0
      /\ indices \ {Stray} = 0 .. vertex_begin - 1
      /\ todo = <<>> /\ vertices = 0 /\ buffers = <<>> /\ hollow = {}
  BY <1>1 DEF Buffered, Reading
<1>5. /\ lists' \in [Attributes -> Nat]
      /\ lists'["position"] = vertex_begin + v /\ lists'["colour"] = vertex_begin + v
      /\ lists'["tangent"] = 0 /\ lists'["binormal"] = 0
  <2>1. PICK m \in Nat, c \in Nat :
          lists' = [lists EXCEPT !["position"] = @ + v, !["colour"] = @ + v,
                                 !["normal"] = m, !["coords"] = c]
    <3>1. /\ (IF normals THEN lists["normal"] + v ELSE lists["normal"]) \in Nat
          /\ (IF textured THEN lists["coords"] + v ELSE lists["coords"]) \in Nat
      BY <1>3 DEF Attributes
    <3>. QED
      BY <1>2, <3>1
  <2>2. lists' \in [Attributes -> Nat]
    BY <1>3, <2>1 DEF Attributes
  <2>3. lists'["position"] = vertex_begin + v /\ lists'["colour"] = vertex_begin + v
    BY <1>3, <1>4, <2>1 DEF Attributes
  <2>4. lists'["tangent"] = 0 /\ lists'["binormal"] = 0
    BY <1>3, <1>4, <2>1 DEF Attributes
  <2>. QED
    BY <2>2, <2>3, <2>4
<1>6. indices' \ {Stray} = 0 .. (vertex_begin + v) - 1
  <2>1. (0 .. vertex_begin - 1) \cup {vertex_begin + n : n \in 0 .. v - 1}
          = 0 .. (vertex_begin + v) - 1
    BY <1>3, Extended
  <2>2. Stray \notin 0 .. (vertex_begin + v) - 1
    BY <1>3 DEF Stray
  <2>. DEFINE new == {vertex_begin + n : n \in 0 .. v - 1}
  <2>3. Stray \notin new
    BY <2>1, <2>2
  <2>. HIDE DEF new
  <2>4. indices' \ {Stray} = (indices \ {Stray}) \cup new
    BY <1>2, <2>3 DEF new
  <2>. QED
    BY <1>4, <2>1, <2>4 DEF new
<1>7. /\ vertex_begin' = vertex_begin + v /\ vertex_begin' \in Nat
      /\ mixed' \subseteq {"normal", "coords"}
  <2>1. vertex_begin + v \in Nat
    BY <1>3
  <2>. QED
    BY <1>2, <2>1
<1>8. Untouched'
  BY <1>1, <1>2 DEF Untouched, Goto
<1>9. vertices' = 0 /\ buffers' = <<>> /\ hollow' = {} /\ DOMAIN buffers' = {}
  BY <1>1, <1>4, Nowhere, Zenon
<1>10. CASE ~last
  <2>1. pc' = "read mesh" /\ todo' = <<>>
    BY <1>1, <1>2, <1>4, <1>10
  <2>2. Sizes'
    <3>1. todo' \in Seq(Attributes) /\ vertices' \in Nat
      BY <1>9, <2>1, EmptySeq, ZeroNat, Zenon
    <3>. QED
      BY <1>5, <1>7, <1>9, <3>1 DEF Sizes
  <2>3. Reading'
    BY <1>5, <1>6, <1>7, <1>9, <2>1 DEF Reading
  <2>4. Adding' /\ Agree' /\ GeometryDue'
    BY <1>9, <2>1 DEF Adding, Agree, GeometryDue
  <2>. QED
    BY <1>8, <2>2, <2>3, <2>4 DEF Buffered
<1>11. CASE last
  <2>0. pc' = "add buffer" /\ todo' = Model(lists'["normal"], lists'["coords"])
    BY <1>2, <1>11 DEF Goto
  <2>1. PICK has \in Nat, maps \in Nat, t \in {todo'} :
          /\ has = lists'["normal"] /\ maps = lists'["coords"]
          /\ todo' = t /\ t = Model(has, maps)
    BY <1>5, <2>0 DEF Attributes
  <2>2. /\ t \in Seq(Attributes) /\ PositionsFirst(t)
        /\ Names(t) = {"position", "colour"}
                        \cup (IF has # 0 THEN {"normal", "tangent", "binormal"} ELSE {})
                        \cup (IF maps # 0 THEN {"coords"} ELSE {})
    BY <2>1, ModelLists
  <2>3. First'
    BY <2>1, <2>2 DEF First, PositionsFirst
  <2>4. Sizes'
    BY <1>1, <1>5, <1>7, <1>9, <2>1, <2>2 DEF Sizes, Buffered
  <2>5. Reading'
    BY <2>0 DEF Reading
  <2>6. /\ has # 0 => "normal" \in mixed' \/ lists'["normal"] = lists'["position"]
        /\ maps # 0 => "coords" \in mixed' \/ lists'["coords"] = lists'["position"]
    BY <1>2, <2>1
  <2>7. Adding'
    <3>1. lists'["position"] >= 1
      BY <1>3, <1>5
    <3>2. \A n \in 1 .. Len(t) : \/ t[n] \in mixed'
                                 \/ t[n] \in {"tangent", "binormal"}
                                 \/ lists'[t[n]] = lists'["position"]
      <4>1. \A n \in 1 .. Len(t) :
              \/ t[n] \in {"position", "colour", "tangent", "binormal"}
              \/ t[n] = "normal" /\ has # 0
              \/ t[n] = "coords" /\ maps # 0
        BY <2>2 DEF Names
      <4>. QED
        BY <1>5, <2>6, <4>1
    <3>3. (\E n \in 1 .. Len(t) : t[n] = "tangent") => Normals'
      BY <2>2, <2>6 DEF Normals, Names
    <3>4. vertices' = IF First' THEN 0 ELSE lists'["position"]
      BY <1>9, <2>3
    <3>5. indices' \ {Stray} = 0 .. lists'["position"] - 1
      BY <1>5, <1>6
    <3>. QED
      BY <1>9, <2>1, <2>0, <2>2, <3>1, <3>2, <3>3, <3>4, <3>5 DEF Adding, PositionsFirst
  <2>8. Agree'
    <3>1. Head(todo') # "tangent"
      BY <2>1, <2>2, Heads DEF PositionsFirst
    <3>. QED
      BY <1>9, <2>0, <3>1 DEF Agree
  <2>9. GeometryDue'
    <3>1. \A a \in Wanted' : \E n \in 1 .. Len(t) : t[n] = a
      <4>1. \A a \in Wanted' :
              \/ a \in {"position", "colour"}
              \/ a \in {"normal", "tangent", "binormal"} /\ has # 0
              \/ a = "coords" /\ maps # 0
        BY <1>5, <2>1 DEF Wanted, Attributes
      <4>. QED
        BY <2>2, <4>1 DEF Names
    <3>. QED
      BY <1>9, <2>1, <2>0, <2>3, <3>1 DEF GeometryDue
  <2>. QED
    BY <1>8, <2>4, <2>5, <2>7, <2>8, <2>9 DEF Buffered
<1>. QED
  BY <1>10, <1>11

\* What generate_tb reads past the normals changes no list: only tangents and binormals suffer.
LEMMA GenerateTbKeeps ==
  ASSUME Types, Buffered, GenerateTb
  PROVE  Buffered'
<1>1. /\ pc = "add buffer" /\ todo # <<>> /\ Head(todo) = "tangent" /\ lists["normal"] < vertices
      /\ UNCHANGED <<object, parts, failed, lists_, todo, vertices, buffers>>
      /\ pc' \in {"thrown", "add buffer"}
      /\ hollow' \in {hollow, hollow \cup {"tangent", "binormal"}}
  BY DEF GenerateTb, Overruns, At, Goto
<1>2. 1 \in 1 .. Len(todo) /\ Head(todo) = todo[1]
  BY <1>1, Heads DEF Buffered, Sizes
<1>3. ~First /\ vertices = lists["position"] /\ "normal" \in mixed
  <2>1. ~First
    BY <1>1, <1>2 DEF First
  <2>2. vertices = lists["position"] /\ Normals
    BY <1>1, <1>2, <2>1 DEF Buffered, Adding
  <2>3. lists["normal"] \in Nat
    BY DEF Buffered, Sizes, Attributes
  <2>4. vertices \in Nat
    BY DEF Buffered, Sizes
  <2>5. lists["normal"] # vertices
    <3>1. lists["normal"] < vertices
      BY DEF GenerateTb, Overruns
    <3>. QED
      BY <2>3, <2>4, <3>1
  <2>. QED
    BY <2>1, <2>2, <2>5 DEF Normals
<1>. USE DEF lists_, object
<1>4. Sizes'
  BY <1>1 DEF Buffered, Sizes, Attributes
<1>5. Untouched' /\ Reading'
  BY <1>1 DEF Untouched, Reading
<1>6. Adding'
  BY <1>1, <1>3 DEF Buffered, Adding, First, Normals
<1>7. Agree'
  BY <1>1 DEF Buffered, Agree
<1>8. GeometryDue'
  BY <1>1, <1>3 DEF Buffered, GeometryDue, Wanted, Excused, First
<1>. QED
  BY <1>4, <1>5, <1>6, <1>7, <1>8 DEF Buffered

LEMMA GenVertexArrayKeeps ==
  ASSUME Inv, Types, Buffered, GenVertexArray
  PROVE  Buffered'
<1>1. pc = "add buffer" /\ todo # <<>> /\ UNCHANGED <<object, geomVars>>
  BY DEF GenVertexArray, At
<1>2. PICK ok \in BOOLEAN : Checked(ok, {}, {"vertex array"}, {}, "fill buffer")
  BY DEF GenVertexArray
<1>3. pc' \in {"thrown", "fill buffer"} /\ (~failed' => ~failed)
  BY <1>2, Unfailed DEF Checked, Goto
<1>4. ~failed' /\ pc' # "thrown" => "vertex array" \in parts'
  <2>1. ~failed' => ok
    BY <1>2 DEF Checked, Attempt
  <2>. QED
    BY <1>2, <2>1 DEF Checked, Made, Goto
<1>. USE DEF geomVars, lists_, geometry, object
<1>5. Sizes' /\ Untouched' /\ Reading'
  BY <1>1, <1>3 DEF Buffered, Sizes, Untouched, Reading
<1>6. Adding'
  BY <1>1, <1>3 DEF Buffered, Adding, First, Normals
<1>7. Agree'
  BY <1>1, <1>3 DEF Buffered, Agree
<1>8. GeometryDue'
  BY <1>1, <1>3, <1>4 DEF Buffered, GeometryDue, Wanted, First
<1>. QED
  BY <1>5, <1>6, <1>7, <1>8 DEF Buffered

\* What the next list to add is.
LEMMA NextList ==
  ASSUME Types, Buffered, Filling
  PROVE  /\ pc \in {"add buffer", "fill buffer"} /\ kind = "geometry"
         /\ todo # <<>> /\ Head(todo) = todo[1] /\ todo[1] \in Attributes
         /\ Tail(todo) \in Seq(Attributes) /\ 1 \in 1 .. Len(todo)
         /\ lists["position"] \in Nat \ {0}
         /\ ~failed => "vertex array" \in parts
<1>1. pc \in {"add buffer", "fill buffer"} /\ todo # <<>> /\ todo \in Seq(Attributes)
  BY DEF Filling, At, Buffered, Adding, Sizes
<1>2. lists["position"] \in Nat \ {0}
  <2>1. lists["position"] \in Nat
    BY DEF Buffered, Sizes, Attributes
  <2>2. lists["position"] >= 1
    BY <1>1 DEF Buffered, Adding
  <2>. QED
    BY <2>1, <2>2
<1>3. kind = "geometry"
  BY <1>1 DEF Types, Where, GeometryPlaces
<1>4. ~failed => "vertex array" \in parts
  BY <1>1, <1>3 DEF Filling, At, Buffered, GeometryDue
<1>. QED
  BY <1>1, <1>2, <1>3, <1>4, Heads

\* Of the lists that remain.
LEMMA Remaining ==
  ASSUME Types, Buffered, Filling, todo' = Tail(todo), UNCHANGED lists_
  PROVE  /\ ~First'
         /\ \A n \in 2 .. Len(todo') : todo'[n] # "position"
         /\ \A n \in 1 .. Len(todo') :
              \/ todo'[n] \in mixed'
              \/ todo'[n] \in {"tangent", "binormal"}
              \/ lists'[todo'[n]] = lists'["position"]
         /\ (\E n \in 1 .. Len(todo') : todo'[n] = "tangent") => Normals'
         /\ todo' # <<>> /\ Head(todo') = "tangent" => Normals'
         /\ \A a : (\E n \in 1 .. Len(todo) : todo[n] = a)
                   => a = Head(todo) \/ \E n \in 1 .. Len(todo') : todo'[n] = a
<1>1. /\ todo' # <<>> => 1 \in 1 .. Len(todo') /\ Head(todo') = todo'[1]
      /\ \A n \in 2 .. Len(todo') : n \in 1 .. Len(todo')
      /\ \A n \in 1 .. Len(todo') :
           n + 1 \in 1 .. Len(todo) /\ n + 1 \in 2 .. Len(todo) /\ todo'[n] = todo[n + 1]
      /\ \A n \in 1 .. Len(todo) :
           todo[n] = Head(todo) \/ \E m \in 1 .. Len(todo') : todo'[m] = todo[n]
  <2>1. todo \in Seq(Attributes) /\ todo # <<>>
    BY NextList DEF Buffered, Sizes
  <2>. QED
    BY <2>1, Tails
<1>2. /\ \A n \in 2 .. Len(todo) : todo[n] # "position"
      /\ \A n \in 1 .. Len(todo) :
           \/ todo[n] \in mixed
           \/ todo[n] \in {"tangent", "binormal"}
           \/ lists[todo[n]] = lists["position"]
      /\ (\E n \in 1 .. Len(todo) : todo[n] = "tangent") => Normals
  BY NextList DEF Buffered, Adding
<1>3. \A n \in 1 .. Len(todo') : todo'[n] # "position"
  BY <1>1, <1>2
<1>4. ~First'
  BY <1>1, <1>3 DEF First
<1>5. Normals => Normals'
  BY DEF Normals, lists_
<1>6. (\E n \in 1 .. Len(todo') : todo'[n] = "tangent") => Normals'
  BY <1>1, <1>2, <1>5
<1>7. todo' # <<>> /\ Head(todo') = "tangent" => Normals'
  BY <1>1, <1>6
<1>. QED
  BY <1>1, <1>2, <1>3, <1>4, <1>6, <1>7 DEF lists_

LEMMA NextLength ==
  ASSUME Types, Buffered, Filling
  PROVE  /\ First => vertices = 0 /\ Length(Head(todo)) = lists["position"]
         /\ ~First => vertices = lists["position"]
         /\ vertices # 0 => ~First
         /\ Refuses(Head(todo)) => Head(todo) \in mixed /\ ~First
         /\ ~Refuses(Head(todo)) /\ ~First => Length(Head(todo)) = lists["position"]
<1>1. vertices = (IF First THEN 0 ELSE lists["position"]) /\ lists["position"] # 0
  BY NextList DEF Buffered, Adding
<1>2. \/ Head(todo) \in mixed
      \/ Head(todo) \in {"tangent", "binormal"}
      \/ lists[Head(todo)] = lists["position"]
  <2>1. 1 \in 1 .. Len(todo)
    BY NextList
  <2>. QED
    BY <2>1, NextList DEF Buffered, Adding
<1>3. First => Head(todo) = "position"
  BY NextList DEF First
<1>. QED
  BY <1>1, <1>2, <1>3 DEF Length, Refuses

LEMMA RefuseBufferKeeps ==
  ASSUME Types, Buffered, RefuseBuffer
  PROVE  Buffered'
<1>1. Filling /\ Refuses(Head(todo)) /\ pc' = "add buffer" /\ todo' = Tail(todo)
      /\ UNCHANGED <<object, parts, failed, lists_, vertices, buffers, hollow>>
  BY DEF RefuseBuffer, Goto
<1>2. Head(todo) \in mixed /\ ~First /\ vertices = lists["position"]
  BY <1>1, NextLength
<1>3. /\ kind = "geometry" /\ (~failed => "vertex array" \in parts)
      /\ pc \in {"add buffer", "fill buffer"}
  BY <1>1, NextList
<1>4. Sizes'
  <2>1. todo' \in Seq(Attributes)
    BY <1>1, NextList
  <2>. QED
    BY <1>1, <2>1 DEF Buffered, Sizes, lists_
<1>5. Untouched' /\ Reading'
  BY <1>1 DEF Untouched, Reading
<1>6. Adding'
  <2>1. pc \in {"add buffer", "fill buffer"}
    BY <1>1, NextList
  <2>. QED
    BY <1>1, <1>2, <2>1, Remaining DEF Buffered, Adding, lists_
<1>7. Agree'
  <2>2. todo' # <<>> /\ Head(todo') = "tangent" => Normals'
    BY <1>1, Remaining
  <2>3. lists["position"] <= lists["position"]
    <3>1. lists["position"] \in Nat
      BY <1>1, NextList
    <3>. QED
      BY <3>1
  <2>. QED
    BY <1>1, <1>2, <2>2, <2>3 DEF Buffered, Agree, Normals, lists_
<1>8. GeometryDue'
  <2>. SUFFICES ASSUME ~failed'
                PROVE  GeometryDue'
    BY DEF GeometryDue
  <2>1. ASSUME NEW b \in Wanted' \ Excused(mixed')
        PROVE  b \in DOMAIN buffers' \/ \E n \in 1 .. Len(todo') : todo'[n] = b
    <3>1. b \in Wanted \ Excused(mixed)
      BY <1>1, <2>1 DEF Wanted, Excused, lists_
    <3>2. b \in DOMAIN buffers \/ \E n \in 1 .. Len(todo) : todo[n] = b
      BY <1>1, <1>3, <3>1 DEF Buffered, GeometryDue
    <3>3. b # Head(todo)
      BY <1>2, <3>1 DEF Excused
    <3>. QED
      BY <1>1, <3>2, <3>3, Remaining
  <2>2. hollow' \subseteq Excused(mixed')
    BY <1>1, <1>3 DEF Buffered, GeometryDue, Excused, lists_
  <2>. QED
    BY <1>1, <1>3, <2>1, <2>2 DEF GeometryDue
<1>. QED
  BY <1>4, <1>5, <1>6, <1>7, <1>8 DEF Buffered

LEMMA FillBufferKeeps ==
  ASSUME Types, Buffered, FillBuffer
  PROVE  Buffered'
<1>. DEFINE a == Head(todo)
<1>1. Filling /\ ~Refuses(a) /\ todo' = Tail(todo) /\ UNCHANGED <<object, lists_>>
  BY DEF FillBuffer
<1>2. PICK ok \in BOOLEAN :
        /\ vertices' = IF vertices = 0 THEN Length(a) ELSE vertices
        /\ Noted(ok, {"vertex array"}, {}, "add buffer")
        /\ hollow' = IF ok /\ "vertex array" \in parts THEN hollow ELSE hollow \cup {a}
        /\ buffers' = IF ok \/ build = "Release"
                      THEN [b \in DOMAIN buffers \cup {a} |->
                              IF b = a THEN Length(a) ELSE buffers[b]]
                      ELSE buffers
  BY DEF FillBuffer
<1>3. pc' = "add buffer" /\ (~failed' => ~failed /\ ("vertex array" \in parts => ok))
      /\ parts \subseteq parts'
  <2>1. Attempt(ok, {"vertex array"})
    BY <1>2 DEF Noted
  <2>. QED
    BY <1>2, <2>1 DEF Noted, Attempt, Made, Goto
<1>4. a \in Attributes /\ kind = "geometry" /\ pc \in {"add buffer", "fill buffer"}
      /\ lists["position"] \in Nat \ {0} /\ (~failed => "vertex array" \in parts)
      /\ Tail(todo) \in Seq(Attributes)
  BY <1>1, NextList
<1>5. Length(a) = lists["position"] /\ vertices' = lists["position"]
  BY <1>1, <1>2, <1>4, NextLength
<1>6. ~First' /\ UNCHANGED <<lists, mixed, vertex_begin, indices>>
  BY <1>1, Remaining DEF lists_
<1>7. /\ DOMAIN buffers \subseteq DOMAIN buffers'
      /\ DOMAIN buffers' \subseteq DOMAIN buffers \cup {a}
      /\ ok => a \in DOMAIN buffers'
      /\ \A b \in DOMAIN buffers' : buffers'[b] = lists["position"]
  <2>1. \A b \in DOMAIN buffers : buffers[b] = lists["position"]
    <3>1. CASE First
      <4>1. buffers = <<>>
        BY <1>4, <3>1 DEF Buffered, Adding
      <4>2. DOMAIN buffers = {}
        BY <4>1, Nowhere, Zenon
      <4>. QED
        BY <4>2
    <3>2. CASE ~First
      BY <1>1, <3>2, NextLength DEF Buffered, Agree
    <3>. QED
      BY <3>1, <3>2
  <2>2. CASE ok \/ build = "Release"
    <3>1. buffers' = [b \in DOMAIN buffers \cup {a} |-> IF b = a THEN Length(a) ELSE buffers[b]]
      BY <1>2, <2>2
    <3>. QED
      BY <1>5, <2>1, <3>1
  <2>3. CASE ~(ok \/ build = "Release")
    BY <1>2, <2>1, <2>3
  <2>. QED
    BY <2>2, <2>3
<1>8. Sizes'
  BY <1>1, <1>2, <1>4, <1>5, <1>6, <1>7 DEF Buffered, Sizes
<1>9. Untouched' /\ Reading'
  BY <1>3 DEF Untouched, Reading
<1>10. Adding'
  BY <1>1, <1>3, <1>4, <1>5, <1>6, Remaining DEF Buffered, Adding
<1>11. Agree'
  <2>1. todo' # <<>> /\ Head(todo') = "tangent" => Normals'
    BY <1>1, Remaining
  <2>2. lists["position"] <= lists["position"]
    <3>1. lists["position"] \in Nat
      BY <1>4
    <3>. QED
      BY <3>1
  <2>. QED
    BY <1>3, <1>5, <1>6, <1>7, <2>1, <2>2 DEF Agree, Normals
<1>12. GeometryDue'
  <2>. SUFFICES ASSUME ~failed'
                PROVE  GeometryDue'
    BY DEF GeometryDue
  <2>1. ~failed /\ ok /\ "vertex array" \in parts /\ "vertex array" \in parts'
    BY <1>3, <1>4
  <2>2. hollow' \subseteq Excused(mixed')
    BY <1>2, <1>4, <1>6, <2>1 DEF Buffered, GeometryDue, Excused
  <2>3. ASSUME NEW b \in Wanted' \ Excused(mixed')
        PROVE  b \in DOMAIN buffers' \/ \E n \in 1 .. Len(todo') : todo'[n] = b
    <3>1. b \in Wanted \ Excused(mixed)
      BY <1>6, <2>3 DEF Wanted, Excused
    <3>2. b \in DOMAIN buffers \/ \E n \in 1 .. Len(todo) : todo[n] = b
      BY <1>4, <2>1, <2>3, <3>1 DEF Buffered, GeometryDue
    <3>. QED
      BY <1>1, <1>7, <2>1, <3>2, Remaining
  <2>. QED
    BY <1>3, <1>6, <2>1, <2>2, <2>3 DEF GeometryDue
<1>. QED
  BY <1>8, <1>9, <1>10, <1>11, <1>12 DEF Buffered

\* When the last buffer has been added.
LEMMA AllAdded ==
  ASSUME Types, Buffered, pc = "add buffer", todo = <<>>, pc' = "made",
         UNCHANGED <<object, geomVars>>, parts \subseteq parts', ~failed' => ~failed,
         ~failed' /\ indices # {} => "index" \in parts'
  PROVE  Buffered'
<1>. USE DEF geomVars, lists_, geometry, object
<1>1. ~First /\ vertices = lists["position"] /\ kind = "geometry"
  BY DEF Buffered, Adding, First, Types, Where, GeometryPlaces
<1>2. Sizes' /\ Untouched' /\ Reading' /\ Adding'
  BY DEF Buffered, Sizes, Untouched, Reading, Adding
<1>3. Agree'
  BY <1>1 DEF Buffered, Adding, Agree
<1>4. GeometryDue'
  BY <1>1 DEF Buffered, GeometryDue, Wanted, Excused
<1>. QED
  BY <1>2, <1>3, <1>4 DEF Buffered

LEMMA AddIndexBufferKeeps ==
  ASSUME Types, Buffered, AddIndexBuffer
  PROVE  Buffered'
<1>1. pc = "add buffer" /\ todo = <<>> /\ UNCHANGED <<object, geomVars>>
  BY DEF AddIndexBuffer, At
<1>2. PICK ok \in BOOLEAN : Noted(ok, {"vertex array"}, {"index"}, "made")
  BY DEF AddIndexBuffer
<1>3. Attempt(ok, {"vertex array"}) /\ pc' = "made"
      /\ parts' = Made(ok, {"vertex array"}, {"index"})
  BY <1>2 DEF Noted, Goto
<1>4. (~failed' => ~failed /\ ("vertex array" \in parts => ok)) /\ parts \subseteq parts'
  BY <1>3 DEF Attempt, Made
<1>5. ~failed => "vertex array" \in parts
  BY <1>1 DEF Buffered, GeometryDue, First, Types, Where, GeometryPlaces
<1>6. ~failed' => "index" \in parts'
  BY <1>3, <1>4, <1>5 DEF Made
<1>. QED
  BY <1>1, <1>3, <1>4, <1>6, AllAdded

LEMMA NoIndexBufferKeeps ==
  ASSUME Types, Buffered, NoIndexBuffer
  PROVE  Buffered'
<1>1. pc = "add buffer" /\ todo = <<>> /\ indices = {} /\ pc' = "made"
      /\ UNCHANGED <<object, parts, failed, geomVars>>
  BY DEF NoIndexBuffer, At, Goto
<1>. QED
  BY <1>1, AllAdded

LEMMA GeometryBuffers == Inv /\ Types /\ Buffered /\ GeometryNext => Buffered'
  BY FromShapeKeeps, OpenModelKeeps, ReadFileKeeps, ReadMeshKeeps, GenerateTbKeeps,
     GenVertexArrayKeeps, RefuseBufferKeeps, FillBufferKeeps, AddIndexBufferKeeps,
     NoIndexBufferKeeps DEF GeometryNext

GeometryMove ==
  /\ UNCHANGED object /\ Counted'
  /\ \/ pc = "open" /\ kind = "geometry" /\ pc' \in {"add buffer", "thrown", "read file"} /\ k' = k
     \/ pc = "read file" /\ pc' \in {"thrown", "read mesh"} /\ k' = k
     \/ pc = "read mesh" /\ pc' = "add buffer" /\ k' = k
     \/ pc = "read mesh" /\ pc' = "read mesh" /\ k # MaxMeshes /\ k' = k + 1
     \/ /\ pc \in {"add buffer", "fill buffer"}
        /\ pc' \in {"thrown", "fill buffer", "add buffer", "made"} /\ k' = k

LEMMA GeometryMoves ==
  ASSUME Inv, Types, This \in Serials, GeometryNext
  PROVE  GeometryMove
<1>. USE DEF At, Goto, PartNames
<1>0. Kept /\ Counted
  BY DEF Types
<1>1. CASE FromShape
  BY <1>0, <1>1 DEF FromShape, GeometryMove, Counted
<1>2. CASE OpenModel
  <2>1. pc = "open" /\ kind = "geometry" /\ UNCHANGED <<object, parts, k, glError, blame>>
        /\ \E ok \in BOOLEAN : Attempt(ok, {}) /\ pc' \in {"thrown", "read file"}
    BY <1>2 DEF OpenModel, OpenFile
  <2>2. Passes({"thrown", "read file"})
    BY <1>0, <2>1, AttemptPasses
  <2>. QED
    BY <2>1, <2>2 DEF GeometryMove, Passes
<1>3. CASE ReadFile
  <2>1. pc = "read file" /\ UNCHANGED <<object, parts, k, glError, blame>>
        /\ \E ok \in BOOLEAN : Attempt(ok, {}) /\ pc' \in {"thrown", "read mesh"}
    BY <1>3 DEF ReadFile
  <2>2. Passes({"thrown", "read mesh"})
    BY <1>0, <2>1, AttemptPasses
  <2>. QED
    BY <2>1, <2>2 DEF GeometryMove, Passes
<1>4. CASE ReadMesh
  <2>1. pc = "read mesh" /\ UNCHANGED <<object, parts, glError, failed, faults, blame>>
    BY <1>4 DEF ReadMesh
  <2>2. \/ pc' = "add buffer" /\ k' = k
        \/ pc' = pc /\ k # MaxMeshes /\ k' = k + 1
    <3>1. PICK last \in BOOLEAN :
            /\ k = MaxMeshes => last
            /\ IF last THEN pc' = "add buffer" /\ k' = k ELSE k' = k + 1 /\ pc' = pc
      BY <1>4 DEF ReadMesh
    <3>2. CASE last
      BY <3>1, <3>2
    <3>3. CASE ~last
      BY <3>1, <3>3
    <3>. QED
      BY <3>2, <3>3
  <2>. QED
    BY <1>0, <2>1, <2>2 DEF GeometryMove, Counted
<1>5. CASE GenVertexArray
  <2>1. Makes({}, {"vertex array"}, "fill buffer")
    BY <1>0, <1>5, CheckedStep DEF GenVertexArray
  <2>. QED
    BY <1>5, <2>1 DEF GenVertexArray, GeometryMove, Makes
<1>6. CASE RefuseBuffer
  BY <1>0, <1>6 DEF RefuseBuffer, Filling, GeometryMove, Counted
<1>7. CASE FillBuffer
  <2>1. pc \in {"add buffer", "fill buffer"} /\ UNCHANGED <<object, k>>
        /\ \E ok \in BOOLEAN : Noted(ok, {"vertex array"}, {}, "add buffer")
    BY <1>7 DEF FillBuffer, Filling
  <2>2. Notes("add buffer")
    BY <1>0, <2>1, NotedStep
  <2>. QED
    BY <2>1, <2>2 DEF GeometryMove, Notes
<1>8. CASE AddIndexBuffer
  <2>1. Notes("made")
    BY <1>0, <1>8, NotedStep DEF AddIndexBuffer
  <2>. QED
    BY <1>8, <2>1 DEF AddIndexBuffer, GeometryMove, Notes
<1>9. CASE NoIndexBuffer
  BY <1>0, <1>9 DEF NoIndexBuffer, GeometryMove, Counted
<1>10. CASE GenerateTb
  BY <1>0, <1>10 DEF GenerateTb, GeometryMove, Counted
<1>. QED
  BY <1>1, <1>2, <1>3, <1>4, <1>5, <1>6, <1>7, <1>8, <1>9, <1>10 DEF GeometryNext

LEMMA SubMeshes ==
  ASSUME NEW n \in 1 .. MaxMeshes, n # MaxMeshes, NEW m, m = n + 1
  PROVE  m \in 1 .. MaxMeshes
  BY ModelAssumption

LEMMA GeometryMakes ==
  Inv /\ Types /\ GeometryNext => Counted' /\ Where' /\ Counting'
<1>. SUFFICES ASSUME Inv, Types, GeometryNext
              PROVE  Counted' /\ Where' /\ Counting'
  OBVIOUS
<1>1. kind = "geometry"
  BY DEF GeometryNext, FromShape, OpenModel, ReadFile, ReadMesh, GenerateTb, GenVertexArray,
     RefuseBuffer, FillBuffer, Filling, AddIndexBuffer, NoIndexBuffer, At, Types, Where, GeometryPlaces
<1>2. This \in Serials
  BY <1>1, ThisSerial DEF Types
<1>3. GeometryMove
  BY <1>2, GeometryMoves
<1>4. pc' \in GeometryPlaces \cup {"made", "thrown"} /\ kind' = "geometry"
  BY <1>1, <1>3 DEF GeometryMove, GeometryPlaces, object
<1>5. Where'
  BY <1>4 DEF Where, FramePlaces, DepthPlaces, PicturePlaces, EffectPlaces, GeometryPlaces, Kinds,
     BufferKinds
<1>6. Counting'
  <2>1. CASE k' = k
    <3>1. k \in 0 .. 6 \cup 1 .. MaxMeshes
      BY DEF Types, Counting
    <3>2. pc' = "read file" => k = 1
      BY <1>1, <1>3 DEF GeometryMove, Types, Counting
    <3>3. pc' = "read mesh" => pc \in {"read file", "read mesh"}
      BY <1>3 DEF GeometryMove
    <3>4. 1 \in 1 .. MaxMeshes
      BY ModelAssumption
    <3>5. pc' = "read mesh" => k \in 1 .. MaxMeshes
      BY <1>1, <3>3, <3>4 DEF Types, Counting
    <3>. QED
      BY <1>4, <2>1, <3>1, <3>2, <3>5 DEF Counting, GeometryPlaces, PicturePlaces, EffectPlaces
  <2>2. CASE pc = "read mesh" /\ pc' = "read mesh" /\ k # MaxMeshes /\ k' = k + 1
    <3>1. k \in 1 .. MaxMeshes
      BY <2>2 DEF Types, Counting
    <3>2. k' \in 1 .. MaxMeshes
      BY <2>2, <3>1, SubMeshes
    <3>. QED
      BY <2>2, <3>2 DEF Counting, PicturePlaces, EffectPlaces
  <2>. QED
    BY <1>3, <2>1, <2>2 DEF GeometryMove
<1>. QED
  BY <1>3, <1>5, <1>6 DEF GeometryMove

-----------------------------------------------------------------------------
(* What outlives a constructor: the state of OpenGL and DevIL.              *)

\* A step that has nothing to do with DevIL, and binds what is made or the screen, if anything.
LEMMA DevilKept ==
  ASSUME Shared, UNCHANGED <<build, devil>>, target' \in {target, "screen"} \cup BufferKinds
  PROVE  Shared'
  BY DEF Shared, devil

LEMMA TextureShares == Inv /\ Types /\ TextureNext => Shared'
<1>. SUFFICES ASSUME Inv, Types, TextureNext
              PROVE  Shared'
  OBVIOUS
<1>0. Shared /\ This \in Serials
  BY ThisSerial DEF Types
<1>. USE DEF object
<1>1. CASE OpenPictures
  BY <1>0, <1>1, DevilKept DEF OpenPictures, OpenFile
<1>2. CASE BindImage
  <2>1. images = 0 /\ images' = images + 1
    BY <1>2 DEF BindImage, At, Inv, One, Imaged
  <2>2. images' = 1
    BY <2>1, OneMore, Zenon
  <2>3. UNCHANGED <<object, target, ilErrors, bad>>
    BY <1>2 DEF BindImage
  <2>. QED
    BY <1>0, <2>2, <2>3 DEF Shared
<1>3. CASE LoadImage
  <2>1. ilErrors' = {} /\ UNCHANGED <<object, target, bad, images>>
    BY <1>3 DEF LoadImage
  <2>. QED
    BY <1>0, <2>1 DEF Shared
<1>4. CASE ConvertImage
  <2>1. UNCHANGED <<object, target, images>>
    BY <1>4 DEF ConvertImage
  <2>2. ilErrors' \subseteq ilErrors \cup {This} /\ bad' \subseteq bad \cup {This}
    BY <1>4 DEF ConvertImage
  <2>. QED
    BY <1>0, <2>1, <2>2 DEF Shared
<1>5. CASE GenTexture
  BY <1>0, <1>5, DevilKept DEF GenTexture
<1>6. CASE TextureParameters
  BY <1>0, <1>6, DevilKept DEF TextureParameters
<1>7. CASE Upload \/ UploadFace
  <2>1. images = 1 /\ UNCHANGED <<object, target, ilErrors, bad>>
    BY <1>7 DEF Upload, UploadFace, At, Inv, One
  <2>2. images' = images \/ images' = images - 1
    BY <1>7 DEF Upload, UploadFace
  <2>3. images' = 1 \/ images' = 0
    BY <2>1, <2>2, OneLess, Zenon
  <2>. QED
    BY <1>0, <2>1, <2>3 DEF Shared
<1>8. CASE GenerateMipmap
  BY <1>0, <1>8, DevilKept DEF GenerateMipmap
<1>. QED
  BY <1>1, <1>2, <1>3, <1>4, <1>5, <1>6, <1>7, <1>8 DEF TextureNext

LEMMA BufferShares == Types /\ kind \in BufferKinds /\ BufferNext => Shared'
<1>. SUFFICES ASSUME Types, kind \in BufferKinds, BufferNext
              PROVE  Shared'
  OBVIOUS
<1>1. UNCHANGED <<build, devil>> /\ target' \in {target, "screen"} \cup BufferKinds
  BY DEF BufferNext, GenFrame, GenDepth, FrameImage, FrameParameters, GenDepthAgain, BindDepth,
     DepthImage, DepthParameters, GenBuffer, Attach, DrawBuffer, UnbindBuffer, object
<1>. QED
  BY <1>1, DevilKept DEF Types

LEMMA EffectShares == Types /\ EffectNext => Shared'
<1>1. EffectNext => UNCHANGED <<build, devil, target>>
  BY DEF EffectNext, OpenShader, OpenFile, CreateShader, CompileShader, CompileStatus,
     CreateProgram, AttachShader, LinkProgram, LinkStatus, object
<1>. QED
  BY <1>1, DevilKept DEF Types

LEMMA GeometryShares == Types /\ GeometryNext => Shared'
<1>1. GeometryNext => UNCHANGED <<build, devil, target>>
  BY DEF GeometryNext, FromShape, OpenModel, OpenFile, ReadFile, ReadMesh, GenerateTb,
     GenVertexArray, RefuseBuffer, FillBuffer, AddIndexBuffer, NoIndexBuffer, object
<1>. QED
  BY <1>1, DevilKept DEF Types

SaveMove ==
  /\ pc \in {"running", "save picture", "save end"}
  /\ pc' \in {"running", "save picture", "save end", "thrown"}
  /\ Counted' /\ UNCHANGED <<object, k>>

LEMMA SaveMoves ==
  ASSUME Inv, Kept, Counted, This \in Serials, SaveNext
  PROVE  SaveMove
<1>. USE DEF At, Goto, PartNames
<1>1. CASE SaveRead
  <2>1. pc = "running" /\ UNCHANGED <<object, k>>
        /\ \E ok \in BOOLEAN : Checked(ok, {}, {}, {}, "save picture")
    BY <1>1 DEF SaveRead
  <2>2. Makes({}, {}, "save picture")
    BY <2>1, CheckedStep
  <2>. QED
    BY <2>1, <2>2 DEF SaveMove, Makes
<1>2. CASE SavePicture
  <2>1. pc = "save picture" /\ UNCHANGED <<object, parts, k, glError, blame>>
        /\ \E ok \in BOOLEAN : Attempt(ok, {}) /\ pc' \in {"save end"}
    BY <1>2 DEF SavePicture
  <2>2. Passes({"save end"})
    BY <2>1, AttemptPasses
  <2>. QED
    BY <2>1, <2>2 DEF SaveMove, Passes
<1>3. CASE SaveEnd
  BY <1>3 DEF SaveEnd, SaveMove, Counted
<1>. QED
  BY <1>1, <1>2, <1>3 DEF SaveNext

LEMMA SaveShares == Types /\ SaveNext => Shared'
<1>. SUFFICES ASSUME Types, SaveNext
              PROVE  Shared'
  OBVIOUS
<1>0. Shared /\ This \in Serials
  BY ThisSerial DEF Types
<1>1. CASE SaveRead
  BY <1>0, <1>1, DevilKept DEF SaveRead, object, BufferKinds
<1>2. CASE SavePicture
  BY <1>0, <1>2 DEF SavePicture, Shared, object
<1>3. CASE SaveEnd
  BY <1>0, <1>3, DevilKept DEF SaveEnd, object
<1>. QED
  BY <1>1, <1>2, <1>3 DEF SaveNext

-----------------------------------------------------------------------------
(* The invariant.                                                           *)

Dues == BufferDue /\ EffectDue /\ AnswersDue /\ TextureDue /\ CubemapDue

All == Inv /\ Types /\ Dues /\ Buffered /\ Handed

LEMMA AtEffect == Types => InEffect
  BY DEF Types, Where, InEffect

\* Where each constructor's steps begin, and that they are about one object.
LEMMA BufferAt == BufferNext => pc \in FramePlaces \cup DepthPlaces /\ UNCHANGED object
  BY DEF BufferNext, GenFrame, GenDepth, FrameImage, FrameParameters, GenDepthAgain, BindDepth,
     DepthImage, DepthParameters, GenBuffer, Attach, DrawBuffer, UnbindBuffer, At,
     FramePlaces, DepthPlaces

LEMMA TextureAt ==
  Types /\ TextureNext
    => kind \in Pictures /\ pc \in {"open"} \cup PicturePlaces /\ UNCHANGED object
  BY DEF TextureNext, OpenPictures, OpenFile, BindImage, LoadImage, ConvertImage, GenTexture,
     TextureParameters, Upload, UploadFace, GenerateMipmap, At, PicturePlaces, Types, Where

LEMMA EffectAt ==
  Types /\ EffectNext
    => kind = "effect" /\ pc \in {"open"} \cup EffectPlaces /\ UNCHANGED object
  BY DEF EffectNext, OpenShader, OpenFile, CreateShader, CompileShader, CompileStatus,
     CreateProgram, AttachShader, LinkProgram, LinkStatus, At, EffectPlaces, Types, Where

LEMMA GeometryAt ==
  Types /\ GeometryNext
    => kind = "geometry" /\ pc \in {"open"} \cup GeometryPlaces /\ UNCHANGED object
  BY DEF GeometryNext, FromShape, OpenModel, OpenFile, ReadFile, ReadMesh, GenerateTb,
     GenVertexArray, RefuseBuffer, FillBuffer, Filling, AddIndexBuffer, NoIndexBuffer, At, Types, Where,
     GeometryPlaces

LEMMA SameObject == Kept /\ Handed /\ UNCHANGED object => Kept' /\ Handed'
  BY DEF Kept, Handed, object

LEMMA OtherFresh ==
  ASSUME Untouched, UNCHANGED geomVars, pc \notin GeometryPlaces \cup {"made", "thrown"},
         pc' \notin {"add buffer", "fill buffer"}, kind' = "geometry" => pc' # "made"
  PROVE  Buffered'
  BY FreshKeeps DEF Untouched, GeometryPlaces

LEMMA BufferAll == All /\ BufferNext /\ UNCHANGED geomVars => All'
<1>. SUFFICES ASSUME All, BufferNext, UNCHANGED geomVars
              PROVE  All'
  OBVIOUS
<1>0. Inv /\ Types /\ Dues /\ Buffered /\ Handed
  BY DEF All
<1>1. pc \in FramePlaces \cup DepthPlaces /\ UNCHANGED object
  BY BufferAt
<1>2. kind \in BufferKinds /\ kind' = kind
  BY <1>0, <1>1 DEF Types, Where, BufferKinds, object
<1>3. Inv' /\ Kept' /\ Handed' /\ Shared'
  BY <1>0, <1>1, <1>2, BufferKeeps, BufferShares, SameObject DEF Types
<1>4. Counted' /\ Where' /\ Counting' /\ BufferDue'
  BY <1>0, BufferMakes DEF Dues
<1>5. EffectDue' /\ AnswersDue' /\ TextureDue' /\ CubemapDue'
  BY <1>2 DEF EffectDue, AnswersDue, TextureDue, CubemapDue, BufferKinds
<1>6. Buffered'
  <2>1. pc' \notin {"add buffer", "fill buffer"}
    BY <1>2, <1>4 DEF Where, GeometryPlaces, BufferKinds
  <2>2. pc \notin GeometryPlaces \cup {"made", "thrown"} /\ kind' # "geometry"
    BY <1>1, <1>2 DEF FramePlaces, DepthPlaces, GeometryPlaces, BufferKinds
  <2>. QED
    BY <1>0, <2>1, <2>2, OtherFresh DEF Buffered
<1>. QED
  BY <1>3, <1>4, <1>5, <1>6 DEF All, Types, Dues

LEMMA TextureAll == All /\ TextureNext /\ UNCHANGED geomVars => All'
<1>. SUFFICES ASSUME All, TextureNext, UNCHANGED geomVars
              PROVE  All'
  OBVIOUS
<1>0. Inv /\ Types /\ Dues /\ Buffered /\ Handed
  BY DEF All
<1>1. kind \in Pictures /\ pc \in {"open"} \cup PicturePlaces /\ UNCHANGED object
  BY <1>0, TextureAt
<1>2. kind' \in Pictures
  BY <1>1 DEF object
<1>3. Inv' /\ Kept' /\ Handed' /\ Shared'
  BY <1>0, <1>1, TextureKeeps, TextureShares, SameObject DEF Types
<1>4. Counted' /\ Where' /\ Counting' /\ TextureDue' /\ CubemapDue'
  BY <1>0, TextureMakes DEF Dues
<1>5. EffectDue' /\ AnswersDue' /\ BufferDue'
  BY <1>2 DEF EffectDue, AnswersDue, BufferDue, BufferKinds, Pictures
<1>6. Buffered'
  <2>1. pc' \notin {"add buffer", "fill buffer"} /\ kind' # "geometry"
    BY <1>2, <1>4 DEF Where, GeometryPlaces, Pictures
  <2>2. pc \notin GeometryPlaces \cup {"made", "thrown"}
    BY <1>1 DEF PicturePlaces, GeometryPlaces
  <2>. QED
    BY <1>0, <2>1, <2>2, OtherFresh DEF Buffered
<1>. QED
  BY <1>3, <1>4, <1>5, <1>6 DEF All, Types, Dues

LEMMA EffectAll == All /\ EffectNext /\ UNCHANGED geomVars => All'
<1>. SUFFICES ASSUME All, EffectNext, UNCHANGED geomVars
              PROVE  All'
  OBVIOUS
<1>0. Inv /\ Types /\ Dues /\ Buffered /\ Handed
  BY DEF All
<1>1. kind = "effect" /\ pc \in {"open"} \cup EffectPlaces /\ UNCHANGED object
  BY <1>0, EffectAt
<1>2. kind' = "effect"
  BY <1>1 DEF object
<1>3. Inv' /\ Kept' /\ Handed' /\ Shared'
  BY <1>0, <1>1, AtEffect, EffectKeeps, EffectShares, SameObject DEF Types
<1>4. Counted' /\ Where' /\ Counting' /\ EffectDue' /\ AnswersDue'
  BY <1>0, EffectMakes DEF Dues
<1>5. TextureDue' /\ CubemapDue' /\ BufferDue'
  BY <1>2 DEF TextureDue, CubemapDue, BufferDue, BufferKinds
<1>6. Buffered'
  <2>1. pc' \notin {"add buffer", "fill buffer"} /\ kind' # "geometry"
    BY <1>2, <1>4 DEF Where, GeometryPlaces
  <2>2. pc \notin GeometryPlaces \cup {"made", "thrown"}
    BY <1>1 DEF EffectPlaces, GeometryPlaces
  <2>. QED
    BY <1>0, <2>1, <2>2, OtherFresh DEF Buffered
<1>. QED
  BY <1>3, <1>4, <1>5, <1>6 DEF All, Types, Dues

LEMMA GeometryAll == All /\ GeometryNext => All'
<1>. SUFFICES ASSUME All, GeometryNext
              PROVE  All'
  OBVIOUS
<1>0. Inv /\ Types /\ Dues /\ Buffered /\ Handed
  BY DEF All
<1>1. kind = "geometry" /\ UNCHANGED object
  BY <1>0, GeometryAt
<1>2. kind' = "geometry"
  BY <1>1 DEF object
<1>3. Inv' /\ Kept' /\ Handed' /\ Shared'
  BY <1>0, <1>1, GeometryKeeps, GeometryShares, SameObject DEF Types
<1>4. Counted' /\ Where' /\ Counting' /\ Buffered'
  BY <1>0, GeometryMakes, GeometryBuffers
<1>5. Dues'
  BY <1>2 DEF Dues, TextureDue, CubemapDue, BufferDue, EffectDue, AnswersDue, BufferKinds
<1>. QED
  BY <1>3, <1>4, <1>5 DEF All, Types

LEMMA SaveAll == All /\ Save => All'
<1>. SUFFICES ASSUME All, Save
              PROVE  All'
  OBVIOUS
<1>0. Inv /\ Types /\ Dues /\ Buffered /\ Handed /\ SaveNext /\ UNCHANGED geomVars
  BY DEF All, Save
<1>1. SaveMove
  BY <1>0, SaveMoves, ThisSerial DEF Types
<1>2. kind' = "none" /\ UNCHANGED object
  BY <1>0, <1>1 DEF SaveMove, Types, Where, object
<1>3. Inv' /\ Kept' /\ Handed' /\ Shared'
  BY <1>0, <1>2, SaveKeeps, SaveShares, SameObject DEF Types
<1>4. Counted' /\ Where' /\ Counting'
  BY <1>0, <1>1, <1>2 DEF SaveMove, Types, Where, Counting, FramePlaces, DepthPlaces,
     PicturePlaces, EffectPlaces, GeometryPlaces
<1>5. Dues'
  BY <1>2 DEF Dues, TextureDue, CubemapDue, BufferDue, EffectDue, AnswersDue, BufferKinds
<1>6. Buffered'
  BY <1>0, <1>1, <1>2, OtherFresh DEF Buffered, SaveMove, GeometryPlaces
<1>. QED
  BY <1>3, <1>4, <1>5, <1>6 DEF All, Types

LEMMA BeginAll == ASSUME NEW next \in Kinds, All, Begin(next) PROVE All'
<1>1. /\ pc = "choose" /\ pc' = FirstPlace[next] /\ Len(loaded) < MaxObjects
      /\ kind' = next /\ k' = 1 /\ parts' = {} /\ failed' = FALSE
      /\ UNCHANGED <<build, loaded, target, glError, devil, faults, blame, geomVars>>
  BY DEF Begin, At, Goto
<1>2. \/ next = "frame" /\ pc' = "gen frame"
      \/ next = "depth" /\ pc' = "gen depth"
      \/ next \in Kinds \ BufferKinds /\ pc' = "open"
  <2>1. /\ FirstPlace["frame"] = "gen frame" /\ FirstPlace["depth"] = "gen depth"
        /\ FirstPlace["geometry"] = "open" /\ FirstPlace["effect"] = "open"
        /\ FirstPlace["texture"] = "open" /\ FirstPlace["cubemap"] = "open"
    BY DEF FirstPlace
  <2>. QED
    BY <1>1, <2>1 DEF Kinds, BufferKinds
<1>3. Types /\ Buffered /\ Handed
  BY DEF All
<1>4. Inv'
  BY AtEffect, InvStep DEF All, Next, Load
<1>5. Kept' /\ Counted' /\ Shared' /\ Handed'
  BY <1>1, <1>3 DEF Types, Kept, Counted, Shared, Handed, devil
<1>6. Where'
  BY <1>1, <1>2 DEF Where, FramePlaces, DepthPlaces, PicturePlaces, EffectPlaces,
     GeometryPlaces, Kinds, BufferKinds
<1>7. Counting'
  <2>1. 1 \in 0 .. 6 /\ 1 \in 1 .. 6 /\ 1 \in 1 .. 2
    OBVIOUS
  <2>2. pc' \notin PicturePlaces \cup EffectPlaces \cup {"read file", "read mesh"}
    BY <1>2 DEF PicturePlaces, EffectPlaces
  <2>. QED
    BY <1>1, <2>1, <2>2 DEF Counting
<1>8. Dues'
  <2>1. k' # 2
    BY <1>1
  <2>2. BufferDue' /\ TextureDue' /\ CubemapDue'
    BY <1>1, <1>2 DEF BufferDue, TextureDue, CubemapDue, BufferKinds
  <2>3. EffectDue' /\ AnswersDue'
    BY <1>1, <1>2, <2>1 DEF EffectDue, AnswersDue, BufferKinds, Linked, Compiling
  <2>. QED
    BY <2>2, <2>3 DEF Dues
<1>9. Buffered'
  BY <1>1, <1>2, <1>3, OtherFresh DEF Buffered, GeometryPlaces
<1>. QED
  BY <1>4, <1>5, <1>6, <1>7, <1>8, <1>9 DEF All, Types

\* What a constructor that returns has made.
LEMMA MissingMade ==
  ASSUME Types, Dues, Buffered, pc = "made"
  PROVE  /\ kind \in Kinds /\ Missing \subseteq PartNames \cup Attributes
         /\ failed \/ Missing \subseteq Excused(mixed)
         /\ build = "Debug" => Missing = {} \/ kind \in {"geometry", "effect"}
<1>1. kind \in Kinds
  BY DEF Types, Where
<1>2. CASE kind \in BufferKinds
  <2>1. /\ BufferParts["frame"] =
             {"frame", "frame image", "depth", "depth image", "buffer", "attached", "draw"}
        /\ BufferParts["depth"] = {"depth", "depth image", "buffer", "attached", "draw"}
    BY DEF BufferParts
  <2>2. Sound => BufferParts[kind] \subseteq parts
    BY <1>2, <2>1 DEF Dues, BufferDue, BufferKinds
  <2>3. BufferParts[kind] \subseteq PartNames
    BY <1>2, <2>1 DEF PartNames, BufferKinds
  <2>4. Missing = BufferParts[kind] \ parts
    BY <1>2 DEF Missing, BufferKinds
  <2>. QED
    BY <1>1, <2>2, <2>3, <2>4 DEF Sound
<1>3. CASE kind = "effect"
  <2>1. ~failed => EffectParts \subseteq parts
    BY <1>3, ShaderNames DEF Dues, EffectDue, AnswersDue, Linked, Compiling, Sound
  <2>2. EffectParts \subseteq PartNames
    BY ShaderNames DEF PartNames
  <2>3. Missing = EffectParts \ parts
    BY <1>3 DEF Missing, BufferKinds
  <2>. QED
    BY <1>1, <1>3, <2>1, <2>2, <2>3
<1>4. CASE kind \in Pictures
  <2>1. TextureParts[kind] \subseteq PartNames /\ (Sound => TextureParts[kind] \subseteq parts)
    <3>1. CASE kind = "texture"
      <4>1. TextureParts[kind] = {"id", "image"}
        BY <3>1 DEF TextureParts
      <4>. QED
        BY <3>1, <4>1 DEF Dues, TextureDue, PartNames
    <3>2. CASE kind = "cubemap"
      <4>1. TextureParts[kind] = {"id"} \cup {targets[n] : n \in 1 .. 6}
        BY <3>2 DEF TextureParts
      <4>2. \A n \in 1 .. 6 : targets[n] \in PartNames
        <5>1. \A n \in 1 .. 6 : n \in {1, 2, 3, 4, 5, 6}
          OBVIOUS
        <5>2. \A n \in {1, 2, 3, 4, 5, 6} : targets[n] \in PartNames
          BY TargetNames DEF PartNames
        <5>. QED
          BY <5>1, <5>2
      <4>. QED
        BY <3>2, <4>1, <4>2 DEF Dues, CubemapDue, PartNames
    <3>. QED
      BY <1>4, <3>1, <3>2 DEF Pictures
  <2>2. Missing = TextureParts[kind] \ parts
    BY <1>4 DEF Missing, BufferKinds, Pictures
  <2>. QED
    BY <1>1, <2>1, <2>2 DEF Sound
<1>5. CASE kind = "geometry"
  <2>1. Missing = GeometryLacks
    BY <1>5 DEF Missing, BufferKinds
  <2>2. GeometryLacks \subseteq PartNames \cup Attributes
    BY DEF GeometryLacks, Wanted, PartNames, Attributes
  <2>3. ASSUME ~failed
        PROVE  GeometryLacks \subseteq Excused(mixed)
    <3>1. /\ todo = <<>> /\ hollow \subseteq Excused(mixed) /\ "vertex array" \in parts
          /\ indices # {} => "index" \in parts
          /\ \A a \in Wanted \ Excused(mixed) :
               a \in DOMAIN buffers \/ \E n \in 1 .. Len(todo) : todo[n] = a
      BY <1>5, <2>3 DEF Buffered, GeometryDue
    <3>2. Len(todo) = 0
      BY <3>1
    <3>3. \A n \in 1 .. Len(todo) : FALSE
      BY <3>2
    <3>4. \A a \in Wanted \ Excused(mixed) : a \in DOMAIN buffers
      BY <3>1, <3>3
    <3>. QED
      BY <3>1, <3>4 DEF GeometryLacks
  <2>. QED
    BY <1>1, <1>5, <2>1, <2>2, <2>3
<1>. QED
  BY <1>1, <1>2, <1>3, <1>4, <1>5 DEF Kinds, BufferKinds, Pictures

LEMMA EndAll == All /\ End => All'
<1>. SUFFICES ASSUME All, End
              PROVE  All'
  OBVIOUS
<1>. DEFINE made == [kind |-> kind, parts |-> parts, lacks |-> Missing, failed |-> failed,
                     mixed |-> mixed]
<1>1. /\ pc = "made" /\ pc' = "choose" /\ loaded' = Append(loaded, made)
      /\ kind' = "none" /\ parts' = {} /\ k' = 0 /\ failed' = FALSE
      /\ NewGeometry'
      /\ UNCHANGED <<build, target, glError, devil, faults, blame>>
  BY DEF End, At, Goto, NewGeometry, NoLists
<1>2. Types /\ Dues /\ Buffered /\ Handed
  BY DEF All
<1>3. /\ kind \in Kinds /\ Missing \subseteq PartNames \cup Attributes
      /\ failed \/ Missing \subseteq Excused(mixed)
      /\ build = "Debug" => Missing = {} \/ kind \in {"geometry", "effect"}
  BY <1>1, <1>2, MissingMade
<1>4. Inv'
  BY AtEffect, InvStep DEF All, Next, Load
<1>5. made \in Built
  BY <1>2, <1>3 DEF Built, Types, Counted, Buffered, Sizes
<1>6. made.lacks = Missing /\ made.failed = failed /\ made.mixed = mixed /\ made.kind = kind
  OBVIOUS
<1>. HIDE DEF made
<1>7. /\ loaded' \in Seq(Built) /\ Len(loaded') = Len(loaded) + 1 /\ Len(loaded) \in Nat
      /\ \A n \in 1 .. Len(loaded) : loaded'[n] = loaded[n]
      /\ loaded'[Len(loaded) + 1] = made
  BY <1>1, <1>2, <1>5 DEF Types, Kept
<1>8. Len(loaded) < MaxObjects
  BY <1>2, <1>3 DEF Types, Kept, Kinds
<1>9. Kept'
  BY <1>1, <1>7, <1>8, ObjectsAssumption DEF Kept
<1>10. Counted' /\ Shared'
  BY <1>1, <1>2 DEF Types, Counted, Shared, devil
<1>11. Where' /\ Counting'
  <2>1. 0 \in 0 .. 6
    OBVIOUS
  <2>. QED
    BY <1>1, <2>1 DEF Where, Counting, FramePlaces, DepthPlaces, PicturePlaces, EffectPlaces,
       GeometryPlaces
<1>12. Dues'
  BY <1>1 DEF Dues, BufferDue, EffectDue, AnswersDue, TextureDue, CubemapDue, BufferKinds
<1>13. Handed'
  <2>1. \A n \in 1 .. Len(loaded') : n \in 1 .. Len(loaded) \/ n = Len(loaded) + 1
    BY <1>7
  <2>. QED
    BY <1>1, <1>2, <1>3, <1>6, <1>7, <2>1 DEF Handed
<1>14. Buffered'
  <2>1. Unread'
    BY <1>1 DEF Unread
  <2>. QED
    BY <2>1, NewBuffered, PTL
<1>. QED
  BY <1>4, <1>9, <1>10, <1>11, <1>12, <1>13, <1>14 DEF All, Types

LEMMA ReturnAll == All /\ Return => All'
<1>. SUFFICES ASSUME All, Return
              PROVE  All'
  OBVIOUS
<1>1. /\ pc = "choose" /\ pc' = "running"
      /\ UNCHANGED <<object, parts, k, target, glError, devil, failed, faults, blame, geomVars>>
  BY DEF Return, At, Goto
<1>2. Types /\ Dues /\ Buffered /\ Handed
  BY DEF All
<1>3. Inv'
  BY AtEffect, InvStep DEF All, Next, Load
<1>4. kind' = "none"
  BY <1>1, <1>2 DEF Types, Where, object
<1>5. Kept' /\ Counted' /\ Shared' /\ Handed'
  BY <1>1, <1>2, SameObject DEF Types, Counted, Shared, object, devil
<1>6. Where' /\ Counting'
  BY <1>1, <1>2, <1>4 DEF Types, Where, Counting, FramePlaces, DepthPlaces, PicturePlaces,
     EffectPlaces, GeometryPlaces
<1>7. Dues'
  BY <1>4 DEF Dues, BufferDue, EffectDue, AnswersDue, TextureDue, CubemapDue, BufferKinds
<1>8. Buffered'
  BY <1>1, <1>2, OtherFresh DEF Buffered, GeometryPlaces
<1>. QED
  BY <1>3, <1>5, <1>6, <1>7, <1>8 DEF All, Types

LEMMA AllInit == Init => All
<1>. SUFFICES ASSUME Init
              PROVE  All
  OBVIOUS
<1>1. /\ build \in Builds /\ pc = "choose" /\ loaded = <<>> /\ kind = "none" /\ parts = {}
      /\ k = 0 /\ target = "screen" /\ glError = 0 /\ ilErrors = {} /\ bad = {} /\ images = 0
      /\ failed = FALSE /\ faults = 0 /\ blame = 0 /\ NewGeometry
  BY DEF Init, GLInit
<1>2. Len(loaded) = 0 /\ loaded \in Seq(Built)
  <2>1. Len(<<>>) = 0 /\ <<>> \in Seq(Built)
    BY EmptySeq
  <2>. QED
    BY <1>1, <2>1, Zenon
<1>3. Kept /\ Handed
  BY <1>1, <1>2, ObjectsAssumption DEF Kept, Handed
<1>4. Counted /\ Shared
  <2>1. 0 \in 0 .. MaxFaults /\ 0 \in 0 .. 1
    BY BuildsAssumption
  <2>. QED
    BY <1>1, <2>1 DEF Counted, Shared
<1>5. Where /\ Counting
  BY <1>1 DEF Where, Counting, FramePlaces, DepthPlaces, PicturePlaces, EffectPlaces,
     GeometryPlaces
<1>6. Dues
  BY <1>1 DEF Dues, BufferDue, EffectDue, AnswersDue, TextureDue, CubemapDue, BufferKinds
<1>7. Buffered
  BY <1>1, NewBuffered DEF Unread
<1>. QED
  BY <1>3, <1>4, <1>5, <1>6, <1>7, InvInit DEF All, Types

LEMMA AllStep == All /\ [Next]_vars => All'
<1>. SUFFICES ASSUME All, [Next]_vars
              PROVE  All'
  OBVIOUS
<1>1. CASE Load
  BY <1>1, BeginAll, TextureAll, BufferAll, EffectAll, GeometryAll, EndAll, ReturnAll DEF Load
<1>2. CASE Save
  BY <1>2, SaveAll
<1>3. CASE UNCHANGED vars
  <2>. USE <1>3 DEF vars, glVars, geomVars, lists_, geometry, devil
  <2>0. Inv /\ Types /\ Dues /\ Buffered /\ Handed
    BY DEF All
  <2>1. Inv'
    BY AtEffect, InvStep DEF All
  <2>2. Kept' /\ Handed'
    BY <2>0, SameObject DEF Types, object
  <2>3. Counted' /\ Shared' /\ Where'
    BY <2>0 DEF Types, Counted, Shared, Where
  <2>4. Counting'
    BY <2>0 DEF Types, Counting
  <2>5. BufferDue' /\ TextureDue'
    BY <2>0 DEF Dues, BufferDue, TextureDue, Sound
  <2>6. EffectDue' /\ AnswersDue'
    BY <2>0 DEF Dues, EffectDue, AnswersDue, Sound
  <2>7. CubemapDue'
    BY <2>0 DEF Dues, CubemapDue, Sound
  <2>8. Sizes' /\ Untouched' /\ Reading'
    BY <2>0 DEF Buffered, Sizes, Untouched, NewGeometry, Reading
  <2>9. Adding'
    BY <2>0 DEF Buffered, Adding, First, Normals
  <2>10. Agree'
    BY <2>0 DEF Buffered, Agree
  <2>11. GeometryDue'
    BY <2>0 DEF Buffered, GeometryDue, Wanted, Excused, First
  <2>. QED
    BY <2>1, <2>2, <2>3, <2>4, <2>5, <2>6, <2>7, <2>8, <2>9, <2>10, <2>11 DEF All, Types, Buffered, Dues
<1>. QED
  BY <1>1, <1>2, <1>3 DEF Next

LEMMA Everything == Spec => []All
<1>. QED
  BY AllInit, AllStep, PTL DEF Spec

\* The types of what the constructors share: each variable stays in its range, and objects,
\* sub-meshes, failing calls and errors stay within their bounds.
THEOREM TypeCorrect == Spec => []TypeOK
<1>1. All => TypeOK
  <2>. SUFFICES ASSUME All
                PROVE  TypeOK
    OBVIOUS
  <2>1. Kept /\ Counted /\ Shared /\ Counting /\ Sizes
    BY DEF All, Types, Buffered
  <2>2. \A n \in 1 .. Len(loaded) :
          loaded[n].kind \in Kinds /\ loaded[n].mixed \subseteq {"normal", "coords"}
    <3>1. \A n \in 1 .. Len(loaded) : loaded[n] \in Built
      BY <2>1 DEF Kept
    <3>. QED
      BY <3>1 DEF Built
  <2>. QED
    BY <2>1, <2>2 DEF TypeOK, Kept, Counted, Shared, Counting, Sizes
<1>. QED
  BY Everything, <1>1, PTL

\* Every object that load_content hands over has everything that it was meant to have, unless
\* a call of its own failed, in a build that does not look or in a place where neither looks,
\* but for the attributes that a model's sub-meshes disagree about.
THEOREM ObjectsCorrect == Spec => []ObjectsUsable
<1>1. All => ObjectsUsable
  BY DEF All, Handed, ObjectsUsable
<1>. QED
  BY Everything, <1>1, PTL

\* All buffers of a geometry have an element for each vertex, generate_tb reads no normal
\* beyond the last unless a model's sub-meshes disagree whether they have normals, and a
\* model's indices name its vertices and no other, but for those read past a point or a line.
THEOREM AttributesCorrect == Spec => []AttributesCover
<1>1. All => AttributesCover
  BY DEF All, Buffered, Agree, AttributesCover
<1>. QED
  BY Everything, <1>1, PTL

-----------------------------------------------------------------------------
(* The refinement.                                                          *)

\* What Loading sees of the objects.
Shown(objects) ==
  [n \in 1 .. Len(objects) |-> [kind |-> objects[n].kind, usable |-> objects[n].lacks = {}]]

LEMMA ShownNone == Shown(<<>>) = <<>>
<1>1. Len(<<>>) = 0 /\ 1 .. 0 = {}
  OBVIOUS
<1>. QED
  BY <1>1 DEF Shown

LEMMA ShownMore ==
  ASSUME NEW objects \in Seq(Built), NEW one \in Built
  PROVE  Shown(Append(objects, one)) =
           Append(Shown(objects), [kind |-> one.kind, usable |-> one.lacks = {}])
  BY DEF Shown

Running == {"running", "save picture", "save end"}

\* A step that makes no object known: Loading sees at most that it throws.
LEMMA QuietStep ==
  ASSUME UNCHANGED <<build, loaded>>, pc # "thrown",
         pc' = "thrown" \/ (pc \in Running <=> pc' \in Running)
  PROVE  Promise!Next \/ UNCHANGED Promise!vars
<1>1. CASE pc' = "thrown"
  BY <1>1 DEF Promise!Next, Promise!End
<1>2. CASE pc' # "thrown"
  BY <1>2 DEF Promise!vars, Running
<1>. QED
  BY <1>1, <1>2

\* The steps of a constructor neither begin nor end the frame loop.
LEMMA ConstructorStep ==
  ASSUME All, \/ (TextureNext \/ BufferNext \/ EffectNext) /\ UNCHANGED geomVars
              \/ GeometryNext
  PROVE  Promise!Next \/ UNCHANGED Promise!vars
<1>0. Types
  BY DEF All
<1>1. kind # "none" /\ UNCHANGED object
      /\ pc \in {"open"} \cup FramePlaces \cup DepthPlaces \cup PicturePlaces \cup EffectPlaces
                  \cup GeometryPlaces
  <2>1. CASE TextureNext
    BY <1>0, <2>1, TextureAt DEF Pictures
  <2>2. CASE BufferNext
    BY <1>0, <2>2, BufferAt DEF Types, Where, BufferKinds
  <2>3. CASE EffectNext
    BY <1>0, <2>3, EffectAt
  <2>4. CASE GeometryNext
    BY <1>0, <2>4, GeometryAt
  <2>. QED
    BY <2>1, <2>2, <2>3, <2>4
<1>2. Where'
  BY TextureAll, BufferAll, EffectAll, GeometryAll DEF All, Types
<1>3. pc \notin Running \cup {"thrown"}
  BY <1>1 DEF Running, FramePlaces, DepthPlaces, PicturePlaces, EffectPlaces, GeometryPlaces
<1>4. pc' \notin Running
  BY <1>1, <1>2 DEF Running, Where, object
<1>. QED
  BY <1>1, <1>3, <1>4, QuietStep DEF object

LEMMA EndStep ==
  ASSUME All, End
  PROVE  Promise!Next
<1>. DEFINE made == [kind |-> kind, parts |-> parts, lacks |-> Missing, failed |-> failed,
                     mixed |-> mixed]
            seen == [kind |-> kind, usable |-> Missing = {}]
<1>1. pc = "made" /\ pc' = "choose" /\ loaded' = Append(loaded, made) /\ UNCHANGED build
  BY DEF End, At, Goto
<1>2. Types /\ Dues /\ Buffered
  BY DEF All
<1>3. /\ kind \in Kinds /\ Missing \subseteq PartNames \cup Attributes
      /\ build = "Debug" => Missing = {} \/ kind \in {"geometry", "effect"}
  BY <1>1, <1>2, MissingMade
<1>4. made \in Built /\ loaded \in Seq(Built) /\ build \in {"Debug", "Release"}
  BY <1>2, <1>3, BuildsAssumption DEF Built, Types, Kept, Counted, Shared, Buffered, Sizes
<1>5. made.kind = kind /\ made.lacks = Missing
  OBVIOUS
<1>. HIDE DEF made
<1>6. Shown(loaded') = Append(Shown(loaded), seen)
  BY <1>1, <1>4, <1>5, ShownMore
<1>7. PICK usable \in BOOLEAN : usable = (Missing = {})
  OBVIOUS
<1>8. Promise!Make(kind, usable)
  BY <1>1, <1>3, <1>4, <1>6, <1>7 DEF Promise!Make, Shown
<1>. QED
  BY <1>3, <1>8 DEF Promise!Next

LEMMA LoadingInit == Init => Promise!Init
<1>. SUFFICES ASSUME Init
              PROVE  Promise!Init
  OBVIOUS
<1>1. build \in Builds /\ pc = "choose" /\ loaded = <<>>
  BY DEF Init, GLInit
<1>2. Shown(loaded) = <<>>
  BY <1>1, ShownNone
<1>. QED
  BY <1>1, <1>2 DEF Promise!Init, Shown

LEMMA LoadingStep == All /\ [Next]_vars => [Promise!Next]_(Promise!vars)
<1>. SUFFICES ASSUME All, [Next]_vars
              PROVE  Promise!Next \/ UNCHANGED Promise!vars
  OBVIOUS
<1>1. ASSUME NEW next \in Kinds, Begin(next)
      PROVE  Promise!Next \/ UNCHANGED Promise!vars
  <2>1. pc = "choose" /\ UNCHANGED <<build, loaded>>
    BY <1>1 DEF Begin, At
  <2>2. kind' # "none" /\ Where'
    BY <1>1, BeginAll DEF Begin, Kinds, All, Types
  <2>3. pc' \notin Running
    BY <2>2 DEF Where, Running
  <2>. QED
    BY <2>1, <2>3, QuietStep DEF Running
<1>2. CASE End
  BY <1>2, EndStep
<1>3. CASE Return
  <2>1. pc = "choose" /\ pc' = "running" /\ UNCHANGED <<build, loaded>>
    BY <1>3 DEF Return, At, Goto, object
  <2>. QED
    BY <2>1 DEF Promise!Next, Promise!Return
<1>4. CASE Load
  BY <1>1, <1>2, <1>3, <1>4, ConstructorStep DEF Load
<1>5. CASE Save
  <2>1. SaveMove
    BY <1>5, SaveMoves, ThisSerial DEF Save, All, Types
  <2>. QED
    BY <2>1, QuietStep DEF SaveMove, Running, object
<1>6. CASE UNCHANGED vars
  BY <1>6 DEF vars, glVars, Promise!vars
<1>. QED
  BY <1>4, <1>5, <1>6 DEF Next

\* load_content makes its objects one after the other, touches none again, and hands one that
\* cannot be used over in a Release build only, or if it is a geometry or an effect: every step
\* of it, of the constructors and of the saves is one of Loading's or changes nothing that it
\* sees.
THEOREM LoadingSafe == Spec => Promise!Init /\ [][Promise!Next]_(Promise!vars)
<1>. QED
  BY LoadingInit, LoadingStep, Everything, PTL DEF Spec

=============================================================================
