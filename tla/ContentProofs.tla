---------------------------- MODULE ContentProofs ---------------------------
(***************************************************************************)
(* What one constructor leaves for the next, whatever is made, in whatever *)
(* number, and however many calls fail: no error of OpenGL's, but for that *)
(* of an effect's last call, no frame buffer bound, no picture kept, and   *)
(* no error of DevIL's lost.                                               *)
(***************************************************************************)
EXTENDS Content, TLAPS

\* The places at which a frame buffer object is bound.
Bound == {"attach", "draw buffer", "unbind buffer", "save picture", "save end"}

\* The error is one of the object that was made last, which is an effect.
Near(error) ==
  error = Len(loaded) /\ Len(loaded) \in 1 .. Len(loaded) /\ loaded[error].kind = "effect"

\* The places before the first check that follows an effect.
Waiting ==
  \/ pc \in {"choose", "running", "create shader", "gen texture"}
  \/ pc = "open" /\ kind \in {"effect", "texture", "cubemap"}
  \/ pc \in {"bind image", "load image", "convert image"} /\ kind = "texture"

\* A Debug build has asked for every error when it gets to a place, but for one that the last
\* call for an effect raised, so that one it throws at was raised since, or is that.
Asked ==
  /\ build = "Debug" /\ pc # "thrown" /\ glError # 0 =>
       \/ pc = "made" /\ kind = "effect" /\ glError = This
       \/ Waiting /\ Near(glError)
  /\ blame # 0 => pc = "thrown" /\ (blame = This \/ Near(blame))

EffectPlaces ==
  {"create shader", "compile shader", "compile status", "create program", "attach shader",
   "link program", "link status"}

InEffect == pc \in EffectPlaces => kind = "effect"

\* The objects are a sequence of something.
Listed == \E S : loaded \in Seq(S)

Screen == pc \notin Bound \cup {"thrown"} => target = "screen"

\* The places at which there is a DevIL image, in one of the constructors that read pictures.
Imaged == {"load image", "convert image", "upload", "gen texture", "texture parameters"}

One ==
  /\ pc \notin Imaged \cup {"thrown"} => images = 0
  /\ pc \in {"load image", "convert image", "upload"} => images = 1
  /\ pc \in {"gen texture", "texture parameters"} =>
       images = IF kind = "texture" THEN 1 ELSE 0

Inv == Listed /\ Asked /\ Screen /\ PicturesGood /\ One

LEMMA InvInit == Init => Inv
<1>. SUFFICES ASSUME Init
              PROVE  Inv
  OBVIOUS
<1>1. Listed
  <2>1. <<>> \in Seq({})
    OBVIOUS
  <2>. QED
    BY <2>1 DEF Init, GLInit, Listed
<1>. QED
  BY <1>1 DEF Init, GLInit, Inv, Asked, Screen, PicturesGood, One, Imaged

LEMMA StillListed == Listed /\ UNCHANGED object => Listed'
  BY DEF Listed, object

\* What a check throws at, and that a Debug build that goes on has nothing pending.
LEMMA CheckedAsks ==
  ASSUME NEW ok, NEW needs, NEW made, NEW deleted, NEW place,
         Listed, Asked, pc # "thrown", Checked(ok, needs, made, deleted, place), UNCHANGED object
  PROVE  Asked'
<1>1. Len(loaded) \in Nat /\ This # 0
  BY DEF Listed, This
<1>2. CASE build = "Debug" /\ Pending(ok) # 0
  <2>1. pc' = "thrown" /\ blame' = Pending(ok)
    BY <1>2 DEF Checked, Goto
  <2>2. Pending(ok) = This \/ Near(Pending(ok))
    BY <1>2 DEF Asked, Pending
  <2>. QED
    BY <2>1, <2>2 DEF Asked, Near, This, object
<1>3. CASE ~(build = "Debug" /\ Pending(ok) # 0)
  BY <1>3 DEF Asked, Checked, object, Near, This
<1>. QED
  BY <1>2, <1>3

LEMMA NotedAsks ==
  ASSUME NEW ok, NEW needs, NEW made, NEW place,
         Asked, pc # "thrown", Noted(ok, needs, made, place), UNCHANGED object
  PROVE  Asked'
  BY DEF Asked, Noted, object

\* Steps that ask nothing of OpenGL, and do not go on to where another object's error would
\* have been thrown at.
LEMMA PassAsks ==
  ASSUME Asked, pc \notin {"thrown", "made"}, UNCHANGED <<object, glError, blame>>,
         Waiting => Waiting' \/ pc' = "thrown"
  PROVE  Asked'
  BY DEF Asked, object, Near, This

\* A check that leads from one place to another, at neither of which a buffer is bound.
LEMMA CheckedKeeps ==
  ASSUME NEW ok, NEW needs, NEW made, NEW deleted, NEW place,
         Inv, pc \notin Bound \cup Imaged \cup {"thrown"}, place \notin Bound \cup Imaged,
         Checked(ok, needs, made, deleted, place), UNCHANGED <<object, target, devil>>
  PROVE  Inv'
<1>1. Listed' /\ Asked'
  BY StillListed, CheckedAsks DEF Inv
<1>. QED
  BY <1>1 DEF Inv, Screen, PicturesGood, One, Imaged, Checked, Goto, object, devil

LEMMA NotedKeeps ==
  ASSUME NEW ok, NEW needs, NEW made, NEW place,
         Inv, pc \notin Bound \cup Imaged \cup {"thrown"}, place \notin Bound \cup Imaged,
         Noted(ok, needs, made, place), UNCHANGED <<object, target, devil>>
  PROVE  Inv'
<1>1. Listed' /\ Asked'
  BY StillListed, NotedAsks DEF Inv
<1>. QED
  BY <1>1 DEF Inv, Screen, PicturesGood, One, Imaged, Noted, Goto, object, devil

LEMMA PlainKeeps ==
  ASSUME NEW places, Inv, pc \notin Bound \cup Imaged \cup {"thrown", "made"},
         places \cap (Bound \cup Imaged) = {}, pc' \in places,
         Waiting => Waiting' \/ pc' = "thrown",
         UNCHANGED <<object, target, glError, devil, blame>>
  PROVE  Inv'
<1>1. Listed' /\ Asked'
  BY StillListed, PassAsks DEF Inv
<1>. QED
  BY <1>1 DEF Inv, Screen, PicturesGood, One, Imaged, object, devil

\* ilGenImages and ilDeleteImage.
LEMMA OneMore == ASSUME NEW n, n = 0 PROVE n + 1 = 1
  OBVIOUS

LEMMA OneLess == ASSUME NEW n, n = 1 PROVE n - 1 = 0
  OBVIOUS

LEMMA TextureKeeps == Inv /\ TextureNext => Inv'
<1>. SUFFICES ASSUME Inv, TextureNext
              PROVE  Inv'
  OBVIOUS
<1>0. Listed /\ Asked
  BY DEF Inv
<1>. USE DEF At, Goto, Bound, Imaged
<1>1. CASE OpenPictures
  <2>1. pc = "open" /\ UNCHANGED <<object, target, glError, devil, blame>>
    BY <1>1 DEF OpenPictures, OpenFile
  <2>2. pc' \in {"thrown", IF kind = "texture" THEN "bind image" ELSE "gen texture"}
    BY <1>1 DEF OpenPictures, OpenFile
  <2>3. Waiting' \/ pc' = "thrown"
    BY <2>1, <2>2 DEF Waiting, object
  <2>4. Asked' /\ Listed'
    BY <1>0, <2>1, <2>3, PassAsks, StillListed
  <2>. QED
    BY <2>1, <2>2, <2>4 DEF Inv, Screen, PicturesGood, One, object, devil
<1>2. CASE BindImage
  <2>1. pc = "bind image" /\ pc' = "load image"
        /\ UNCHANGED <<object, target, glError, ilErrors, bad, blame>>
    BY <1>2 DEF BindImage
  <2>2. images' = 1
    <3>1. images = 0 /\ images' = images + 1
      BY <2>1, <1>2 DEF BindImage, Inv, One
    <3>. QED
      BY <3>1, OneMore, Zenon
  <2>3. Waiting => Waiting'
    BY <2>1 DEF Waiting, object
  <2>4. Asked' /\ Listed'
    BY <1>0, <2>1, <2>3, PassAsks, StillListed
  <2>. QED
    BY <2>1, <2>2, <2>4 DEF Inv, Screen, PicturesGood, One
<1>3. CASE LoadImage
  <2>1. pc = "load image" /\ pc' \in {"thrown", "convert image"}
        /\ UNCHANGED <<object, target, glError, bad, images, blame>>
    BY <1>3 DEF LoadImage
  <2>2. pc' # "thrown" => bad' \subseteq ilErrors'
    BY <1>3 DEF LoadImage, get_devil_error, Inv, PicturesGood
  <2>3. Waiting => Waiting' \/ pc' = "thrown"
    BY <2>1 DEF Waiting, object
  <2>4. Asked' /\ Listed'
    BY <1>0, <2>1, <2>3, PassAsks, StillListed
  <2>. QED
    BY <2>1, <2>2, <2>4 DEF Inv, Screen, PicturesGood, One
<1>4. CASE ConvertImage
  <2>1. pc = "convert image" /\ images = 1 /\ UNCHANGED <<object, target, glError, images, blame>>
        /\ pc' = IF kind = "texture" THEN "gen texture" ELSE "upload"
    BY <1>4 DEF ConvertImage, Inv, One
  <2>2. bad' \subseteq ilErrors'
    BY <2>1, <1>4 DEF ConvertImage, Inv, PicturesGood
  <2>3. Waiting => Waiting'
    BY <2>1 DEF Waiting
  <2>4. Asked' /\ Listed'
    BY <1>0, <2>1, <2>3, PassAsks, StillListed
  <2>. QED
    BY <2>1, <2>2, <2>4 DEF Inv, Screen, PicturesGood, One, object
<1>5. CASE GenTexture
  <2>1. Asked' /\ Listed'
    BY <1>0, <1>5, CheckedAsks, StillListed DEF GenTexture
  <2>. QED
    BY <1>5, <2>1 DEF GenTexture, Checked, Inv, Screen, PicturesGood, One, object, devil
<1>6. CASE TextureParameters
  <2>1. Asked' /\ Listed'
    BY <1>0, <1>6, NotedAsks, StillListed DEF TextureParameters
  <2>. QED
    BY <1>6, <2>1 DEF TextureParameters, Noted, Inv, Screen, PicturesGood, One, object, devil
<1>7. CASE Upload
  <2>1. pc = "upload" /\ images = 1 /\ images' = images - 1
        /\ UNCHANGED <<object, target, ilErrors, bad>>
    BY <1>7 DEF Upload, Inv, One
  <2>2. PICK ok \in BOOLEAN : Checked(ok, {"id"}, {"image"}, {"id"}, "mipmaps")
    BY <1>7 DEF Upload
  <2>3. images' = 0 /\ pc' \in {"thrown", "mipmaps"}
    BY <2>1, <2>2 DEF Checked
  <2>4. Asked' /\ Listed'
    BY <1>0, <2>1, <2>2, CheckedAsks, StillListed
  <2>. QED
    BY <2>1, <2>3, <2>4 DEF Inv, Screen, PicturesGood, One, object
<1>8. CASE UploadFace
  <2>1. pc = "upload" /\ images = 1 /\ UNCHANGED <<object, target, ilErrors, bad>>
        /\ images' = IF pc' = "load image" THEN images ELSE images - 1
    BY <1>8 DEF UploadFace, Inv, One
  <2>. DEFINE place == IF k < 6 THEN "load image" ELSE "mipmaps"
  <2>2. PICK ok \in BOOLEAN : Checked(ok, {"id"}, {targets[k]}, {"id"}, place)
    BY <1>8 DEF UploadFace
  <2>3. pc' \in {"thrown", "load image", "mipmaps"}
    BY <2>2 DEF Checked
  <2>4. Asked' /\ Listed'
    BY <1>0, <2>1, <2>2, CheckedAsks, StillListed
  <2>5. images' = IF pc' = "load image" THEN 1 ELSE 0
    BY <2>1, OneLess, Zenon
  <2>6. pc' = "load image" => images' = 1
    BY <2>5, Zenon
  <2>7. pc' = "mipmaps" => images' = 0
    BY <2>5, Zenon
  <2>8. One'
    BY <2>3, <2>6, <2>7 DEF One
  <2>9. Screen' /\ PicturesGood'
    BY <2>1, <2>3 DEF Inv, Screen, PicturesGood
  <2>. QED
    BY <2>4, <2>8, <2>9 DEF Inv
<1>9. CASE GenerateMipmap
  BY <1>9, NotedKeeps DEF GenerateMipmap
<1>. QED
  BY <1>1, <1>2, <1>3, <1>4, <1>5, <1>6, <1>7, <1>8, <1>9 DEF TextureNext

\* Only while a buffer is bound does a frame or depth buffer's constructor throw with another
\* target than the screen, and it deletes what it has bound.
LEMMA BufferKeeps == Inv /\ BufferNext => Inv'
<1>. SUFFICES ASSUME Inv, BufferNext
              PROVE  Inv'
  OBVIOUS
<1>1. CASE GenFrame
  BY <1>1, CheckedKeeps DEF GenFrame, At, Bound, Imaged
<1>2. CASE GenDepth
  BY <1>2, CheckedKeeps DEF GenDepth, At, Bound, Imaged
<1>3. CASE FrameImage
  BY <1>3, CheckedKeeps DEF FrameImage, At, Bound, Imaged
<1>4. CASE FrameParameters
  BY <1>4, NotedKeeps DEF FrameParameters, At, Bound, Imaged
<1>5. CASE GenDepthAgain
  <2>1. pc = "gen depth again" /\ UNCHANGED <<object, target, devil>>
        /\ pc' \in {"bind depth", "thrown"}
    BY <1>5 DEF GenDepthAgain, At, Goto
  <2>2. Listed /\ Asked /\ Listed'
    BY <2>1, StillListed DEF Inv
  <2>3. Asked'
    <3>1. build = "Debug" => glError = 0 /\ blame = 0
      BY <2>1, <2>2 DEF Asked, Waiting
    <3>. QED
      BY <1>5, <2>1, <2>2, <3>1 DEF GenDepthAgain, Asked, Pending, Goto, object, This
  <2>. QED
    BY <2>1, <2>2, <2>3 DEF Inv, Screen, PicturesGood, One, Imaged, Bound, object, devil
<1>6. CASE BindDepth
  BY <1>6, CheckedKeeps DEF BindDepth, At, Bound, Imaged
<1>7. CASE DepthImage
  BY <1>7, CheckedKeeps DEF DepthImage, At, Bound, Imaged
<1>8. CASE DepthParameters
  BY <1>8, NotedKeeps DEF DepthParameters, At, Bound, Imaged
<1>. USE DEF At, Goto, Bound, Screen, PicturesGood, One, Imaged, object, devil
<1>9. CASE GenBuffer
  <2>1. Asked' /\ Listed'
    BY <1>9, CheckedAsks, StillListed DEF GenBuffer, Inv
  <2>. QED
    BY <1>9, <2>1 DEF GenBuffer, Checked, Inv
<1>10. CASE Attach
  <2>1. Asked' /\ Listed'
    BY <1>10, CheckedAsks, StillListed DEF Attach, Inv
  <2>. QED
    BY <1>10, <2>1 DEF Attach, Checked, Inv
<1>11. CASE DrawBuffer
  <2>1. Asked' /\ Listed'
    BY <1>11, CheckedAsks, StillListed DEF DrawBuffer, Inv
  <2>. QED
    BY <1>11, <2>1 DEF DrawBuffer, Checked, Inv
<1>12. CASE UnbindBuffer
  <2>1. Asked' /\ Listed'
    BY <1>12, NotedAsks, StillListed DEF UnbindBuffer, Inv
  <2>. QED
    BY <1>12, <2>1 DEF UnbindBuffer, Noted, Inv
<1>. QED
  BY <1>1, <1>2, <1>3, <1>4, <1>5, <1>6, <1>7, <1>8, <1>9, <1>10, <1>11, <1>12 DEF BufferNext

LEMMA SaveKeeps == Inv /\ SaveNext => Inv'
<1>. SUFFICES ASSUME Inv, SaveNext
              PROVE  Inv'
  OBVIOUS
<1>0. Listed /\ Asked
  BY DEF Inv
<1>. USE DEF At, Goto, Bound, Screen, PicturesGood, One, Imaged, object, devil
<1>1. CASE SaveRead
  <2>1. pc = "running" /\ UNCHANGED <<object, devil>>
    BY <1>1 DEF SaveRead
  <2>2. PICK ok \in BOOLEAN : Checked(ok, {}, {}, {}, "save picture")
    BY <1>1 DEF SaveRead
  <2>3. pc' \in {"thrown", "save picture"}
    BY <2>2 DEF Checked
  <2>4. Asked' /\ Listed'
    BY <1>0, <2>1, <2>2, CheckedAsks, StillListed
  <2>. QED
    BY <2>1, <2>3, <2>4 DEF Inv
<1>2. CASE SavePicture
  <2>1. pc = "save picture" /\ pc' = "save end"
        /\ UNCHANGED <<object, glError, bad, images, blame>>
    BY <1>2 DEF SavePicture
  <2>2. ilErrors \subseteq ilErrors'
    BY <1>2 DEF SavePicture
  <2>3. Asked' /\ Listed'
    BY <1>0, <2>1, PassAsks, StillListed DEF Waiting
  <2>. QED
    BY <2>1, <2>2, <2>3 DEF Inv
<1>3. CASE SaveEnd
  <2>1. pc = "save end" /\ pc' = "running" /\ target' = "screen"
        /\ UNCHANGED <<object, glError, devil, blame>>
    BY <1>3 DEF SaveEnd
  <2>2. Asked' /\ Listed'
    BY <1>0, <2>1, PassAsks, StillListed DEF Waiting
  <2>. QED
    BY <2>1, <2>2 DEF Inv
<1>. QED
  BY <1>1, <1>2, <1>3 DEF SaveNext

\* Only the query of the program's status may leave an error when an effect is made.
LEMMA EffectKeeps == Inv /\ InEffect /\ EffectNext => Inv'
<1>. SUFFICES ASSUME Inv, InEffect, EffectNext
              PROVE  Inv'
  OBVIOUS
<1>0. Listed /\ Asked
  BY DEF Inv
<1>1. CASE OpenShader
  <2>1. pc = "open" /\ pc' \in {"thrown", "create shader"}
        /\ UNCHANGED <<object, target, glError, devil, blame>>
    BY <1>1 DEF OpenShader, OpenFile, At, Goto
  <2>. QED
    BY <2>1, PlainKeeps DEF Bound, Imaged, Waiting
<1>2. CASE CreateShader
  BY <1>2, CheckedKeeps DEF CreateShader, At, Bound, Imaged
<1>3. CASE CompileShader
  <2>1. pc = "compile shader" /\ UNCHANGED <<object, target, devil>>
    BY <1>3 DEF CompileShader, At
  <2>2. PICK ok \in BOOLEAN, compiles \in BOOLEAN :
          Checked(ok, {_shaders[k]}, IF compiles THEN {Compiled[k]} ELSE {}, {}, "compile status")
    BY <1>3 DEF CompileShader
  <2>. QED
    BY <2>1, <2>2, CheckedKeeps DEF Bound, Imaged
<1>4. CASE CompileStatus
  <2>1. pc = "compile status" /\ pc' \in {"open", "create program", "thrown"}
        /\ UNCHANGED <<object, target, devil, blame>> /\ (build = "Debug" => glError' = 0)
    BY <1>4 DEF CompileStatus, At, Goto
  <2>2. Asked' /\ Listed'
    BY <1>0, <2>1, StillListed DEF Asked, object
  <2>. QED
    BY <2>1, <2>2 DEF Inv, Bound, Screen, PicturesGood, One, Imaged, object, devil
<1>5. CASE CreateProgram
  BY <1>5, CheckedKeeps DEF CreateProgram, At, Bound, Imaged
<1>6. CASE AttachShader
  <2>1. pc = "attach shader" /\ UNCHANGED <<object, target, devil>>
    BY <1>6 DEF AttachShader, At
  <2>. DEFINE place == IF k = 1 THEN "attach shader" ELSE "link program"
  <2>2. PICK ok \in BOOLEAN : Checked(ok, {"program", _shaders[k]}, {Attached[k]}, {}, place)
    BY <1>6 DEF AttachShader
  <2>3. place \notin Bound \cup Imaged
    BY DEF Bound, Imaged
  <2>. HIDE DEF place
  <2>. QED
    BY <2>1, <2>2, <2>3, CheckedKeeps DEF Bound, Imaged
<1>7. CASE LinkProgram
  <2>. DEFINE needs      == {"program"} \cup Each(Attached)
              made(links) == IF links THEN {"linked"} ELSE {}
              deleted    == {"program"} \cup Each(_shaders)
  <2>1. pc = "link program" /\ UNCHANGED <<object, target, devil>>
    BY <1>7 DEF LinkProgram, At
  <2>2. PICK ok \in BOOLEAN, links \in BOOLEAN :
          Checked(ok, needs, made(links), deleted, "link status")
    BY <1>7 DEF LinkProgram
  <2>. HIDE DEF needs, made, deleted
  <2>. QED
    BY <2>1, <2>2, CheckedKeeps DEF Bound, Imaged
<1>8. CASE LinkStatus
  <2>1. pc = "link status" /\ pc' \in {"made", "thrown"}
        /\ UNCHANGED <<object, target, devil, blame>> /\ glError' \in {glError, This}
    BY <1>8 DEF LinkStatus, At, Goto, Pending
  <2>2. Asked' /\ Listed'
    <3>1. kind = "effect"
      BY <2>1 DEF InEffect, EffectPlaces
    <3>. QED
      BY <1>0, <2>1, <3>1, StillListed DEF Asked, object, This, Waiting
  <2>. QED
    BY <2>1, <2>2 DEF Inv, Bound, Screen, PicturesGood, One, Imaged, object, devil
<1>. QED
  BY <1>1, <1>2, <1>3, <1>4, <1>5, <1>6, <1>7, <1>8 DEF EffectNext

LEMMA GeometryKeeps == Inv /\ GeometryNext => Inv'
<1>. SUFFICES ASSUME Inv, GeometryNext
              PROVE  Inv'
  OBVIOUS
<1>. USE DEF At, Goto, Bound, Imaged
<1>1. CASE FromShape \/ OpenModel
  <2>1. pc = "open" /\ kind = "geometry" /\ pc' \in {"add buffer", "read file", "thrown"}
        /\ UNCHANGED <<object, target, glError, devil, blame>>
    BY <1>1 DEF FromShape, OpenModel, OpenFile
  <2>. QED
    BY <2>1, PlainKeeps DEF Waiting
<1>2. CASE ReadFile \/ ReadMesh
  <2>1. pc \in {"read file", "read mesh"} /\ pc' \in {"read mesh", "add buffer", "thrown"}
        /\ UNCHANGED <<object, target, glError, devil, blame>>
    BY <1>2 DEF ReadFile, ReadMesh
  <2>. QED
    BY <2>1, PlainKeeps DEF Waiting
<1>3. CASE GenerateTb \/ RefuseBuffer
  <2>1. pc \in {"add buffer", "fill buffer"} /\ pc' \in {"add buffer", "thrown"}
        /\ UNCHANGED <<object, target, glError, devil, blame>>
    BY <1>3 DEF GenerateTb, RefuseBuffer, Filling
  <2>. QED
    BY <2>1, PlainKeeps DEF Waiting
<1>4. CASE GenVertexArray
  BY <1>4, CheckedKeeps DEF GenVertexArray
<1>5. CASE FillBuffer
  <2>1. pc \in {"fill buffer", "add buffer"} /\ UNCHANGED <<object, target, devil>>
    BY <1>5 DEF FillBuffer, Filling
  <2>2. PICK ok \in BOOLEAN : Noted(ok, {"vertex array"}, {}, "add buffer")
    BY <1>5 DEF FillBuffer
  <2>. QED
    BY <2>1, <2>2, NotedKeeps
<1>6. CASE AddIndexBuffer
  BY <1>6, NotedKeeps DEF AddIndexBuffer
<1>7. CASE NoIndexBuffer
  <2>1. pc = "add buffer" /\ pc' = "made" /\ UNCHANGED <<object, target, glError, devil, blame>>
    BY <1>7 DEF NoIndexBuffer
  <2>. QED
    BY <2>1, PlainKeeps DEF Waiting
<1>. QED
  BY <1>1, <1>2, <1>3, <1>4, <1>5, <1>6, <1>7 DEF GeometryNext

\* Only what may be made after an effect finds its error.
LEMMA AfterEffect ==
  ASSUME NEW next \in Kinds, NEW n \in 1 .. Len(loaded), loaded[n].kind = "effect", Begin(next)
  PROVE  next \in {"effect", "texture", "cubemap"}
<1>1. Rank["effect"] <= Rank[next]
  BY DEF Begin
<1>2. /\ Rank["frame"] = 1 /\ Rank["depth"] = 2 /\ Rank["geometry"] = 3 /\ Rank["effect"] = 4
  BY DEF Rank
<1>. QED
  BY <1>1, <1>2 DEF Kinds

LEMMA FirstPlaces ==
  ASSUME NEW next \in Kinds
  PROVE  FirstPlace[next] \in {"gen frame", "gen depth", "open"}
<1>1. /\ FirstPlace["frame"] = "gen frame"
      /\ FirstPlace["depth"] = "gen depth"
      /\ FirstPlace["geometry"] = "open"
      /\ FirstPlace["effect"] = "open"
      /\ FirstPlace["texture"] = "open"
      /\ FirstPlace["cubemap"] = "open"
  BY DEF FirstPlace
<1>. QED
  BY <1>1 DEF Kinds

\* Only an effect's constructor is at its places.
LEMMA InEffectStep == InEffect /\ [Next]_vars => InEffect'
<1>. SUFFICES ASSUME InEffect, [Next]_vars
              PROVE  InEffect'
  OBVIOUS
<1>. USE DEF At, Goto, Checked, Noted, OpenFile, EffectPlaces
<1>1. CASE TextureNext
  <2>1. pc' \notin EffectPlaces
    BY <1>1 DEF TextureNext, OpenPictures, BindImage, LoadImage, ConvertImage, GenTexture,
       TextureParameters, Upload, UploadFace, GenerateMipmap
  <2>. QED
    BY <2>1 DEF InEffect
<1>2. CASE BufferNext
  <2>1. pc' \notin EffectPlaces
    BY <1>2 DEF BufferNext, GenFrame, GenDepth, FrameImage, FrameParameters, GenDepthAgain,
       BindDepth, DepthImage, DepthParameters, GenBuffer, Attach, DrawBuffer, UnbindBuffer
  <2>. QED
    BY <2>1 DEF InEffect
<1>3. CASE EffectNext
  <2>1. pc \in EffectPlaces \/ kind = "effect"
    BY <1>3 DEF EffectNext, OpenShader, CreateShader, CompileShader, CompileStatus,
       CreateProgram, AttachShader, LinkProgram, LinkStatus
  <2>2. UNCHANGED object
    BY <1>3 DEF EffectNext, OpenShader, CreateShader, CompileShader, CompileStatus,
       CreateProgram, AttachShader, LinkProgram, LinkStatus
  <2>. QED
    BY <2>1, <2>2 DEF InEffect, object
<1>4. CASE GeometryNext
  <2>1. pc' \notin EffectPlaces
    BY <1>4 DEF GeometryNext, FromShape, OpenModel, ReadFile, ReadMesh, GenerateTb,
       GenVertexArray, RefuseBuffer, FillBuffer, Filling, AddIndexBuffer, NoIndexBuffer
  <2>. QED
    BY <2>1 DEF InEffect
<1>5. ASSUME NEW next \in Kinds, Begin(next)
      PROVE  InEffect'
  <2>1. pc' = FirstPlace[next]
    BY <1>5 DEF Begin
  <2>. QED
    BY <2>1, FirstPlaces DEF InEffect
<1>6. CASE End \/ Return \/ SaveNext
  BY <1>6 DEF End, Return, SaveNext, SaveRead, SavePicture, SaveEnd, InEffect
<1>7. CASE UNCHANGED vars
  BY <1>7 DEF vars, glVars, InEffect
<1>. QED
  BY <1>1, <1>2, <1>3, <1>4, <1>5, <1>6, <1>7 DEF Next, Load, Save

LEMMA InvStep == Inv /\ InEffect /\ [Next]_vars => Inv'
<1>. SUFFICES ASSUME Inv, InEffect, [Next]_vars
              PROVE  Inv'
  OBVIOUS
<1>1. ASSUME NEW next \in Kinds, Begin(next)
      PROVE  Inv'
  <2>1. pc = "choose" /\ pc' = FirstPlace[next]
    BY <1>1 DEF Begin, At, Goto
  <2>2. FirstPlace[next] \in {"gen frame", "gen depth", "open"}
    BY FirstPlaces
  <2>3. UNCHANGED <<build, loaded, target, glError, devil, blame>> /\ kind' = next
    BY <1>1 DEF Begin
  <2>4. Listed'
    BY <2>3 DEF Inv, Listed
  <2>5. Near(glError) => Waiting'
    <3>1. ASSUME Near(glError)
          PROVE  next \in {"effect", "texture", "cubemap"}
      BY <1>1, <3>1, AfterEffect DEF Near
    <3>2. FirstPlace["effect"] = "open" /\ FirstPlace["texture"] = "open"
          /\ FirstPlace["cubemap"] = "open"
      BY DEF FirstPlace
    <3>. QED
      BY <2>1, <2>3, <3>1, <3>2 DEF Waiting
  <2>6. Asked'
    BY <2>1, <2>2, <2>3, <2>5 DEF Inv, Asked, Near, This
  <2>. QED
    BY <2>1, <2>2, <2>3, <2>4, <2>6 DEF Bound, Inv, Screen, PicturesGood, One, Imaged, devil
<1>2. CASE End
  <2>. DEFINE made == [kind |-> kind, parts |-> parts, lacks |-> Missing,
                       failed |-> failed, mixed |-> mixed]
  <2>1. pc = "made" /\ pc' = "choose" /\ UNCHANGED <<build, target, glError, devil, blame>>
        /\ loaded' = Append(loaded, made)
    BY <1>2 DEF End, At, Goto
  <2>2. made.kind = kind
    OBVIOUS
  <2>. HIDE DEF made
  <2>3. PICK S : loaded \in Seq(S)
    BY DEF Inv, Listed
  <2>4. /\ loaded' \in Seq(S \cup {made}) /\ Len(loaded) \in Nat
        /\ Len(loaded') = Len(loaded) + 1 /\ loaded'[Len(loaded) + 1] = made
    <3>1. loaded \in Seq(S \cup {made})
      BY <2>3
    <3>. QED
      BY <2>1, <3>1
  <2>5. Listed'
    BY <2>4 DEF Listed
  <2>6. kind = "effect" /\ glError = This => Near(glError)'
    <3>1. Len(loaded') \in 1 .. Len(loaded')
      BY <2>4
    <3>. QED
      BY <2>1, <2>2, <2>4, <3>1 DEF Near, This
  <2>7. Asked'
    BY <2>1, <2>6 DEF Inv, Asked, Waiting
  <2>. QED
    BY <2>1, <2>5, <2>7 DEF Bound, Inv, Screen, PicturesGood, One, Imaged, devil
<1>3. CASE Return
  <2>1. pc = "choose" /\ pc' = "running" /\ UNCHANGED <<object, target, glError, devil, blame>>
    BY <1>3 DEF Return, At, Goto
  <2>. QED
    BY <2>1, PlainKeeps DEF Bound, Imaged, Waiting
<1>4. CASE Load
  BY <1>1, <1>2, <1>3, <1>4, TextureKeeps, BufferKeeps, EffectKeeps, GeometryKeeps DEF Load
<1>5. CASE UNCHANGED vars
  BY <1>5 DEF vars, glVars, Inv, Listed, Asked, Near, Waiting, Screen, PicturesGood, One, Imaged,
     This, devil
<1>. QED
  BY <1>4, <1>5, SaveKeeps DEF Next, Save

LEMMA Invariant == Spec => []Inv
<1>1. Init => InEffect
  BY DEF Init, GLInit, InEffect, EffectPlaces
<1>. QED
  BY <1>1, InEffectStep, InvInit, InvStep, PTL DEF Spec

\* A check for OpenGL errors throws at an error of the object being made, or of the effect
\* made just before it: nothing else that is made, or saved, leaves one pending.
THEOREM BlameCorrect == Spec => []BlameNear
<1>1. Inv => BlameNear
  BY DEF Inv, Asked, Near, BlameNear
<1>. QED
  BY Invariant, <1>1, PTL

\* No constructor and no save that returns leaves a frame buffer bound.
THEOREM TargetCorrect == Spec => []TargetRestored
<1>1. Inv => TargetRestored
  BY DEF Inv, Screen, TargetRestored, Bound
<1>. QED
  BY Invariant, <1>1, PTL

\* While the program runs, the error of a picture that was not converted waits with DevIL.
THEOREM PicturesCorrect == Spec => []PicturesGood
<1>1. Inv => PicturesGood
  BY DEF Inv
<1>. QED
  BY Invariant, <1>1, PTL

\* No picture that DevIL read outlives the constructor that read it.
THEOREM NothingCorrect == Spec => []NothingLost
<1>1. Inv => NothingLost
  BY DEF Inv, One, Imaged, NothingLost
<1>. QED
  BY Invariant, <1>1, PTL

=============================================================================
