------------------------------- MODULE Texture ------------------------------
(* texture(filename) and cubemap(filenames): a picture is read by DevIL, made *)
(* RGBA, handed to OpenGL and deleted.                                        *)
EXTENDS OpenGL

\* The order in which a cubemap's pictures are loaded.
targets == <<"+x", "-x", "+y", "-y", "+z", "-z">>

Pictures == {"texture", "cubemap"}

TextureParts ==
  [texture |-> {"id", "image"}, cubemap |-> {"id"} \cup {targets[n] : n \in 1 .. 6}]

OpenPictures ==
  /\ At("open") /\ kind \in Pictures
  /\ OpenFile(IF kind = "texture" THEN "bind image" ELSE "gen texture")

\* ilGenImages and ilBindImage.
BindImage ==
  /\ At("bind image")
  /\ images' = images + 1 /\ k' = 1
  /\ Goto("load image")
  /\ UNCHANGED <<object, parts, target, glError, ilErrors, bad, failed, faults, blame>>

\* Mutant: what is asked for is only whether this call failed.
get_devil_error_own(errors) == This \in errors

\* All errors are displayed and forgotten; one is enough to throw.
get_devil_error(errors) == errors # {}

LoadImage ==
  /\ At("load image")
  /\ \E ok \in BOOLEAN :
       LET errors == IF ok THEN ilErrors ELSE ilErrors \cup {This}
       IN  Attempt(ok, {}) /\ Goto(IF get_devil_error(errors) THEN "thrown" ELSE "convert image")
  /\ ilErrors' = {}
  /\ UNCHANGED <<object, parts, k, target, glError, bad, images, blame>>

\* iluFlipImage and ilConvertImage, the results of which are not looked at.
ConvertImage ==
  /\ At("convert image")
  /\ \E ok \in BOOLEAN :
       /\ Attempt(ok, {})
       /\ ilErrors' = IF ok THEN ilErrors ELSE ilErrors \cup {This}
       /\ bad' = IF ok THEN bad ELSE bad \cup {This}
  /\ Goto(IF kind = "texture" THEN "gen texture" ELSE "upload")
  /\ UNCHANGED <<object, parts, k, target, glError, images, blame>>

GenTexture ==
  /\ At("gen texture")
  /\ \E ok \in BOOLEAN : Checked(ok, {}, {"id"}, {}, "texture parameters")
  /\ UNCHANGED <<object, k, target, devil>>

TextureParameters ==
  /\ At("texture parameters")
  /\ \E ok \in BOOLEAN :
       Noted(ok, {"id"}, {}, IF kind = "texture" THEN "upload" ELSE "bind image")
  /\ UNCHANGED <<object, k, target, devil>>

\* Mutant: the picture is not deleted.
UploadKept ==
  /\ At("upload") /\ kind = "texture"
  /\ \E ok \in BOOLEAN : Checked(ok, {"id"}, {"image"}, {"id"}, "mipmaps")
  /\ UNCHANGED <<object, k, target, devil>>

Upload ==
  /\ At("upload") /\ kind = "texture"
  /\ \E ok \in BOOLEAN : Checked(ok, {"id"}, {"image"}, {"id"}, "mipmaps")
  /\ images' = images - 1
  /\ UNCHANGED <<object, k, target, ilErrors, bad>>

\* Mutant: the last of the six faces is not loaded.
UploadFaceFive ==
  /\ At("upload") /\ kind = "cubemap"
  /\ \E ok \in BOOLEAN :
       Checked(ok, {"id"}, {targets[k]}, {"id"}, IF k < 5 THEN "load image" ELSE "mipmaps")
  /\ k' = IF k < 5 THEN k + 1 ELSE k
  /\ images' = IF pc' = "load image" THEN images ELSE images - 1
  /\ UNCHANGED <<object, target, ilErrors, bad>>

\* One DevIL image is used for the six faces and deleted after the last, or if one fails.
UploadFace ==
  /\ At("upload") /\ kind = "cubemap"
  /\ \E ok \in BOOLEAN :
       Checked(ok, {"id"}, {targets[k]}, {"id"}, IF k < 6 THEN "load image" ELSE "mipmaps")
  /\ k' = IF k < 6 THEN k + 1 ELSE k
  /\ images' = IF pc' = "load image" THEN images ELSE images - 1
  /\ UNCHANGED <<object, target, ilErrors, bad>>

\* Mutant: the last check is left out.
GenerateMipmapUnchecked ==
  /\ At("mipmaps")
  /\ \E ok \in BOOLEAN :
       /\ Attempt(ok, TextureParts[kind])
       /\ glError' = Pending(ok)
       /\ parts' = Made(ok, TextureParts[kind], {"mipmaps"})
  /\ Goto("made")
  /\ UNCHANGED <<object, k, target, devil, blame>>

GenerateMipmap ==
  /\ At("mipmaps")
  /\ \E ok \in BOOLEAN : Noted(ok, TextureParts[kind], {"mipmaps"}, "made")
  /\ UNCHANGED <<object, k, target, devil>>

TextureNext ==
  \/ OpenPictures \/ BindImage \/ LoadImage \/ ConvertImage
  \/ GenTexture \/ TextureParameters \/ Upload \/ UploadFace \/ GenerateMipmap

=============================================================================
