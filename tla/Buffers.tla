------------------------------- MODULE Buffers ------------------------------
(* frame_buffer, depth_buffer, and the latter's save.  Both are textures that *)
(* are attached to a frame buffer object, which is bound for that.            *)
EXTENDS OpenGL

BufferKinds == {"frame", "depth"}

BufferParts ==
  [frame |-> {"frame", "frame image", "depth", "depth image", "buffer", "attached", "draw"},
   depth |-> {"depth", "depth image", "buffer", "attached", "draw"}]

\* texture(width, height), from the initialisers of the members.
GenFrame ==
  /\ At("gen frame")
  /\ \E ok \in BOOLEAN : Checked(ok, {}, {"frame"}, {}, "gen depth")
  /\ UNCHANGED <<object, k, target, devil>>

GenDepth ==
  /\ At("gen depth")
  /\ \E ok \in BOOLEAN :
       Checked(ok, {}, {"depth"}, {}, IF kind = "frame" THEN "frame image" ELSE "bind depth")
  /\ UNCHANGED <<object, k, target, devil>>

FrameImage ==
  /\ At("frame image")
  /\ \E ok \in BOOLEAN : Checked(ok, {"frame"}, {"frame image"}, {}, "frame parameters")
  /\ UNCHANGED <<object, k, target, devil>>

FrameParameters ==
  /\ At("frame parameters")
  /\ \E ok \in BOOLEAN : Noted(ok, {"frame"}, {}, "gen depth again")
  /\ UNCHANGED <<object, k, target, devil>>

\* _depth = texture(width, height): the texture it named is replaced, not deleted.
GenDepthAgain ==
  /\ At("gen depth again")
  /\ \E ok \in BOOLEAN :
       /\ Attempt(ok, {})
       /\ IF build = "Debug" /\ Pending(ok) # 0
          THEN Goto("thrown") /\ blame' = Pending(ok) /\ glError' = 0 /\ UNCHANGED parts
          ELSE /\ Goto("bind depth") /\ glError' = Pending(ok)
               /\ parts' = IF ok THEN parts \cup {"depth"} ELSE parts \ {"depth"}
               /\ UNCHANGED blame
  /\ UNCHANGED <<object, k, target, devil>>

BindDepth ==
  /\ At("bind depth")
  /\ \E ok \in BOOLEAN : Checked(ok, {"depth"}, {}, {}, "depth image")
  /\ UNCHANGED <<object, k, target, devil>>

DepthImage ==
  /\ At("depth image")
  /\ \E ok \in BOOLEAN : Checked(ok, {"depth"}, {"depth image"}, {}, "depth parameters")
  /\ UNCHANGED <<object, k, target, devil>>

DepthParameters ==
  /\ At("depth parameters")
  /\ \E ok \in BOOLEAN : Noted(ok, {"depth"}, {}, "gen buffer")
  /\ UNCHANGED <<object, k, target, devil>>

\* The frame buffer object is bound.  Deleting it while it is bound binds the screen.
GenBuffer ==
  /\ At("gen buffer")
  /\ \E ok \in BOOLEAN :
       /\ Checked(ok, {}, {"buffer"}, {"buffer"}, "attach")
       /\ target' = IF ok /\ pc' # "thrown" THEN kind ELSE target
  /\ UNCHANGED <<object, k, devil>>

Attach ==
  /\ At("attach")
  /\ \E ok \in BOOLEAN :
       Checked(ok, BufferParts[kind] \cap {"frame", "depth", "buffer"}, {"attached"}, {"buffer"},
               "draw buffer")
  /\ target' = IF pc' = "thrown" THEN "screen" ELSE target
  /\ UNCHANGED <<object, k, devil>>

DrawBuffer ==
  /\ At("draw buffer")
  /\ \E ok \in BOOLEAN : Checked(ok, {"buffer"}, {"draw"}, {"buffer"}, "unbind buffer")
  /\ target' = IF pc' = "thrown" THEN "screen" ELSE target
  /\ UNCHANGED <<object, k, devil>>

UnbindBuffer ==
  /\ At("unbind buffer")
  /\ Noted(TRUE, {}, {}, "made")
  /\ target' = "screen"
  /\ UNCHANGED <<object, k, devil>>

-----------------------------------------------------------------------------
(* Key I, from update: shadow.buffer->save.                                  *)

ShadowMap == {n \in 1 .. Len(loaded) : loaded[n].kind = "depth"}

\* The depths are read from the buffer, if there is one to bind.
SaveRead ==
  /\ At("running") /\ ShadowMap # {}
  /\ \E n \in ShadowMap, ok \in BOOLEAN :
       /\ Checked(ok, {}, {}, {}, "save picture")
       /\ target' = IF "buffer" \in loaded[n].parts THEN "depth" ELSE target
  /\ UNCHANGED <<object, k, devil>>

\* ilTexImage and ilSave, which does not overwrite; a failure is only displayed.
SavePicture ==
  /\ At("save picture")
  /\ \E ok \in BOOLEAN :
       /\ Attempt(ok, {})
       /\ ilErrors' = IF ok THEN ilErrors ELSE ilErrors \cup {This}
  /\ Goto("save end")
  /\ UNCHANGED <<object, parts, k, target, glError, bad, images, blame>>

\* Mutant: the screen is not bound again.
SaveEndBound ==
  /\ At("save end")
  /\ Goto("running")
  /\ UNCHANGED <<object, parts, k, target, glError, devil, failed, faults, blame>>

SaveEnd ==
  /\ At("save end")
  /\ target' = "screen"
  /\ Goto("running")
  /\ UNCHANGED <<object, parts, k, glError, devil, failed, faults, blame>>

BufferNext ==
  \/ GenFrame \/ GenDepth \/ FrameImage \/ FrameParameters \/ GenDepthAgain
  \/ BindDepth \/ DepthImage \/ DepthParameters
  \/ GenBuffer \/ Attach \/ DrawBuffer \/ UnbindBuffer

SaveNext == SaveRead \/ SavePicture \/ SaveEnd

=============================================================================
