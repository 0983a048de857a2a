----------------------------- MODULE RenderFrame ----------------------------
(***************************************************************************)
(* One frame after another as render draws it: the sky and the meshes into *)
(* an off-screen frame buffer, the gate into the shadow map, the frame     *)
(* buffer through the post-process to the screen, and the menu over it.    *)
(* OpenGL is a machine whose state outlives the function and the frame     *)
(* that set it: the render target, what is enabled, the textures bound to  *)
(* the units, the units each program's samplers are set to.  Every pass    *)
(* sets that state up, calls renderer::render for its geometry, and goes   *)
(* on.  Textures are told apart by what they are for.                      *)
(*                                                                         *)
(* Of OpenGL's rules two matter here.  A draw call of a program two of     *)
(* whose samplers of different types are set to one unit draws nothing and *)
(* raises an error.  A uniform set by another program's location sets what *)
(* the linker put there (landing), or raises an error.  A Debug build asks *)
(* for errors in every call of the renderer and throws; a Release build    *)
(* never asks.                                                             *)
(***************************************************************************)
EXTENDS Integers, Sequences

CONSTANTS
  Meshes,        \* the names of the meshes, in the map's order
  Assigned,      \* [name -> 1..4]: the render types that load_content sets
  NormalMapped,  \* the meshes that have a normal map
  Builds,        \* among "Debug" and "Release"
  Landings       \* what a linker may give reflection_eff's cubeMap location to in fresnel_eff

Names   == {Meshes[i] : i \in 1 .. Len(Meshes)}
Unit    == 0 .. 3
Texture == {"none", "surface", "normal", "shadow", "frame", "menu"}
Cube    == {"none", "cube_map", "cube_map2"}
Sampler == {"tex", "normalMap", "shadowMap", "cubeMap"}
Target  == {"screen", "scene", "shadow"}
Switch  == {"depth test", "depth write", "culling"}

ASSUME MeshAssumption ==
  /\ Meshes \in Seq(STRING)
  /\ \A m \in DOMAIN Assigned : Assigned[m] \in 1 .. 4
  /\ Builds \subseteq {"Debug", "Release"}
  /\ Landings \subseteq {"cubeMap", "tex", "shadowMap", "other"}

\* The samplers that each effect's shaders use.
Active ==
  [e \in {"main_eff", "normal_eff", "reflection_eff", "fresnel_eff", "normal-reflection_eff",
          "sky_eff", "shadow_eff", "post_process_eff", "menu_eff"} |->
     CASE e = "main_eff"   -> {"tex", "shadowMap"}
       [] e = "normal_eff" -> {"tex", "shadowMap", "normalMap"}
       [] e \in {"reflection_eff", "fresnel_eff"} -> {"tex", "shadowMap", "cubeMap"}
       [] e = "normal-reflection_eff" -> Sampler
       [] e = "sky_eff" -> {"cubeMap"}
       [] OTHER -> {"tex"}]

Effect == DOMAIN Active

\* What a draw onto a target writes.
Attached == [screen |-> "none", scene |-> "frame", shadow |-> "shadow"]

VARIABLES
  build, landing,   \* which build runs, and what the linker did
  pass,             \* what render is drawing: "sky", "shadow", "mesh", "post" or "menu"
  pc,               \* where in the pass it is
  next,             \* the meshes loop's position
  fbo,              \* the render target
  enabled,          \* what is switched on
  cullFace,         \* "front" or "back"
  effect,           \* the program in use
  unit2D, unitCube, \* the textures bound to the units
  uniform,          \* the units that each effect's samplers are set to
  glError,          \* is an error waiting for glGetError?
  type,             \* RenderTypes, -1 where the map has no entry
  renderMenu, item, \* the menu: is it shown, and with which row selected
  cleared,          \* history: the targets whose depth was cleared in this frame
  shadowDrawn,      \* history: has the shadow map been drawn in this frame?
  painted,          \* history: the meshes drawn in this frame
  warm              \* history: has a frame been completed?

linked  == <<build, landing>>
target  == <<fbo, enabled, cullFace>>
units   == <<unit2D, unitCube, uniform>>
menu    == <<renderMenu, item>>
history == <<cleared, shadowDrawn, painted, warm>>
vars    == <<linked, pass, pc, next, target, effect, units, glError, type, menu, history>>

\* load_content has run: the last texture loaded is still bound, as is the last cubemap,
\* every sampler is set to unit 0 as it is when a program is linked, and the only render
\* types are the assigned ones.
Init ==
  /\ build \in Builds /\ landing \in Landings
  /\ pass = "menu" /\ pc = "begin" /\ next = 1
  /\ fbo = "screen" /\ enabled = Switch /\ cullFace = "back"
  /\ effect = "menu_eff"
  /\ unit2D = [u \in Unit |-> IF u = 0 THEN "menu" ELSE "none"]
  /\ unitCube = [u \in Unit |-> IF u = 0 THEN "cube_map2" ELSE "none"]
  /\ uniform = [e \in Effect |-> [s \in Sampler |-> 0]]
  /\ glError = FALSE
  /\ type = [m \in Names |-> IF m \in DOMAIN Assigned THEN Assigned[m] ELSE -1]
  /\ renderMenu = TRUE /\ item = 0
  /\ cleared = {} /\ shadowDrawn = FALSE /\ painted = {} /\ warm = FALSE

-----------------------------------------------------------------------------
(* OpenGL's part, and renderer::render.                                     *)

\* Two samplers of different types of the program in use are set to one unit.
Conflict ==
  /\ "cubeMap" \in Active[effect]
  /\ \E s \in Active[effect] \ {"cubeMap"} : uniform[effect][s] = uniform[effect]["cubeMap"]

\* glClear obeys the depth mask.
Clear(onto) == IF "depth write" \in enabled THEN {onto} ELSE {}

SetSamplers(e, values) ==
  uniform' = [uniform EXCEPT ![e] = [s \in Sampler |-> IF s \in DOMAIN values THEN values[s] ELSE uniform[e][s]]]

Enter(p) == pass' = p /\ pc' = "setup"

\* The draw call.  An error, this one's or one that has been waiting, ends a Debug
\* build; in a Release build it waits for ever, and what was not drawn is missing.
render ==
  /\ pc = "draw"
  /\ IF build = "Debug" /\ (Conflict \/ glError)
     THEN pc' = "crashed" /\ UNCHANGED <<glError, shadowDrawn, painted>>
     ELSE /\ pc' = "after"
          /\ glError' = (glError \/ Conflict)
          /\ shadowDrawn' = (shadowDrawn \/ pass = "shadow")
          /\ painted' = IF pass = "mesh" /\ ~ Conflict THEN painted \cup {Meshes[next]} ELSE painted
  /\ UNCHANGED <<linked, pass, next, target, effect, units, type, menu, cleared, warm>>

-----------------------------------------------------------------------------
(* The passes before the meshes.                                            *)

\* renderer::begin_render clears the target that the last frame ended with.
begin_render ==
  /\ pc = "begin"
  /\ pc' = "scene"
  /\ cleared' = Clear(fbo)
  /\ shadowDrawn' = FALSE /\ painted' = {}
  /\ UNCHANGED <<linked, pass, next, target, effect, units, glError, type, menu, warm>>

\* render sets its target and clears it.
BeginScene ==
  /\ pc = "scene"
  /\ Enter("sky")
  /\ fbo' = "scene"
  /\ cleared' = cleared \cup Clear("scene")
  /\ UNCHANGED <<linked, next, enabled, cullFace, effect, units, glError, type, menu,
                 shadowDrawn, painted, warm>>

\* Depth test, depth mask and culling are off for this one draw call.
renderSkybox ==
  /\ pass = "sky" /\ pc = "setup"
  /\ pc' = "draw"
  /\ enabled' = {}
  /\ effect' = "sky_eff"
  /\ unitCube' = [unitCube EXCEPT ![0] = "cube_map"]
  /\ SetSamplers("sky_eff", [cubeMap |-> 0])
  /\ UNCHANGED <<linked, pass, next, fbo, cullFace, unit2D, glError, type, menu, history>>

\* A mutant: the depth mask is not set again.
AfterSkyboxNoMask ==
  /\ pass = "sky" /\ pc = "after"
  /\ Enter("shadow")
  /\ enabled' = Switch \ {"depth write"}
  /\ UNCHANGED <<linked, next, fbo, cullFace, effect, units, glError, type, menu, history>>

AfterSkybox ==
  /\ pass = "sky" /\ pc = "after"
  /\ Enter("shadow")
  /\ enabled' = Switch
  /\ UNCHANGED <<linked, next, fbo, cullFace, effect, units, glError, type, menu, history>>

\* Of all the meshes only the gate casts a shadow.
renderShadowMap ==
  /\ pass = "shadow" /\ pc = "setup"
  /\ pc' = IF "gate" \in Names THEN "draw" ELSE "after"
  /\ fbo' = "shadow"
  /\ cleared' = cleared \cup Clear("shadow")
  /\ cullFace' = "front"
  /\ effect' = "shadow_eff"
  /\ UNCHANGED <<linked, pass, next, enabled, units, glError, type, menu, shadowDrawn, painted, warm>>

\* A mutant: the face to cull is not set back.
AfterShadowMapFront ==
  /\ pass = "shadow" /\ pc = "after"
  /\ Enter(IF Meshes = <<>> THEN "post" ELSE "mesh")
  /\ next' = 1
  /\ fbo' = "scene"
  /\ UNCHANGED <<linked, cullFace, enabled, effect, units, glError, type, menu, history>>

AfterShadowMap ==
  /\ pass = "shadow" /\ pc = "after"
  /\ Enter(IF Meshes = <<>> THEN "post" ELSE "mesh")
  /\ next' = 1
  /\ fbo' = "scene"
  /\ cullFace' = "back"
  /\ UNCHANGED <<linked, enabled, effect, units, glError, type, menu, history>>

-----------------------------------------------------------------------------
(* The meshes loop: the function for the mesh's render type, then the draw.  *)

\* RenderTypes[meshName]: a name without an entry is given one, whose default
\* constructor leaves the type as the memory was; 0 stands for all but 1 to 4.
Lookup(m, t) ==
  /\ type[m] \in {-1, t}
  /\ type' = [type EXCEPT ![m] = t]

\* What each of the five functions binds: a picture (the mesh's or the default one) and
\* the shadow map.
Lit == [unit2D EXCEPT ![0] = "surface", ![2] = "shadow"]

\* Beside them the normal map, if there is one.
Bumped(m) == IF m \in NormalMapped THEN [Lit EXCEPT ![1] = "normal"] ELSE Lit

\* One that does not exist is a default texture, neither 2D nor a cubemap: to bind it fails
\* an assertion in a Debug build; in a Release build it is an error of OpenGL's, and what
\* was bound to the unit stays.
BindsDefault(m, bumps) == bumps /\ m \notin NormalMapped

Proceed(m, bumps) ==
  pc' = IF BindsDefault(m, bumps) /\ build = "Debug" THEN "crashed" ELSE "draw"

\* A mutant: the shadow map is not bound.
renderStandardUnshaded(m) ==
  /\ Lookup(m, 0) /\ Proceed(m, FALSE)
  /\ effect' = "main_eff"
  /\ unit2D' = [unit2D EXCEPT ![0] = "surface"]
  /\ SetSamplers("main_eff", [tex |-> 0, shadowMap |-> 2])
  /\ UNCHANGED <<unitCube, glError>>

renderStandard(m) ==
  /\ Lookup(m, 0) /\ Proceed(m, FALSE)
  /\ effect' = "main_eff"
  /\ unit2D' = Lit
  /\ SetSamplers("main_eff", [tex |-> 0, shadowMap |-> 2])
  /\ UNCHANGED <<unitCube, glError>>

renderNormalMap(m) ==
  /\ Lookup(m, 1) /\ Proceed(m, TRUE)
  /\ effect' = "normal_eff"
  /\ unit2D' = Bumped(m)
  /\ SetSamplers("normal_eff", [tex |-> 0, normalMap |-> 1, shadowMap |-> 2])
  /\ glError' = (glError \/ BindsDefault(m, TRUE))
  /\ UNCHANGED unitCube

\* A mutant: the cubemap is bound but the sampler is not set to its unit.
renderReflectionUnset(m) ==
  /\ Lookup(m, 2) /\ Proceed(m, FALSE)
  /\ effect' = "reflection_eff"
  /\ unit2D' = Lit
  /\ unitCube' = IF m = "lightBall" THEN [unitCube EXCEPT ![3] = "cube_map2"] ELSE unitCube
  /\ SetSamplers("reflection_eff", [tex |-> 0, shadowMap |-> 2])
  /\ UNCHANGED glError

\* The lamp's mesh, and no other, binds a cubemap and sets the sampler to its unit.
renderReflection(m) ==
  /\ Lookup(m, 2) /\ Proceed(m, FALSE)
  /\ effect' = "reflection_eff"
  /\ unit2D' = Lit
  /\ IF m = "lightBall"
     THEN /\ unitCube' = [unitCube EXCEPT ![3] = "cube_map2"]
          /\ SetSamplers("reflection_eff", [tex |-> 0, shadowMap |-> 2, cubeMap |-> 3])
     ELSE /\ UNCHANGED unitCube
          /\ SetSamplers("reflection_eff", [tex |-> 0, shadowMap |-> 2])
  /\ UNCHANGED glError

\* The cubemap's unit is set at the location that its sampler has in reflection_eff.
renderFresnel(m) ==
  /\ Lookup(m, 3) /\ Proceed(m, FALSE)
  /\ effect' = "fresnel_eff"
  /\ unit2D' = Lit
  /\ unitCube' = [unitCube EXCEPT ![3] = "cube_map2"]
  /\ SetSamplers("fresnel_eff",
       [s \in {"tex", "shadowMap", landing} \ {"other"} |->
          IF s = landing THEN 3 ELSE IF s = "tex" THEN 0 ELSE 2])
  /\ glError' = (glError \/ landing = "other")

renderNormalMapAndReflection(m) ==
  /\ Lookup(m, 4) /\ Proceed(m, TRUE)
  /\ effect' = "normal-reflection_eff"
  /\ unit2D' = Bumped(m)
  /\ unitCube' = [unitCube EXCEPT ![3] = "cube_map2"]
  /\ SetSamplers("normal-reflection_eff", [tex |-> 0, normalMap |-> 1, shadowMap |-> 2, cubeMap |-> 3])
  /\ glError' = (glError \/ BindsDefault(m, TRUE))

SetUpMesh ==
  /\ pass = "mesh" /\ pc = "setup"
  /\ \/ renderStandard(Meshes[next])
     \/ renderNormalMap(Meshes[next])
     \/ renderReflection(Meshes[next])
     \/ renderFresnel(Meshes[next])
     \/ renderNormalMapAndReflection(Meshes[next])
  /\ UNCHANGED <<linked, pass, next, target, menu, history>>

\* A mutant: the loop runs one past the end.
AfterMeshLate ==
  /\ pass = "mesh" /\ pc = "after"
  /\ IF next > Len(Meshes)
     THEN Enter("post") /\ UNCHANGED next
     ELSE Enter("mesh") /\ next' = next + 1
  /\ UNCHANGED <<linked, target, effect, units, glError, type, menu, history>>

AfterMesh ==
  /\ pass = "mesh" /\ pc = "after"
  /\ IF next = Len(Meshes)
     THEN Enter("post") /\ UNCHANGED next
     ELSE Enter("mesh") /\ next' = next + 1
  /\ UNCHANGED <<linked, target, effect, units, glError, type, menu, history>>

-----------------------------------------------------------------------------
(* The passes after the meshes, and what happens between two frames.         *)

\* A mutant: the render target is not set back to the screen.
PostProcessToScene ==
  /\ pass = "post" /\ pc = "setup"
  /\ pc' = "draw"
  /\ effect' = "post_process_eff"
  /\ unit2D' = [unit2D EXCEPT ![0] = "frame"]
  /\ SetSamplers("post_process_eff", [tex |-> 0])
  /\ UNCHANGED <<linked, pass, next, target, unitCube, glError, type, menu, history>>

PostProcess ==
  /\ pass = "post" /\ pc = "setup"
  /\ pc' = "draw"
  /\ fbo' = "screen"
  /\ effect' = "post_process_eff"
  /\ unit2D' = [unit2D EXCEPT ![0] = "frame"]
  /\ SetSamplers("post_process_eff", [tex |-> 0])
  /\ UNCHANGED <<linked, pass, next, enabled, cullFace, unitCube, glError, type, menu, history>>

AfterPostProcess ==
  /\ pass = "post" /\ pc = "after"
  /\ IF renderMenu THEN Enter("menu") ELSE pass' = "menu" /\ pc' = "after"
  /\ UNCHANGED <<linked, next, target, effect, units, glError, type, menu, history>>

\* A mutant: a row without a picture is waited out.
RenderMenuWaits ==
  /\ pass = "menu" /\ pc = "setup"
  /\ item \in 0 .. 4
  /\ pc' = "draw"
  /\ effect' = "menu_eff"
  /\ unit2D' = [unit2D EXCEPT ![0] = "menu"]
  /\ SetSamplers("menu_eff", [tex |-> 0])
  /\ UNCHANGED <<linked, pass, next, target, unitCube, glError, type, menu, history>>

\* Row 5 of the menu has no picture: binding the default texture fails an assertion in a
\* Debug build; a Release build has an error of OpenGL's and the unit keeps the frame.
RenderMenu ==
  /\ pass = "menu" /\ pc = "setup"
  /\ pc' = IF item \notin 0 .. 4 /\ build = "Debug" THEN "crashed" ELSE "draw"
  /\ effect' = "menu_eff"
  /\ unit2D' = IF item \in 0 .. 4 THEN [unit2D EXCEPT ![0] = "menu"] ELSE unit2D
  /\ glError' = (glError \/ item \notin 0 .. 4)
  /\ SetSamplers("menu_eff", [tex |-> 0])
  /\ UNCHANGED <<linked, pass, next, target, unitCube, type, menu, history>>

\* end_render shows the frame and polls the events; key_callback changes the menu.
EndFrame ==
  /\ pass = "menu" /\ pc = "after"
  /\ pc' = "begin"
  /\ renderMenu' \in BOOLEAN /\ item' \in 0 .. 5
  /\ warm' = TRUE
  /\ UNCHANGED <<linked, pass, next, target, effect, units, glError, type, cleared, shadowDrawn, painted>>

Next ==
  \/ render
  \/ begin_render \/ BeginScene
  \/ renderSkybox \/ AfterSkybox
  \/ renderShadowMap \/ AfterShadowMap
  \/ SetUpMesh \/ AfterMesh
  \/ PostProcess \/ AfterPostProcess
  \/ RenderMenu \/ EndFrame

\* The loop is one thread, and every call it makes returns or throws.
Spec == Init /\ [][Next]_vars /\ WF_vars(Next)

-----------------------------------------------------------------------------

Pass == {"sky", "shadow", "mesh", "post", "menu"}

\* Types, and the meshes loop within its bounds.
TypeOK ==
  /\ build \in Builds /\ landing \in Landings
  /\ pass \in Pass
  /\ pc \in {"begin", "scene", "setup", "draw", "after", "crashed"}
  /\ next \in Nat \ {0}
  /\ pass = "mesh" => next <= Len(Meshes)
  /\ fbo \in Target /\ enabled \in SUBSET Switch /\ cullFace \in {"front", "back"}
  /\ effect \in Effect
  /\ unit2D \in [Unit -> Texture] /\ unitCube \in [Unit -> Cube]
  /\ uniform \in [Effect -> [Sampler -> Unit]]
  /\ glError \in BOOLEAN
  /\ type \in [Names -> -1 .. 4]
  /\ renderMenu \in BOOLEAN /\ item \in 0 .. 5
  /\ cleared \in SUBSET Target /\ shadowDrawn \in BOOLEAN
  /\ painted \in SUBSET Names /\ warm \in BOOLEAN

\* The texture that a sampler of the program in use reads.
Sampled(s) == unit2D[uniform[effect][s]]

\* No draw call samples the texture it draws into, though textures stay bound to their
\* units from pass to pass and from frame to frame.
NoFeedback ==
  pc = "draw" => \A s \in Active[effect] \ {"cubeMap"} : Sampled(s) = "none" \/ Sampled(s) # Attached[fbo]

\* Every draw call finds the target and the switches of its pass, whatever pass or frame
\* went before: the sky without depth and from inside, the shadow from the back faces,
\* the rest with depth and culling.
PassState ==
  pc = "draw" =>
    /\ fbo = CASE pass \in {"sky", "mesh"} -> "scene" [] pass = "shadow" -> "shadow" [] OTHER -> "screen"
    /\ enabled = IF pass = "sky" THEN {} ELSE Switch
    /\ cullFace = IF pass = "shadow" THEN "front" ELSE "back"

\* What is drawn with the depth test on is drawn onto a target whose depth was cleared in
\* the same frame; the screen's is cleared by begin_render, if it is the target still.
DepthCleared == pc = "draw" /\ "depth test" \in enabled => fbo \in cleared

\* A mesh is drawn with a picture of its own, never with what an earlier pass or frame
\* left on the unit; with the shadow map of this frame; and what reflects, and is drawn,
\* reflects cube_map2.  Of the samplers of the fresnel effect nothing is claimed.
OwnInputs ==
  pc = "draw" /\ pass = "mesh" =>
    /\ "gate" \in Names => shadowDrawn
    /\ effect # "fresnel_eff" /\ ~ Conflict =>
         /\ Sampled("tex") = "surface"
         /\ Sampled("shadowMap") = "shadow"
         /\ "cubeMap" \in Active[effect] => unitCube[uniform[effect]["cubeMap"]] = "cube_map2"

\* After the first frame no mesh is missing from what is shown but those of the fresnel
\* effect: a reflecting mesh whose sampler was not set in time is drawn ever after.
ReflectionRecovers ==
  pass = "post" /\ warm => \A m \in Names : m \in painted \/ type[m] = 3

\* A Release build finishes frame after frame, whatever is missing from them.
FramesComplete == build = "Release" => []<>(pc = "begin")

-----------------------------------------------------------------------------

\* load_content says of the render types "2 - reflection": a mesh of that type is shown.
ReflectionsShown == pass = "post" => \A m \in Names : type[m] = 2 => m \in painted

\* load_content says of a mesh without a render type "texture only".
NoValueIsTextureOnly ==
  pc = "draw" /\ pass = "mesh" /\ Meshes[next] \notin DOMAIN Assigned => effect = "main_eff"

=============================================================================
