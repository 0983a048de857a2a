-------------------------- MODULE RenderFrameProofs -------------------------
(***************************************************************************)
(* What holds of every draw call for any list of meshes, any table of      *)
(* render types, either build and whatever the linker did.  The invariant  *)
(* Prepared says for each pass and place in it what has been set up; it is *)
(* inductive with the types and with Units, which says what can be bound   *)
(* to each unit.                                                           *)
(***************************************************************************)
EXTENDS RenderFrame, TLAPS

LEMMA EffectNames ==
  /\ Effect = {"main_eff", "normal_eff", "reflection_eff", "fresnel_eff", "normal-reflection_eff",
               "sky_eff", "shadow_eff", "post_process_eff", "menu_eff"}
  /\ \A e \in Effect : Active[e] \subseteq Sampler
  BY DEF Effect, Active, Sampler

\* What SetSamplers does to the uniforms.
LEMMA Samplers ==
  ASSUME uniform \in [Effect -> [Sampler -> Unit]],
         NEW e \in Effect, NEW values,
         \A s \in DOMAIN values : values[s] \in Unit,
         SetSamplers(e, values)
  PROVE  /\ uniform' \in [Effect -> [Sampler -> Unit]]
         /\ \A s \in Sampler : uniform'[e][s] = IF s \in DOMAIN values THEN values[s] ELSE uniform[e][s]
         /\ \A f \in Effect \ {e} : uniform'[f] = uniform[f]
  BY DEF SetSamplers

\* The names are the meshes of the list.
LEMMA MeshNames ==
  ASSUME next \in 1 .. Len(Meshes)
  PROVE  Meshes[next] \in Names
  BY DEF Names

-----------------------------------------------------------------------------
(* The invariant.                                                           *)

\* The target, the switches and the cleared depth, for each pass and place in it.
Prepared ==
  /\ pc \in {"begin", "scene"} => pass = "menu"
  /\ fbo = CASE pass \in {"sky", "mesh"} -> "scene"
             [] pass = "shadow" -> IF pc = "setup" THEN "scene" ELSE "shadow"
             [] pass = "post" -> IF pc = "setup" THEN "scene" ELSE "screen"
             [] pass = "menu" -> "screen"
  /\ enabled = IF pass = "sky" /\ pc # "setup" THEN {} ELSE Switch
  /\ cullFace = IF pass = "shadow" /\ pc # "setup" THEN "front" ELSE "back"
  /\ pc # "begin" => "screen" \in cleared
  /\ pc \notin {"begin", "scene"} => "scene" \in cleared
  /\ pass = "shadow" /\ pc # "setup" => "shadow" \in cleared

\* What a unit can hold, and that the passes before the post-process put a program and
\* a picture of their own before what the last frame left.
Units ==
  /\ uniform["shadow_eff"]["tex"] = 0
  /\ unit2D[0] # "shadow"
  /\ unit2D[1] \in {"none", "normal"}
  /\ unit2D[2] \in {"none", "shadow"}
  /\ unit2D[3] = "none"
  /\ pc = "draw" =>
       /\ pass = "sky" => effect = "sky_eff"
       /\ pass = "shadow" => effect = "shadow_eff"
       /\ pass = "mesh" => unit2D[0] = "surface"

\* What a mesh's program reads, whatever pass or frame last set its samplers.
Inputs ==
  /\ \A e \in {"reflection_eff", "normal-reflection_eff"} :
       \/ uniform[e]["cubeMap"] = 0
       \/ uniform[e]["cubeMap"] = 3 /\ unitCube[3] = "cube_map2"
  /\ pc = "draw" /\ pass = "mesh" =>
       /\ effect \in {"main_eff", "normal_eff", "reflection_eff", "fresnel_eff", "normal-reflection_eff"}
       /\ unit2D[0] = "surface" /\ unit2D[2] = "shadow"
       /\ effect # "fresnel_eff" => uniform[effect]["tex"] = 0 /\ uniform[effect]["shadowMap"] = 2
  /\ "gate" \in Names /\ (pass = "mesh" \/ (pass = "shadow" /\ pc = "after")) => shadowDrawn

-----------------------------------------------------------------------------

LEMMA TypeInit == Init => TypeOK
<1>. SUFFICES ASSUME Init
              PROVE  TypeOK
  OBVIOUS
<1>1. unit2D \in [Unit -> Texture] /\ unitCube \in [Unit -> Cube]
  BY DEF Init, Unit, Texture, Cube
<1>2. uniform \in [Effect -> [Sampler -> Unit]]
  BY DEF Init, Unit
<1>3. type \in [Names -> -1 .. 4]
  BY MeshAssumption DEF Init
<1>4. effect \in Effect
  BY EffectNames DEF Init
<1>5. /\ build \in Builds /\ landing \in Landings
      /\ pass = "menu" /\ pc = "begin" /\ next = 1 /\ item = 0
      /\ fbo \in Target /\ enabled \in SUBSET Switch /\ cullFace \in {"front", "back"}
      /\ glError \in BOOLEAN /\ renderMenu \in BOOLEAN
      /\ cleared \in SUBSET Target /\ shadowDrawn \in BOOLEAN
      /\ painted \in SUBSET Names /\ warm \in BOOLEAN
  BY DEF Init, Target
<1>. QED
  BY <1>1, <1>2, <1>3, <1>4, <1>5 DEF TypeOK, Pass

LEMMA TypeStep == TypeOK /\ [Next]_vars => TypeOK'
<1>. SUFFICES ASSUME TypeOK, [Next]_vars
              PROVE  TypeOK'
  OBVIOUS
<1>0. Len(Meshes) \in Nat
  BY MeshAssumption
<1>. USE DEF TypeOK, Pass, Target, linked, target, units, menu, history, Enter
<1>1. CASE render
  <2>1. painted' \in SUBSET Names
    BY <1>0, <1>1, MeshNames DEF render
  <2>2. glError' \in BOOLEAN /\ shadowDrawn' \in BOOLEAN
    BY <1>1, Zenon DEF render, Conflict
  <2>. QED
    BY <1>1, <2>1, <2>2 DEF render
<1>2. CASE begin_render
  BY <1>2 DEF begin_render, Clear
<1>3. CASE BeginScene
  BY <1>3 DEF BeginScene, Clear
<1>4. CASE renderSkybox
  <2>1. uniform' \in [Effect -> [Sampler -> Unit]]
    BY <1>4, Samplers, EffectNames DEF renderSkybox, Unit
  <2>. QED
    BY <1>4, <2>1, EffectNames DEF renderSkybox, Unit, Cube
<1>5. CASE AfterSkybox
  BY <1>5 DEF AfterSkybox
<1>6. CASE renderShadowMap
  BY <1>6, EffectNames DEF renderShadowMap, Clear
<1>7. CASE AfterShadowMap
  BY <1>0, <1>7, MeshAssumption DEF AfterShadowMap
<1>8. CASE SetUpMesh
  <2>1. next \in 1 .. Len(Meshes)
    BY <1>0, <1>8 DEF SetUpMesh
  <2>. DEFINE m == Meshes[next]
  <2>2. m \in Names
    BY <2>1, MeshNames
  <2>3. Lit \in [Unit -> Texture] /\ Bumped(m) \in [Unit -> Texture]
    BY DEF Lit, Bumped, Unit, Texture
  <2>4. ASSUME NEW t \in 0 .. 4, Lookup(m, t)
        PROVE  type' \in [Names -> -1 .. 4]
    <3>. HIDE DEF m
    <3>. QED
      BY <2>2, <2>4 DEF Lookup
  <2>4a. Proceed(m, TRUE) \/ Proceed(m, FALSE) => pc' \in {"draw", "crashed"}
    BY DEF Proceed
  <2>5. [unitCube EXCEPT ![3] = "cube_map2"] \in [Unit -> Cube]
    BY DEF Unit, Cube
  <2>. HIDE DEF m
  <2>6. UNCHANGED <<linked, pass, next, target, menu, history>>
    BY <1>8 DEF SetUpMesh
  <2>7. ASSUME type' \in [Names -> -1 .. 4], pc' \in {"draw", "crashed"},
               effect' \in Effect, unit2D' \in [Unit -> Texture], unitCube' \in [Unit -> Cube],
               uniform' \in [Effect -> [Sampler -> Unit]], glError' \in BOOLEAN
        PROVE  TypeOK'
    BY <2>6, <2>7
  <2>8. CASE renderStandard(m)
    <3>0. type' \in [Names -> -1 .. 4]
      BY <2>4, <2>8 DEF renderStandard
    <3>1. pc' \in {"draw", "crashed"}
      BY <2>4a, <2>8, Zenon DEF renderStandard
    <3>2. effect' \in Effect /\ unit2D' \in [Unit -> Texture] /\ unitCube' \in [Unit -> Cube]
      BY <2>3, <2>5, <2>8, EffectNames DEF renderStandard
    <3>3. uniform' \in [Effect -> [Sampler -> Unit]]
      BY <2>8, Samplers, EffectNames DEF renderStandard, Unit
    <3>4. glError' \in BOOLEAN
      BY <2>8, Zenon DEF renderStandard
    <3>. QED
      BY <2>7, <3>0, <3>1, <3>2, <3>3, <3>4
  <2>9. CASE renderNormalMap(m)
    <3>0. type' \in [Names -> -1 .. 4]
      BY <2>4, <2>9 DEF renderNormalMap
    <3>1. pc' \in {"draw", "crashed"}
      BY <2>4a, <2>9, Zenon DEF renderNormalMap
    <3>2. effect' \in Effect /\ unit2D' \in [Unit -> Texture] /\ unitCube' \in [Unit -> Cube]
      BY <2>3, <2>5, <2>9, EffectNames DEF renderNormalMap
    <3>3. uniform' \in [Effect -> [Sampler -> Unit]]
      BY <2>9, Samplers, EffectNames DEF renderNormalMap, Unit
    <3>4. glError' \in BOOLEAN
      BY <2>9, Zenon DEF renderNormalMap
    <3>. QED
      BY <2>7, <3>0, <3>1, <3>2, <3>3, <3>4
  <2>10. CASE renderReflection(m)
    <3>0. type' \in [Names -> -1 .. 4]
      BY <2>4, <2>10 DEF renderReflection
    <3>1. pc' \in {"draw", "crashed"}
      BY <2>4a, <2>10, Zenon DEF renderReflection
    <3>2. effect' \in Effect /\ unit2D' \in [Unit -> Texture] /\ unitCube' \in [Unit -> Cube]
      BY <2>3, <2>5, <2>10, EffectNames DEF renderReflection
    <3>3. uniform' \in [Effect -> [Sampler -> Unit]]
      BY <2>10, Samplers, EffectNames DEF renderReflection, Unit
    <3>4. glError' \in BOOLEAN
      BY <2>10, Zenon DEF renderReflection
    <3>. QED
      BY <2>7, <3>0, <3>1, <3>2, <3>3, <3>4
  <2>11. CASE renderFresnel(m)
    <3>0. type' \in [Names -> -1 .. 4]
      BY <2>4, <2>11 DEF renderFresnel
    <3>1. pc' \in {"draw", "crashed"}
      BY <2>4a, <2>11, Zenon DEF renderFresnel
    <3>2. effect' \in Effect /\ unit2D' \in [Unit -> Texture] /\ unitCube' \in [Unit -> Cube]
      BY <2>3, <2>5, <2>11, EffectNames DEF renderFresnel
    <3>3. uniform' \in [Effect -> [Sampler -> Unit]]
      <4>. DEFINE v == [s \in {"tex", "shadowMap", landing} \ {"other"} |->
                          IF s = landing THEN 3 ELSE IF s = "tex" THEN 0 ELSE 2]
      <4>1. \A s \in DOMAIN v : v[s] \in Unit
        BY DEF Unit
      <4>2. SetSamplers("fresnel_eff", v)
        BY <2>11 DEF renderFresnel
      <4>. HIDE DEF v
      <4>. QED
        BY <4>1, <4>2, Samplers, EffectNames
    <3>4. glError' \in BOOLEAN
      BY <2>11, Zenon DEF renderFresnel
    <3>. QED
      BY <2>7, <3>0, <3>1, <3>2, <3>3, <3>4
  <2>12. CASE renderNormalMapAndReflection(m)
    <3>0. type' \in [Names -> -1 .. 4]
      BY <2>4, <2>12 DEF renderNormalMapAndReflection
    <3>1. pc' \in {"draw", "crashed"}
      BY <2>4a, <2>12, Zenon DEF renderNormalMapAndReflection
    <3>2. effect' \in Effect /\ unit2D' \in [Unit -> Texture] /\ unitCube' \in [Unit -> Cube]
      BY <2>3, <2>5, <2>12, EffectNames DEF renderNormalMapAndReflection
    <3>3. uniform' \in [Effect -> [Sampler -> Unit]]
      BY <2>12, Samplers, EffectNames DEF renderNormalMapAndReflection, Unit
    <3>4. glError' \in BOOLEAN
      BY <2>12, Zenon DEF renderNormalMapAndReflection
    <3>. QED
      BY <2>7, <3>0, <3>1, <3>2, <3>3, <3>4
  <2>. QED
    BY <1>8, <2>8, <2>9, <2>10, <2>11, <2>12 DEF SetUpMesh, m
<1>9. CASE AfterMesh
  BY <1>0, <1>9 DEF AfterMesh
<1>10. CASE PostProcess
  <2>1. uniform' \in [Effect -> [Sampler -> Unit]]
    BY <1>10, Samplers, EffectNames DEF PostProcess, Unit
  <2>. QED
    BY <1>10, <2>1, EffectNames DEF PostProcess, Unit, Texture
<1>11. CASE AfterPostProcess
  BY <1>11 DEF AfterPostProcess
<1>12. CASE RenderMenu
  <2>1. uniform' \in [Effect -> [Sampler -> Unit]]
    BY <1>12, Samplers, EffectNames DEF RenderMenu, Unit
  <2>. QED
    BY <1>12, <2>1, EffectNames DEF RenderMenu, Unit, Texture
<1>13. CASE EndFrame
  BY <1>13 DEF EndFrame
<1>14. CASE UNCHANGED vars
  BY <1>14 DEF vars
<1>. QED
  BY <1>1, <1>2, <1>3, <1>4, <1>5, <1>6, <1>7, <1>8, <1>9, <1>10, <1>11, <1>12, <1>13,
     <1>14 DEF Next

\* Every render type, either build and any linker: the types and the bounds of the loop.
THEOREM TypeCorrect == Spec => []TypeOK
  BY TypeInit, TypeStep, PTL DEF Spec

-----------------------------------------------------------------------------
(* The steps of Prepared.                                                   *)

LEMMA PreparedInit == Init => Prepared
  BY DEF Init, Prepared

LEMMA PreparedStep == TypeOK /\ Prepared /\ [Next]_vars => Prepared'
<1>. SUFFICES ASSUME TypeOK, Prepared, [Next]_vars
              PROVE  Prepared'
  OBVIOUS
<1>0. pass \in Pass /\ pc \in {"begin", "scene", "setup", "draw", "after", "crashed"}
  BY DEF TypeOK
<1>. USE <1>0 DEF Prepared, Pass, Switch, linked, target, units, menu, history, Enter
<1>1. CASE render
  BY <1>1 DEF render
<1>2. CASE begin_render
  BY <1>2 DEF begin_render, Clear
<1>3. CASE BeginScene
  BY <1>3 DEF BeginScene, Clear
<1>4. CASE renderSkybox
  BY <1>4 DEF renderSkybox
<1>5. CASE AfterSkybox
  BY <1>5 DEF AfterSkybox
<1>6. CASE renderShadowMap
  BY <1>6 DEF renderShadowMap, Clear
<1>7. CASE AfterShadowMap
  BY <1>7 DEF AfterShadowMap
<1>8. CASE SetUpMesh
  <2>1. pc' \in {"draw", "crashed"}
    BY <1>8, Zenon DEF SetUpMesh, renderStandard, renderNormalMap, renderReflection,
       renderFresnel, renderNormalMapAndReflection, Proceed
  <2>2. pass = "mesh" /\ pc = "setup" /\ UNCHANGED <<pass, target, history>>
    BY <1>8 DEF SetUpMesh
  <2>. QED
    BY <2>1, <2>2
<1>9. CASE AfterMesh
  BY <1>9 DEF AfterMesh
<1>10. CASE PostProcess
  BY <1>10 DEF PostProcess
<1>11. CASE AfterPostProcess
  BY <1>11 DEF AfterPostProcess
<1>12. CASE RenderMenu
  BY <1>12 DEF RenderMenu
<1>13. CASE EndFrame
  BY <1>13 DEF EndFrame
<1>14. CASE UNCHANGED vars
  BY <1>14 DEF vars
<1>. QED
  BY <1>1, <1>2, <1>3, <1>4, <1>5, <1>6, <1>7, <1>8, <1>9, <1>10, <1>11, <1>12, <1>13,
     <1>14 DEF Next

\* Every draw call of every frame finds the target and the switches of its pass.
THEOREM PassCorrect == Spec => []PassState
<1>1. TypeOK /\ Prepared => PassState
  BY DEF TypeOK, Pass, Prepared, PassState
<1>. QED
  BY TypeInit, TypeStep, PreparedInit, PreparedStep, <1>1, PTL DEF Spec

\* With the depth test on, every target is drawn onto after its depth was cleared in
\* the same frame, the screen's by begin_render.
THEOREM ClearCorrect == Spec => []DepthCleared
<1>1. TypeOK /\ Prepared => DepthCleared
  BY DEF TypeOK, Pass, Prepared, DepthCleared, Switch
<1>. QED
  BY TypeInit, TypeStep, PreparedInit, PreparedStep, <1>1, PTL DEF Spec

-----------------------------------------------------------------------------
(* The steps of Units.                                                      *)

LEMMA UnitsInit == Init => Units
  BY EffectNames DEF Init, Units, Unit, Sampler

\* The pictures that a mesh's function leaves on the units.
LEMMA Pictures ==
  ASSUME TypeOK, Units, NEW m
  PROVE  \A lit \in {Lit, Bumped(m)} :
           /\ lit[0] = "surface" /\ lit[2] = "shadow" /\ lit[3] = "none"
           /\ lit[1] \in {"none", "normal"}
  BY DEF TypeOK, Units, Unit, Lit, Bumped

\* The five functions: each puts an effect of its own in use, sets no other's samplers.
LEMMA MeshEffects ==
  ASSUME TypeOK, Units, NEW m,
         \/ renderStandard(m) \/ renderNormalMap(m) \/ renderReflection(m)
         \/ renderFresnel(m) \/ renderNormalMapAndReflection(m)
  PROVE  /\ unit2D' \in {Lit, Bumped(m)}
         /\ uniform'["shadow_eff"] = uniform["shadow_eff"]
<1>1. CASE renderStandard(m)
  BY <1>1, EffectNames DEF renderStandard, TypeOK, SetSamplers
<1>2. CASE renderNormalMap(m)
  BY <1>2, EffectNames DEF renderNormalMap, TypeOK, SetSamplers
<1>3. CASE renderReflection(m)
  BY <1>3, EffectNames DEF renderReflection, TypeOK, SetSamplers
<1>4. CASE renderFresnel(m)
  BY <1>4, EffectNames DEF renderFresnel, TypeOK, SetSamplers
<1>5. CASE renderNormalMapAndReflection(m)
  BY <1>5, EffectNames DEF renderNormalMapAndReflection, TypeOK, SetSamplers
<1>. QED
  BY <1>1, <1>2, <1>3, <1>4, <1>5

LEMMA UnitsStep == TypeOK /\ Units /\ [Next]_vars => Units'
<1>. SUFFICES ASSUME TypeOK, Units, [Next]_vars
              PROVE  Units'
  OBVIOUS
<1>0. /\ pass \in Pass
      /\ pc \in {"begin", "scene", "setup", "draw", "after", "crashed"}
      /\ unit2D \in [Unit -> Texture]
      /\ uniform \in [Effect -> [Sampler -> Unit]]
  BY DEF TypeOK
<1>. USE <1>0 DEF Units, linked, target, units, menu, history, Enter
<1>1. CASE render
  BY <1>1 DEF render
<1>2. CASE begin_render
  BY <1>2 DEF begin_render
<1>3. CASE BeginScene
  BY <1>3 DEF BeginScene
<1>4. CASE renderSkybox
  <2>1. uniform'["shadow_eff"] = uniform["shadow_eff"]
    BY <1>4, EffectNames DEF renderSkybox, SetSamplers
  <2>. QED
    BY <1>4, <2>1 DEF renderSkybox, Unit
<1>5. CASE AfterSkybox
  BY <1>5 DEF AfterSkybox
<1>6. CASE renderShadowMap
  BY <1>6 DEF renderShadowMap
<1>7. CASE AfterShadowMap
  BY <1>7 DEF AfterShadowMap
<1>8. CASE SetUpMesh
  <2>. DEFINE m == Meshes[next]
  <2>1. pass' = "mesh"
    BY <1>8 DEF SetUpMesh
  <2>2. unit2D' \in {Lit, Bumped(m)} /\ uniform'["shadow_eff"] = uniform["shadow_eff"]
    BY <1>8, MeshEffects DEF SetUpMesh
  <2>3. /\ unit2D'[0] = "surface" /\ unit2D'[2] = "shadow" /\ unit2D'[3] = "none"
        /\ unit2D'[1] \in {"none", "normal"}
    BY <2>2, Pictures
  <2>. QED
    BY <2>1, <2>2, <2>3
<1>9. CASE AfterMesh
  BY <1>9 DEF AfterMesh
<1>10. CASE PostProcess
  <2>1. uniform'["shadow_eff"] = uniform["shadow_eff"]
    BY <1>10, EffectNames DEF PostProcess, SetSamplers
  <2>. QED
    BY <1>10, <2>1 DEF PostProcess, Unit
<1>11. CASE AfterPostProcess
  BY <1>11 DEF AfterPostProcess
<1>12. CASE RenderMenu
  <2>1. uniform'["shadow_eff"] = uniform["shadow_eff"]
    BY <1>12, EffectNames DEF RenderMenu, SetSamplers
  <2>. QED
    BY <1>12, <2>1 DEF RenderMenu, Unit
<1>13. CASE EndFrame
  BY <1>13 DEF EndFrame
<1>14. CASE UNCHANGED vars
  BY <1>14 DEF vars
<1>. QED
  BY <1>1, <1>2, <1>3, <1>4, <1>5, <1>6, <1>7, <1>8, <1>9, <1>10, <1>11, <1>12, <1>13,
     <1>14 DEF Next

\* No draw call of any frame reads the texture it draws into.
THEOREM FeedbackCorrect == Spec => []NoFeedback
<1>1. TypeOK /\ Prepared /\ Units => NoFeedback
  <2>. SUFFICES ASSUME TypeOK, Prepared, Units, pc = "draw",
                       NEW s \in Active[effect] \ {"cubeMap"}
                PROVE  Sampled(s) = "none" \/ Sampled(s) # Attached[fbo]
    BY DEF NoFeedback
  <2>1. effect \in Effect /\ s \in Sampler /\ uniform[effect][s] \in Unit
    BY EffectNames DEF TypeOK
  <2>2. CASE pass = "sky"
    <3>1. effect = "sky_eff"
      BY <2>2 DEF Units
    <3>. QED
      BY <3>1, EffectNames DEF Active
  <2>3. CASE pass = "shadow"
    <3>1. effect = "shadow_eff"
      BY <2>3 DEF Units
    <3>2. s = "tex"
      BY <3>1, EffectNames DEF Active
    <3>3. Sampled(s) # "shadow"
      BY <3>1, <3>2 DEF Units, Sampled
    <3>4. Attached[fbo] = "shadow"
      BY <2>3 DEF Prepared, Attached
    <3>. QED
      BY <3>3, <3>4
  <2>4. CASE pass = "mesh"
    <3>1. \A u \in Unit : unit2D[u] # "frame"
      BY <2>4 DEF Units, Unit
    <3>2. Attached[fbo] = "frame"
      BY <2>4 DEF Prepared, Attached
    <3>. QED
      BY <2>1, <3>1, <3>2 DEF Sampled
  <2>5. CASE pass \in {"post", "menu"}
    <3>1. Attached[fbo] = "none"
      BY <2>5 DEF Prepared, Attached
    <3>. QED
      BY <3>1
  <2>. QED
    BY <2>2, <2>3, <2>4, <2>5 DEF TypeOK, Pass
<1>. QED
  BY TypeInit, TypeStep, PreparedInit, PreparedStep, UnitsInit, UnitsStep, <1>1, PTL DEF Spec

-----------------------------------------------------------------------------
(* The steps of Inputs.                                                     *)

LEMMA InputsInit == Init => Inputs
  BY EffectNames DEF Init, Inputs, Sampler

\* The first part of Inputs.
Reflects(e) == uniform[e]["cubeMap"] = 0 \/ (uniform[e]["cubeMap"] = 3 /\ unitCube[3] = "cube_map2")

\* An action that sets no cubeMap sampler of a reflecting effect, and takes no cubemap
\* off unit 3, leaves the reflecting effects as they were.
LEMMA ReflectsKept ==
  ASSUME NEW e, Reflects(e),
         uniform'[e]["cubeMap"] = uniform[e]["cubeMap"],
         unitCube'[3] \in {unitCube[3], "cube_map2"}
  PROVE  Reflects(e)'
  BY DEF Reflects

\* What the five functions set.
LEMMA MeshInputs ==
  ASSUME TypeOK, NEW m,
         \A e \in {"reflection_eff", "normal-reflection_eff"} : Reflects(e),
         \/ renderStandard(m) \/ renderNormalMap(m) \/ renderReflection(m)
         \/ renderFresnel(m) \/ renderNormalMapAndReflection(m)
  PROVE  /\ \A e \in {"reflection_eff", "normal-reflection_eff"} : Reflects(e)'
         /\ effect' \in {"main_eff", "normal_eff", "reflection_eff", "fresnel_eff",
                         "normal-reflection_eff"}
         /\ effect' # "fresnel_eff" =>
              uniform'[effect']["tex"] = 0 /\ uniform'[effect']["shadowMap"] = 2
<1>0. uniform \in [Effect -> [Sampler -> Unit]] /\ unitCube \in [Unit -> Cube]
  BY DEF TypeOK
<1>1. CASE renderStandard(m)
  <2>1. /\ effect' = "main_eff" /\ unitCube' = unitCube
        /\ uniform'["main_eff"]["tex"] = 0 /\ uniform'["main_eff"]["shadowMap"] = 2
        /\ uniform'["reflection_eff"] = uniform["reflection_eff"]
        /\ uniform'["normal-reflection_eff"] = uniform["normal-reflection_eff"]
    BY <1>0, <1>1, EffectNames DEF renderStandard, SetSamplers, Sampler
  <2>. QED
    BY <2>1, ReflectsKept
<1>2. CASE renderNormalMap(m)
  <2>1. /\ effect' = "normal_eff" /\ unitCube' = unitCube
        /\ uniform'["normal_eff"]["tex"] = 0 /\ uniform'["normal_eff"]["shadowMap"] = 2
        /\ uniform'["reflection_eff"] = uniform["reflection_eff"]
        /\ uniform'["normal-reflection_eff"] = uniform["normal-reflection_eff"]
    BY <1>0, <1>2, EffectNames DEF renderNormalMap, SetSamplers, Sampler
  <2>. QED
    BY <2>1, ReflectsKept
<1>3. CASE renderReflection(m)
  <2>1. effect' = "reflection_eff"
    BY <1>3 DEF renderReflection
  <2>2. CASE m = "lightBall"
    <3>1. /\ SetSamplers("reflection_eff", [tex |-> 0, shadowMap |-> 2, cubeMap |-> 3])
          /\ unitCube' = [unitCube EXCEPT ![3] = "cube_map2"]
      BY <1>3, <2>2 DEF renderReflection
    <3>2. /\ uniform'["reflection_eff"]["tex"] = 0 /\ uniform'["reflection_eff"]["shadowMap"] = 2
          /\ uniform'["reflection_eff"]["cubeMap"] = 3
          /\ uniform'["normal-reflection_eff"] = uniform["normal-reflection_eff"]
      BY <1>0, <3>1, EffectNames DEF SetSamplers, Sampler
    <3>3. unitCube'[3] = "cube_map2"
      BY <1>0, <3>1 DEF Unit
    <3>4. Reflects("reflection_eff")'
      BY <3>2, <3>3 DEF Reflects
    <3>. QED
      BY <2>1, <3>2, <3>3, <3>4, ReflectsKept
  <2>3. CASE m # "lightBall"
    <3>1. /\ SetSamplers("reflection_eff", [tex |-> 0, shadowMap |-> 2])
          /\ unitCube' = unitCube
      BY <1>3, <2>3 DEF renderReflection
    <3>2. /\ uniform'["reflection_eff"]["tex"] = 0 /\ uniform'["reflection_eff"]["shadowMap"] = 2
          /\ uniform'["reflection_eff"]["cubeMap"] = uniform["reflection_eff"]["cubeMap"]
          /\ uniform'["normal-reflection_eff"] = uniform["normal-reflection_eff"]
      BY <1>0, <3>1, EffectNames DEF SetSamplers, Sampler
    <3>. QED
      BY <2>1, <3>1, <3>2, ReflectsKept
  <2>. QED
    BY <2>2, <2>3
<1>4. CASE renderFresnel(m)
  <2>1. /\ effect' = "fresnel_eff"
        /\ uniform'["reflection_eff"] = uniform["reflection_eff"]
        /\ uniform'["normal-reflection_eff"] = uniform["normal-reflection_eff"]
    BY <1>0, <1>4, EffectNames DEF renderFresnel, SetSamplers
  <2>2. unitCube'[3] = "cube_map2"
    BY <1>0, <1>4 DEF renderFresnel, Unit
  <2>. QED
    BY <2>1, <2>2, ReflectsKept
<1>5. CASE renderNormalMapAndReflection(m)
  <2>1. /\ SetSamplers("normal-reflection_eff",
                       [tex |-> 0, normalMap |-> 1, shadowMap |-> 2, cubeMap |-> 3])
        /\ unitCube' = [unitCube EXCEPT ![3] = "cube_map2"]
        /\ effect' = "normal-reflection_eff"
    BY <1>5 DEF renderNormalMapAndReflection
  <2>2. /\ uniform'["normal-reflection_eff"]["tex"] = 0
        /\ uniform'["normal-reflection_eff"]["shadowMap"] = 2
        /\ uniform'["normal-reflection_eff"]["cubeMap"] = 3
        /\ uniform'["reflection_eff"] = uniform["reflection_eff"]
    BY <1>0, <2>1, EffectNames DEF SetSamplers, Sampler
  <2>3. unitCube'[3] = "cube_map2"
    BY <1>0, <2>1 DEF Unit
  <2>4. Reflects("normal-reflection_eff")'
    BY <2>2, <2>3 DEF Reflects
  <2>. QED
    BY <2>1, <2>2, <2>3, <2>4, ReflectsKept
<1>. QED
  BY <1>1, <1>2, <1>3, <1>4, <1>5

LEMMA InputsStep == TypeOK /\ Prepared /\ Units /\ Inputs /\ [Next]_vars => Inputs'
<1>. SUFFICES ASSUME TypeOK, Prepared, Units, Inputs, [Next]_vars
              PROVE  Inputs'
  OBVIOUS
<1>0. /\ pass \in Pass
      /\ pc \in {"begin", "scene", "setup", "draw", "after", "crashed"}
      /\ unit2D \in [Unit -> Texture] /\ unitCube \in [Unit -> Cube]
      /\ uniform \in [Effect -> [Sampler -> Unit]]
  BY DEF TypeOK
<1>. USE <1>0 DEF linked, target, units, menu, history, Enter
<1>1. CASE render
  BY <1>1 DEF render, Inputs
<1>2. CASE begin_render
  BY <1>2 DEF begin_render, Inputs, Prepared
<1>3. CASE BeginScene
  BY <1>3 DEF BeginScene, Inputs, Prepared
<1>4. CASE renderSkybox
  <2>1. /\ uniform'["reflection_eff"] = uniform["reflection_eff"]
        /\ uniform'["normal-reflection_eff"] = uniform["normal-reflection_eff"]
    BY <1>4, EffectNames DEF renderSkybox, SetSamplers
  <2>2. unitCube'[3] = unitCube[3]
    BY <1>4 DEF renderSkybox, Unit
  <2>. QED
    BY <1>4, <2>1, <2>2 DEF renderSkybox, Inputs
<1>5. CASE AfterSkybox
  BY <1>5 DEF AfterSkybox, Inputs
<1>6. CASE renderShadowMap
  BY <1>6 DEF renderShadowMap, Inputs
<1>7. CASE AfterShadowMap
  BY <1>7 DEF AfterShadowMap, Inputs
<1>8. CASE SetUpMesh
  <2>. DEFINE m == Meshes[next]
  <2>0. \A e \in {"reflection_eff", "normal-reflection_eff"} : Reflects(e)
    BY DEF Inputs, Reflects
  <2>1. pass = "mesh" /\ pass' = "mesh" /\ shadowDrawn' = shadowDrawn
    BY <1>8 DEF SetUpMesh
  <2>2. unit2D' \in {Lit, Bumped(m)}
    BY <1>8, MeshEffects DEF SetUpMesh
  <2>3. unit2D'[0] = "surface" /\ unit2D'[2] = "shadow"
    BY <2>2, Pictures
  <2>4. /\ \A e \in {"reflection_eff", "normal-reflection_eff"} : Reflects(e)'
        /\ effect' \in {"main_eff", "normal_eff", "reflection_eff", "fresnel_eff",
                        "normal-reflection_eff"}
        /\ effect' # "fresnel_eff" =>
             uniform'[effect']["tex"] = 0 /\ uniform'[effect']["shadowMap"] = 2
    BY <1>8, <2>0, MeshInputs DEF SetUpMesh
  <2>. QED
    BY <2>1, <2>3, <2>4 DEF Inputs, Reflects
<1>9. CASE AfterMesh
  BY <1>9 DEF AfterMesh, Inputs
<1>10. CASE PostProcess
  <2>1. /\ uniform'["reflection_eff"] = uniform["reflection_eff"]
        /\ uniform'["normal-reflection_eff"] = uniform["normal-reflection_eff"]
    BY <1>10, EffectNames DEF PostProcess, SetSamplers
  <2>2. unitCube'[3] = unitCube[3]
    BY <1>10 DEF PostProcess, Unit
  <2>. QED
    BY <1>10, <2>1, <2>2 DEF PostProcess, Inputs
<1>11. CASE AfterPostProcess
  BY <1>11 DEF AfterPostProcess, Inputs
<1>12. CASE RenderMenu
  <2>1. /\ uniform'["reflection_eff"] = uniform["reflection_eff"]
        /\ uniform'["normal-reflection_eff"] = uniform["normal-reflection_eff"]
    BY <1>12, EffectNames DEF RenderMenu, SetSamplers
  <2>2. unitCube'[3] = unitCube[3]
    BY <1>12 DEF RenderMenu, Unit
  <2>. QED
    BY <1>12, <2>1, <2>2 DEF RenderMenu, Inputs
<1>13. CASE EndFrame
  BY <1>13 DEF EndFrame, Inputs
<1>14. CASE UNCHANGED vars
  BY <1>14 DEF vars, Inputs
<1>. QED
  BY <1>1, <1>2, <1>3, <1>4, <1>5, <1>6, <1>7, <1>8, <1>9, <1>10, <1>11, <1>12, <1>13,
     <1>14 DEF Next

\* Every mesh of every frame is drawn with a picture and a shadow map of its own frame,
\* and what is drawn reflecting reflects cube_map2, though only some of the functions
\* that draw such a mesh bind the cubemap or set the sampler.
THEOREM InputsCorrect == Spec => []OwnInputs
<1>1. TypeOK /\ Inputs => OwnInputs
  <2>. SUFFICES ASSUME TypeOK, Inputs, pc = "draw", pass = "mesh"
                PROVE  /\ "gate" \in Names => shadowDrawn
                       /\ effect # "fresnel_eff" /\ ~ Conflict =>
                            /\ Sampled("tex") = "surface"
                            /\ Sampled("shadowMap") = "shadow"
                            /\ "cubeMap" \in Active[effect] =>
                                 unitCube[uniform[effect]["cubeMap"]] = "cube_map2"
    BY DEF OwnInputs
  <2>1. "gate" \in Names => shadowDrawn
    BY DEF Inputs
  <2>2. effect # "fresnel_eff" => Sampled("tex") = "surface" /\ Sampled("shadowMap") = "shadow"
    BY DEF Inputs, Sampled
  <2>3. ASSUME effect # "fresnel_eff", ~ Conflict, "cubeMap" \in Active[effect]
        PROVE  unitCube[uniform[effect]["cubeMap"]] = "cube_map2"
    <3>1. effect \in {"reflection_eff", "normal-reflection_eff"}
      BY <2>3, EffectNames DEF Inputs, Active
    <3>2. "tex" \in Active[effect] \ {"cubeMap"}
      BY <3>1, EffectNames DEF Active, Sampler
    <3>3. uniform[effect]["cubeMap"] # uniform[effect]["tex"]
      BY <2>3, <3>2 DEF Conflict
    <3>4. uniform[effect]["tex"] = 0
      BY <2>3 DEF Inputs
    <3>. QED
      BY <3>1, <3>3, <3>4 DEF Inputs
  <2>. QED
    BY <2>1, <2>2, <2>3
<1>. QED
  BY TypeInit, TypeStep, PreparedInit, PreparedStep, UnitsInit, UnitsStep, InputsInit, InputsStep,
     <1>1, PTL DEF Spec

-----------------------------------------------------------------------------
(* Every mesh that reflects is drawn after the first frame.                 *)

\* load_content makes the lamp's mesh and gives it render type 2 (main.cpp:559, 865).
LampReflects ==
  "lightBall" \in Names /\ "lightBall" \in DOMAIN Assigned /\ Assigned["lightBall"] = 2

\* The sampler of the reflecting effect has been set, and nothing sets it back.
Lamp == uniform["reflection_eff"]["cubeMap"] = 3

Assignments == \A m \in Names \cap DOMAIN Assigned : type[m] = Assigned[m]

\* Until it is set the first frame has not come past the lamp.
LampSet ==
  \/ Lamp
  \/ /\ ~ warm /\ pass # "post"
     /\ pass = "menu" => pc \in {"begin", "scene"}
     /\ pass = "mesh" =>
          \A i \in 1 .. Len(Meshes) :
            i < next \/ (i = next /\ pc \in {"draw", "after"}) => Meshes[i] # "lightBall"

\* Of the two other effects that reflect, one sets all of its samplers and one is type 3's.
Drawing ==
  pass = "mesh" /\ pc = "draw" =>
    /\ effect = "fresnel_eff" => type[Meshes[next]] = 3
    /\ effect = "normal-reflection_eff" =>
         \A s \in Sampler \ {"cubeMap"} : uniform[effect][s] # uniform[effect]["cubeMap"]

Seen(m) == m \in painted \/ type[m] = 3

Complete ==
  warm =>
    /\ pass = "mesh" =>
         \A i \in 1 .. Len(Meshes) : i < next \/ (i = next /\ pc = "after") => Seen(Meshes[i])
    /\ pass = "post" => \A m \in Names : Seen(m)

Recovering == Assignments /\ LampSet /\ Drawing /\ Complete

LEMMA RecoveringInit == Init => Recovering
<1>. SUFFICES ASSUME Init
              PROVE  Recovering
  OBVIOUS
<1>1. pass = "menu" /\ pc = "begin" /\ warm = FALSE
      /\ type = [m \in Names |-> IF m \in DOMAIN Assigned THEN Assigned[m] ELSE -1]
  BY DEF Init
<1>. QED
  BY <1>1 DEF Recovering, Assignments, LampSet, Drawing, Complete

\* What the five functions set for a mesh.
LEMMA MeshSets ==
  ASSUME TypeOK, NEW m \in Names,
         \/ renderStandard(m) \/ renderNormalMap(m) \/ renderReflection(m)
         \/ renderFresnel(m) \/ renderNormalMapAndReflection(m)
  PROVE  /\ \A n \in Names \ {m} : type'[n] = type[n]
         /\ type[m] = -1 \/ type'[m] = type[m]
         /\ Lamp => Lamp'
         /\ type[m] = 2 /\ m = "lightBall" => Lamp'
         /\ effect' = "fresnel_eff" => type'[m] = 3
         /\ effect' = "normal-reflection_eff" =>
              \A s \in Sampler \ {"cubeMap"} : uniform'[effect'][s] # uniform'[effect']["cubeMap"]
<1>0. uniform \in [Effect -> [Sampler -> Unit]] /\ type \in [Names -> -1 .. 4]
  BY DEF TypeOK
<1>1. ASSUME NEW t \in 0 .. 4, Lookup(m, t)
      PROVE  /\ \A n \in Names \ {m} : type'[n] = type[n]
             /\ type[m] = -1 \/ type'[m] = type[m]
             /\ type'[m] = t /\ (type[m] = 2 => t = 2)
  BY <1>0, <1>1 DEF Lookup
<1>2. CASE renderStandard(m)
  <2>1. Lookup(m, 0) /\ effect' = "main_eff"
        /\ uniform'["reflection_eff"] = uniform["reflection_eff"]
    BY <1>0, <1>2, EffectNames DEF renderStandard, SetSamplers
  <2>. QED
    BY <1>1, <2>1 DEF Lamp
<1>3. CASE renderNormalMap(m)
  <2>1. Lookup(m, 1) /\ effect' = "normal_eff"
        /\ uniform'["reflection_eff"] = uniform["reflection_eff"]
    BY <1>0, <1>3, EffectNames DEF renderNormalMap, SetSamplers
  <2>. QED
    BY <1>1, <2>1 DEF Lamp
<1>4. CASE renderReflection(m)
  <2>1. Lookup(m, 2) /\ effect' = "reflection_eff"
    BY <1>4 DEF renderReflection
  <2>2. CASE m = "lightBall"
    <3>1. SetSamplers("reflection_eff", [tex |-> 0, shadowMap |-> 2, cubeMap |-> 3])
      BY <1>4, <2>2 DEF renderReflection
    <3>2. Lamp'
      BY <1>0, <3>1, EffectNames DEF SetSamplers, Sampler, Lamp
    <3>. QED
      BY <1>1, <2>1, <3>2
  <2>3. CASE m # "lightBall"
    <3>1. SetSamplers("reflection_eff", [tex |-> 0, shadowMap |-> 2])
      BY <1>4, <2>3 DEF renderReflection
    <3>2. Lamp => Lamp'
      BY <1>0, <3>1, EffectNames DEF SetSamplers, Sampler, Lamp
    <3>. QED
      BY <1>1, <2>1, <2>3, <3>2
  <2>. QED
    BY <2>2, <2>3
<1>5. CASE renderFresnel(m)
  <2>1. Lookup(m, 3) /\ effect' = "fresnel_eff"
        /\ uniform'["reflection_eff"] = uniform["reflection_eff"]
    BY <1>0, <1>5, EffectNames DEF renderFresnel, SetSamplers
  <2>. QED
    BY <1>1, <2>1 DEF Lamp
<1>6. CASE renderNormalMapAndReflection(m)
  <2>1. Lookup(m, 4) /\ effect' = "normal-reflection_eff"
        /\ SetSamplers("normal-reflection_eff",
                       [tex |-> 0, normalMap |-> 1, shadowMap |-> 2, cubeMap |-> 3])
    BY <1>6 DEF renderNormalMapAndReflection
  <2>2. /\ uniform'["normal-reflection_eff"]["tex"] = 0
        /\ uniform'["normal-reflection_eff"]["normalMap"] = 1
        /\ uniform'["normal-reflection_eff"]["shadowMap"] = 2
        /\ uniform'["normal-reflection_eff"]["cubeMap"] = 3
        /\ uniform'["reflection_eff"] = uniform["reflection_eff"]
    BY <1>0, <2>1, EffectNames DEF SetSamplers, Sampler
  <2>3. \A s \in Sampler \ {"cubeMap"} : uniform'[effect'][s] # uniform'[effect']["cubeMap"]
    BY <2>1, <2>2 DEF Sampler
  <2>. QED
    BY <1>1, <2>1, <2>2, <2>3 DEF Lamp
<1>. QED
  BY <1>2, <1>3, <1>4, <1>5, <1>6

\* Once the sampler of the reflecting effect is set only the fresnel effect can be in conflict.
LEMMA NoConflict ==
  ASSUME TypeOK, Inputs, Drawing, Lamp, pass = "mesh", pc = "draw", Conflict
  PROVE  type[Meshes[next]] = 3
<1>1. effect \in {"main_eff", "normal_eff", "reflection_eff", "fresnel_eff",
                  "normal-reflection_eff"}
  BY DEF Inputs
<1>2. effect \in {"reflection_eff", "fresnel_eff", "normal-reflection_eff"}
  BY <1>1, EffectNames DEF Conflict, Active
<1>3. effect # "reflection_eff"
  <2>1. SUFFICES ASSUME effect = "reflection_eff"
                 PROVE  FALSE
    OBVIOUS
  <2>2. Active[effect] \ {"cubeMap"} = {"tex", "shadowMap"}
    BY <2>1, EffectNames DEF Active
  <2>. QED
    BY <2>1, <2>2 DEF Conflict, Lamp, Inputs
<1>4. effect # "normal-reflection_eff"
  BY EffectNames DEF Conflict, Drawing, Active
<1>. QED
  BY <1>2, <1>3, <1>4 DEF Drawing

LEMMA RecoveringStep ==
  LampReflects /\ TypeOK /\ Prepared /\ Inputs /\ Recovering /\ [Next]_vars => Recovering'
<1>. SUFFICES ASSUME LampReflects, TypeOK, Prepared, Inputs, Recovering, [Next]_vars
              PROVE  Recovering'
  OBVIOUS
<1>0. /\ Assignments /\ LampSet /\ Drawing /\ Complete
      /\ uniform \in [Effect -> [Sampler -> Unit]] /\ next \in Nat \ {0} /\ warm \in BOOLEAN
      /\ Len(Meshes) \in Nat
  BY MeshAssumption DEF Recovering, TypeOK
<1>a. PICK lamp \in 1 .. Len(Meshes) : Meshes[lamp] = "lightBall"
  BY DEF LampReflects, Names
<1>. USE DEF linked, target, units, menu, history, Enter, Seen
<1>1. CASE render
  <2>1. UNCHANGED <<pass, next, effect, uniform, type, warm>> /\ pc = "draw"
        /\ pc' \in {"crashed", "after"}
    BY <1>1 DEF render
  <2>2. Assignments' /\ Drawing'
    BY <1>0, <2>1 DEF Assignments, Drawing
  <2>3. LampSet'
    BY <1>0, <2>1 DEF LampSet, Lamp
  <2>4. CASE pass = "mesh"
    <3>1. painted \subseteq painted'
      BY <1>1 DEF render
    <3>2. warm => Lamp
      BY <1>0 DEF LampSet
    <3>3. warm /\ pc' = "after" => Seen(Meshes[next])'
      <4>1. CASE Conflict
        BY <2>1, <2>4, <3>2, <4>1, <1>0, NoConflict
      <4>2. CASE ~ Conflict
        BY <1>1, <2>4, <4>2 DEF render
      <4>. QED
        BY <4>1, <4>2
    <3>. QED
      BY <1>0, <2>1, <2>2, <2>3, <2>4, <3>1, <3>3 DEF Complete, Recovering
  <2>5. CASE pass # "mesh"
    <3>1. painted' = painted
      BY <1>1, <2>5 DEF render
    <3>. QED
      BY <1>0, <2>1, <2>2, <2>3, <2>5, <3>1 DEF Complete, Recovering
  <2>. QED
    BY <2>4, <2>5
<1>2. CASE begin_render
  BY <1>0, <1>2 DEF begin_render, Prepared, Recovering, Assignments, LampSet, Lamp, Drawing,
     Complete
<1>3. CASE BeginScene
  BY <1>0, <1>3 DEF BeginScene, Prepared, Recovering, Assignments, LampSet, Lamp, Drawing,
     Complete
<1>4. CASE renderSkybox
  <2>1. uniform'["reflection_eff"] = uniform["reflection_eff"]
    BY <1>0, <1>4, EffectNames DEF renderSkybox, SetSamplers
  <2>. QED
    BY <1>0, <1>4, <2>1 DEF renderSkybox, Recovering, Assignments, LampSet, Lamp, Drawing,
       Complete
<1>5. CASE AfterSkybox
  BY <1>0, <1>5 DEF AfterSkybox, Recovering, Assignments, LampSet, Lamp, Drawing, Complete
<1>6. CASE renderShadowMap
  BY <1>0, <1>6 DEF renderShadowMap, Recovering, Assignments, LampSet, Lamp, Drawing, Complete
<1>7. CASE AfterShadowMap
  <2>1. Meshes # <<>>
    BY <1>a
  <2>2. pass = "shadow" /\ pass' = "mesh" /\ pc' = "setup" /\ next' = 1
        /\ UNCHANGED <<uniform, type, painted, warm>>
    BY <1>7, <2>1 DEF AfterShadowMap
  <2>3. \A i \in 1 .. Len(Meshes) : ~ (i < next' \/ (i = next' /\ pc' \in {"draw", "after"}))
    BY <2>2
  <2>. QED
    BY <1>0, <2>2, <2>3 DEF Recovering, Assignments, LampSet, Lamp, Drawing, Complete
<1>8. CASE SetUpMesh
  <2>. DEFINE m == Meshes[next]
  <2>1. next \in 1 .. Len(Meshes)
    BY <1>0, <1>8 DEF SetUpMesh, TypeOK
  <2>2. m \in Names
    BY <2>1, MeshNames
  <2>3. pass = "mesh" /\ pc = "setup" /\ UNCHANGED <<pass, next, painted, warm>>
    BY <1>8 DEF SetUpMesh
  <2>4. pc' \in {"draw", "crashed"}
    BY <1>8, Zenon DEF SetUpMesh, renderStandard, renderNormalMap, renderReflection,
       renderFresnel, renderNormalMapAndReflection, Proceed
  <2>5. /\ \A n \in Names \ {m} : type'[n] = type[n]
        /\ type[m] = -1 \/ type'[m] = type[m]
        /\ Lamp => Lamp'
        /\ type[m] = 2 /\ m = "lightBall" => Lamp'
        /\ effect' = "fresnel_eff" => type'[m] = 3
        /\ effect' = "normal-reflection_eff" =>
             \A s \in Sampler \ {"cubeMap"} : uniform'[effect'][s] # uniform'[effect']["cubeMap"]
    BY <1>8, <2>2, MeshSets DEF SetUpMesh
  <2>6. Assignments'
    <3>1. ASSUME NEW n \in Names \cap DOMAIN Assigned
          PROVE  type'[n] = Assigned[n]
      <4>1. type[n] = Assigned[n] /\ type[n] # -1
        BY <1>0, MeshAssumption DEF Assignments
      <4>. QED
        BY <2>5, <4>1
    <3>. QED
      BY <3>1 DEF Assignments
  <2>7. m = "lightBall" => Lamp'
    BY <1>0, <2>5 DEF Assignments, LampReflects
  <2>8. LampSet'
    <3>1. CASE Lamp \/ m = "lightBall"
      BY <2>5, <2>7, <3>1 DEF LampSet
    <3>2. CASE ~ Lamp /\ m # "lightBall"
      BY <1>0, <2>3, <3>2 DEF LampSet
    <3>. QED
      BY <3>1, <3>2
  <2>9. Drawing'
    BY <2>3, <2>5 DEF Drawing
  <2>10. \A n \in Names : type[n] = 3 => type'[n] = 3
    BY <2>5
  <2>11. \A i \in 1 .. Len(Meshes) : Meshes[i] \in Names
    BY DEF Names
  <2>12. Complete'
    BY <1>0, <2>3, <2>4, <2>10, <2>11 DEF Complete
  <2>. QED
    BY <2>6, <2>8, <2>9, <2>12 DEF Recovering
<1>9. CASE AfterMesh
  <2>1. pass = "mesh" /\ pc = "after" /\ pc' = "setup"
        /\ UNCHANGED <<uniform, type, painted, warm>>
    BY <1>9 DEF AfterMesh
  <2>2. CASE next = Len(Meshes)
    <3>1. pass' = "post"
      BY <1>9, <2>2 DEF AfterMesh
    <3>2. lamp < next \/ lamp = next
      BY <1>0, <2>2
    <3>3. Lamp
      BY <1>0, <1>a, <2>1, <3>2 DEF LampSet
    <3>4. warm => \A m \in Names : Seen(m)
      <4>1. ASSUME warm, NEW i \in 1 .. Len(Meshes)
            PROVE  Seen(Meshes[i])
        <5>1. i < next \/ i = next
          BY <1>0, <2>2
        <5>. QED
          BY <1>0, <2>1, <4>1, <5>1 DEF Complete
      <4>. QED
        BY <4>1 DEF Names
    <3>. QED
      BY <1>0, <2>1, <3>1, <3>3, <3>4 DEF Recovering, Assignments, LampSet, Lamp, Drawing,
         Complete
  <2>3. CASE next # Len(Meshes)
    <3>1. pass' = "mesh" /\ next' = next + 1
      BY <1>9, <2>3 DEF AfterMesh
    <3>2. \A i \in 1 .. Len(Meshes) :
            i < next' \/ (i = next' /\ pc' \in {"draw", "after"}) => i < next \/ i = next
      BY <1>0, <2>1, <3>1
    <3>. QED
      BY <1>0, <2>1, <3>1, <3>2 DEF Recovering, Assignments, LampSet, Lamp, Drawing, Complete
  <2>. QED
    BY <2>2, <2>3
<1>10. CASE PostProcess
  <2>1. uniform'["reflection_eff"] = uniform["reflection_eff"]
    BY <1>0, <1>10, EffectNames DEF PostProcess, SetSamplers
  <2>. QED
    BY <1>0, <1>10, <2>1 DEF PostProcess, Recovering, Assignments, LampSet, Lamp, Drawing,
       Complete
<1>11. CASE AfterPostProcess
  BY <1>0, <1>11 DEF AfterPostProcess, Recovering, Assignments, LampSet, Lamp, Drawing, Complete
<1>12. CASE RenderMenu
  <2>1. uniform'["reflection_eff"] = uniform["reflection_eff"]
    BY <1>0, <1>12, EffectNames DEF RenderMenu, SetSamplers
  <2>. QED
    BY <1>0, <1>12, <2>1 DEF RenderMenu, Recovering, Assignments, LampSet, Lamp, Drawing,
       Complete
<1>13. CASE EndFrame
  BY <1>0, <1>13 DEF EndFrame, Recovering, Assignments, LampSet, Lamp, Drawing, Complete
<1>14. CASE UNCHANGED vars
  BY <1>0, <1>14 DEF vars, Recovering, Assignments, LampSet, Lamp, Drawing, Complete
<1>. QED
  BY <1>1, <1>2, <1>3, <1>4, <1>5, <1>6, <1>7, <1>8, <1>9, <1>10, <1>11, <1>12, <1>13,
     <1>14 DEF Next

\* Whichever meshes load_content makes, in whatever order the map holds them and whatever
\* render type a mesh without an entry happens to get: if the lamp's is among them and of type
\* 2, every frame but the first shows all of them, except those of the fresnel effect.
THEOREM ReflectionCorrect == ASSUME LampReflects PROVE Spec => []ReflectionRecovers
<1>1. Recovering => ReflectionRecovers
  BY DEF Recovering, Complete, Seen, ReflectionRecovers
<1>2. TypeOK /\ Prepared /\ Inputs /\ Recovering /\ [Next]_vars => Recovering'
  BY RecoveringStep
<1>. QED
  BY TypeInit, TypeStep, PreparedInit, PreparedStep, UnitsInit, UnitsStep, InputsInit, InputsStep,
     RecoveringInit, <1>1, <1>2, PTL DEF Spec

=============================================================================
