---- MODULE MCRenderFrame ----
(* Seven of the garden's meshes, in the map's order: one of each way a mesh *)
(* is drawn, a reflecting one before and one after the lamp's, and two      *)
(* (bench, skybox) without a render type.                                   *)
EXTENDS RenderFrame

GardenMeshes == <<"bench", "gate", "lampp", "lightBall", "planet1", "skybox", "water">>

GardenTypes == [gate |-> 4, lampp |-> 2, lightBall |-> 2, planet1 |-> 2, water |-> 3]
====
