------------------------------ MODULE MCContent -----------------------------
(* Content for TLC: the bounds on objects, sub-meshes and failing calls are the runs'. *)
EXTENDS Content

MCBuilds == {"Debug", "Release"}

=============================================================================
