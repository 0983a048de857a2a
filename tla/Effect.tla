-------------------------------- MODULE Effect ------------------------------
(* An effect: add_shader for each of its two shaders, and build.  Whether a   *)
(* shader compiled or a program was linked is asked in both builds.  That the *)
(* question itself failed is noticed at the next call that is checked, which  *)
(* after the question about the program is one of another object.             *)
EXTENDS OpenGL

\* Each of The Garden's effects has one of each, the fragment shader often from many files.
_shaders == <<"vertex", "fragment">>

Attached == <<"vertex attached", "fragment attached">>

Compiled == <<"vertex compiled", "fragment compiled">>

Each(names) == {names[n] : n \in 1 .. 2}

EffectParts == {"program", "linked"} \cup Each(_shaders) \cup Each(Compiled) \cup Each(Attached)

\* The answer to a status query is right, unless the query fails: then it is uninitialised.
\* After a failure that a Release build has not noticed it may be of something else.
Told(ok, answer, part) == ok /\ (build = "Debug" \/ ~failed) => (answer <=> part \in parts)

OpenShader ==
  /\ At("open") /\ kind = "effect"
  /\ OpenFile("create shader")

CreateShader ==
  /\ At("create shader")
  /\ \E ok \in BOOLEAN : Checked(ok, {}, {_shaders[k]}, {}, "compile shader")
  /\ UNCHANGED <<object, k, target, devil>>

\* That the source does not compile is no error of OpenGL's.
CompileShader ==
  /\ At("compile shader")
  /\ \E ok, compiles \in BOOLEAN :
       Checked(ok, {_shaders[k]}, IF compiles THEN {Compiled[k]} ELSE {}, {}, "compile status")
  /\ UNCHANGED <<object, k, target, devil>>

\* Asked afterwards, but not fatal.  A shader that did not compile is deleted.
CompileStatus ==
  /\ At("compile status")
  /\ \E ok, compiled \in BOOLEAN :
       /\ Attempt(ok, {_shaders[k]})
       /\ Told(ok, compiled, Compiled[k])
       /\ glError' = IF build = "Debug" THEN 0 ELSE Pending(ok /\ _shaders[k] \in parts)
       /\ IF compiled
          THEN /\ Goto(IF k = 1 THEN "open" ELSE "create program")
               /\ k' = IF k = 1 THEN 2 ELSE k
               /\ UNCHANGED parts
          ELSE Goto("thrown") /\ parts' = parts \ {_shaders[k]} /\ UNCHANGED k
  /\ UNCHANGED <<object, target, devil, blame>>

CreateProgram ==
  /\ At("create program")
  /\ \E ok \in BOOLEAN : Checked(ok, {}, {"program"}, {}, "attach shader")
  /\ k' = 1
  /\ UNCHANGED <<object, target, devil>>

AttachShader ==
  /\ At("attach shader")
  /\ \E ok \in BOOLEAN :
       Checked(ok, {"program", _shaders[k]}, {Attached[k]}, {},
               IF k = 1 THEN "attach shader" ELSE "link program")
  /\ k' = IF k = 1 THEN 2 ELSE k
  /\ UNCHANGED <<object, target, devil>>

\* Nor that the program does not link, as it does not with a shader that did not compile.
LinkProgram ==
  /\ At("link program")
  /\ \E ok, links \in BOOLEAN :
       /\ links => Each(Compiled) \subseteq parts
       /\ Checked(ok, {"program"} \cup Each(Attached), IF links THEN {"linked"} ELSE {},
                  {"program"} \cup Each(_shaders), "link status")
  /\ UNCHANGED <<object, k, target, devil>>

\* Mutant: the status of the program is not asked.
LinkStatusUnasked ==
  /\ At("link status")
  /\ Goto("made")
  /\ UNCHANGED <<object, parts, k, target, glError, devil, failed, faults, blame>>

\* The last call of build, after which OpenGL is not asked for an error.
LinkStatus ==
  /\ At("link status")
  /\ \E ok, linked \in BOOLEAN :
       /\ Attempt(ok, {"program"})
       /\ Told(ok, linked, "linked")
       /\ glError' = Pending(ok /\ "program" \in parts)
       /\ IF linked
          THEN Goto("made") /\ UNCHANGED parts
          ELSE Goto("thrown") /\ parts' = parts \ EffectParts
  /\ UNCHANGED <<object, k, target, devil, blame>>

EffectNext ==
  \/ OpenShader \/ CreateShader \/ CompileShader \/ CompileStatus
  \/ CreateProgram \/ AttachShader \/ LinkProgram \/ LinkStatus

=============================================================================
