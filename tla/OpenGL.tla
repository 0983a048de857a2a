------------------------------- MODULE OpenGL -------------------------------
(***************************************************************************)
(* What the framework's constructors share: the object that is being made, *)
(* and the state of OpenGL and DevIL that outlives the calls which set it. *)
(*                                                                         *)
(* The constructors are followed from one check for errors to the next.    *)
(* The calls in between succeed or one of them fails, which OpenGL         *)
(* remembers until it is asked, and only the first time.  A Debug build    *)
(* asks (CHECK_GL_ERROR) and the constructor throws, or, where a comment   *)
(* says that it is not fatal, goes on.  In a Release build CHECK_GL_ERROR  *)
(* is false.  DevIL keeps all errors, and is asked in both builds, but not *)
(* after every call.  Nothing catches an exception.                        *)
(***************************************************************************)
EXTENDS Integers, Sequences, FiniteSets

CONSTANTS
  Builds,     \* among "Debug" and "Release"
  MaxFaults   \* bound: how many calls fail of themselves

ASSUME BuildsAssumption == Builds \subseteq {"Debug", "Release"} /\ MaxFaults \in Nat

VARIABLES
  build,      \* the build that runs
  pc,         \* where the program is
  loaded,     \* the objects made so far: their kinds, parts, and whether a call failed of itself
  kind,       \* of the object that is being made
  parts,      \* what there is of it
  k,          \* a counter of its constructor: faces, shaders or sub-meshes
  target,     \* the frame buffer that is bound
  glError,    \* the object whose call raised the error that is pending, 0 for none
  ilErrors,   \* the objects whose calls left an error with DevIL
  bad,        \* the objects with a picture that was not converted to RGBA
  images,     \* how many DevIL images there are
  failed,     \* whether a call for the object being made failed of itself
  faults,     \* how many calls have failed of themselves
  blame       \* the object whose error a check for OpenGL errors threw at, 0 for none

devil  == <<ilErrors, bad, images>>
object == <<build, loaded, kind>>
glVars == <<build, pc, loaded, kind, parts, k, target, glError, devil, failed, faults, blame>>

\* The object being made, by its place among all.
This == Len(loaded) + 1

GLInit ==
  /\ build \in Builds
  /\ pc = "choose" /\ loaded = <<>> /\ kind = "none" /\ parts = {} /\ k = 0
  /\ target = "screen" /\ glError = 0
  /\ ilErrors = {} /\ bad = {} /\ images = 0
  /\ failed = FALSE /\ faults = 0 /\ blame = 0

At(place) == pc = place

Goto(place) == pc' = place

\* A call that needs parts which are missing cannot make anything of this object, and
\* may or may not raise an error; any other fails of itself, if the bound allows.
Attempt(ok, needs) ==
  LET itself == ~ok /\ needs \subseteq parts
  IN  /\ itself => faults < MaxFaults
      /\ faults' = IF itself THEN faults + 1 ELSE faults
      /\ failed' = (failed \/ itself)

Made(ok, needs, made) == IF ok /\ needs \subseteq parts THEN parts \cup made ELSE parts

\* The error that is pending: the first one since OpenGL was last asked.
Pending(ok) == IF ~ok /\ glError = 0 THEN This ELSE glError

\* Calls after which a Debug build throws at an error and deletes what is listed.
Checked(ok, needs, made, deleted, place) ==
  /\ Attempt(ok, needs)
  /\ IF build = "Debug" /\ Pending(ok) # 0
     THEN /\ Goto("thrown") /\ blame' = Pending(ok) /\ glError' = 0
          /\ parts' = parts \ deleted
     ELSE /\ Goto(place) /\ glError' = Pending(ok)
          /\ parts' = Made(ok, needs, made)
          /\ UNCHANGED blame

\* Calls after which an error is only displayed: "Non-fatal - just info".
Noted(ok, needs, made, place) ==
  /\ Attempt(ok, needs)
  /\ Goto(place)
  /\ glError' = IF build = "Debug" THEN 0 ELSE Pending(ok)
  /\ parts' = Made(ok, needs, made)
  /\ UNCHANGED blame

\* A file that is not there is an exception in both builds.
OpenFile(place) ==
  \E ok \in BOOLEAN :
    /\ Attempt(ok, {})
    /\ Goto(IF ok THEN place ELSE "thrown")
    /\ UNCHANGED <<object, parts, k, target, glError, devil, blame>>

=============================================================================
