------------------------------- MODULE Loading ------------------------------
(***************************************************************************)
(* What load_content promises the frame loop: it makes its objects one     *)
(* after the other and never touches one again, and then either returns or *)
(* ends the program.  An object that is not usable is never handed over,   *)
(* but by a Release build, which never asks whether OpenGL obeyed; but for *)
(* a geometry, whose buffers are added by a function with a result that    *)
(* every caller ignores; and but for an effect, whose last question to     *)
(* OpenGL may itself fail unnoticed.                                       *)
(***************************************************************************)
EXTENDS Sequences

CONSTANTS Objects, Builds

VARIABLES
  mode,     \* the build that runs
  state,    \* "loading", "loaded" or "ended"
  objects   \* what has been made: its kind, and whether it is usable

vars == <<mode, state, objects>>

Init == mode \in Builds /\ state = "loading" /\ objects = <<>>

Make(kind, usable) ==
  /\ state = "loading"
  /\ usable \/ mode = "Release" \/ kind \in {"geometry", "effect"}
  /\ objects' = Append(objects, [kind |-> kind, usable |-> usable])
  /\ UNCHANGED <<mode, state>>

\* load_content returns.
Return == state = "loading" /\ state' = "loaded" /\ UNCHANGED <<mode, objects>>

\* An exception ends the program, now or when the loop runs.
End == state # "ended" /\ state' = "ended" /\ UNCHANGED <<mode, objects>>

Next == (\E kind \in Objects, usable \in BOOLEAN : Make(kind, usable)) \/ Return \/ End

Spec ==
  /\ Init /\ [][Next]_vars
  /\ WF_vars(state = "loading" /\ Next)

=============================================================================
