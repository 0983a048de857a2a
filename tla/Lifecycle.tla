------------------------------ MODULE Lifecycle ------------------------------
(***************************************************************************)
(* What the framework promises an application: its functions are called    *)
(* in one order, each frame is an update and a render that end in one      *)
(* presented picture, all of it happens while the window's GL context is   *)
(* alive, and however the program ends without an exception the context is *)
(* gone when it has ended.                                                 *)
(***************************************************************************)

VARIABLES
  stage,    \* the last thing the application saw happen
  context   \* is the window's GL context alive?

vars == <<stage, context>>

Stages == {"new", "initialised", "idle", "updated", "rendered", "stopped", "ended", "aborted"}

Init == stage = "new" /\ context = FALSE

\* The window opens.
Open ==
  /\ stage = "new"
  /\ context' = TRUE
  /\ UNCHANGED stage

Move(from, to) ==
  /\ stage = from
  /\ context
  /\ stage' = to
  /\ UNCHANGED context

Initialise == Move("new", "initialised")
Load       == Move("initialised", "idle")
Update     == Move("idle", "updated")
Render     == Move("updated", "rendered")
Present    == Move("rendered", "idle")

\* Giving up before the first frame, leaving the loop between two frames, or
\* because an update asked for it; never between a render and its presentation.
Stop ==
  /\ stage \in {"new", "initialised", "idle", "updated"}
  /\ stage' = "stopped"
  /\ UNCHANGED context

\* The end of the program closes the context.
Close ==
  /\ stage = "stopped"
  /\ stage' = "ended"
  /\ context' = FALSE

\* A failing call into a library or an uncaught exception, at any moment.
Abort ==
  /\ stage \notin {"ended", "aborted"}
  /\ stage' = "aborted"
  /\ UNCHANGED context

Next == Open \/ Initialise \/ Load \/ Update \/ Render \/ Present \/ Stop \/ Close \/ Abort

Spec == Init /\ [][Next]_vars

=============================================================================
