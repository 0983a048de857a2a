-------------------------------- MODULE Menu --------------------------------
(***************************************************************************)
(* The post-processing menu: the PostProcess object and key_callback, the  *)
(* only code that writes it.  GLFW calls key_callback once for every key   *)
(* event it delivers; each action below is one such call that changes      *)
(* something (a call that changes nothing is a stuttering step).           *)
(*                                                                         *)
(* Levels are in thousandths: 0.03f is 30, 3.0f is 3000.  The levels are   *)
(* sums of float steps, so where such a sum meets a limit that the guard   *)
(* compares it with, rounding decides the guard.  That happens in one      *)
(* place: filmgrain is exactly 0.0f again after one or two steps up, a     *)
(* little above it after three or more, and a little below it once it has  *)
(* been at its greatest level.  How high it has been alone decides this,   *)
(* whatever the way back was: residue.  (chromaticAbberation returns to    *)
(* 0.0f or just below it and reaches 0.004f exactly; the other limits are  *)
(* no sum of steps.)                                                       *)
(***************************************************************************)
EXTENDS Integers

VARIABLES
  renderMenu,        \* is the menu shown (and are its keys live)?
  activeMenuItemID,  \* the selected row
  level,             \* the float effects, in thousandths
  sepia,             \* 0: off, 1: on
  residue            \* the sign of filmgrain's rounding error where it comes back to 0

PP   == <<activeMenuItemID, level, sepia, residue>>
vars == <<renderMenu, activeMenuItemID, level, sepia, residue>>

Slider == {"brightness", "saturation", "chromaticAbberation", "filmgrain"}

\* The row of the menu that edits each slider; row 3 is sepia, row 5 is nothing.
Row      == [brightness |-> 0, saturation |-> 1, chromaticAbberation |-> 2, filmgrain |-> 4]
SepiaRow == 3
LastRow  == 5

\* The rows load_content loads a picture for.
menu_tex == 0 .. 4

\* The limits that the guards compare a level with.
MinValue == [brightness |-> -1000, saturation |-> 0, chromaticAbberation |-> 0, filmgrain |-> 0]
MaxValue == [brightness |-> 1000, saturation |-> 3000, chromaticAbberation |-> 4, filmgrain |-> 8000]
Default  == [brightness |-> 0, saturation |-> 1000, chromaticAbberation |-> 0, filmgrain |-> 0]
Step     == [brightness |-> 30, saturation |-> 30, chromaticAbberation |-> 1, filmgrain |-> 150]

\* A mutant: the held key is slowed down instead of speeded up.
StepDownHalved(action, s) ==
  IF action = "REPEAT" /\ s = "saturation" THEN Step[s] \div 2 ELSE Step[s]

\* A held LEFT takes saturation down twice as fast as a pressed one.
StepDown(action, s) == IF action = "REPEAT" /\ s = "saturation" THEN 2 * Step[s] ELSE Step[s]

AboveMin(s) == \/ level[s] > MinValue[s]
               \/ s = "filmgrain" /\ level[s] = 0 /\ residue > 0

\* A mutant: the limit itself still passes the guard.
BelowMaxInclusive(s) == level[s] <= MaxValue[s]

BelowMax(s) == level[s] < MaxValue[s]

\* A mutant: a missing break, row 0 falls through to row 1.
MoveFallsThrough(s, to) ==
  /\ level' = IF s = "brightness"
              THEN [level EXCEPT ![s] = to, !["saturation"] = @ + to - level[s]]
              ELSE [level EXCEPT ![s] = to]
  /\ residue' = residue
  /\ UNCHANGED <<renderMenu, activeMenuItemID, sepia>>

\* Two steps of filmgrain from 0.0f and back are exact, a third is not.
ExactSteps == 2

Rounded(to) ==
  CASE to > MaxValue["filmgrain"]                           -> -1
    [] to > ExactSteps * Step["filmgrain"] /\ residue = 0 -> 1
    [] OTHER                                                -> residue

Move(s, to) ==
  /\ level' = [level EXCEPT ![s] = to]
  /\ residue' = IF s = "filmgrain" THEN Rounded(to) ELSE residue
  /\ UNCHANGED <<renderMenu, activeMenuItemID, sepia>>

-----------------------------------------------------------------------------

\* PostProcess::setDefaultValues, from the constructor and from key R.
Init ==
  /\ renderMenu = TRUE
  /\ activeMenuItemID = 0
  /\ level = Default
  /\ sepia = 0
  /\ residue = 0

ToggleMenu ==
  /\ renderMenu' = ~ renderMenu
  /\ UNCHANGED PP

setDefaultValues ==
  /\ activeMenuItemID' = 0
  /\ level' = Default
  /\ sepia' = 0
  /\ residue' = 0
  /\ UNCHANGED renderMenu

Up ==
  /\ renderMenu
  /\ activeMenuItemID > 0
  /\ activeMenuItemID' = activeMenuItemID - 1
  /\ UNCHANGED <<renderMenu, level, sepia, residue>>

\* A mutant: no lower end of the list.
DownUnguarded ==
  /\ renderMenu
  /\ activeMenuItemID' = activeMenuItemID + 1
  /\ UNCHANGED <<renderMenu, level, sepia, residue>>

Down ==
  /\ renderMenu
  /\ activeMenuItemID < LastRow
  /\ activeMenuItemID' = activeMenuItemID + 1
  /\ UNCHANGED <<renderMenu, level, sepia, residue>>

\* LEFT and RIGHT on a slider's row, pressed or held.
Left(action) == \E s \in Slider :
  /\ renderMenu
  /\ activeMenuItemID = Row[s]
  /\ AboveMin(s)
  /\ Move(s, level[s] - StepDown(action, s))

Right(action) == \E s \in Slider :
  /\ renderMenu
  /\ activeMenuItemID = Row[s]
  /\ BelowMax(s)
  /\ Move(s, level[s] + Step[s])

\* LEFT and RIGHT on the sepia row: only a press, a held key is ignored.
SetSepia(on) ==
  /\ renderMenu
  /\ activeMenuItemID = SepiaRow
  /\ sepia' = on
  /\ UNCHANGED <<renderMenu, activeMenuItemID, level, residue>>

key_callback(action) ==
  \/ /\ action = "PRESS"
     /\ \/ ToggleMenu
        \/ setDefaultValues
        \/ Up
        \/ Down
        \/ \E on \in {0, 1} : SetSepia(on)
  \/ Left(action)
  \/ Right(action)

Next == \E action \in {"PRESS", "REPEAT"} : key_callback(action)

Spec == Init /\ [][Next]_vars

-----------------------------------------------------------------------------

\* Types; without a rounding error filmgrain is within the steps that are exact.
TypeOK ==
  /\ renderMenu \in BOOLEAN
  /\ activeMenuItemID \in 0 .. LastRow
  /\ level \in [Slider -> Int]
  /\ sepia \in {0, 1}
  /\ residue \in {-1, 0, 1}
  /\ residue = 0 => level["filmgrain"] <= ExactSteps * Step["filmgrain"]

\* However the rows are pressed, held, left and reset, no effect ever gets a
\* whole step beyond its limits (filmgrain can get exactly one below its minimum,
\* from a 0 that rounding left positive).
OvershootBounded == \A s \in Slider :
  /\ level[s] < MaxValue[s] + Step[s]
  /\ \/ level[s] > MinValue[s] - StepDown("REPEAT", s)
     \/ s = "filmgrain" /\ level[s] = MinValue[s] - Step[s]

\* Pressed and held steps of different sizes never leave an effect between two
\* steps: from every level the default can be reached again with the arrow keys.
StaysOnGrid == \A s \in Slider : (level[s] - Default[s]) % Step[s] = 0

\* One key event changes one thing: a level moves only while the menu shows and
\* its own row is selected, nothing else moves with it, and only R does more.
OneChange ==
  \/ <<activeMenuItemID, level, sepia, renderMenu>>' = <<0, Default, 0, renderMenu>>
  \/ UNCHANGED PP
  \/ renderMenu /\ UNCHANGED <<renderMenu, level, sepia>>
  \/ /\ renderMenu
     /\ activeMenuItemID = SepiaRow
     /\ UNCHANGED <<renderMenu, activeMenuItemID, level>>
  \/ \E s \in Slider :
       /\ renderMenu
       /\ activeMenuItemID = Row[s]
       /\ \A o \in Slider \ {s} : level'[o] = level[o]
       /\ UNCHANGED <<renderMenu, activeMenuItemID, sepia>>

OneChangePerEvent == [][OneChange]_vars

\* What key_callback's comments say of its guards: "saturation MIN value",
\* "brightness MAX value" and so on are the ends of what an effect can be set to.
\* (filmgrain, which also passes them, by its rounding, is left to OvershootBounded.)
EffectsWithinLimits ==
  \A s \in Slider \ {"filmgrain"} : level[s] \in MinValue[s] .. MaxValue[s]

\* What renderer::bind asserts of the picture the menu is drawn with: the
\* selected row has one.
MenuPictureValid == renderMenu => activeMenuItemID \in menu_tex

=============================================================================
