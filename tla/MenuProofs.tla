----------------------------- MODULE MenuProofs -----------------------------
(***************************************************************************)
(* What the runs of Menu check with at most two effects moved, proved for  *)
(* every combination of levels.                                            *)
(***************************************************************************)
EXTENDS Menu, TLAPS

\* The limits and steps are integers, and a step is never zero.
LEMMA ConstantsTyped ==
  ASSUME NEW s \in Slider
  PROVE  /\ MinValue[s] \in Int /\ MaxValue[s] \in Int /\ Default[s] \in Int
         /\ MinValue[s] <= Default[s] /\ Default[s] <= MaxValue[s]
         /\ Step[s] \in Int /\ Step[s] > 0
         /\ \A action : /\ StepDown(action, s) \in {Step[s], 2 * Step[s]}
                        /\ StepDown(action, s) <= StepDown("REPEAT", s)
         /\ s = "filmgrain" => /\ MinValue[s] = 0
                               /\ StepDown("REPEAT", s) = Step[s]
BY DEF Slider, MinValue, MaxValue, Default, Step, StepDown

LEMMA DefaultTyped == /\ Default \in [Slider -> Int]
                      /\ Default["filmgrain"] = 0
<1>1. Default = [s \in Slider |-> Default[s]]
  BY DEF Default, Slider
<1>2. \A s \in Slider : Default[s] \in Int
  BY DEF Default, Slider
<1>3. Default["filmgrain"] = 0
  BY DEF Default
<1> QED
  BY <1>1, <1>2, <1>3

\* The menu's state keeps its types: the selection stays in the six rows, and
\* filmgrain is above the levels that are exact only where its rounding is recorded.
THEOREM TypeCorrect == Spec => []TypeOK
<1>1. Init => TypeOK
  BY DefaultTyped DEF Init, TypeOK, LastRow, ExactSteps, Step
<1>2. TypeOK /\ [Next]_vars => TypeOK'
  <2> SUFFICES ASSUME TypeOK, [Next]_vars
               PROVE  TypeOK'
    OBVIOUS
  <2> USE DEF TypeOK
  <2>1. CASE ToggleMenu
    BY <2>1 DEF ToggleMenu, PP
  <2>2. CASE setDefaultValues
    BY <2>2, DefaultTyped DEF setDefaultValues, LastRow, ExactSteps, Step
  <2>3. CASE Up
    BY <2>3 DEF Up, LastRow
  <2>4. CASE Down
    BY <2>4 DEF Down, LastRow
  <2>5. ASSUME NEW on \in {0, 1}, SetSepia(on)
        PROVE  TypeOK'
    BY <2>5 DEF SetSepia
  <2>6. ASSUME NEW s \in Slider, NEW to \in Int, Move(s, to)
        PROVE  TypeOK'
    <3>1. /\ level' = [level EXCEPT ![s] = to]
          /\ level'["filmgrain"] = IF s = "filmgrain" THEN to ELSE level["filmgrain"]
          /\ level' \in [Slider -> Int]
      BY <2>6 DEF Move, Slider
    <3>2. /\ residue' \in {-1, 0, 1}
          /\ residue' = 0 => level'["filmgrain"] <= ExactSteps * Step["filmgrain"]
      BY <2>6, <3>1 DEF Move, Rounded, ExactSteps, Step, MaxValue
    <3> QED
      BY <2>6, <3>1, <3>2 DEF Move
  <2>7. ASSUME NEW action, Left(action)
        PROVE  TypeOK'
    <3>1. PICK s \in Slider : Move(s, level[s] - StepDown(action, s))
      BY <2>7 DEF Left
    <3>2. level[s] - StepDown(action, s) \in Int
      BY ConstantsTyped
    <3> QED
      BY <3>1, <3>2, <2>6
  <2>8. ASSUME NEW action, Right(action)
        PROVE  TypeOK'
    <3>1. PICK s \in Slider : Move(s, level[s] + Step[s])
      BY <2>8 DEF Right
    <3>2. level[s] + Step[s] \in Int
      BY ConstantsTyped
    <3> QED
      BY <3>1, <3>2, <2>6
  <2>9. CASE UNCHANGED vars
    BY <2>9 DEF vars
  <2> QED
    BY <2>1, <2>2, <2>3, <2>4, <2>5, <2>7, <2>8, <2>9 DEF Next, key_callback
<1> QED
  BY <1>1, <1>2, PTL DEF Spec

\* However the rows are pressed, held and reset, no effect gets a whole step
\* beyond its limits: whatever happened to the others, and for any number of events.
THEOREM OvershootCorrect == Spec => []OvershootBounded
<1>1. Init => OvershootBounded
  BY ConstantsTyped DEF Init, OvershootBounded
<1>2. TypeOK /\ OvershootBounded /\ [Next]_vars => OvershootBounded'
  <2> SUFFICES ASSUME TypeOK, OvershootBounded, [Next]_vars
               PROVE  OvershootBounded'
    OBVIOUS
  <2>1. CASE UNCHANGED level
    BY <2>1 DEF OvershootBounded
  <2>2. CASE setDefaultValues
    BY <2>2, ConstantsTyped DEF setDefaultValues, OvershootBounded
  <2>3. ASSUME NEW action, Left(action)
        PROVE  OvershootBounded'
    <3>1. PICK s \in Slider : AboveMin(s) /\ Move(s, level[s] - StepDown(action, s))
      BY <2>3 DEF Left
    <3>2. /\ level'[s] = level[s] - StepDown(action, s)
          /\ \A o \in Slider \ {s} : level'[o] = level[o]
      BY <3>1 DEF Move, TypeOK
    <3>3. level[s] \in Int
      BY DEF TypeOK
    <3>4. /\ level'[s] < MaxValue[s] + Step[s]
          /\ \/ level'[s] > MinValue[s] - StepDown("REPEAT", s)
             \/ s = "filmgrain" /\ level'[s] = MinValue[s] - Step[s]
      <4> USE <3>2, <3>3, ConstantsTyped
      <4>1. CASE level[s] > MinValue[s]
        BY <4>1 DEF OvershootBounded
      <4>2. CASE s = "filmgrain" /\ level[s] = 0
        <5>1. StepDown(action, s) = Step[s]
          BY <4>2 DEF StepDown
        <5> QED
          BY <4>2, <5>1 DEF OvershootBounded
      <4> QED
        BY <3>1, <4>1, <4>2 DEF AboveMin
    <3> QED
      BY <3>2, <3>4 DEF OvershootBounded
  <2>4. ASSUME NEW action, Right(action)
        PROVE  OvershootBounded'
    <3>1. PICK s \in Slider : BelowMax(s) /\ Move(s, level[s] + Step[s])
      BY <2>4 DEF Right
    <3>2. /\ level'[s] = level[s] + Step[s]
          /\ \A o \in Slider \ {s} : level'[o] = level[o]
      BY <3>1 DEF Move, TypeOK
    <3>3. level[s] \in Int /\ level[s] < MaxValue[s]
      BY <3>1 DEF TypeOK, BelowMax
    <3>4. /\ level'[s] < MaxValue[s] + Step[s]
          /\ level'[s] > MinValue[s] - StepDown("REPEAT", s)
      BY <3>2, <3>3, ConstantsTyped DEF OvershootBounded
    <3> QED
      BY <3>2, <3>4 DEF OvershootBounded
  <2> QED
    BY <2>1, <2>2, <2>3, <2>4
       DEF Next, key_callback, vars, PP, ToggleMenu, Up, Down, SetSepia
<1> QED
  BY <1>1, <1>2, TypeCorrect, PTL DEF Spec

\* Adding or taking away one or two steps keeps a level on the grid of that step.
LEMMA GridStep ==
  ASSUME NEW d \in {1, 30, 150}, NEW a \in Int, a % d = 0
  PROVE  (a + d) % d = 0 /\ (a - d) % d = 0 /\ (a - 2 * d) % d = 0
<1>1. CASE d = 1
  BY <1>1
<1>2. CASE d = 30
  BY <1>2
<1>3. CASE d = 150
  BY <1>3
<1> QED
  BY <1>1, <1>2, <1>3

\* Mixing pressed and held steps of different sizes never loses the way back to the
\* default: every level of every behaviour is a whole number of steps from it.
THEOREM GridCorrect == Spec => []StaysOnGrid
<1>1. Init => StaysOnGrid
  <2>1. \A s \in Slider : (Default[s] - Default[s]) % Step[s] = 0
    BY DEF Slider, Default, Step
  <2> QED
    BY <2>1 DEF Init, StaysOnGrid
<1>2. TypeOK /\ StaysOnGrid /\ [Next]_vars => StaysOnGrid'
  <2> SUFFICES ASSUME TypeOK, StaysOnGrid, [Next]_vars
               PROVE  StaysOnGrid'
    OBVIOUS
  <2>1. CASE UNCHANGED level
    BY <2>1 DEF StaysOnGrid
  <2>2. CASE setDefaultValues
    <3>1. \A s \in Slider : (Default[s] - Default[s]) % Step[s] = 0
      BY DEF Slider, Default, Step
    <3> QED
      BY <2>2, <3>1 DEF setDefaultValues, StaysOnGrid
  <2>3. ASSUME NEW s \in Slider, NEW to \in Int, Move(s, to),
               to \in {level[s] + Step[s], level[s] - Step[s], level[s] - 2 * Step[s]}
        PROVE  StaysOnGrid'
    <3>1. /\ level'[s] = to
          /\ \A o \in Slider \ {s} : level'[o] = level[o]
      BY <2>3 DEF Move, TypeOK
    <3>2. /\ Step[s] \in {1, 30, 150}
          /\ level[s] - Default[s] \in Int
          /\ level[s] \in Int /\ Default[s] \in Int /\ Step[s] \in Int
      BY ConstantsTyped DEF TypeOK, Slider, Step
    <3>3. /\ (level[s] - Default[s] + Step[s]) % Step[s] = 0
          /\ (level[s] - Default[s] - Step[s]) % Step[s] = 0
          /\ (level[s] - Default[s] - 2 * Step[s]) % Step[s] = 0
      BY <3>2, GridStep DEF StaysOnGrid
    <3>4. \/ to - Default[s] = level[s] - Default[s] + Step[s]
          \/ to - Default[s] = level[s] - Default[s] - Step[s]
          \/ to - Default[s] = level[s] - Default[s] - 2 * Step[s]
      BY <2>3, <3>2
    <3>5. (to - Default[s]) % Step[s] = 0
      BY <3>3, <3>4
    <3> QED
      BY <3>1, <3>5 DEF StaysOnGrid
  <2>4. ASSUME NEW action, Left(action)
        PROVE  StaysOnGrid'
    <3>1. PICK s \in Slider : Move(s, level[s] - StepDown(action, s))
      BY <2>4 DEF Left
    <3>2. /\ StepDown(action, s) \in {Step[s], 2 * Step[s]}
          /\ level[s] \in Int /\ Step[s] \in Int
      BY ConstantsTyped DEF TypeOK
    <3> QED
      BY <2>3, <3>1, <3>2
  <2>5. ASSUME NEW action, Right(action)
        PROVE  StaysOnGrid'
    <3>1. PICK s \in Slider : Move(s, level[s] + Step[s])
      BY <2>5 DEF Right
    <3>2. level[s] \in Int /\ Step[s] \in Int
      BY ConstantsTyped DEF TypeOK
    <3> QED
      BY <2>3, <3>1, <3>2
  <2> QED
    BY <2>1, <2>2, <2>4, <2>5
       DEF Next, key_callback, vars, PP, ToggleMenu, Up, Down, SetSepia
<1> QED
  BY <1>1, <1>2, TypeCorrect, PTL DEF Spec

\* Only the selected row is edited, only while the menu shows, and nothing moves
\* with it: every step of the menu but R changes one thing.
THEOREM OneChangeCorrect == Spec => OneChangePerEvent
<1>1. TypeOK /\ [Next]_vars => [OneChange]_vars
  <2> SUFFICES ASSUME TypeOK, Next
               PROVE  OneChange \/ UNCHANGED vars
    OBVIOUS
  <2>1. CASE ToggleMenu
    BY <2>1 DEF ToggleMenu, OneChange
  <2>2. CASE setDefaultValues
    BY <2>2 DEF setDefaultValues, OneChange
  <2>3. CASE Up \/ Down
    BY <2>3 DEF Up, Down, OneChange
  <2>4. ASSUME NEW on \in {0, 1}, SetSepia(on)
        PROVE  OneChange
    BY <2>4 DEF SetSepia, OneChange
  <2>5. ASSUME NEW s \in Slider, NEW to, Move(s, to), renderMenu, activeMenuItemID = Row[s]
        PROVE  OneChange
    BY <2>5 DEF Move, TypeOK, OneChange
  <2>6. ASSUME NEW action, Left(action) \/ Right(action)
        PROVE  OneChange
    BY <2>5, <2>6 DEF Left, Right
  <2> QED
    BY <2>1, <2>2, <2>3, <2>4, <2>6 DEF Next, key_callback
<1> QED
  BY <1>1, TypeCorrect, PTL DEF Spec, OneChangePerEvent

=============================================================================
