------------------------------ MODULE AppProofs ------------------------------
(***************************************************************************)
(* The safety properties of App and its refinement of Lifecycle, for every *)
(* set of application functions and every way their calls can end.         *)
(***************************************************************************)
EXTENDS App, TLAPS

\* The inductive invariant: what is open at each point of the program.  The window is
\* only live inside an initialised GLFW, a renderer that runs has everything, the
\* callback is registered before run is called, and only the destructor closes.
Inv ==
  /\ TypeOK
  /\ pc = "ctor" => window = "unset" /\ ~ running
  /\ window = "live" => glfw
  /\ pc \in {"register", "run"} /\ running => window = "live" /\ il
  /\ pc = "run" /\ running => keyCallback
  /\ ContextWhileRunning
  /\ ReleasedAtExit
  /\ NoFrameAfterQuit

LEMMA InvInit == Init => Inv
<1> SUFFICES ASSUME Init PROVE Inv
  OBVIOUS
<1>1. TypeOK
  BY DEF Init, TypeOK, Calls
<1> QED
  BY <1>1 DEF Init, Inv, ContextWhileRunning, ReleasedAtExit, NoFrameAfterQuit, Running

LEMMA InvStep == Inv /\ [Next]_vars => Inv'
<1> SUFFICES ASSUME Inv, [Next]_vars
             PROVE  Inv'
  OBVIOUS
<1> USE DEF Inv, TypeOK, Calls, Running, ContextWhileRunning, ReleasedAtExit,
            NoFrameAfterQuit, Goto, lib, seen, user
<1>1. CASE InitialiseNoGLFW
  BY <1>1 DEF InitialiseNoGLFW
<1>2. CASE InitialiseNoWindow
  BY <1>2 DEF InitialiseNoWindow
<1>3. CASE InitialiseNoGLEW
  BY <1>3 DEF InitialiseNoGLEW
<1>4. CASE InitialiseNoDevIL
  BY <1>4 DEF InitialiseNoDevIL
<1>5. CASE InitialiseOK
  BY <1>5 DEF InitialiseOK
<1>6. CASE Register
  BY <1>6 DEF Register
<1>7. CASE Run
  BY <1>7 DEF Run
<1>8. CASE RunInitialise
  BY <1>8 DEF RunInitialise, Call
<1>9. CASE RunLoad
  BY <1>9 DEF RunLoad, Call
<1>10. CASE Check
  BY <1>10 DEF Check
<1>11. CASE RunUpdate
  BY <1>11 DEF RunUpdate, Call
<1>12. CASE begin_render
  BY <1>12 DEF begin_render
<1>13. CASE RunRender
  BY <1>13 DEF RunRender, Call
<1>14. CASE end_render
  BY <1>14 DEF end_render
<1>15. CASE RunShutdown
  BY <1>15 DEF RunShutdown, Call
<1>16. CASE Destroy
  BY <1>16 DEF Destroy
<1>17. CASE User
  <2>1. UNCHANGED <<pc, lib, seen>>
    BY <1>17 DEF User, PressOrRelease, ClickClose
  <2>2. escapeHeld' \in BOOLEAN
    <3>1. CASE PressOrRelease
      BY <3>1, Zenon DEF PressOrRelease
    <3>2. CASE ClickClose
      BY <3>2 DEF ClickClose
    <3> QED
      BY <1>17, <3>1, <3>2 DEF User
  <2>3. closeClicked' \in BOOLEAN
    BY <1>17 DEF User, PressOrRelease, ClickClose
  <2> QED
    BY <2>1, <2>2, <2>3
<1>18. CASE UNCHANGED vars
  BY <1>18 DEF vars
<1> QED
  BY <1>1, <1>2, <1>3, <1>4, <1>5, <1>6, <1>7, <1>8, <1>9, <1>10, <1>11, <1>12, <1>13,
     <1>14, <1>15, <1>16, <1>17, <1>18 DEF Next, Program, Construct, Loop

LEMMA Invariance == Spec => []Inv
BY InvInit, InvStep, PTL DEF Spec

\* The program's place, what is open and what the user did keep their types.
THEOREM TypeCorrect == Spec => []TypeOK
<1>1. Inv => TypeOK
  BY DEF Inv
<1> QED
  BY <1>1, Invariance, PTL

\* No function of the application runs without its window, key callback and image
\* library, whatever failed before.
THEOREM ContextCorrect == Spec => []ContextWhileRunning
<1>1. Inv => ContextWhileRunning
  BY DEF Inv
<1> QED
  BY <1>1, Invariance, PTL

\* Every return from main leaves GLFW, the window and DevIL closed.
THEOREM ReleaseCorrect == Spec => []ReleasedAtExit
<1>1. Inv => ReleasedAtExit
  BY DEF Inv
<1> QED
  BY <1>1, Invariance, PTL

\* Once GLFW has shown the program Escape or the close flag no frame is started.
THEOREM QuitCorrect == Spec => []NoFrameAfterQuit
<1>1. Inv => NoFrameAfterQuit
  BY DEF Inv
<1> QED
  BY <1>1, Invariance, PTL

-----------------------------------------------------------------------------
(* The refinement: every step of the program is a step of Lifecycle, or one *)
(* that Lifecycle does not see.                                             *)

LEMMA LifecycleStep == Inv /\ [Next]_vars => [LC!Next]_(LC!vars)
<1> SUFFICES ASSUME Inv, [Next]_vars
             PROVE  LC!Next \/ UNCHANGED <<stage, window = "live">>
  BY DEF LC!vars
<1> USE DEF Inv, TypeOK, Calls, Running, ContextWhileRunning, Goto, lib, stage
<1>1. CASE InitialiseNoGLFW \/ InitialiseNoGLEW
  BY <1>1 DEF InitialiseNoGLFW, InitialiseNoGLEW
<1>2. CASE InitialiseNoWindow
  BY <1>2 DEF InitialiseNoWindow, LC!Next, LC!Abort
<1>3. CASE InitialiseNoDevIL \/ InitialiseOK
  BY <1>3 DEF InitialiseNoDevIL, InitialiseOK, LC!Next, LC!Open
<1>4. CASE Register
  BY <1>4 DEF Register
<1>5. CASE Run
  BY <1>5 DEF Run, LC!Next, LC!Stop
<1>6. CASE RunInitialise
  BY <1>6 DEF RunInitialise, Call, LC!Next, LC!Initialise, LC!Move, LC!Stop, LC!Abort
<1>7. CASE RunLoad
  BY <1>7 DEF RunLoad, Call, LC!Next, LC!Load, LC!Move, LC!Stop, LC!Abort
<1>8. CASE Check
  BY <1>8 DEF Check, LC!Next, LC!Stop
<1>9. CASE RunUpdate
  BY <1>9 DEF RunUpdate, Call, LC!Next, LC!Update, LC!Move, LC!Stop, LC!Abort
<1>10. CASE begin_render
  BY <1>10 DEF begin_render
<1>11. CASE RunRender
  BY <1>11 DEF RunRender, Call, LC!Next, LC!Render, LC!Move, LC!Abort
<1>12. CASE end_render
  BY <1>12 DEF end_render, LC!Next, LC!Present, LC!Move
<1>13. CASE RunShutdown
  BY <1>13 DEF RunShutdown, Call, LC!Next, LC!Abort
<1>14. CASE Destroy
  BY <1>14 DEF Destroy, LC!Next, LC!Close
<1>15. CASE User
  BY <1>15 DEF User, PressOrRelease, ClickClose
<1>16. CASE UNCHANGED vars
  BY <1>16 DEF vars
<1> QED
  BY <1>1, <1>2, <1>3, <1>4, <1>5, <1>6, <1>7, <1>8, <1>9, <1>10, <1>11, <1>12, <1>13,
     <1>14, <1>15, <1>16 DEF Next, Program, Construct, Loop

\* The app class and the renderer implement the lifecycle they promise, whichever
\* functions an application sets and however those end.
THEOREM LifecycleImplemented == Spec => ImplementsLifecycle
<1>1. Init => LC!Init
  BY DEF Init, LC!Init, stage
<1> QED
  BY <1>1, LifecycleStep, Invariance, PTL DEF Spec, ImplementsLifecycle, LC!Spec

=============================================================================
