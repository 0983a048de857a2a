-------------------------------- MODULE App ---------------------------------
(***************************************************************************)
(* The life of the program: main, the app class and the renderer singleton *)
(* it owns, from the window's creation to its destruction, around the      *)
(* functions an application plugs in.  One action per call that main or    *)
(* app::run makes; pc names the call that comes next.  Beside the program  *)
(* the user presses and releases Escape and clicks the window's close box; *)
(* GLFW shows the program neither before the next glfwPollEvents.          *)
(***************************************************************************)
CONSTANTS
  Functions,   \* the functions the application has set
  Outcomes     \* [function -> SUBSET {"true", "false", "throws"}]: how a call can end

AllFunctions == {"initialise", "load_content", "update", "render", "shutdown"}

ASSUME FunctionsAssumption ==
  /\ Functions \subseteq AllFunctions
  /\ Outcomes \in [AllFunctions -> SUBSET {"true", "false", "throws"}]

VARIABLES
  pc,            \* the program's next call
  glfw,          \* is GLFW initialised?
  window,        \* _window: "unset" (constructor leaves it), "live", "dead" (terminated)
  il,            \* has DevIL been started?
  running,       \* _running
  keyCallback,   \* is key_callback registered with the window?
  escape,        \* GLFW's cached state of the Escape key
  shouldClose,   \* GLFW's close flag of the window
  escapeHeld,    \* the user's finger
  closeClicked   \* has the user clicked the close box?

user == <<escapeHeld, closeClicked>>
lib  == <<glfw, window, il, running, keyCallback>>
seen == <<escape, shouldClose>>
vars == <<pc, lib, seen, user>>

Running == {"initialise", "load", "check", "update", "begin", "render", "end"}
Calls   == {"ctor", "register", "run"} \cup Running \cup {"shutdown", "dtor", "exited", "crashed"}

Init ==
  /\ pc = "ctor"
  /\ glfw = FALSE /\ window = "unset" /\ il = FALSE /\ running = FALSE
  /\ keyCallback = FALSE
  /\ escape = FALSE /\ shouldClose = FALSE
  /\ escapeHeld \in BOOLEAN /\ closeClicked = FALSE

Goto(to) == pc' = to
Crash    == Goto("crashed") /\ UNCHANGED <<lib, seen, user>>

-----------------------------------------------------------------------------
(* renderer::initialise, called by app's constructor (which ignores what it *)
(* returns).                                                                *)

\* glfwInit fails.
InitialiseNoGLFW ==
  /\ pc = "ctor"
  /\ Goto("register")
  /\ running' = FALSE
  /\ UNCHANGED <<glfw, window, il, keyCallback, seen, user>>

\* There is no monitor, or glfwCreateWindow returns NULL: the video mode of no
\* monitor is read, or glfwSetWindowPos is called on no window, before any check.
InitialiseNoWindow ==
  /\ pc = "ctor"
  /\ Goto("crashed")
  /\ glfw' = TRUE
  /\ UNCHANGED <<window, il, running, keyCallback, seen, user>>

\* glewInit fails: GLFW is terminated, and the window with it.
InitialiseNoGLEW ==
  /\ pc = "ctor"
  /\ Goto("register")
  /\ window' = "dead"
  /\ running' = FALSE
  /\ UNCHANGED <<glfw, il, keyCallback, seen, user>>

\* DevIL reports an error: the window stays open, the renderer does not run.
InitialiseNoDevIL ==
  /\ pc = "ctor"
  /\ Goto("register")
  /\ glfw' = TRUE /\ window' = "live" /\ il' = TRUE
  /\ running' = FALSE
  /\ UNCHANGED <<keyCallback, seen, user>>

InitialiseOK ==
  /\ pc = "ctor"
  /\ Goto("register")
  /\ glfw' = TRUE /\ window' = "live" /\ il' = TRUE
  /\ running' = TRUE
  /\ UNCHANGED <<keyCallback, seen, user>>

\* application.set_keyboard_callback: GLFW ignores the call when it is not initialised.
Register ==
  /\ pc = "register"
  /\ Goto("run")
  /\ keyCallback' = (glfw /\ window = "live")
  /\ UNCHANGED <<glfw, window, il, running, seen, user>>

-----------------------------------------------------------------------------
(* app::run.  A function that is not set is skipped; an exception leaves    *)
(* main, which has no handler: the program terminates where it stands.      *)

Call(f, whenTrue, whenFalse) ==
  /\ IF f \in Functions
     THEN \E outcome \in Outcomes[f] :
            \/ outcome = "true"   /\ Goto(whenTrue)
            \/ outcome = "false"  /\ Goto(whenFalse)
            \/ outcome = "throws" /\ Goto("crashed")
     ELSE Goto(whenTrue)
  /\ UNCHANGED <<lib, seen, user>>

\* A mutant: run trusts the constructor.
RunUnchecked ==
  /\ pc = "run"
  /\ Goto("initialise")
  /\ UNCHANGED <<lib, seen, user>>

Run ==
  /\ pc = "run"
  /\ Goto(IF running THEN "initialise" ELSE "dtor")
  /\ UNCHANGED <<lib, seen, user>>

RunInitialise == pc = "initialise" /\ Call("initialise", "load", "dtor")

\* A load that fails is reported and ignored; without a render function run returns.
RunLoad ==
  /\ pc = "load"
  /\ LET next == IF "render" \in Functions THEN "check" ELSE "dtor"
     IN  Call("load_content", next, next)

\* A mutant: the loop tests for Escape alone.
CheckNoClose ==
  /\ pc = "check"
  /\ Goto(IF running /\ ~ escape THEN "update" ELSE "shutdown")
  /\ UNCHANGED <<lib, seen, user>>

\* A mutant: the loop tests for the close flag alone.
CheckNoEscape ==
  /\ pc = "check"
  /\ Goto(IF running /\ ~ shouldClose THEN "update" ELSE "shutdown")
  /\ UNCHANGED <<lib, seen, user>>

\* The loop's condition and the test for Escape and the close flag.
Check ==
  /\ pc = "check"
  /\ Goto(IF running /\ ~ escape /\ ~ shouldClose THEN "update" ELSE "shutdown")
  /\ UNCHANGED <<lib, seen, user>>

RunUpdate == pc = "update" /\ Call("update", "begin", "shutdown")

begin_render ==
  /\ pc = "begin"
  /\ Goto(IF running THEN "render" ELSE "shutdown")
  /\ UNCHANGED <<lib, seen, user>>

\* A mutant: a render that fails skips end_render.
RunRenderSkips == pc = "render" /\ Call("render", "end", "check")

\* A render that fails is reported and ignored.
RunRender == pc = "render" /\ Call("render", "end", "end")

\* A mutant: the buffers are swapped, but the events are not polled.
end_renderDeaf ==
  /\ pc = "end"
  /\ Goto("check")
  /\ escape' = FALSE
  /\ shouldClose' = shouldClose
  /\ UNCHANGED <<lib, user>>

\* Swap the buffers and poll: only here does GLFW take in what the user did.
end_render ==
  /\ pc = "end"
  /\ Goto("check")
  /\ escape' = escapeHeld
  /\ shouldClose' = (shouldClose \/ closeClicked)
  /\ UNCHANGED <<lib, user>>

RunShutdown == pc = "shutdown" /\ Call("shutdown", "dtor", "dtor")

\* A mutant: shutdown forgets DevIL.
DestroyKeepsDevIL ==
  /\ pc = "dtor"
  /\ Goto("exited")
  /\ running' = FALSE
  /\ glfw' = FALSE
  /\ window' = IF window = "live" THEN "dead" ELSE window
  /\ UNCHANGED <<il, keyCallback, seen, user>>

\* A mutant: the renderer is only shut down when it ran.
DestroyOnlyRunning ==
  /\ pc = "dtor"
  /\ Goto("exited")
  /\ IF running
     THEN running' = FALSE /\ il' = FALSE /\ glfw' = FALSE /\ window' = "dead"
     ELSE UNCHANGED <<running, il, glfw, window>>
  /\ UNCHANGED <<keyCallback, seen, user>>

\* app's destructor deletes the renderer, whose destructor calls shutdown.
Destroy ==
  /\ pc = "dtor"
  /\ Goto("exited")
  /\ running' = FALSE
  /\ il' = FALSE
  /\ glfw' = FALSE
  /\ window' = IF window = "live" THEN "dead" ELSE window
  /\ UNCHANGED <<keyCallback, seen, user>>

-----------------------------------------------------------------------------
(* The user, while there is a window.                                       *)

PressOrRelease ==
  /\ escapeHeld' = ~ escapeHeld
  /\ UNCHANGED <<pc, lib, seen, closeClicked>>

ClickClose ==
  /\ window = "live"
  /\ ~ closeClicked
  /\ closeClicked' = TRUE
  /\ UNCHANGED <<pc, lib, seen, escapeHeld>>

Construct == InitialiseNoGLFW \/ InitialiseNoWindow \/ InitialiseNoGLEW \/ InitialiseNoDevIL \/ InitialiseOK

Loop == Check \/ RunUpdate \/ begin_render \/ RunRender \/ end_render

Program == Construct \/ Register \/ Run \/ RunInitialise \/ RunLoad \/ Loop \/ RunShutdown \/ Destroy

User == PressOrRelease \/ ClickClose

Next == Program \/ User

\* The program's one thread keeps being scheduled, and the calls it makes return.
Spec == Init /\ [][Next]_vars /\ WF_vars(Program)

-----------------------------------------------------------------------------

\* Types; DevIL is never left running without the window it was started for.
TypeOK ==
  /\ pc \in Calls
  /\ glfw \in BOOLEAN /\ il \in BOOLEAN /\ running \in BOOLEAN /\ keyCallback \in BOOLEAN
  /\ window \in {"unset", "live", "dead"}
  /\ escape \in BOOLEAN /\ shouldClose \in BOOLEAN
  /\ escapeHeld \in BOOLEAN /\ closeClicked \in BOOLEAN
  /\ il => window = "live"

\* Whatever failed during initialisation and whatever the application's functions
\* return, they only ever run with a live window, its key callback registered and
\* the image library started.
ContextWhileRunning == pc \in Running => glfw /\ window = "live" /\ il /\ running /\ keyCallback

\* Every way out of app::run, the failed initialisations included, leaves nothing
\* open: GLFW, its window and DevIL are released by the time main has returned.
ReleasedAtExit == pc = "exited" => ~ glfw /\ window # "live" /\ ~ il /\ ~ running

\* The frame in which GLFW shows the program Escape or the close box is the last
\* one: no function of the application starts another frame after it.
NoFrameAfterQuit == escape \/ shouldClose => pc \in {"check", "shutdown", "dtor", "exited", "crashed"}

Over == pc \in {"exited", "crashed"}

\* The user can always close the window: a click on the close box ends the program.
CloseEnds == closeClicked ~> Over

\* An Escape key that stays down ends the program (one that comes up again before
\* the next glfwPollEvents is never seen).
HeldEscapeEnds == (window = "live" /\ <>[]escapeHeld) ~> Over

-----------------------------------------------------------------------------
(* The abstract lifecycle that app::run implements.                         *)

stage ==
  CASE pc \in {"ctor", "register", "run", "initialise"} -> "new"
    [] pc = "load"                -> "initialised"
    [] pc \in {"check", "update"} -> "idle"
    [] pc \in {"begin", "render"} -> "updated"
    [] pc = "end"                 -> "rendered"
    [] pc \in {"shutdown", "dtor"} -> "stopped"
    [] pc = "exited"              -> "ended"
    [] pc = "crashed"             -> "aborted"

LC == INSTANCE Lifecycle WITH stage <- stage, context <- (window = "live")

\* The framework implements the lifecycle it promises: the application's functions
\* are called in order, a rendered frame is always presented, and nothing runs
\* outside the context.
ImplementsLifecycle == LC!Spec

=============================================================================
