------------------------------- MODULE Update -------------------------------
(***************************************************************************)
(* The update function of The Garden: the polled keys that choose the      *)
(* camera and the mode of the cursor, the moving lamp and its shadow, the  *)
(* active camera, the planets; with free_camera and target_camera as far   *)
(* as they keep a position and the view made from it, and GLFW's cursor.   *)
(*                                                                         *)
(* pc names the statement that comes next; the operating system's cursor   *)
(* moves between any two.  A position is the number of moves that led to   *)
(* it: planet2's position is moves, its place after so many movePlanets.   *)
(* Saving the shadow map (key I) changes nothing that is modelled here.    *)
(***************************************************************************)
EXTENDS Integers

CONSTANTS
  Places,  \* where the operating system's cursor can be, along one axis
  Motions  \* how far the mouse can have moved between two polls

ASSUME MouseAssumption == Places \subseteq Int /\ Motions \subseteq Int /\ 0 \in Motions

Camera == 0 .. 2
Origin == -1          \* where camera 2 is loaded, on no planet
NoView == -2          \* a view that no camera has computed

VARIABLES
  pc,           \* the statement that comes next
  keys,         \* those of the keys 1, 2 and 3 that GLFW has down
  activeCamNo,  \* the camera that getMVP and getEyePos use
  cursorMode,   \* GLFW's: "normal" or "disabled"
  place,        \* the operating system's cursor
  virtual,      \* GLFW's virtual cursor, which stands in for it when disabled
  cursor_x,     \* the program's: the cursor when it last looked
  turned,       \* how far cam_free was rotated in this update
  position,     \* each camera's _position
  viewFrom,     \* the position each camera's _view was computed from
  skybox,       \* the skybox: centred on which camera, at what position
  moves,        \* how often movePlanets has run: the planets' transforms
  spots,        \* the planets' transforms that spots[1..3] were placed by
  lamp,         \* how often spots[4] has moved
  shadowAt,     \* shadow.light_position, as a place of the lamp
  ballAt,       \* lightBall's, likewise
  moved,        \* history: what the last poll delivered of the mouse
  slip,         \* history: what the cursor moved as this update disabled it
  streak        \* history: for how many updates camera 2 has been on, up to two

mouse   == <<cursorMode, virtual, cursor_x, turned, slip>>
cameras == <<position, viewFrom, skybox>>
scene   == <<moves, spots>>
lights  == <<lamp, shadowAt, ballAt>>
vars    == <<pc, keys, activeCamNo, mouse, place, moved, cameras, scene, lights, streak>>

\* main: cam_free_initialize is the initialise function; the first update finds no key
\* down, so it goes on behind the test of key 1 as an update that found it down does.
Init ==
  /\ pc = "capture"
  /\ keys = {} /\ activeCamNo = 1
  /\ cursorMode = "normal"
  /\ place \in Places /\ virtual = 0 /\ cursor_x = 0
  /\ turned = 0 /\ moved = 0 /\ slip = 0
  /\ position = [c \in Camera |-> IF c = 2 THEN Origin ELSE 0]
  /\ viewFrom = [c \in Camera |-> NoView]
  /\ skybox = <<1, NoView>>
  /\ moves = 0 /\ spots = 0
  /\ lamp = 0 /\ shadowAt = 0 /\ ballAt = 0
  /\ streak = 0

\* glfwGetCursorPos
GetCursorPos == IF cursorMode = "disabled" THEN virtual ELSE place

\* glfwSetInputMode(GLFW_CURSOR): the virtual cursor starts where the real one is.
SetCursorMode(mode) ==
  /\ cursorMode' = mode
  /\ virtual' = IF cursorMode = mode THEN virtual ELSE place

-----------------------------------------------------------------------------

Key1 ==
  /\ pc = "key1"
  /\ IF 1 \in keys
     THEN pc' = "capture" /\ activeCamNo' = 0
     ELSE pc' = "key2" /\ UNCHANGED activeCamNo
  /\ slip' = 0
  /\ UNCHANGED <<keys, cursorMode, virtual, cursor_x, turned, place, moved, cameras, scene, lights, streak>>

\* A mutant: the cursor is not captured.
CaptureNothing ==
  /\ pc = "capture"
  /\ pc' = "disable"
  /\ UNCHANGED <<keys, activeCamNo, cursorMode, virtual, cursor_x, turned, slip, place, moved,
                 cameras, scene, lights, streak>>

\* cam_free_initialize
Capture ==
  /\ pc = "capture"
  /\ pc' = "disable"
  /\ cursor_x' = GetCursorPos
  /\ UNCHANGED <<keys, activeCamNo, cursorMode, virtual, turned, slip, place, moved,
                 cameras, scene, lights, streak>>

Disable ==
  /\ pc = "disable"
  /\ pc' = "key2"
  /\ SetCursorMode("disabled")
  /\ slip' = IF cursorMode = "disabled" THEN 0 ELSE place - cursor_x
  /\ UNCHANGED <<keys, activeCamNo, cursor_x, turned, place, moved, cameras, scene, lights, streak>>

\* A mutant: the test does not set the camera it frees the cursor for.
Key2KeepsCamera ==
  /\ pc = "key2"
  /\ pc' = "key3"
  /\ IF 2 \in keys
     THEN SetCursorMode("normal")
     ELSE UNCHANGED <<cursorMode, virtual>>
  /\ UNCHANGED <<keys, activeCamNo, cursor_x, turned, slip, place, moved, cameras, scene, lights, streak>>

Key2 ==
  /\ pc = "key2"
  /\ pc' = "key3"
  /\ IF 2 \in keys
     THEN activeCamNo' = 1 /\ SetCursorMode("normal")
     ELSE UNCHANGED <<activeCamNo, cursorMode, virtual>>
  /\ UNCHANGED <<keys, cursor_x, turned, slip, place, moved, cameras, scene, lights, streak>>

\* A mutant: the key's number is taken for the camera's.
Key3ByNumber ==
  /\ pc = "key3"
  /\ pc' = "light"
  /\ IF 3 \in keys
     THEN activeCamNo' = 3 /\ SetCursorMode("normal")
     ELSE UNCHANGED <<activeCamNo, cursorMode, virtual>>
  /\ UNCHANGED <<keys, cursor_x, turned, slip, place, moved, cameras, scene, lights, streak>>

Key3 ==
  /\ pc = "key3"
  /\ pc' = "light"
  /\ IF 3 \in keys
     THEN activeCamNo' = 2 /\ SetCursorMode("normal")
     ELSE UNCHANGED <<activeCamNo, cursorMode, virtual>>
  /\ UNCHANGED <<keys, cursor_x, turned, slip, place, moved, cameras, scene, lights, streak>>

\* A mutant: the shadow takes the light's place before the light moves.
MoveLightAfter ==
  /\ pc = "light"
  /\ pc' = "camera"
  /\ lamp' = lamp + 1
  /\ shadowAt' = lamp
  /\ ballAt' = lamp'
  /\ UNCHANGED <<keys, activeCamNo, mouse, place, moved, cameras, scene, streak>>

\* spots[4] moves, then the shadow map's light and the lamp's mesh follow it.
MoveLight ==
  /\ pc = "light"
  /\ pc' = "camera"
  /\ lamp' = lamp + 1
  /\ shadowAt' = lamp'
  /\ ballAt' = lamp'
  /\ UNCHANGED <<keys, activeCamNo, mouse, place, moved, cameras, scene, streak>>

\* cam_free_update: turned by the mouse, moved by the held keys, then updated.
FreeCamera ==
  /\ pc = "camera" /\ activeCamNo = 0
  /\ pc' = "planets"
  /\ turned' = GetCursorPos - cursor_x
  /\ cursor_x' = GetCursorPos
  /\ \E to \in {position[0], position[0] + 1} :
       /\ position' = [position EXCEPT ![0] = to]
       /\ viewFrom' = [viewFrom EXCEPT ![0] = to]
       /\ skybox' = <<0, to>>
  /\ streak' = 0
  /\ UNCHANGED <<keys, activeCamNo, cursorMode, virtual, slip, place, moved, scene, lights>>

TargetCamera1 ==
  /\ pc = "camera" /\ activeCamNo = 1
  /\ pc' = "planets"
  /\ viewFrom' = [viewFrom EXCEPT ![1] = position[1]]
  /\ skybox' = <<1, position[1]>>
  /\ streak' = 0
  /\ UNCHANGED <<keys, activeCamNo, mouse, place, moved, position, scene, lights>>

\* A mutant: the camera is put on its planet before the skybox is put on the camera.
TargetCamera2Early ==
  /\ pc = "camera" /\ activeCamNo = 2
  /\ pc' = "planets"
  /\ viewFrom' = [viewFrom EXCEPT ![2] = position[2]]
  /\ position' = [position EXCEPT ![2] = moves]
  /\ skybox' = <<2, moves>>
  /\ streak' = IF streak = 0 THEN 1 ELSE 2
  /\ UNCHANGED <<keys, activeCamNo, mouse, place, moved, scene, lights>>

\* A mutant: the camera is put on its planet before it is updated.
TargetCamera2First ==
  /\ pc = "camera" /\ activeCamNo = 2
  /\ pc' = "planets"
  /\ position' = [position EXCEPT ![2] = moves]
  /\ viewFrom' = [viewFrom EXCEPT ![2] = moves]
  /\ skybox' = <<2, moves>>
  /\ streak' = IF streak = 0 THEN 1 ELSE 2
  /\ UNCHANGED <<keys, activeCamNo, mouse, place, moved, scene, lights>>

\* The view and the skybox are made first, then the camera is put on planet2.
TargetCamera2 ==
  /\ pc = "camera" /\ activeCamNo = 2
  /\ pc' = "planets"
  /\ viewFrom' = [viewFrom EXCEPT ![2] = position[2]]
  /\ skybox' = <<2, position[2]>>
  /\ position' = [position EXCEPT ![2] = moves]
  /\ streak' = IF streak = 0 THEN 1 ELSE 2
  /\ UNCHANGED <<keys, activeCamNo, mouse, place, moved, scene, lights>>

\* The planets move and the spotlights that ride on them follow.
movePlanets ==
  /\ pc = "planets"
  /\ pc' = "render"
  /\ moves' = moves + 1
  /\ spots' = moves'
  /\ UNCHANGED <<keys, activeCamNo, mouse, place, moved, cameras, lights, streak>>

-----------------------------------------------------------------------------

\* The frame is rendered and GLFW polls the events: the keys that are down now, and
\* what the mouse moved, which a disabled cursor adds to the virtual one.
PollEvents ==
  /\ pc = "render"
  /\ pc' = "key1"
  /\ keys' \in SUBSET {1, 2, 3}
  /\ moved' \in (IF cursorMode = "disabled" THEN Motions ELSE {0})
  /\ virtual' = virtual + moved'
  /\ UNCHANGED <<activeCamNo, cursorMode, cursor_x, turned, slip, place, cameras, scene, lights, streak>>

\* Beside the program, the operating system's cursor moves.
MoveCursor ==
  /\ place' \in Places
  /\ UNCHANGED <<pc, keys, activeCamNo, mouse, moved, cameras, scene, lights, streak>>

cam_free_initialize == Capture \/ Disable

Cameras == FreeCamera \/ TargetCamera1 \/ TargetCamera2

update == Key1 \/ cam_free_initialize \/ Key2 \/ Key3 \/ MoveLight \/ Cameras \/ movePlanets

Next == update \/ PollEvents \/ MoveCursor

Spec == Init /\ [][Next]_vars

-----------------------------------------------------------------------------

Statements == {"key1", "capture", "disable", "key2", "key3", "light", "camera", "planets", "render"}

\* Types.
TypeOK ==
  /\ pc \in Statements
  /\ keys \in SUBSET {1, 2, 3} /\ activeCamNo \in Camera
  /\ cursorMode \in {"normal", "disabled"}
  /\ place \in Int /\ virtual \in Int /\ cursor_x \in Int
  /\ turned \in Int /\ moved \in Int /\ slip \in Int
  /\ position \in [Camera -> Int] /\ viewFrom \in [Camera -> Int]
  /\ skybox \in Camera \X Int
  /\ moves \in Nat /\ spots \in Nat
  /\ lamp \in Nat /\ shadowAt \in Nat /\ ballAt \in Nat
  /\ streak \in 0 .. 2

\* The free camera turns by what the mouse moved since the last frame and by nothing
\* else: never by what it moved under another camera, nor by where the cursor was left
\* then.  In the frames in which key 1 is down the mouse is captured anew and its
\* motion is lost; what remains is the slip of a cursor that moved in between.
TurnsWithTheMouse ==
  pc = "render" /\ activeCamNo = 0 => turned = IF 1 \in keys THEN slip ELSE moved

\* A frame of the free camera has the cursor disabled; otherwise the camera would stop
\* turning at the edge of the screen.
FreeCameraOwnsCursor == pc = "render" /\ activeCamNo = 0 => cursorMode = "disabled"

\* A frame is drawn with the skybox centred on the point it is viewed from, whichever
\* camera is active, however it was switched to, and though camera 2 is moved on later.
SkyboxCentred == pc = "render" => skybox = <<activeCamNo, viewFrom[activeCamNo]>>

\* Camera 2 rides on planet2, one update behind it where it is asked for its position
\* (lighting) and two behind in its view, from the second frame after the switch on.
CameraRidesPlanet ==
  pc = "render" /\ activeCamNo = 2 =>
    /\ position[2] = moves - 1
    /\ streak = 2 => viewFrom[2] = moves - 2

\* The lamp, the light that shades the scene and the light that casts the shadow are
\* in one place, and the planets' spotlights on their planets, in every frame.
LightsTogether == pc = "render" => shadowAt = lamp /\ ballAt = lamp /\ spots = moves

=============================================================================
