---------------------------- MODULE UpdateProofs ----------------------------
(***************************************************************************)
(* The safety properties of update, for every range of the cursor and the  *)
(* mouse and any number of frames.  The invariant says, statement by       *)
(* statement, what the cursor the program remembers has to do with the     *)
(* virtual one (Mouse), and how far camera 2 is behind its planet (Ride).  *)
(***************************************************************************)
EXTENDS Update, TLAPS

\* What the free camera has still to turn by in this update.
Due == IF 1 \in keys THEN slip ELSE moved

Mouse ==
  /\ pc \in {"capture", "disable"} /\ activeCamNo = 0 => 1 \in keys
  /\ pc = "disable" /\ cursorMode = "disabled" => cursor_x = virtual
  /\ pc = "key1" /\ activeCamNo = 0 => cursorMode = "disabled" /\ virtual - cursor_x = moved
  /\ pc \in {"key2", "key3", "light", "camera"} /\ activeCamNo = 0 =>
       cursorMode = "disabled" /\ virtual - cursor_x = Due
  /\ pc \in {"planets", "render"} /\ activeCamNo = 0 =>
       cursorMode = "disabled" /\ virtual = cursor_x /\ turned = Due

Centred == pc \in {"planets", "render"} => skybox = <<activeCamNo, viewFrom[activeCamNo]>>

\* The moves made since camera 2 was last put on its planet.
Since == IF pc = "planets" THEN 0 ELSE 1

Ride ==
  /\ pc \in {"planets", "render"} /\ activeCamNo = 2 => streak > 0
  /\ streak > 0 => position[2] = moves - Since
  /\ streak = 2 => viewFrom[2] = moves - Since - 1

Follow == shadowAt = lamp /\ ballAt = lamp /\ spots = moves

-----------------------------------------------------------------------------

LEMMA TypeInit == Init => TypeOK
  BY MouseAssumption DEF Init, TypeOK, Camera, Statements, Origin, NoView

LEMMA TypeStep == TypeOK /\ [Next]_vars => TypeOK'
<1>. SUFFICES ASSUME TypeOK, [Next]_vars
              PROVE  TypeOK'
  OBVIOUS
<1>. USE MouseAssumption DEF TypeOK, Statements, Camera, mouse, cameras, scene, lights
<1>1. CASE Key1
  BY <1>1 DEF Key1
<1>2. CASE Capture
  BY <1>2 DEF Capture, GetCursorPos
<1>3. CASE Disable
  BY <1>3 DEF Disable, SetCursorMode
<1>4. CASE Key2
  BY <1>4 DEF Key2, SetCursorMode
<1>5. CASE Key3
  BY <1>5 DEF Key3, SetCursorMode
<1>6. CASE MoveLight
  BY <1>6 DEF MoveLight
<1>7. CASE FreeCamera
  BY <1>7 DEF FreeCamera, GetCursorPos
<1>8. CASE TargetCamera1
  BY <1>8 DEF TargetCamera1
<1>9. CASE TargetCamera2
  BY <1>9 DEF TargetCamera2
<1>10. CASE movePlanets
  BY <1>10 DEF movePlanets
<1>11. CASE PollEvents
  BY <1>11 DEF PollEvents
<1>12. CASE MoveCursor
  BY <1>12 DEF MoveCursor
<1>13. CASE UNCHANGED vars
  BY <1>13 DEF vars
<1>. QED
  BY <1>1, <1>2, <1>3, <1>4, <1>5, <1>6, <1>7, <1>8, <1>9, <1>10, <1>11, <1>12, <1>13
  DEF Next, update, cam_free_initialize, Cameras

\* The type invariant holds of every behaviour.
THEOREM TypeCorrect == Spec => []TypeOK
  BY TypeInit, TypeStep, PTL DEF Spec

-----------------------------------------------------------------------------

\* What is added can be taken off again.
LEMMA AddThenSubtract ==
  ASSUME NEW a \in Int, NEW b \in Int
  PROVE  (a + b) - a = b
  OBVIOUS

LEMMA MouseStep == TypeOK /\ Mouse /\ [Next]_vars => Mouse'
<1>. SUFFICES ASSUME TypeOK, Mouse, [Next]_vars
              PROVE  Mouse'
  OBVIOUS
<1>. USE MouseAssumption DEF TypeOK, Camera, Mouse, Due, mouse
<1>1. CASE Key1
  BY <1>1 DEF Key1
<1>2. CASE Capture
  BY <1>2 DEF Capture, GetCursorPos
<1>3. CASE Disable
  BY <1>3 DEF Disable, SetCursorMode
<1>4. CASE Key2
  BY <1>4 DEF Key2, SetCursorMode
<1>5. CASE Key3
  BY <1>5 DEF Key3, SetCursorMode
<1>6. CASE MoveLight
  BY <1>6 DEF MoveLight
<1>7. CASE FreeCamera
  BY <1>7 DEF FreeCamera, GetCursorPos
<1>8. CASE TargetCamera1
  BY <1>8 DEF TargetCamera1
<1>9. CASE TargetCamera2
  BY <1>9 DEF TargetCamera2
<1>10. CASE movePlanets
  BY <1>10 DEF movePlanets
<1>11. CASE PollEvents
  <2>1. pc = "render" /\ pc' = "key1" /\ UNCHANGED <<activeCamNo, cursorMode, cursor_x>>
    BY <1>11 DEF PollEvents
  <2>2. moved' \in Int /\ virtual \in Int /\ virtual' = virtual + moved'
    <3>1. moved' \in Int /\ virtual' = virtual + moved'
      BY <1>11 DEF PollEvents
    <3>. QED
      BY <3>1
  <2>3. activeCamNo = 0 => cursorMode = "disabled" /\ virtual = cursor_x
    BY <2>1
  <2>. HIDE DEF TypeOK, Mouse, Due, mouse, Camera
  <2>4. virtual' - virtual = moved'
    BY <2>2, AddThenSubtract
  <2>5. activeCamNo' = 0 => cursorMode' = "disabled" /\ virtual' - cursor_x' = moved'
    BY <2>1, <2>3, <2>4
  <2>. QED
    BY <2>1, <2>5 DEF Mouse
<1>12. CASE MoveCursor
  BY <1>12 DEF MoveCursor
<1>13. CASE UNCHANGED vars
  BY <1>13 DEF vars
<1>. QED
  BY <1>1, <1>2, <1>3, <1>4, <1>5, <1>6, <1>7, <1>8, <1>9, <1>10, <1>11, <1>12, <1>13
  DEF Next, update, cam_free_initialize, Cameras

Scene == Centred /\ Ride /\ Follow

LEMMA SceneStep == TypeOK /\ Scene /\ [Next]_vars => Scene'
<1>. SUFFICES ASSUME TypeOK, Scene, [Next]_vars
              PROVE  Scene'
  OBVIOUS
<1>. USE DEF TypeOK, Camera, Scene, Centred, Ride, Since, Follow, cameras, scene, lights
<1>1. CASE Key1
  BY <1>1 DEF Key1
<1>2. CASE Capture
  BY <1>2 DEF Capture
<1>3. CASE Disable
  BY <1>3 DEF Disable
<1>4. CASE Key2
  BY <1>4 DEF Key2
<1>5. CASE Key3
  BY <1>5 DEF Key3
<1>6. CASE MoveLight
  BY <1>6 DEF MoveLight
<1>7. CASE FreeCamera
  BY <1>7 DEF FreeCamera
<1>8. CASE TargetCamera1
  BY <1>8 DEF TargetCamera1
<1>9. CASE TargetCamera2
  BY <1>9 DEF TargetCamera2
<1>10. CASE movePlanets
  BY <1>10 DEF movePlanets
<1>11. CASE PollEvents
  BY <1>11 DEF PollEvents
<1>12. CASE MoveCursor
  BY <1>12 DEF MoveCursor
<1>13. CASE UNCHANGED vars
  BY <1>13 DEF vars
<1>. QED
  BY <1>1, <1>2, <1>3, <1>4, <1>5, <1>6, <1>7, <1>8, <1>9, <1>10, <1>11, <1>12, <1>13
  DEF Next, update, cam_free_initialize, Cameras

-----------------------------------------------------------------------------

LEMMA MouseInvariant == Spec => []Mouse
<1>1. Init => Mouse
  BY DEF Init, Mouse, Due
<1>. QED
  BY TypeInit, TypeStep, <1>1, MouseStep, PTL DEF Spec

LEMMA SceneInvariant == Spec => [](TypeOK /\ Scene)
<1>1. Init => Scene
  BY DEF Init, Scene, Centred, Ride, Since, Follow
<1>. QED
  BY TypeInit, TypeStep, <1>1, SceneStep, PTL DEF Spec

\* The free camera turns by what the mouse moved since the last frame, wherever the
\* cursor was left while another camera was on.
THEOREM MouseCorrect == Spec => []TurnsWithTheMouse
<1>1. Mouse => TurnsWithTheMouse
  BY DEF Mouse, Due, TurnsWithTheMouse
<1>. QED
  BY MouseInvariant, <1>1, PTL

\* However the cameras are switched, the free one is drawn from with the cursor disabled.
THEOREM CursorCorrect == Spec => []FreeCameraOwnsCursor
<1>1. Mouse => FreeCameraOwnsCursor
  BY DEF Mouse, FreeCameraOwnsCursor
<1>. QED
  BY MouseInvariant, <1>1, PTL

\* In every frame the skybox is centred on the point that the frame is viewed from.
THEOREM SkyboxCorrect == Spec => []SkyboxCentred
<1>1. TypeOK /\ Scene => SkyboxCentred
  BY DEF TypeOK, Scene, Centred, SkyboxCentred
<1>. QED
  BY SceneInvariant, <1>1, PTL

\* In every frame camera 2 is one move behind its planet, and its view two.
THEOREM RideCorrect == Spec => []CameraRidesPlanet
<1>1. TypeOK /\ Scene => CameraRidesPlanet
  BY DEF TypeOK, Scene, Ride, Since, CameraRidesPlanet
<1>. QED
  BY SceneInvariant, <1>1, PTL

\* In every frame the lights are where their meshes and shadows are.
THEOREM LightsCorrect == Spec => []LightsTogether
<1>1. TypeOK /\ Scene => LightsTogether
  BY DEF Scene, Follow, LightsTogether
<1>. QED
  BY SceneInvariant, <1>1, PTL

=============================================================================
