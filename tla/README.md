# A verification of The Garden

The Garden is a scene drawn with OpenGL: a walled garden under a skybox, a gate
that casts a shadow, planets that circle above it, three cameras, and a
post-processing menu. It is written on a small graphics framework (an `app`
class, a `renderer` singleton, classes for effects, textures, geometry, buffers,
cameras and lights) over GLFW, GLEW, DevIL, GLM and assimp.

These TLA+ modules model the program's control: what is called in which order,
what state outlives a call, and what the user and the operating system do
beside it. TLC checks them on small instances; TLAPS proves every safety property
that the passing runs check, but one, for every value of the constants.

## The system

The program is one thread. `main` builds an `app`, sets five functions in it
and calls `run`, which loops: read the clock, look for Escape and the close
flag, `update`, `begin_render`, `render`, `end_render` (swap and poll events).
`key_callback` runs only inside the poll.

| component | its state | its operations | its neighbours |
|---|---|---|---|
| `app`, `renderer` (start, frame, end) | the window, `_running`, GLFW, DevIL | `initialise`, `run`, `begin_render`, `end_render`, `shutdown` | calls the five functions; GLFW's polled state |
| frame time | the two time stamps, `frameTime` | `run`, `update` | hands `delta_time` to `update` |
| menu (`PostProcess`, `key_callback`) | the effects' levels, the active row, `renderMenu` | one per key event | called by GLFW's poll; read by `render` |
| `update` | the active camera, the cursor and its mode, cameras, lights, planets, `seed` | one per statement | polls keys and the cursor; read by `render` |
| `render` | OpenGL's: target, switches, program, units, samplers; `RenderTypes` | the passes: sky, shadow, meshes, post-process, menu | reads all of the above; `renderer::bind`, `render`, `set_render_target` |
| `load_content` | the scene's objects, and what is pending, bound or queued between two of them | once, one constructor after the other; key I's save later | decides what the passes find |
| textures, cubemaps | an OpenGL texture, a DevIL image while it is read | `texture(filename)`, `cubemap(filenames)` | used by `load_content`; DevIL's errors pass from one to the next |
| frame and depth buffers | textures and a frame buffer object | the constructors, `depth_buffer::save` | bind the render target that everything shares |
| effects | a program and its shaders | `add_shader`, `build` | used by `load_content` |
| geometry | a vertex array, buffers, indices | `add_buffer`, `add_index_buffer`, `generate_tb`, model files | filled by the builder, by `load_content`, by assimp |
| geometry builder, terrain | four buffers while a shape is made | one function per shape | hand their buffers to geometry |
| chase and arc-ball camera, ray tests | | | not used by The Garden |

Where this is hard to get right, and hard to test:

- state that outlives the function that set it: OpenGL's, the remembered
  cursor, the render types that a lookup creates;
- order: a copy of a position is made before or after the original moves, a
  key is polled before or after another;
- the world beside the program: the cursor moves between two statements, the
  user presses Escape between two polls, the clock is set back;
- sequences: of key events that reach a row or a level nobody meant, of meshes
  of which an early one needs what a later one sets;
- failure: the steps of the initialisation, functions that return false or
  throw, draw calls that OpenGL refuses, which end a Debug build and are silent
  in a Release build (`util.h`, `CHECK_GL_ERROR`); constructors that fail half
  way, and errors that are asked for long after they were raised;
- loops over stacks and slices whose bounds must meet: one pass too few is a
  hole, one too many draws a triangle twice.

What makes each component correct is listed with its module below; the hazards,
each at its line and with the properties that cover it, are in `PROJECT.json`.

## The modules

`X.tla` models a component, `MCX.tla` and `MCX*.cfg` instantiate it for TLC,
`XProofs.tla` holds its theorems. Definitions named *mutant* in a comment are
plausible bugs: with one in place of the definition it follows, TLC finds a
property violated.

### Menu

One action per key event that changes anything; GLFW delivers events one at a
time, so there is no finer step. The floats are counted in thousandths, which
are exact for the steps the code takes. What floats add is the sign of
filmgrain's rounding error at 0, the one place where a sum of steps meets a
limit that a guard compares it with (`residue`). One or two steps up and down
again are exact, so it stays 0; from the third step on (`ExactSteps`) the way
back ends a little above 0.0f, and once filmgrain has been at its greatest level
a little below. Drift of a level away from its nominal value is otherwise left
out.

Properties: how far a level can get beyond its limits (`OvershootBounded`: never
a whole step, whatever mix of pressed and held keys led there, but for
filmgrain's one); that pressed and held steps of different sizes keep the level
on one grid (`StaysOnGrid`); that one event changes one thing (`OneChangePerEvent`).

### Lifecycle and App

`Lifecycle` is what the framework promises an application: its functions in one
order, every rendered frame presented, all of it while the context is alive,
and the context gone when the program ends in order. `App` has one action per
call that `main` and `app::run` make, each failure of `renderer::initialise` an
action of its own. An application is any set of functions (`Functions`), each
call of which ends with `true`, `false` or an exception (`Outcomes`). An
exception terminates the program where it stands, because nothing catches it:
`pc = "crashed"`. `App` is shown to implement `Lifecycle` by the refinement
mapping `stage` at its end.

The user's finger and clicks (`escapeHeld`, `closeClicked`) are apart from what
GLFW shows the program (`escape`, `shouldClose`): only `end_render` polls.

A window that GLFW could not create is used (renderer.cpp:116) before the test
"Check if window was created" (renderer.cpp:133) that would report it. No
property says so; the model has it: that failure ends in `"crashed"`.

Fairness: `WF_vars(Program)`. The program is one thread that the system keeps
scheduling, and each of its calls returns or throws. Nothing is assumed of the
user. Under it, a click on the close box ends the program, and so does an
Escape key that stays down; one that is released again before the next poll is
not seen, so no property claims that it ends anything.

### FrameClock

The time stamps of `app::run` and the sum in `update`, in ticks of the clock.
The clock is the system's, and advances, stands still or is set back between any
two steps. `TimeAccounted` says that the intervals handed to `update` follow one
another without gap or overlap: the sum differs from the clock by what
truncation loses, less than a millisecond for each interval.

### Update

`update` statement by statement, with the cursor moving between any two. The
cursor is followed along one axis; GLFW's cursor modes are modelled as the
program uses them (a disabled cursor is replaced by a virtual one that starts
where the real one was). Positions are counts of moves: planet2's is the number
of times `movePlanets` has run, which is all the properties compare.

Properties: the free camera turns by what the mouse moved and nothing else
(`TurnsWithTheMouse`), and has the cursor disabled whenever it is drawn from
(`FreeCameraOwnsCursor`); the skybox is centred on the point the frame is viewed
from (`SkyboxCentred`); camera 2 rides on planet2 at a fixed distance in time
(`CameraRidesPlanet`); lamp, light and shadow are in one place
(`LightsTogether`).

The action `Init` starts in the middle of `cam_free_initialize`, which `app::run`
calls once before the loop; what follows is the first update with no key down.

### RenderFrame

OpenGL as a machine whose state outlives a pass and a frame; each pass sets it
up, draws (`render`, which is `renderer::render`), and goes on. Textures are
told apart by what they are for. Two of OpenGL's rules are modelled: a program
two of whose samplers of different types are on one unit draws nothing
(`Conflict`), and `glUniform1i` at another program's location sets whatever the
linker put there (`landing`, chosen once). A `Debug` build throws at an error, a
`Release` build never asks. A texture that was never loaded, a normal map that a
mesh has not or the menu's row 5, has type 0 (texture.h:18): binding it fails an
assertion in a `Debug` build; in a `Release` build `glBindTexture(0, 0)` is
refused, the unit keeps the texture that was bound to it before and the error
stays pending (`BindsDefault`, `RenderMenu`). So `NoFeedback` has to hold for
what such a unit still has: the menu's is the frame, which is not the target then.

Properties: no draw samples the texture it draws into (`NoFeedback`); every draw
finds the target and switches of its pass (`PassState`), a depth buffer cleared
in its own frame (`DepthCleared`), and a picture, a shadow map and a cubemap of
its own (`OwnInputs`); a mesh that is missing from the first frame is there in
all later ones (`ReflectionRecovers`); a Release build finishes frame after
frame (`FramesComplete`, under `WF_vars(Next)`: one thread, calls that return).

### GeometryBuilder

One action per pass of a loop that pushes, and one for a shape that is copied
from a table. A buffer is its length. Of the positions it is kept which points
of the shape a triangle joins, in its winding order; two corners that the code
computes from the same angle, or from angles a full turn apart, are one point.
Box, tetrahedron, pyramid, disk, cylinder, sphere, torus, plane (subdivided or
not) and the terrain of a height map are all there.

Properties: the four buffers, which different loops push, are of one length
(`BuffersAgree`); no triangle is pushed twice (`EveryTriangleOnce`); the
triangles form one surface, each edge once in each direction, with a border only
where the shape is flat (`Watertight`); a terrain indexes positions that exist
(`IndicesInRange`), and neighbouring ones (`TerrainLocal`).

Two things the code does differently from what one expects are named in the
properties. The torus' inner loop runs to `j <= slices`
(geometry_builder.cpp:638), one slice past the last, so the first patch of every
stack is drawn twice: `EveryTriangleOnce` allows exactly these `2 * rows`. A
terrain pushes its points column by column and indexes them row by row
(terrain.cpp:35, 53), which is the same on a square map only: `TerrainLocal` and
`Watertight` speak of square ones, `IndicesInRange` of all.

### OpenGL, Texture, Buffers, Effect, Geometry, Content

`Content` is `load_content`: it makes objects in the program's order, each by
one of four modules of constructors, which share the state of `OpenGL`. A
constructor is followed from one check for errors to the next: what lies between
two checks is one action, whose outcome is that all of it worked or that one
call failed. Whether OpenGL is asked depends on the build. `Checked` is a check
that throws, `Noted` one that only displays ("Non-fatal - just info"); in a
Release build both ask nothing, the error stays pending and the constructor goes
on with what it has. A file that is missing, a shader that does not compile and
a program that does not link are exceptions in both builds. DevIL keeps its
errors until `get_devil_error` asks for all of them, whoever raised them.

A call that needs what is missing (a program without its shader) makes nothing
and does not count as a failure of its own (`Attempt`).

The queries for the status of a shader and of a program can fail as any call
can. The answer is then what an uninitialised variable holds (`Told`). The
shader's is followed by a check that is not fatal; the program's, the last call
of `build` (effect.cpp:250), by none, and an error it raises stays pending for
the next object.

A model's sub-meshes have normals or not and texture coordinates or not, each on
its own: assimp makes normals for triangles, not for points or lines
(GenVertexNormalsProcess.cpp:117-124). What is added depends on how many there
are of each (`Model`). Where sub-meshes disagree (`mixed`) a list is shorter
than the positions: `add_buffer` refuses it, and `generate_tb` reads past the end
of the normals (`Overruns`), which ends the program or fills the tangents with
whatever was read (`GenerateTb`). Three indices are taken of every face; what is
read past those of a point or a line is `Stray` if it is not a vertex's.

`Loading` is the promise: objects are made one after the other and never touched
again, an object that cannot be used is never handed to the frame loop, and
loading comes to an end. It has the code's three exceptions: a Release build,
which never asks; a geometry, because every caller ignores the result of
`add_buffer`; and an effect, whose last query is not checked. `Content`
implements it by the mapping `Promise` at its end.

Properties: what is handed over lacks nothing, unless one of its own calls
failed, but for the attributes that a model's sub-meshes disagree about
(`ObjectsUsable`); in a Debug build each thing that is lacking has a failed call
of its own, so one failure does not take other parts with it (`LossBounded`); a
constructor throws at an OpenGL error of its own or of the effect made just
before it, and of nothing else (`BlameNear`); a picture that was not converted
is reported at the latest by the next picture (`PicturesGood`); the screen is the
target between two objects and between two saves (`TargetRestored`); the buffers
of a geometry and a model's indices agree on the number of vertices, and
`generate_tb` has a normal for each, unless sub-meshes disagree
(`AttributesCover`). That `generate_tb` reads no normal past the last
(`NormalsRead`) is what the code says and does not do. That no DevIL image is left
when a constructor returns (`NothingLost`) is proved only.

Fairness: `WF_vars(Load)`. One thread, whose calls return. Nothing is assumed of
the user, who need not press I.

What came to light without a property:

- An error of an effect's last query is taken for the next object's: add_shader
  then reports "Could not create shader object with OpenGL" (effect.cpp:55) of a
  shader that was created. `BlameNear` says that the error comes from no further.
- The last picture that fails to convert is reported by nobody: there is no next
  load. `PicturesGood` says how far the reporting goes.
- `frame_buffer` makes its depth texture twice (frame_buffer.cpp:9 and 35); the
  first one is never deleted.
- In a Release build without a frame buffer object, `depth_buffer`'s
  `glDrawBuffer(GL_NONE)` is said to the screen.
- `depth_buffer::save` divides `UINT_MAX` by a depth and converts the quotient
  to a `GLuint` (depth_buffer.cpp:120), which does not fit for any depth below 1.

## The runs

| run | instance | states | shows |
|---|---|---|---|
| `menu` | all levels, at most two effects away from their defaults (`MaxMoved`) | 1 022 952 | the menu's properties |
| `menu_limits` | same | | a level passes the limit its comment names |
| `menu_picture` | same | | row 5 can be selected and has no picture |
| `app` | all five functions, all outcomes | 124 | the lifecycle, its refinement, and that the user can end it |
| `clock` | 3 ticks to the millisecond, steps -4 to 5, 4 frames, within 12 ticks | 517 900 | the time's account |
| `update` | 2 places of the cursor, motions -1 to 1, 6 updates, virtual cursor within 2 | 202 126 | the scene's properties |
| `render` | 7 meshes, 2 builds, 4 linkers, all uninitialised types | 57 940 | the frame's properties |
| `render_reflection` | same, Release | | the first frame lacks a reflecting mesh |
| `render_novalue` | same, Release | | a mesh without a type is drawn by any function |
| `shapes` | all shapes, 1 to 5 stacks, slices, rows, columns | 1 839 | the builder's and the terrain's buffers, surfaces and indices |
| `content` | 2 builds, 3 objects, 1 failing call, models of 2 sub-meshes of 1 or 2 vertices | 966 352 | what a failure leaves, what is handed over, and the refinement |
| `content_normals` | 1 object, no failing call, 2 sub-meshes of 1 vertex | | `generate_tb` reads past the last normal |

Why the bounds are enough. *menu*: the code handles each row on its own, so two
effects are enough to see one disturb another, and every single one goes through
all its values. *clock*: a negative interval, a zero one, exact ones and ones
with each remainder all occur, in every order of four. *update*: six updates are
enough to leave camera 2 and come back to it with every combination of keys
between; the virtual cursor only enters as a difference. *render*: the meshes
are one of each way a mesh is drawn, a reflecting one before and one after
lightBall in the map's order and two without a type; nothing new can happen in a
third frame, whose state is that of the second. TLC explores that space without
a bound.

*shapes*: the loops have no case beyond the first, a middle and the last pass,
all of which occur from three on; triangles fold onto each other below three
slices, and those sizes are checked for the lengths only (`Proper`). Rows and
columns differ in most instances. *content*: with three objects one leaves
something behind, one comes between and one finds it; each kind of object is made
in each of the three places that the program's order leaves it, and the call that fails is
any call of any of them. A Debug build throws at a failure, forgets it, or, after
an effect, throws at the next check; a Release build asks for none; so a second
failure of OpenGL's meets little that it would not meet alone, and the theorems
have any number. Two sub-meshes are
one with normals or texture coordinates and one without, in either order, of
sizes that differ.

`render`, `content` and `content_normals` do not check deadlock: an exception ends the program.

The violated properties each state what a comment of the source says; the
findings in `PROJECT.json` quote it:

- `EffectsWithinLimits`: "brightness MIN value" (main.cpp:205), "saturation MIN
  value" (main.cpp:237). The trace takes saturation from 1 to 0.04 and on to
  -0.02 by a held key; brightness passes -1 in the same way. filmgrain is left
  out of the property: its overshoot hangs on rounding.
- `MenuPictureValid`: "Check texture is valid" (renderer.cpp:372). The menu's
  row 5 binds a texture that was never loaded: a Debug build ends there, a
  Release build draws the menu with what the unit had before, the frame.
- `ReflectionsShown`: "2 - reflection" (main.cpp:861). The lamps come before
  lightBall in the map, and only lightBall's pass sets the cubemap's unit.
- `NoValueIsTextureOnly`: "novalue - texture only" (main.cpp:861). The default
  constructor leaves the type uninitialised (rendertype.cpp:3).
- `NormalsRead`: "Iterate through each normal and generate" (geometry.cpp:323).
  The loop runs to the number of vertices, and a model with a sub-mesh of points
  or lines can have fewer normals. No call has to fail for it.

## What is proved

The theorems hold for every value of the constants and need no bound. The only
assumptions are the named ones on the constants in each module (`TLC` evaluates
them on the instances).

- `MenuProofs`: `TypeCorrect`, `OvershootCorrect`, `GridCorrect`,
  `OneChangeCorrect`. The overshoot is inductive together with the types and the
  grid: that a level is a whole number of steps from its default is what bounds
  where it can stand when a guard lets it move once more. So the grid is proved
  first.
- `AppProofs`: `TypeCorrect`, `ContextCorrect`, `ReleaseCorrect`, `QuitCorrect` from an
  invariant that relates the program's position to what is open;
  `LifecycleImplemented`, the refinement, one abstract step or a stutter for
  each action.
- `FrameClockProofs`: `TypeCorrect`, `ClockCorrect`. `TimeAccounted` is inductive with the
  types; the lemma `Truncation` says what dividing by `TicksPerMs` loses, and
  only `Update` moves the account.
- `UpdateProofs`: `TypeCorrect`, `MouseCorrect`, `CursorCorrect`, `SkyboxCorrect`,
  `RideCorrect`, `LightsCorrect`. The properties speak of the moment of rendering and are not inductive; the invariant says for
  each statement what the remembered cursor has to do with the virtual one
  (`Mouse`) and how far camera 2 is behind (`Ride`).
- `RenderFrameProofs`: `TypeCorrect`, `PassCorrect`, `ClearCorrect`,
  `FeedbackCorrect`, `InputsCorrect`, for any list of meshes, any render types
  and any linker. The properties speak of draw calls only; `Prepared` says for
  each pass and place in it what is set up, `Units` what each texture unit can
  hold, `Inputs` what a mesh's samplers are set to. `Units` is needed because a
  texture stays bound when its pass has ended, or when a default texture is to
  be bound in its place.

  `ReflectionCorrect` has one hypothesis of its own, `LampReflects`: the mesh
  lightBall exists and has type 2. load_content makes it (main.cpp:559) and says
  so (main.cpp:865); without it the sampler of the reflecting effect would never
  be set. The invariant `Recovering` says that the sampler, once set, stays set;
  that until then the first frame has not come past the lamp (`LampSet`); and
  that from the second frame on every mesh passed was drawn (`Complete`), since
  only the fresnel effect can then be in conflict (`NoConflict`).
- `GeometryBuilderProofs`: `TypeCorrect`, `BuffersCorrect`, `IndicesCorrect`,
  for every shape and any sizes. `Lengths` says at each stage what has been
  pushed, `Places` which shape goes through which loops; the one fact about
  products is `IndexBound`: a point within the sides of the height map has an
  index below their product.

  `TerrainCorrect` needs its converse, `QuotientRemainder`: on a square map the
  index of a corner gives its column and row back.

  `OnceCorrect` counts a set that grows. Its invariant `Once` says which patches
  the triangles pushed so far belong to (`Passed`, `Caps`) and how many they are
  (`Tally`). A patch that the loops have not passed is none of those, because
  each of its two triangles tells its patch (`Distinct`): by a corner of its own,
  or at a sphere's poles by the one that is not the pole, and on a ring because
  two places less than a turn apart differ (`RimPlaces`). Where the torus goes
  one slice too far its patch is the first of the stack (`TorusCloses`), which
  `FirstOfStack` keeps.

  `WatertightCorrect` is about triangles that different turns of different loops
  push, so a bound or a count of them is not enough: its invariant `Traced` says
  of every triple whether it has been pushed yet (`Pushed`), which of a built
  shape leaves the set of its triangles (`BuiltMesh`). The statement then has two
  halves. That no directed edge is in two triangles (`Single`) follows from the
  corners (`PatchesRound`): two neighbours on a ring or a line tell which is the
  first, and no two follow each other both ways round (`Apart`), which is why a
  ring needs three slices (`Turns`); three edges to a triangle then is a count
  (`Thrice`). That the edges without another side are `Border` many needs for
  each edge the triangle that holds its reverse: the other half of its patch, the
  next patch of the row or stack, the triangles at a pole, the fan of a cap, the
  patch where a ring closes. The sides of a flat shape are four intervals,
  counted one by one (`FlatEdges`).
- `ContentProofs`: `BlameCorrect`, `TargetCorrect`, `PicturesCorrect`,
  `NothingCorrect`, for any number of objects and failures. `BlameCorrect` is
  about `BlameNear`: `Asked` says that a Debug build gets to each of its places
  with no error pending, but for that of an effect just made, which the first
  call of the next object finds (`Waiting`, `Near`); `Screen` that a
  frame buffer is bound at five places only, `One` at which places there is a
  picture. Most steps are instances of four lemmas, one for each kind of check.
- `LoadingProofs`: `TypeCorrect`, `ObjectsCorrect`, `AttributesCorrect` and
  `LoadingSafe`, for any number of objects, failures, sub-meshes and vertices.
  None of them is inductive: that an object is usable when it is handed over
  follows from what its constructor did at each of its steps. The invariant `All`
  says, for each kind of object and each place in its constructor, which parts
  are there if nothing has failed (`Dues`), which buffers a geometry has, how
  long they are and what is still to be added (`Buffered`), and of each object
  handed over that it is usable or one of the code's exceptions (`Handed`).
  `Sound` is what most of it hangs on: no call of the object has failed, or the
  build is a Debug one, whose next check throws. A step of a constructor then
  adds the part it makes or ends the soundness.

  Where sub-meshes disagree about an attribute the lists are not equally long,
  and the invariant says less of it: `Excused` names what is excepted, and the
  theorems except nothing else. `ModelLists` says which attributes `Model` adds
  for which lists, `AnswersDue` that the answer to a status query is right
  unless it failed.

  `LoadingSafe` is the refinement without its liveness: the initial states are
  `Loading`'s, and every step is one of its steps or leaves what it sees alone.

Only model-checked are `LossBounded`, which counts over all that the objects lack,
and liveness (`CloseEnds`, `HeldEscapeEnds`, `FramesComplete`, and that loading
ends, the fairness part of `ImplementsLoading`), which is beyond the prover.

## What is not modelled

- Matrices, lighting, shaders' colours, the placing of the meshes, coordinates
  and normals of shapes, heights and weights of a terrain, bounding boxes: float
  arithmetic and data that no property is about.
- The value of an index that is read past a face's end (geometry.cpp:95): only
  that it may be no vertex's. That such a read, or a draw with the index, may
  itself end the program is left out.
- The log on the console; what a saved shadow map shows.
- Textures from lists of mip levels or of colours, and `cubemap::set_texture`:
  The Garden calls none of them. (In the first, the non-fatal check at
  texture.cpp:153 takes away the error that the fatal one at 159 is for; in the
  second, an error of `glGenerateMipmap` stays pending.)
- Whether a frame buffer is complete: a property of the driver that follows from
  formats the code fixes.
- Terrain's constructor as a step of loading, chase and arc-ball camera, ray
  tests: not used by The Garden.
- GLFW, GLEW, DevIL, GLM, assimp: third-party; modelled as the program uses them
  (marked external in the map).

## The plan

1. *Done*: `Menu`, `Lifecycle` and `App`, `FrameClock`, `Update`, `RenderFrame`,
   with their runs and proofs.
2. *Done*: `GeometryBuilder`; `OpenGL`, `Texture`, `Buffers`, `Effect`,
   `Geometry`, composed by `Content`, and `Loading`, which it implements; the
   first proofs about both.
3. *Done*: the theorems about `Content` and its refinement of `Loading`,
   `ReflectionRecovers`, and all of `GeometryBuilder` but `Watertight`.
4. *Done*: `Watertight` for any sizes: the edges between a patch and the patches
   around it, then those at poles, caps and where rings close.
5. `Garden`: the composition of `App`'s loop with `Menu`, `Update` and
   `RenderFrame` through GLFW's polled and called-back input: what a frame shows
   is what the events before it made.
6. The chase camera's spring, last: The Garden does not use it.
