SPECIFICATION Spec
CONSTANTS
  Meshes <- GardenMeshes
  Assigned <- GardenTypes
  NormalMapped = {"gate"}
  Builds = {"Debug", "Release"}
  Landings = {"cubeMap", "tex", "shadowMap", "other"}
INVARIANTS TypeOK NoFeedback PassState DepthCleared OwnInputs ReflectionRecovers
PROPERTY FramesComplete
CHECK_DEADLOCK FALSE
