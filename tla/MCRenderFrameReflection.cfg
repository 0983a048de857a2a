SPECIFICATION Spec
CONSTANTS
  Meshes <- GardenMeshes
  Assigned <- GardenTypes
  NormalMapped = {"gate"}
  Builds = {"Release"}
  Landings = {"cubeMap", "tex", "shadowMap", "other"}
INVARIANT ReflectionsShown
CHECK_DEADLOCK FALSE
