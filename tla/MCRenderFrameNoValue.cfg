SPECIFICATION Spec
CONSTANTS
  Meshes <- GardenMeshes
  Assigned <- GardenTypes
  NormalMapped = {"gate"}
  Builds = {"Release"}
  Landings = {"cubeMap", "tex", "shadowMap", "other"}
INVARIANT NoValueIsTextureOnly
CHECK_DEADLOCK FALSE
