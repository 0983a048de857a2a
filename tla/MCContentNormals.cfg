SPECIFICATION Spec
CONSTANTS
  Builds <- MCBuilds
  MaxFaults = 0
  MaxMeshes = 2
  MaxVertices = 1
  MaxObjects = 1
INVARIANT NormalsRead
CHECK_DEADLOCK FALSE
