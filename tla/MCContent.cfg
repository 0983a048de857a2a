\* load_content, and the saves of the shadow map after it.
SPECIFICATION Spec
CONSTANTS
  Builds <- MCBuilds
  MaxFaults = 1
  MaxMeshes = 2
  MaxVertices = 2
  MaxObjects = 3
INVARIANTS
  TypeOK
  BlameNear
  ObjectsUsable
  LossBounded
  
  PicturesGood
  TargetRestored
PROPERTY
  ImplementsLoading
\* A program that an exception has ended does nothing more.
CHECK_DEADLOCK FALSE
