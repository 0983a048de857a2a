\* Every shape that the builder and the terrain make.
SPECIFICATION Spec
CONSTANTS
  Shapes <- MCShapes
  Sizes <- MCSizes
INVARIANTS
  TypeOK
  BuffersAgree
  EveryTriangleOnce
  Watertight
  IndicesInRange
  TerrainLocal
