SPECIFICATION Spec
CONSTRAINT Bound
INVARIANT TypeOK
INVARIANT OvershootBounded
INVARIANT StaysOnGrid
PROPERTY OneChangePerEvent
