SPECIFICATION Spec
CONSTANTS
  TicksPerMs = 3
  Advances <- SetBack
CONSTRAINT Bound
INVARIANTS TypeOK TimeAccounted
