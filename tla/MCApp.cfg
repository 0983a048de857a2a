SPECIFICATION Spec
CONSTANTS
  Functions <- AllFunctions
  Outcomes <- AnyOutcome
INVARIANT TypeOK
INVARIANT ContextWhileRunning
INVARIANT ReleasedAtExit
INVARIANT NoFrameAfterQuit
PROPERTY ImplementsLifecycle
PROPERTY CloseEnds
PROPERTY HeldEscapeEnds
