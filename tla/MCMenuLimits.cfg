SPECIFICATION Spec
CONSTRAINT Bound
INVARIANT EffectsWithinLimits
