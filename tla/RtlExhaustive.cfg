CONSTANT Designs <- MCDesigns
SPECIFICATION Spec
INVARIANT SkippedNeverFires
CHECK_DEADLOCK FALSE
