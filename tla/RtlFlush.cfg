CONSTANT Designs <- MCDesigns
SPECIFICATION Spec
INVARIANT BenchAgrees
CHECK_DEADLOCK FALSE
