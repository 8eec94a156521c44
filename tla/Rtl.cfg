CONSTANT Designs <- MCDesigns
SPECIFICATION Spec
INVARIANT BenchAgreesOneHot
PROPERTY RunsTheDesign
CHECK_DEADLOCK FALSE
