SPECIFICATION Spec
CONSTANTS
  Designs <- MCDesigns
  Cells <- MCCells
  StateCap = 4
  WidthCap = 3
  PairCap = 20
CHECK_DEADLOCK FALSE
INVARIANTS NoStaticHazard
PROPERTY RunsTheFlowTable
