SPECIFICATION Spec
CONSTANTS
  CellOrder <- MCCellOrder
  Histories <- MCHistories
  Rows <- MCRows
  Supply = 18
  Renumberings <- MCRenumberings
  VectorCap = 16
INVARIANT RedundantHasNoTest
