\* Six designs of up to three cells, nine libraries, three numberings.
SPECIFICATION Spec
CONSTANTS
  CellOrder <- MCCellOrder
  Designs <- MCDesigns
  Files <- MCFiles
  Renumberings <- MCRenumberings
  Thresholds <- MCThresholds
  Weight = 5
  Supply = 33
  MaxRows = 3
INVARIANTS
  SimulationIsTruthful
  BoardComputesTheNetlist
  EstimateIsOfTheBoard
PROPERTIES
  SharedDiesAreCited
  RenumberingChangesNothing
