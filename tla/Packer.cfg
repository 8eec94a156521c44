\* Three parts tables, netlists of up to four gates of three cells and of six
\* inverters, eight override lists, spares free, cheap and at the default.
SPECIFICATION Spec
CONSTANTS
  Libraries <- MCLibraries
  Netlists <- MCNetlists
  Overrides <- MCOverrides
  Weights <- MCWeights
INVARIANTS
  EveryCellOnce
  FreeCellsAtLeastCost
  OverridesMet
\* A build ends.
CHECK_DEADLOCK FALSE
