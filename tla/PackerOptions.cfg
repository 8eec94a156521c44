\* As Packer.cfg.
SPECIFICATION Spec
CONSTANTS
  Libraries <- MCLibraries
  Netlists <- MCNetlists
  Overrides <- MCOverrides
  Weights <- MCWeights
INVARIANT EveryPackagingOptionIsUsed
CHECK_DEADLOCK FALSE
