SPECIFICATION QuantizersSpec
CONSTANTS
  QuantModules <- MCQuantModules
  QuantRecipes <- TwoQuantizers
  Subgraphings <- MCSubgraphings
CHECK_DEADLOCK FALSE
INVARIANT MissingImportanceFallsBack
