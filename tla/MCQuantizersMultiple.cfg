SPECIFICATION QuantizersSpec
CONSTANTS
  QuantModules <- MCQuantModules
  QuantRecipes <- MultipleModifiers
  Subgraphings <- MCSubgraphings
CHECK_DEADLOCK FALSE
INVARIANT ScalesFitWeights
