SPECIFICATION ModelFreeSpec
CONSTANTS
  Workers = 2
  Families <- MCFamilies
  NameOrder <- MCNameOrder
  Shards <- MCShards
  Checkpoints <- MCCheckpoints
  Configs <- MCConfigs
  Unquantizable <- MCUnquantizable
CHECK_DEADLOCK FALSE
INVARIANT SplitSetsAreAccepted
