SPECIFICATION MCSpec
CONSTANTS
  gptq = gptq
  rtn = rtn
  owl = owl
  none = none
  NoIndex = none
  MaxStep = 0
  Subgraphs = 2
  Modifiers <- MCModifiers
  Recipes <- MCRecipes
  Start <- Always
  End <- Always
  DataMods <- HookModifiers
  HookMods <- HookModifiers
  OwlMods <- JustOwl
  AutoRoundMods <- JustGptq
  UserPipelines <- AllPipelines
  Workers = 2
  Families <- MCFamilies
  NameOrder <- MCNameOrder
  Shards <- MCShards
  Checkpoints <- MCCheckpoints
  Configs <- MCConfigs
  Unquantizable <- MCUnquantizable
  QuantModules <- MCQuantModules
  QuantRecipes <- MCQuantRecipes
  Subgraphings <- MCSubgraphings
  SavingRanks = {0, 1, 2}
  Nestings = {FALSE}
CHECK_DEADLOCK FALSE
INVARIANTS
  NoModifierIsOrphaned
  FinalizedIsApplied
  QuantizersFinish
  TensorsAreKept
  ScalesFollowFusion
  ConfigMeansQuantized
  NobodyLeavesEarly
  SavedConfigDescribesModel
PROPERTIES
  ImplementsModifierProtocol
  SavingTerminates
