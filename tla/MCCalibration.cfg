SPECIFICATION MCSpec
CONSTANTS
  Worlds = {1, 2, 3}
  Tables = {"empty", "small", "copy", "large"}
  Tokens <- MCTokens
  Fingerprint <- MCFingerprint
  Requests = {0, 1, 2, 4, 5}
  RoundsDown <- MCRoundsDown
  Identifiers <- MCIdentifiers
  Parameters = {"x"}
  Globals = {"scale"}
  Tests <- MCTests
  Forwards <- MCForwards
  Nodes <- MCNodes
  Graphs <- MCGraphs
  Limits <- MCLimits
  ids = ids
  mask = mask
  hidden = hidden
  skip = skip
  N = 3
  NumBatches = 3
  Names <- MCNames
  DataNames <- MCDataNames
  Partitions <- MCPartitions
  WritesWeights = TRUE
  NumLayers = 3
  TuningBatches = 2
  Modules <- MCModules
  Linear <- MCLinear
  Targeted = {"q", "up", "down"}
  Ignored = {"down"}
  Others = {"attn"}
  Fields <- MCFields
  Plans <- MCPlans
  LayersPerSubgraph = {1, 2}
CHECK_DEADLOCK FALSE
INVARIANTS
  SamplesAreDivided
  WrappingIsInvisible
  PartitionsAreSound
  NoNameIsMissing
  CacheHoldsWhatIsAsked
  ThreadsKeepApart
  TuningStaysApart
PROPERTIES
  CalibrationTerminates
  ImplementsLayerwise
