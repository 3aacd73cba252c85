SPECIFICATION MCSpec
CONSTANTS
  early = early
  over = over
  none = none
  NoIndex = none
  MaxStep = 1
  Modifiers <- MCModifiers
  Recipes <- MCRecipes
  Start <- StartOfRun
  End <- EndOfRun
  h1 = h1
  h2 = h2
  h3 = h3
  m1 = m1
  m2 = m2
  Handles <- MCHandles
  HookOwners <- MCHookOwners
  MaxDepth = 3
  LayerParamOrder <- MCLayerParamOrder
  Elements = {1, 2, 3}
  Values <- MCValues
  MaskRecipes <- MCMaskRecipes
  UseHooks = {TRUE, FALSE}
  SparsityUnits = 5
  MaxTrainStep = 3
  NoMask = NoMask
  None = None
  r1 = r1
  r2 = r2
  Ranks <- MCRanks
  Source = r1
  LayerOrder <- MCLayerOrder
  Plans <- MCPlans
  NumExperts = 6
  Routers <- MCRouters
  Drops = {0, 3}
  Found <- MCFound
  Routes <- MCRoutes
  Reaches <- MCReaches
  Batches = 1
  MaxNorm = 2
  Widths = {4, 6}
  BlockSizes = {2, 3, 4}
  Structures <- MCStructures
  Units = 4
  Methods = {"sgpt", "wanda"}
  ExpertIds = {1, 2}
  Sizes = {1, 2}
  Layouts = {"halves"}
  ScaleShapes = {"scalar", "vector"}
CHECK_DEADLOCK FALSE
INVARIANTS
  FlagsMeanAll
  DisablingIsScoped
  HooksAreOwned
  MasksAreKept
  PruningIsConsistent
  BasePruningIsKept
  SparsityIsReached
  RepackKeepsRows
PROPERTIES
  StepsInsideBatch
  FinalizedIsFinal
  PrunedStaysPruned
  PruningTerminates
