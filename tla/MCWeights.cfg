SPECIFICATION MCSpec
CONSTANTS
  q = q
  k = k
  v = v
  o = o
  r1 = r1
  r2 = r2
  None = None
  Ranks <- MCRanks
  Modules <- MCModules
  FusedGroups <- MCFusedGroups
  Schedules <- MCSchedules
  Coverages <- MCCoverages
  Homes <- MCHomes
  World <- MCRanks
  Layers <- SmoothLayers
  Parents <- SmoothParents
  Inside <- InsideParents
  Matched <- SmoothMatched
  Layouts <- SmoothLayouts
  Reaches <- SmoothReaches
  Grid = 2
  Widths = {1, 4, 5}
  BlockSizes = {1, 2, 4}
  GroupSizes = {2, 3}
  FusedWidths = {1, 2, 4}
  Archs = {"llama", "cohere2moe"}
  Recipes <- MCRecipes
CHECK_DEADLOCK FALSE
INVARIANTS
  RanksStayTogether
  ScalesAreConsistent
  DataIsUsedUp
  SmoothingIsInvisible
  EverythingCountsOnce
  ColumnsKeepTheirGroup
  ErrorsReachOnce
  RotationsCancel
PROPERTY RanksTerminate
