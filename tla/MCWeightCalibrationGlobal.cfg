SPECIFICATION WeightSpec
CONSTANTS
  q = q
  k = k
  v = v
  o = o
  r1 = r1
  r2 = r2
  None = None
  Ranks <- MCRanks
  Modules <- MCModules
  FusedGroups <- MCFusedGroups
  Schedules <- MCSchedules
  Coverages <- MCCoverages
  Homes <- MCHomes
CHECK_DEADLOCK FALSE
INVARIANT RanksShareGlobalScale
