SPECIFICATION SmoothingSpec
CONSTANTS
  World = {1}
  Layers <- MCLayers
  Parents <- MCParents
  Inside <- MCInside
  Matched <- RepeatedParents
  Layouts <- MCLayouts
  Reaches <- AllReached
  Grid = 2
CHECK_DEADLOCK FALSE
INVARIANT ParentsMayRepeat
