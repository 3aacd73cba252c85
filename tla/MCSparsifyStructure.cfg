SPECIFICATION SparsifySpec
CONSTANTS
  Widths = {4, 6}
  BlockSizes = {2, 3, 4}
  Structures <- MCStructures
  Units = 4
  Methods = {"sgpt", "wanda"}
CHECK_DEADLOCK FALSE
INVARIANT StructureIsPreserved
