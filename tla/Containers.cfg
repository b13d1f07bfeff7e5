CONSTANTS
  nested_max_size = 4
  max_tree_size = 2
  array_size = 3
  max_array_size = 4
  Element <- MCElement
  Twist <- MCTwist
  Ranges <- MCRanges
  Operands <- MCOperands
  Boxes <- MCBoxes
  Number <- MCNumber
  MaxSize = 5
  MaxDepth = 3
SPECIFICATION AllSpec
INVARIANTS AllTypeOK AllEnds Shape AllStencils AllLaws
PROPERTIES IsContainer
