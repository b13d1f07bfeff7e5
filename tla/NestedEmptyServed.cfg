SPECIFICATION Spec
CONSTANTS
  nested_max_size = 4
  Outer <- MCOuter
  Inner <- MCInner
  Ranges <- MCRanges
  Boxes <- MCBoxes

INVARIANT EmptyServed
CHECK_DEADLOCK FALSE
