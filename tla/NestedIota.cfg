SPECIFICATION Spec
CONSTANTS
  nested_max_size = 4
  Outer <- MCOuter
  Inner <- MCInner
  Ranges <- MCRanges
  Boxes <- MCBoxes
INVARIANTS
  TypeOK
  Divided
  Served
CHECK_DEADLOCK FALSE
