SPECIFICATION VramSpec
CONSTANTS
  Cells <- MCCells
  Rects <- MCRects
  ResourceKinds = {"texture"}
  Words = {"a", "b", "f"}
  Genuine = {"a", "b"}
  ClearWord = "a"
  Capacity = 2
  SeqLimit = 3
  OwedLimit = 1
INVARIANTS
  CountIsExact
CHECK_DEADLOCK FALSE
