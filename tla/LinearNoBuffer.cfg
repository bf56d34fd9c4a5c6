SPECIFICATION Spec
CONSTANTS
  TotalSize = 16
  SizeT = 64
  Start = 40
  Sizes = {1}
  Alignments = {4}
  MaxLive = 4
  MallocResults = {TRUE}
INVARIANTS
  PointersAreReal
