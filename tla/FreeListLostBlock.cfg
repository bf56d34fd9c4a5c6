SPECIFICATION Spec
CONSTANTS
  TotalSize = 32
  HeaderSize = 8
  Slots = 3
  Uint32 = 64
  SizeT = 64
  MergePolicy = "FULL_MERGE_IF_NO_SPACE"
  ThreadPolicy = "NONE"
  NDEBUG = TRUE
  Handles = {p1, p2}
  Sizes = {1}
  Alignments = {8}
  MallocResults = {TRUE}
SYMMETRY PointerSymmetry
INVARIANTS
  FullMergeTestPasses
