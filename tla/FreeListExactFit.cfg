SPECIFICATION Spec
CONSTANTS
  TotalSize = 96
  HeaderSize = 8
  Slots = 3
  Uint32 = 64
  SizeT = 64
  MergePolicy = "FAST_MERGE"
  ThreadPolicy = "ENABLE_SPIN_LOCK"
  NDEBUG = FALSE
  Handles = {p1, p2}
  Sizes = {1}
  Alignments = {4, 8}
  MallocResults = {TRUE, FALSE}
SYMMETRY PointerSymmetry
INVARIANTS
  TypeOK
  Partitioned
