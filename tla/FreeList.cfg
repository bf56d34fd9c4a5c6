SPECIFICATION SpecNoExactFit
CONSTANTS
  TotalSize = 72
  HeaderSize = 8
  Slots = 4
  Uint32 = 80
  SizeT = 1024
  MergePolicy = "FULL_MERGE_IF_NO_SPACE"
  ThreadPolicy = "NONE"
  NDEBUG = FALSE
  Handles = {p1, p2, p3}
  Sizes = {1, 9}
  Alignments = {8}
  MallocResults = {TRUE}
SYMMETRY PointerSymmetry
INVARIANTS
  Partitioned
  HeadersIntact
  OnePassMergesAll
  FullMergeRestoresBuffer
  ArrayNeverFull
  SmallestFitChosen
  SearchLoopAgrees
  GrantCoversRequest
  AssertsHold
PROPERTIES
  ImplementsInterface
