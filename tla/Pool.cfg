SPECIFICATION Spec
CONSTANTS
  ChunksNum = 4
  ChunkSize = 8
  SizeT = 64
  ThreadPolicy = "NONE"
  NDEBUG = FALSE
  Handles = {p1, p2, p3, p4, p5}
  Sizes = {1, 8, 9}
  Alignments = {8, 16}
  Foreign <- Outside
  MallocResults = {TRUE, FALSE}
SYMMETRY PointerSymmetry
INVARIANTS
  TypeOK
  ChunksConserved
  UsedIsHeld
PROPERTIES
  ImplementsInterface
