SPECIFICATION FairSpec
CONSTANTS
  Threads = {t1, t2}
  Main = t1
  NoThread = NoThread
  PoolsNum = 2
  ChunksNum = 3
  ChunkSize <- TwoPools
  SizeT = 128
  Uint32 = 64
  Policies = {"NONE", "ENABLE_SPIN_LOCK"}
  NDEBUG = TRUE
  Sizes = {1, 9, 17}
  Allocs = 4
  AtEnd <- FirstBehindLast
CHECK_DEADLOCK FALSE
INVARIANTS
  NeverTwice
  TestPasses
PROPERTIES
  ImplementsPools
  TestEndsUnlessLeft
