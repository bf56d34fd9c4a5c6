SPECIFICATION FairSpec
CONSTANTS
  Threads = {t1, t2}
  Main = t1
  NoThread = NoThread
  PoolsNum = 2
  ChunksNum = 2
  ChunkSize <- TwoPools
  SizeT = 128
  Uint32 = 64
  Policies = {"ENABLE_SPIN_LOCK"}
  NDEBUG = FALSE
  Sizes = {1, 9}
  Allocs = 2
  AtEnd <- Separate
CHECK_DEADLOCK FALSE
PROPERTIES
  TestEnds
