SPECIFICATION Spec
CONSTANTS
  MaxChunksNum = 4
  MinGranted = 2
  Durations = {1, 2}
INVARIANTS
  EveryTestRuns
  EveryTestPasses
  HoldsWhatIsLive
PROPERTIES
  RunEnds
