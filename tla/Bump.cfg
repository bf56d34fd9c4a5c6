SPECIFICATION BumpSpec
CONSTANTS
  TotalSize = 20
  SizeT = 64
  Start = 40
  Sizes = {1, 3, 8}
  Alignments = {1, 4}
  MaxLive = 20
  MallocResults = {TRUE, FALSE}
INVARIANTS
  Stacked
  GrantCoversRequest
  Aligned
PROPERTIES
  UsedFollowsLive
  ImplementsInterface
