SPECIFICATION Spec
CONSTANTS
  Lists = {a, b}
  Nodes = {n1, n2, n3, n4}
  Null = Null
  Stray = Stray
  Addresses <- SomeAddresses
  PaddingAlignments <- SomeAlignments
SYMMETRY NodeSymmetry
INVARIANTS
  Linked
  StrayOnlyIfBuilt
  PaddingAligns
