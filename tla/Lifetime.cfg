SPECIFICATION Spec
CONSTANTS
  Objects = {a1, a2, a3}
  Buffers = {b1, b2, b3, b4}
  Null = Null
  MallocResults = {TRUE, FALSE}
SYMMETRY LifetimeSymmetry
INVARIANTS
  FreesOnce
  NullOnlyIfMallocFailed
PROPERTIES
  LeaksByInitOrAssign
