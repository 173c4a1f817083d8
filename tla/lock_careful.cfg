SPECIFICATION Spec
CONSTANTS
  p1 = p1
  p2 = p2
  p3 = p3
  Invs = {p1, p2, p3}
  MaxDir = 3
  Overlap = FALSE
  Careful = TRUE
  Killing = TRUE
  Crashes = TRUE
SYMMETRY InvSymmetry
INVARIANTS Mutex OneBuildEach StepsKept
PROPERTIES RemovesOwnLock
