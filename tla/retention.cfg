SPECIFICATION Spec
CONSTANTS
  p1 = p1
  p2 = p2
  op = op
  Invs = {p1, p2}
  Hand = op
  Days = 2
  MaxNum = 2
  Past <- NoBuilds
  Keep = 1
  Crashes = TRUE
  Beside = FALSE
INVARIANTS LiveKept
PROPERTIES KeepsLatest SavedFirst FreshBuild
SYMMETRY Symmetry
