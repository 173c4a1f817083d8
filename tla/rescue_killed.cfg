SPECIFICATION Spec
CONSTANTS
  p1 = p1
  p2 = p2
  p3 = p3
  Invs = {p1}
  MaxDir = 1
  Overlap = FALSE
  Careful = TRUE
  Killing = TRUE
  Crashes = TRUE
INVARIANTS RescueRecovers
