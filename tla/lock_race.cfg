SPECIFICATION RaceSpec
CONSTANTS
  p1 = p1
  p2 = p2
  p3 = p3
  Invs = {p1, p2, p3}
  MaxDir = 3
  RaceDirs = 2
  Overlap = TRUE
  Careful = TRUE
  Killing = FALSE
  Crashes = FALSE
INVARIANTS QuietExit
PROPERTIES RaceResolves
