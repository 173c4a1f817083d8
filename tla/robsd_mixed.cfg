SPECIFICATION Spec
CONSTANTS
  Last = 7
  Parallel = {2, 3, 4, 6}
  Ignored = {3, 5}
  Skipped = {}
  Reboot = {}
  Ncpu = 2
  MaxRetry = 2
  MaxResume = 1
  Crashes = FALSE
  Killing = TRUE
INVARIANTS SequentialAlone EndComplete InOrder KillBound
PROPERTIES StrictRetried
CHECK_DEADLOCK FALSE
