SPECIFICATION Spec
CONSTANTS
  Last = 5
  Parallel = {}
  Ignored = {}
  Skipped = {2}
  Reboot = {3}
  Ncpu = 2
  MaxRetry = 2
  MaxResume = 2
  Crashes = TRUE
  Killing = TRUE
PROPERTIES NoRerun Terminates
CHECK_DEADLOCK FALSE
