SPECIFICATION JobSpec
CONSTANTS
  sh = sh
  a = a
  b = b
  Leader = sh
  Others = {a, b}
  Timeout = TRUE
  Killing = TRUE
  NumTasks = 4
  Pids = {1, 2, 3}
  MaxJobs = 2
  MaxStrange = 2
  MaxFail = 1
INVARIANTS TimeoutReported BarrierHeld
PROPERTIES GroupCut KillEnds QueueEnds
CHECK_DEADLOCK FALSE
