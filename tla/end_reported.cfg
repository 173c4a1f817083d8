SPECIFICATION Spec
CONSTANTS
  NoFile = NoFile
  LogLines <- LogLinesUsed
  MaxLines = 4
  Flags <- FlagsUsed
  Histories <- HistoriesUsed
  Names = {"t1", "t2", "pkg-add", "end"}
  Kind <- KindUsed
  Slack = 2
  Modes = {"robsd", "robsd-ports", "robsd-regress", "canvas"}
  Schedule <- ScheduleUsed
  Tests = {"t1", "t2"}
  Quiet = {"t1"}
  StepLogs <- StepLogsUsed
  NLines = 2
  MaxResume = 1
CHECK_DEADLOCK FALSE
INVARIANTS EndReported
