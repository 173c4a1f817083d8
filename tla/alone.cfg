SPECIFICATION AloneSpec
CONSTANTS
  b1 = b1
  b2 = b2
  b3 = b3
  Blocks = {b1, b2, b3}
  Sizes = {1, 3, 7, 19}
  FrameSize = 12
  Header = 4
  Align = 2
  Poison = 2
  MaxScopes = 2
  MaxFrames = 3
  Outer = FALSE
  MaxWord = 24
  FirstSize = 2
  Vals = {0, 1, 2}
  Garbage = 9
  Stride = 2
  HeadSize = 3
  MaxLen = 5
  Keys = {1, 2, 3, 4, 5}
  Hashes <- HashesUsed
  FirstBuckets = 1
  Threshold = 2
  MaxBuckets = 16
  Newline = n
  Char = x
  NUL = z
  FileMax = 6
  Part = 2
  PutMax = 5
  NoFile = NoFile
  LogLines <- LogLinesUsed
  MaxLines = 4
  Flags <- FlagsUsed
  Histories <- HistoriesUsed
  Names = {"t1", "t2", "pkg-add", "end"}
  Kind <- KindUsed
  Slack = 2
  Modes = {"robsd", "robsd-ports", "robsd-regress", "canvas"}
  Schedule <- ScheduleUsed
  Tests = {"t1", "t2"}
  Quiet = {"t1"}
  StepLogs <- StepLogsUsed
  NLines = 2
  MaxResume = 1
CHECK_DEADLOCK FALSE
INVARIANTS BlocksApart Reclaimed ElementsKept FindsAll BufferSound
INVARIANTS LogsRead WhyShown PageTrue StatusTrue FailuresShown
