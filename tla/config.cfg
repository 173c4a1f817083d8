SPECIFICATION Spec
CONSTANTS
  RDomainMin = 1
  RDomainMax = 20
  DepthLimit = 5
  MaxStmts = 4
  MaxInt = 15
  Stmts <- StmtsUsed
  Templates <- TemplatesUsed
  Options <- OptionsUsed
CHECK_DEADLOCK FALSE
INVARIANTS AcceptedAsWritten TestEnvs NoStalePointer ScheduleSound ExpansionCorrect
