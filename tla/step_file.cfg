SPECIFICATION Spec
CONSTANTS
  p1 = p1
  p2 = p2
  p3 = p3
  Procs = {p1, p2, p3}
  Ids <- MCIds
  Fields <- MCFields
  Mandatory <- MCMandatory
  Values <- MCValues
  Default <- MCDefault
  Keyvals <- MCKeyvals
  Names <- MCNames
  Indices <- MCIndices
  Faults = TRUE
  Unset = Unset
  NoOp = NoOp
  NoRet = NoRet
  Ok = Ok
  Error = Error
  Free = Free
INVARIANTS SnapshotCurrent
PROPERTIES Implements LockFreed
