\* The personal store: two calls that share a mutex, cancelled at any step.
SPECIFICATION FairSpec
CONSTANTS
  c1 = c1
  c2 = c2
  c3 = c3
  p1 = p1
  p2 = p2
  Calls = {c1, c2}
  Procs = {p1, p2}
  ProcOf <- Shared
  Interrupts = {c1, c2}
  IsPublic = FALSE
  Original = Original
  NoFile = NoFile
  NoCall = NoCall
INVARIANT
  ImportReportIsTrue
PROPERTIES
  NoTempLeft
  EveryCallEnds
CHECK_DEADLOCK FALSE
