\* A load of one process, an import of another: violated.
SPECIFICATION Spec
CONSTANTS
  c1 = c1
  c2 = c2
  c3 = c3
  p1 = p1
  p2 = p2
  Calls = {c1, c2}
  Procs = {p1, p2}
  ProcOf <- OneEach
  Interrupts = {}
  IsPublic = TRUE
  Original = Original
  NoFile = NoFile
  NoCall = NoCall
INVARIANT
  ReadersSeeOldOrNew
CHECK_DEADLOCK FALSE
