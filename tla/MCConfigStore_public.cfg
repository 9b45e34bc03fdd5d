\* The public store: two calls of one process, and one of another.
SPECIFICATION Spec
CONSTANTS
  c1 = c1
  c2 = c2
  c3 = c3
  p1 = p1
  p2 = p2
  Calls = {c1, c2, c3}
  Procs = {p1, p2}
  ProcOf <- TwoAndOne
  Interrupts = {}
  IsPublic = TRUE
  Original = Original
  NoFile = NoFile
  NoCall = NoCall
SYMMETRY SameCalls
INVARIANTS
  TypeOK
  ImportsAreWhole
  NoTornRead
  DefaultOnlyIfMissing
  LockShieldsReaders
PROPERTY
  KeepsConfigurations
CHECK_DEADLOCK FALSE
