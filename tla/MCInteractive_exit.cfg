\* A session with an uncertain write that exits with 0: violated.
SPECIFICATION SessionSpec
CONSTANTS
  Tickets = {t1}
  Calls = {c1, c2}
  NoTicket = NoTicket
  NoList = NoList
  NoReply = NoReply
  Nobody = Nobody
  NoRequest = NoRequest
  Interrupts = {}
  Shapes <- FewShapes
  Workload <- NoWork
  Lines <- SomeLines
SYMMETRY SameTickets
INVARIANT
  ExitCodeTellsDoubt
CHECK_DEADLOCK FALSE
