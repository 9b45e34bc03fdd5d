\* A session of two commands, signals, and upstream: what is sent, and when.
SPECIFICATION SessionSpec
CONSTANTS
  Tickets = {t1}
  Calls = {c1, c2}
  NoTicket = NoTicket
  NoList = NoList
  NoReply = NoReply
  Nobody = Nobody
  NoRequest = NoRequest
  Interrupts = {}
  Shapes <- FewShapes
  Workload <- NoWork
  Lines <- SomeLines
SYMMETRY SameTickets
INVARIANTS
  SessionTypeOK
  OnlyConfirmedIsSent
  SignalStopsTheSession
CHECK_DEADLOCK FALSE
