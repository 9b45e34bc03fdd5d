\* Two concurrent calls, two tickets and the account's other clients.
SPECIFICATION Spec
CONSTANTS
  Tickets = {t1, t2}
  Calls = {c1, c2}
  NoTicket = NoTicket
  NoList = NoList
  NoReply = NoReply
  Nobody = Nobody
  Interrupts = {}
  Shapes <- FewShapes
  Workload <- WriteWorkload
SYMMETRY MCSymmetry
INVARIANTS
  ConfirmedWasDone
  ListsAreComplete
CHECK_DEADLOCK FALSE
