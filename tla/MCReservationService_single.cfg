\* One call, every request and every kind of answer, interrupted or not: its
\* verdicts, the contract, and that it returns.
SPECIFICATION FairSpec
CONSTANTS
  Tickets = {t1, t2}
  Calls = {c1}
  NoTicket = NoTicket
  NoList = NoList
  NoReply = NoReply
  Nobody = Nobody
  Interrupts = {c1}
  Shapes <- AllShapes
  Workload <- FullWorkload
INVARIANTS
  TypeOK
  FailedNeverLands
  AtMostOneEffect
  UncertainIsReconciled
PROPERTIES
  KeepsContract
  EveryCallEnds
CHECK_DEADLOCK FALSE
