\* Every shape of answer to every operation.
SPECIFICATION Spec
CONSTANTS
  Bodies <- AllBodies
  Codes = {200, 404, 500}
  Tickets = {1, 2}
  Shapes = {}
  NoTicket = none
  NoList = nolist
  NoReply = noreply
  Broken = broken
INVARIANTS
  TicketIsNotInner
  NothingIsEmptyByMistake
  AgreesWithResponse
CHECK_DEADLOCK FALSE
