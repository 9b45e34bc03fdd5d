\* Three signals at any time: what is told, and that both processes end.
SPECIFICATION FairSpec
CONSTANTS
  Order <- Forwarded
  Cancelling = {"SIGINT", "SIGTERM"}
  Fatal = {"SIGPIPE", "SIGKILL", "SIGQUIT"}
  Ignored = {"SIGPIPE"}
  Dumping = {"SIGQUIT"}
  MaxSent = 3
INVARIANTS
  TypeOK
  StatusIsTrue
  NoOrphan
PROPERTIES
  SignalEndsBoth
CHECK_DEADLOCK FALSE
