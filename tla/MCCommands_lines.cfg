\* Every line of at most four tokens, as arguments and in a session.
SPECIFICATION Spec
CONSTANTS
  Lines <- AllLines
  Tokens <- SomeTokens
  Profiles <- Words
  Inline <- InlineB
  StoreFlag <- StoreOne
  Numeric = {"1"}
  Launched = "1"
INVARIANTS
  TypeOK
  GateHolds
  WritesAreAuthorised
  AccountIsChosen
CHECK_DEADLOCK FALSE
