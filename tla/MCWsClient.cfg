SPECIFICATION FairSpec
CONSTANTS
  a = a
  b = b
  None = None
  Sockets = {a, b}
  MaxBackoff = 5
  SendsToken = FALSE
  MaxAwaiting = 2
CHECK_DEADLOCK FALSE
INVARIANTS
  OneConnection
  StateIsTrue
  NeverStranded
PROPERTIES
  Reconnects
