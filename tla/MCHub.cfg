SPECIFICATION FairSpec
CONSTANTS
  c1 = c1
  c2 = c2
  u1 = u1
  None = None
  Clients = {c1, c2}
  Users = {u1}
  UserOf <- MCUserOf
  SendCap = 1
  BroadcastCap = 1
  RegisterCap = 2
  MaxEvents <- MCFollow
CHECK_DEADLOCK FALSE
INVARIANTS
  RoomsAreOpen
  NothingSkipped
PROPERTIES
  PumpsEnd
