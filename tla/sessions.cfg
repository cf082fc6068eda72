SPECIFICATION FairSpec
CONSTANTS
  c1 = c1
  c2 = c2
  l1 = l1
  none = none
  Client <- Clients
  Login = {l1}
  LoginOf <- SameLogin
  None = none
  Parts = 2
  StorageFails = TRUE
  MaxChanges = 1
INVARIANTS
  TypeOK
  OneSessionPerLogin
  ChangesKept
  EntitiesOfSessions
  LoggedInWhileOpen
PROPERTIES
  HandshakeEnds
CHECK_DEADLOCK FALSE
