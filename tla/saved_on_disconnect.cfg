SPECIFICATION FairSpec
CONSTANTS
  c1 = c1
  c2 = c2
  l1 = l1
  none = none
  Client <- Clients
  Login = {l1}
  LoginOf <- SameLogin
  None = none
  Parts = 0
  StorageFails = FALSE
  MaxChanges = 1
PROPERTIES
  SavedOnDisconnect
CHECK_DEADLOCK FALSE
