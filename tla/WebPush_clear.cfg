SPECIFICATION PushSpec
CONSTANTS
  NoEndpoint = NoEndpoint
  Endpoints = {1, 2}
  Pushes = {1}
  MaxRows = 1
  MaxTries = 1
PROPERTY OnlyExpiredAreCleared
CHECK_DEADLOCK FALSE
