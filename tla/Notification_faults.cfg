SPECIFICATION Spec
CONSTANTS
  n1 = n1
  n2 = n2
  push = push
  mail = mail
  fax = fax
  KnownChannels <- Known
  Notifs <- One
  Requested <- TwoChannels
  Limit = 1
  MaxAttempts = 2
  Pool = 2
  StoreFails = TRUE
  Lossy = TRUE
INVARIANTS AcceptedOnce AcceptedMeansQueued
PROPERTY DeliveredIsFinal
CHECK_DEADLOCK FALSE
