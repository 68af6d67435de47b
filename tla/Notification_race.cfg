SPECIFICATION Spec
CONSTANTS
  n1 = n1
  n2 = n2
  push = push
  mail = mail
  fax = fax
  KnownChannels <- Known
  Notifs <- One
  Requested <- TwoChannels
  Limit = 1
  MaxAttempts = 1
  Pool = 2
  StoreFails = FALSE
  Lossy = FALSE
INVARIANT StatusIsAggregate
CHECK_DEADLOCK FALSE
