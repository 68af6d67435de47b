SPECIFICATION FairSpec
CONSTANTS
  n1 = n1
  n2 = n2
  push = push
  mail = mail
  fax = fax
  KnownChannels <- Known
  Notifs <- Two
  Requested <- Mixed
  Limit = 1
  MaxAttempts = 2
  Pool = 1
  StoreFails = FALSE
  Lossy = FALSE
INVARIANTS SettledIsRecorded HooksTellTheRow StatusIsAggregate
PROPERTIES EventuallyFinal ImplementsQuota
CHECK_DEADLOCK FALSE
