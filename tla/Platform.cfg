SPECIFICATION PlatformSpec
CONSTANTS
  a = a
  c1 = c1
  c2 = c2
  s1 = s1
  m1 = m1
  m2 = m2
  m3 = m3
  k1 = k1
  k2 = k2
  k3 = k3
  r1 = r1
  r2 = r2
  w1 = w1
  w2 = w2
  h1 = h1
  h2 = h2
  h3 = h3
  h4 = h4
  d1 = d1
  None = None
  NoCustomer = NoCustomer
  NoOne = NoOne
  NoEndpoint = NoEndpoint
  NoTemplate = NoTemplate
  NoOverview = NoOverview
  Focuses <- MCFocuses
  Nodes = {a}
  Clients = {c1, c2}
  Home <- MCHome
  SubOf <- MCSubOf
  Messages = {m1, m2, m3}
  To <- MCTo
  SendBuffer = 1
  HubBuffer = 1
  Readers = {c1}
  MaxFaults = 0
  Slots <- MCSlots
  Limit = 3
  Checkouts = {k1, k2, k3}
  Buyer <- MCBuyer
  Orderly = TRUE
  MaxEvents = 5
  MaxFailures = 1
  Requests = {1, 2, 3, 4}
  RateLimit = 2
  MaxWindow = 1
  Registrations = {r1, r2, k3}
  EmailOf <- MCEmail
  NameOf <- MCName
  LongNames = {"long"}
  Suffixes = {1, 2}
  Keys = {k1}
  MaxErrors = 1
  Endpoints = {1, 2}
  Pushes = {1, 2}
  MaxRows = 2
  MaxTries = 2
  Hooks = {h1, h2, h3, h4}
  HookOwner <- MCHookOwner
  HookEvents <- MCHookEvents
  BadUrls = {h4}
  Dispatches = {d1}
  DispatchOf <- MCDispatchOf
  Names = {1, 2}
  Channels = {"sms"}
  Visits = {1, 2}
  Moments = {0, 100, 400}
  MaxDeliveries = 1
  Servers = {1, 2}
  Migrations = 2
  MaxSignals = 1
  MaxKills = 1
  Calls = {1, 2}
  MaxRetries = 2
  MaxSockets = 4
INVARIANTS OvershootBounded OnlineWhileConnected PlanFollowsSubscription PayersAreKnown AtMostLimit RefusedOnlyWhenFull TokenIsOwn KeysLastUntilRevoked JobsHaveSubscribers FailuresStayLocal NoPlaceholderIsBlank PeriodsNest SchemaMatchesRecord DuplicatesComeFrom5xx OneSocketOrTimer
PROPERTIES ReadersReceive PlanCatchesUp EverybodyServes
CHECK_DEADLOCK FALSE
