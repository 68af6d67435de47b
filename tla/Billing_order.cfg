SPECIFICATION BillingSpec
CONSTANTS
  k1 = k1
  w1 = w1
  NoCustomer = NoCustomer
  Checkouts = {k1}
  Buyer <- MCBuyer
  Orderly = FALSE
  MaxEvents = 3
  MaxFailures = 0
INVARIANT PlanFollowsSubscription
CHECK_DEADLOCK FALSE
