\* two requests and the job over one entitlement: refinement, action properties, liveness
SPECIFICATION FairSpec
CONSTANTS
  e1 = e1
  e2 = e2
  o1 = o1
  o2 = o2
  d1 = d1
  d2 = d2
  d3 = d3
  x1 = x1
  x2 = x2
  ops = ops
  aff = aff
  c1 = c1
  c2 = c2
  None = None
  Job = Job
  EntitlementId = {e1}
  Organization = {o1, o2}
  Datasource = {d1, d2, d3}
  CloudAccount = {x1, x2}
  Account = {ops, aff}
  Affiliate = {aff}
  Client = {c1, c2}
  Redeemable = {d1, d2}
  OwnerOf <- MCOwnerOf
  AccountOf <- MCAccountOf
  CreatedAt <- MCCreatedAt
INVARIANTS TypeOK RedemptionIsWhole
PROPERTIES ImplementsRegister SettledRedemptionIsFinal EveryRequestEnds
