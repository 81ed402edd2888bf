\* two overlapping runs of calculate_accounts_stats beside the requests, one at a time
SPECIFICATION OrderedSpec
CONSTANTS
  ops = ops
  a1 = a1
  a2 = a2
  x1 = x1
  x2 = x2
  e1 = e1
  e2 = e2
  c1 = c1
  c2 = c2
  r1 = r1
  r2 = r2
  None = None
  AccountId = {ops, a1}
  ExternalId = {x1, x2}
  EntitlementId = {e1}
  OwnerOf <- MCOwnerOf
  Client = {c1}
  Run = {r1, r2}
INVARIANTS TypeOK CountersWereTrue
PROPERTIES RunsChangeCountersOnly CountersConverge
