\* two requests of the operations account in flight
SPECIFICATION Spec
CONSTANTS
  ops = ops
  a1 = a1
  a2 = a2
  x1 = x1
  x2 = x2
  e1 = e1
  e2 = e2
  c1 = c1
  c2 = c2
  r1 = r1
  r2 = r2
  None = None
  AccountId = {ops, a1, a2}
  ExternalId = {x1, x2}
  EntitlementId = {e1}
  OwnerOf <- MCOwnerOf
  Client = {c1, c2}
  Run = {}
INVARIANT ExternalIdsAreUnique
CHECK_DEADLOCK FALSE
