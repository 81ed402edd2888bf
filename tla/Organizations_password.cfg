\* one request at a time that may fail and be retried
SPECIFICATION Spec
CONSTANTS
  g1 = g1
  g2 = g2
  r1 = r1
  r2 = r2
  n1 = n1
  n2 = n2
  x1 = x1
  x2 = x2
  mail1 = mail1
  c1 = c1
  c2 = c2
  None = None
  OrganizationId = {g1}
  Partial = {}
  Remote = {r1, r2}
  Name = {n1}
  ExternalId = {x1, x2}
  Email = {mail1}
  Client = {c1}
ACTION_CONSTRAINT OnlyAdministrators
INVARIANT AdminsCanSetAPassword
