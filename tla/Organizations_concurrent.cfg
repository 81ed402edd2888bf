\* two requests over a new and a partially created organization
SPECIFICATION Spec
CONSTANTS
  g1 = g1
  g2 = g2
  r1 = r1
  r2 = r2
  n1 = n1
  n2 = n2
  x1 = x1
  x2 = x2
  mail1 = mail1
  c1 = c1
  c2 = c2
  None = None
  OrganizationId = {g1, g2}
  Partial = {g2}
  Remote = {r1, r2}
  Name = {n1, n2}
  ExternalId = {x1, x2}
  Email = {mail1}
  Client = {c1, c2}
CONSTRAINT Apart
SYMMETRY Interchangeable
INVARIANTS TypeOK LinksAreReal NamesWereAccepted DeletedAreSuspended RecordedAreAdmins OneOrganizationPerExternalId
