\* two requests in flight, against the abstract register
SPECIFICATION Spec
CONSTANTS
  u1 = u1
  u2 = u2
  m1 = m1
  m2 = m2
  a1 = a1
  a2 = a2
  mail1 = mail1
  p1 = p1
  p2 = p2
  t1 = t1
  t2 = t2
  t3 = t3
  c1 = c1
  c2 = c2
  None = None
  UserId = {u1, u2}
  MembershipId = {m1, m2}
  AccountId = {a1}
  Email = {mail1}
  Password = {p1}
  Token = {t1, t2}
  Client = {c1, c2}
INVARIANTS TypeOK Activated
PROPERTIES UsersImplementRegister MembershipsImplementRegister
