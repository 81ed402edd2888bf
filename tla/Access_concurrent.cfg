\* two sessions of a user beside a request that changes the user
SPECIFICATION FairAccessSpec
CONSTANTS
  u1 = u1
  m1 = m1
  m2 = m2
  a1 = a1
  a2 = a2
  mail1 = mail1
  p1 = p1
  p2 = p2
  t1 = t1
  t2 = t2
  r1 = r1
  c1 = c1
  l1 = l1
  l2 = l2
  None = None
  UserId = {u1}
  MembershipId = {m1, m2}
  AccountId = {a1, a2}
  Email = {mail1}
  Password = {p1, p2}
  Token = {t1, t2}
  RecoveryToken = {r1}
  Client = {c1}
  Login = {l1, l2}
CONSTRAINT Bounded
INVARIANT TokensAreFounded
PROPERTIES PasswordsAreChosen RevocationEndsAccess
