\* two requests by systems or a user over two systems
SPECIFICATION FairSpec
CONSTANTS
  s1 = s1
  s2 = s2
  ops = ops
  aff = aff
  admin = admin
  x1 = x1
  x2 = x2
  c1 = c1
  c2 = c2
  None = None
  SystemId = {s1, s2}
  AccountId = {ops, aff}
  Operations = {ops}
  User = {admin}
  AccountOf <- MCAccountOf
  ExternalId = {x1, x2}
  Client = {c1, c2}
INVARIANTS DeletedByAnother OneSystemPerExternalId
PROPERTIES StatusIsChangedByOthers ImplementsRegister DisabledSystemsStopActing
