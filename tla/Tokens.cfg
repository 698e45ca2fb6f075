SPECIFICATION Spec
CONSTANTS
  None = None
  u1 = u1
  c1 = c1
  c2 = c2
  Users = {u1}
  Clients = {c1, c2}
  UserOf <- MCUserOf
  Handlers = {1, 2}
  Ttl = 2
  MaxClock = 3
  MaxLost = 1
  MaxCrashes = 1
INVARIANTS
  TypeOK
  TokensAreDistinct
  HeldTokenWorks
  ReplacedIsRevoked
PROPERTIES
  RevocationHolds
  DeactivationHolds
SYMMETRY TokenSymmetry
