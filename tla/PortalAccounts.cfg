SPECIFICATION Spec
CONSTANTS
  u1 = u1
  u2 = u2
  u3 = u3
  Users = {u1, u2, u3}
  MaxUsers = 2
  MaxSessions = 2
  IdleTimeout = 1
  MaxTime = 2
  LogCapacity = 3
  IndexMod = 6
  MaxEvents = 7
SYMMETRY UserSymmetry
INVARIANTS
  TypeOK
  LogHoldsNewest
  VerifiesUntilFull
PROPERTY
  AdminRemains
