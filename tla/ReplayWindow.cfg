SPECIFICATION Spec
CONSTANTS
  n1 = n1
  n2 = n2
  n3 = n3
  Nodes = {n1, n2, n3}
  MaxNodes = 2
  Window = 3
  MaxDrift = 1
  MaxNonce = 4
  MaxTime = 2
INVARIANTS
  TypeOK
  WindowExact
PROPERTY
  AcceptedAtMostOnce
