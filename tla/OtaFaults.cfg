SPECIFICATION Spec
CONSTANTS
  SlotSize = 3
  MaxImage = 2
  MaxChunk = 2
  MaxRejects = 0
  Domains = {1}
  Variants = {1}
  Versions = {1, 2}
  Sessions = {s1, s2}
  BootResults = {TRUE, FALSE}
  BackendResults = {TRUE, FALSE}
  SelfCheckResults = {TRUE, FALSE}
  s1 = s1
  s2 = s2
SYMMETRY Symmetry
INVARIANTS
  TypeOK
  BootImageComplete
  TransferOwnsSlot
