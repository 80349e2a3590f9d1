SPECIFICATION Spec
CONSTANTS
  SlotSize = 2
  MaxImage = 2
  MaxChunk = 2
  MaxRejects = 1
  Domains = {1}
  Variants = {1}
  Versions = {1, 2}
  Sessions = {s1}
  BackendResults = {TRUE}
  BootResults = {TRUE}
  SelfCheckResults = {TRUE}
  s1 = s1
INVARIANT
  UnconfirmedImageIsPending
