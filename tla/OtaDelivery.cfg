SPECIFICATION FairSpec
CONSTANTS
  SlotSize = 2
  MaxImage = 2
  MaxChunk = 2
  MaxRejects = 2
  Domains = {1}
  Variants = {1}
  Versions = {1, 2}
  Sessions = {s1}
  BackendResults = {TRUE, FALSE}
  BootResults = {TRUE}
  SelfCheckResults = {TRUE}
  s1 = s1
INVARIANTS
  StatsAddUp
PROPERTIES
  ConfirmedImageBoots
  TransferTerminates
