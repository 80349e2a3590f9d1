SPECIFICATION Spec
CONSTANTS
  n1 = n1
  n2 = n2
  m1 = m1
  m2 = m2
  NoValue = NoValue
  Nodes = {n1, n2}
  Metrics = {m1}
  Values = {0, 1, 2}
  Thresholds = {1}
  CacheSize = 2
  BatchMax = 1
  MaxRetries = 1
  SeqMod = 4
  LoraMod = 4
  MaxAir = 2
  TrackerMax = 1
  Expiry = 1
  MaxTime = 0
  Valid = {0, 1}
  Radio = "prompt"
INVARIANTS
  TypeOK
  CleanIsReceived
  HubTracksReadings
PROPERTIES
  SequenceInOrder
