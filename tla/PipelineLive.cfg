SPECIFICATION FairSpec
CONSTANTS
  n1 = n1
  n2 = n2
  m1 = m1
  m2 = m2
  NoValue = NoValue
  Nodes = {n1}
  Metrics = {m1, m2}
  Values = {0, 1}
  Thresholds = {0}
  CacheSize = 2
  BatchMax = 1
  MaxRetries = 1
  SeqMod = 1
  LoraMod = 3
  MaxAir = 1
  TrackerMax = 1
  Expiry = 1
  MaxTime = 1
  Valid = {0, 1}
  Radio = "prompt"
PROPERTIES
  DirtyIsForwarded
