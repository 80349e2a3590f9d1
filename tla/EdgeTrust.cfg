SPECIFICATION Spec
CONSTANTS
  Nodes = {n1, n2}
  Keys = {k1}
  NoKey = NoKey
  Configs = {c1, cUnknown}
  NoConfig = NoConfig
  Known = {c1}
  MaxBoots = 1
  MaxKeys = 2
  TrackerMax = 1
  MaxChallenges = 2
SYMMETRY NodeSymmetry
INVARIANTS
  TrustedWasProven
  SentAfterProof
