SPECIFICATION Spec
CONSTANTS
  Bilingual = s1
  Plain = s2
  Sessions <- MCSessions
  Creds = {c1}
  Sources = {d1}
  SourceOf <- MCSourceOf
  MaxSecrets = 2
  MaxMessages <- MCMaxMessages
  MaxPools = 2
  Kinds <- MCKinds
INVARIANTS CutOffQueriesStop PoolsAccounted InStep TrailTruthful
