SPECIFICATION FairSpec
CONSTANTS
  Runners = {r1}
  Loaders = {l1}
  NumEntities = 2
  NumLayers = 2
  SingleWriter = TRUE
  None = None
  Torn = Torn
  MaxDb = 2
  MaxCode = 2
  MaxFaults = 2
INVARIANTS
  TypeOK
  LiveMartWhole
  FailClosed
  CacheSound
PROPERTIES
  Refinement
  EveryIngestServed
