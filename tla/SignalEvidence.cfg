SPECIFICATION Spec
CONSTANTS
  None = None
  Cells <- MCCells
  BlockSamples <- MCBlockSamples
  Confidences <- MCConfidences
  Drops <- MCDrops
  Layers <- MCLayers
  GapThreshold = 1
INVARIANTS
  CoreIsEarned
  ContractKept
  ArtifactsAgree
CHECK_DEADLOCK FALSE
