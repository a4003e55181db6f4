SPECIFICATION FairSpec
CONSTANTS
  Images = {i1, i2}
  NoImage = NoImage
  MaxFaults = 1
INVARIANTS
  TypeOK
  PassMeansThisImageRan
  NoHalfResult
  HealthyBoardIsLeftAlone
  FallbackMeansStuckBridge
PROPERTIES
  KeepsContract
  RunFinishes
