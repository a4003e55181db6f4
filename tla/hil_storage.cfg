SPECIFICATION Spec
CONSTANTS
  Images = {i1, i2}
  NoImage = NoImage
  NoEntry = NoEntry
  Entry <- MCEntry
  InputCap = 2
  MaxFaults = 1
  AcquireAttempts = 1
  ProbeAttempts = 1
  Timely = FALSE
  AllowInterrupt = FALSE
SYMMETRY ImageSymmetry
INVARIANTS
  PassMeansThisBuildRan
  NoEmmcWrite
