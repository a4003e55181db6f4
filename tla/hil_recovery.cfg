SPECIFICATION Spec
CONSTANTS
  Images = {i1}
  NoImage = NoImage
  NoEntry = NoEntry
  Entry <- MCEntry
  InputCap = 4
  MaxFaults = 2
  AcquireAttempts = 2
  ProbeAttempts = 2
  Timely = TRUE
  AllowInterrupt = FALSE
INVARIANTS
  TypeOK
  VerifiedImageStays
  BoundedRecovery
  RecoveryIsLastResort
  OneFaultIsHealed
PROPERTIES
  BoardLeftPowered
  KeepsContract
