SPECIFICATION FairSpec
CONSTANTS
  Images = {i1}
  NoImage = NoImage
  NoEntry = NoEntry
  Entry <- MCEntry
  InputCap = 2
  MaxFaults = 0
  AcquireAttempts = 1
  ProbeAttempts = 1
  Timely = FALSE
  AllowInterrupt = TRUE
PROPERTY RunFinishes
