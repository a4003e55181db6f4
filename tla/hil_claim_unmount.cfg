SPECIFICATION Spec
CONSTANTS
  Images = {i1}
  NoImage = NoImage
  NoEntry = NoEntry
  Entry <- MCEntry
  InputCap = 4
  MaxFaults = 1
  AcquireAttempts = 1
  ProbeAttempts = 1
  Timely = TRUE
  AllowInterrupt = FALSE
INVARIANT EmmcUnmountedAfterCheck
