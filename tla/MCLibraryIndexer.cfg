SPECIFICATION FairSpec
CONSTANTS
  NBuffers = 2
  Log <- MCLog
  Id <- MCId
  MaxBuffer = 2
  MaxFaults = 1
  MaxRestarts = 1
INVARIANTS
  TypeOK
  NothingVanishes
  HeldOnce
  StopLosesOnlyCancelled
  SmallBatches
PROPERTIES
  EventuallyIndexed
CHECK_DEADLOCK FALSE
