SPECIFICATION FairSpec
CONSTANTS
  NPeople = 3
  Jobs <- MCJobs
  Nowhere = "nowhere"
  Founders <- MCFounders
  ResetCallings <- MCResetCallings
  NewCallings = {"mine"}
  MinPop = 2
  MaxPop = 3
  Appetite = 30
  Warmth = 90
  TaxEvery = 2
  Strays = {3}
  GrowEvery = 2
  MarryEvery = 1
  AgeEvery = 2
  ResetAt = 9
  MaxTick = 2
  MaxIncidents = 1
PROPERTIES
  OutageSkipsTicks
CHECK_DEADLOCK FALSE
