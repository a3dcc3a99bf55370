SPECIFICATION FairSpec
CONSTANTS
  worker = worker
  miner1 = miner1
  miner2 = miner2
  farmer = farmer
  ore = ore
  food = food
  None = None
  Ticks <- TheWorker
  Sellers <- MCSellers
  Shelves <- MCShelves
  ShelfOf <- MCShelfOf
  Keep = 1
  Opening = 0
  Batches <- MCBatches
  MaxMade = 4
  Threshold = 2
  MaxFaults = 2
INVARIANTS
  TypeOK
  EscrowOnlyAccepted
  GoodsConserved
  OutageIsCheap
PROPERTIES
  SurplusIsOffered
