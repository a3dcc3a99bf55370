SPECIFICATION FlowSpec
CONSTANTS
  h1 = h1
  h2 = h2
  p1 = p1
  old = old
  new = new
  anna = anna
  bert = bert
  ore = ore
  wood = wood
  Handlers <- OneHandler
  Processes <- MCProcesses
  Workers <- MCProcesses
  Partitions <- MCPartitions
  PartitionOf <- MCPartitionOf
  Resumed <- MCResumed
  Resources <- OreAndWood
  Buyers <- MCBuyers
  Sellers <- MCSellers
  Prices = {3}
  Quantities = {1}
  MaxRecent = 2
  MaxOrders = 4
  MaxRestarts = 0
  EmitMayFail = FALSE
  Nobody = Nobody
  InitialGold = 10
  TickPay = 2
  Piece = 2
  MaxFaults = 1
  MaxReplays = 1
  MaxTicks = 0
  None = None
INVARIANTS
  RowMeansApplied
CHECK_DEADLOCK FALSE
