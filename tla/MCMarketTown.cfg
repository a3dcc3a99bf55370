SPECIFICATION FairFlowSpec
CONSTANTS
  h1 = h1
  h2 = h2
  p1 = p1
  old = old
  new = new
  anna = anna
  bert = bert
  ore = ore
  wood = wood
  Handlers <- OneHandler
  Processes <- MCProcesses
  Workers <- MCProcesses
  Partitions <- MCPartitions
  PartitionOf <- MCPartitionOf
  Resumed <- MCResumed
  Resources <- OnlyOre
  Buyers <- MCBuyers
  Sellers <- MCSellers
  Prices = {3}
  Quantities = {1, 2}
  MaxRecent = 2
  MaxOrders = 3
  MaxRestarts = 0
  EmitMayFail = FALSE
  Nobody = Nobody
  InitialGold = 10
  TickPay = 2
  Piece = 2
  MaxFaults = 1
  MaxReplays = 1
  MaxTicks = 0
  None = None
INVARIANTS
  GoldMatchesTrades
  NoGoldWithoutTrade
PROPERTIES
  Accounts
  TradesSettle
CHECK_DEADLOCK FALSE
