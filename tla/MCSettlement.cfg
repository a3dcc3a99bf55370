SPECIFICATION FairSpec
CONSTANTS
  p1 = p1
  p2 = p2
  old = old
  new = new
  anna = anna
  ghost = ghost
  t1 = t1
  t2 = t2
  Processes <- MCProcesses
  Workers <- OneProcess
  Partitions <- MCPartitions
  PartitionOf <- MCPartitionOf
  Resumed <- MCResumed
  NPCs <- MCNPCs
  Residents <- MCResidents
  Messages <- MCMessages
  Log <- MCLog
  InitialGold = 6
  TickPay = 2
  Piece = 1
  MaxFaults = 2
  MaxReplays = 1
  MaxTicks = 1
  None = None
INVARIANTS
  TypeOK
  NothingForgotten
PROPERTIES
  GoldMovesWithLedger
  EventuallyHandled
CHECK_DEADLOCK FALSE
