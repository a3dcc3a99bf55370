SPECIFICATION FairSpec
CONSTANTS
  Nodes <- MCNodes
  Clients <- MCClients
  Home <- MCHome
  Interests <- MCInterests
  Resumed <- MCResumed
  FirstOwner <- MCFirstOwner
  NPCs <- MCNPCs
  Earlier <- MCEarlier
  Logs <- MCLogs
  BufferMax = 1
  MaxFaults = 1
  MaxRequests = 2
  MaxPublished = 4
  None = None
INVARIANTS
  TypeOK
  FeedInOrder
  ScoresMatch
  CommittedIsHandled
PROPERTIES
  EventuallyServed
CHECK_DEADLOCK FALSE
